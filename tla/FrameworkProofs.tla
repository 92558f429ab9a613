-------------------------- MODULE FrameworkProofs --------------------------
(***************************************************************************)
(* The channel, for any number of senders, receivers and sends: its types, *)
(* its wakeups, and that it implements the abstract queue.  Its invariant  *)
(* is inductive as it stands: a receiver only parks on an empty and open   *)
(* channel, and every value brings a notification.                         *)
(*                                                                         *)
(* The reactor with its pool, for any entries, tasks, workers and number   *)
(* of restarts: an entry of the timer never posts to a pool that is        *)
(* stopped, unless the reactor was run again after a stop; tasks start in  *)
(* the order in which they were posted; and entries run in the order of    *)
(* their deadlines, none lost and only late ones left out.                 *)
(***************************************************************************)
EXTENDS CopyChannel, ReactorPools, FiniteSetTheorems, TLAPS

-----------------------------------------------------------------------------
(* The channel.                                                            *)

IInv == ChannelTypeOK /\ WakeupsSuffice /\ ClosedWakesAll

(* Two sequences with the same elements.                                   *)
LEMMA SameItems ==
  ASSUME NEW S, NEW s \in Seq(S), NEW t \in Seq(S), Len(s) = Len(t),
         \A k \in 1 .. Len(s) : s[k] = t[k]
  PROVE  s = t
  OBVIOUS

(* The first element of a sequence as a sequence of one.                   *)
LEMMA FirstOfSeq ==
  ASSUME NEW S, NEW s \in Seq(S), s # <<>>
  PROVE  SubSeq(s, 1, 1) = <<Head(s)>>
<1> DEFINE one == SubSeq(s, 1, 1)
           head == <<Head(s)>>
<1>1. one \in Seq(S) /\ Len(one) = 1 /\ one[1] = s[1]  OBVIOUS
<1>2. Head(s) = s[1] /\ Head(s) \in S  OBVIOUS
<1>3. head \in Seq(S) /\ Len(head) = 1 /\ head[1] = Head(s)  BY <1>2
<1> HIDE DEF one, head
<1>4. \A i \in 1 .. Len(one) : one[i] = head[i]  BY <1>1, <1>2, <1>3
<1>5. one = head  BY <1>1, <1>3, <1>4, SameItems
<1> QED  BY <1>5 DEF one, head

(* The receivers that are awake are finitely many: Cardinality is a number. *)
LEMMA AwakeFinite ==
  ASSUME ChannelTypeOK
  PROVE  IsFiniteSet(Awake) /\ Cardinality(Awake) \in Nat
<1>1. Awake \subseteq Receivers  BY DEF Awake
<1> QED  BY <1>1, ChannelAssumption, FS_Subset, FS_CardinalityType

(* A sender's value, push and notification keep the count of wakeups.      *)
LEMMA SendersKeepInv ==
  ASSUME IInv, NEW s \in Senders, Send(s) \/ SendRefused(s)
  PROVE  IInv'
<1> USE ChannelAssumption DEF IInv
<1>1. ChannelTypeOK'
  <2>1. sent' \in [Senders -> 0 .. MaxSends]
    BY SMT, SMTT(60) DEF ChannelTypeOK, Send, SendRefused
  <2>2. buffer' \in Seq(Values) /\ notifies' \in Nat
    <3>1. CASE Send(s)
      <4>1. <<s, sent[s] + 1>> \in Values  BY <3>1 DEF Send, ChannelTypeOK, Values
      <4> QED  BY <3>1, <4>1 DEF Send, ChannelTypeOK
    <3>2. CASE SendRefused(s)
      BY <3>2 DEF SendRefused, ChannelTypeOK, channel
    <3> QED  BY <3>1, <3>2
  <2>3. UNCHANGED <<closed, closing, call, parked, expired, taken>>
    BY DEF Send, SendRefused, channel, receivers
  <2> QED  BY <2>1, <2>2, <2>3 DEF ChannelTypeOK
<1>2. ClosedWakesAll'
  BY ZenonT(60) DEF ClosedWakesAll, Send, SendRefused, channel, receivers
<1>3. WakeupsSuffice'
  <2>1. Awake' = Awake  BY DEF Awake, Send, SendRefused, receivers
  <2>2. CASE Send(s)
    <3>1. Len(buffer') = Len(buffer) + 1  BY <2>2, <1>1 DEF Send, ChannelTypeOK
    <3> QED
      BY SMT, SMTT(60), <2>1, <2>2, <3>1, AwakeFinite DEF Send, WakeupsSuffice, ChannelTypeOK, receivers
  <2>3. CASE SendRefused(s)
    BY <2>1, <2>3 DEF SendRefused, WakeupsSuffice, channel, receivers
  <2> QED  BY <2>2, <2>3
<1> QED  BY <1>1, <1>2, <1>3

(* notify_one turns a pending notification into an awake receiver; close   *)
(* and notify_all leave nobody asleep on a closed channel.                 *)
LEMMA NotifiesKeepInv ==
  ASSUME IInv, NotifyOne \/ Close \/ NotifyAll
  PROVE  IInv'
<1> USE ChannelAssumption DEF IInv
<1>1. ChannelTypeOK'
  <2>1. notifies' \in Nat  BY DEF ChannelTypeOK, NotifyOne, Close, NotifyAll
  <2>2. closed' \in BOOLEAN /\ closing' \in BOOLEAN
    BY ZenonT(60) DEF ChannelTypeOK, NotifyOne, Close, NotifyAll
  <2>3. parked' \subseteq parked
    BY DEF NotifyOne, Close, NotifyAll, receivers
  <2>4. UNCHANGED <<buffer, sent, call, expired, taken>>
    BY DEF NotifyOne, Close, NotifyAll, receivers
  <2> QED  BY <2>1, <2>2, <2>3, <2>4 DEF ChannelTypeOK
<1>2. ClosedWakesAll'
  BY ZenonT(60) DEF ClosedWakesAll, NotifyOne, Close, NotifyAll, receivers
<1>3. WakeupsSuffice'
  <2>1. CASE NotifyOne
    <3>1. CASE parked = {} /\ UNCHANGED parked
      BY <3>1 DEF WakeupsSuffice
    <3>2. ASSUME NEW r \in parked, parked' = parked \ {r}
          PROVE  WakeupsSuffice'
      <4>1. Awake' = Awake \cup {r} /\ r \notin Awake
        BY <2>1, <3>2 DEF Awake, NotifyOne, ChannelTypeOK
      <4>2. Cardinality(Awake') = Cardinality(Awake) + 1
        BY ZenonT(60), <4>1, AwakeFinite, FS_AddElement
      <4> QED
        BY SMT, SMTT(60), <2>1, <3>2, <4>2, AwakeFinite DEF NotifyOne, WakeupsSuffice, ChannelTypeOK
    <3> QED  BY <2>1, <3>1, <3>2 DEF NotifyOne
  <2>2. CASE Close
    BY <2>2 DEF Close, WakeupsSuffice, Awake, receivers
  <2>3. CASE NotifyAll
    BY <2>3 DEF NotifyAll, WakeupsSuffice
  <2> QED  BY <2>1, <2>2, <2>3
<1> QED  BY <1>1, <1>2, <1>3

(* A receiver that leaves, with a value or without, leaves enough wakeups  *)
(* behind: it takes one value and one awake receiver away.                 *)
LEMMA ReturnsKeepInv ==
  ASSUME IInv, NEW r \in Receivers, RecvTakes(r) \/ RecvNothing(r)
  PROVE  IInv'
<1> USE ChannelAssumption DEF IInv
<1>1. ChannelTypeOK'
  <2>1. call' \in [Receivers -> {"none", "recv", "recv_for"}]
    BY DEF ChannelTypeOK, RecvTakes, RecvNothing, Returns
  <2>2. buffer' \in Seq(Values) /\ taken' \in Seq(Values)
    <3>1. CASE RecvTakes(r)
      <4>1. Head(buffer) \in Values /\ Tail(buffer) \in Seq(Values)
        BY <3>1 DEF ChannelTypeOK, RecvTakes
      <4> QED  BY <3>1, <4>1 DEF ChannelTypeOK, RecvTakes
    <3>2. CASE RecvNothing(r)
      BY <3>2 DEF ChannelTypeOK, RecvNothing
    <3> QED  BY <3>1, <3>2
  <2>3. /\ parked' \subseteq {x \in Receivers : call'[x] # "none"}
        /\ expired' \subseteq {x \in Receivers : call'[x] = "recv_for"} \ parked'
    BY DEF ChannelTypeOK, RecvTakes, RecvNothing, Returns, Awake
  <2> QED
    BY <2>1, <2>2, <2>3 DEF ChannelTypeOK, RecvTakes, RecvNothing, Returns
<1>2. ClosedWakesAll'
  BY ZenonT(60) DEF ClosedWakesAll, RecvTakes, RecvNothing, Returns
<1>3. WakeupsSuffice'
  <2>1. Awake' = Awake \ {r} /\ r \in Awake
    BY DEF Awake, RecvTakes, RecvNothing, Returns, ChannelTypeOK
  <2>2. Cardinality(Awake') = Cardinality(Awake) - 1
    BY ZenonT(60), <2>1, AwakeFinite, FS_RemoveElement
  <2>3. CASE RecvTakes(r)
    <3>1. Len(buffer') = Len(buffer) - 1 /\ Len(buffer) \in Nat
      BY <2>3 DEF RecvTakes, ChannelTypeOK
    <3> QED
      BY <2>2, <2>3, <3>1, AwakeFinite DEF RecvTakes, Returns, WakeupsSuffice, ChannelTypeOK
  <2>4. CASE RecvNothing(r)
    <3>1. Len(buffer') = 0  BY <2>4 DEF RecvNothing
    <3>2. Cardinality(Awake') \in Nat  BY <1>1, ChannelAssumption, FS_Subset,
       FS_CardinalityType DEF Awake
    <3> QED
      BY <3>1, <3>2, <1>1 DEF WakeupsSuffice, ChannelTypeOK
  <2> QED  BY <2>3, <2>4
<1> QED  BY <1>1, <1>2, <1>3

(* The other steps of a receiver: it enters a call, parks on an empty      *)
(* channel, wakes up, or swaps the whole buffer out.                       *)
LEMMA ReceiversKeepInv ==
  ASSUME IInv, NEW r \in Receivers,
         RecvCalled(r) \/ RecvParks(r) \/ TimesOut(r) \/ SpuriousWakeup(r) \/ SwapOutAll(r)
  PROVE  IInv'
<1> USE ChannelAssumption DEF IInv
<1>1. ChannelTypeOK'
  <2>1. CASE RecvCalled(r)
    BY <2>1 DEF ChannelTypeOK, RecvCalled, channel
  <2>2. CASE RecvParks(r)
    BY <2>2 DEF ChannelTypeOK, RecvParks, channel, Awake
  <2>3. CASE TimesOut(r)
    BY <2>3 DEF ChannelTypeOK, TimesOut, channel
  <2>4. CASE SpuriousWakeup(r)
    BY <2>4 DEF ChannelTypeOK, SpuriousWakeup, channel
  <2>5. CASE SwapOutAll(r)
    BY <2>5 DEF ChannelTypeOK, SwapOutAll, receivers
  <2> QED  BY <2>1, <2>2, <2>3, <2>4, <2>5
<1>2. ClosedWakesAll'
  BY ZenonT(60) DEF ClosedWakesAll, RecvCalled, RecvParks, TimesOut, SpuriousWakeup, SwapOutAll,
         channel, receivers
<1>3. Cardinality(Awake') \in Nat /\ IsFiniteSet(Awake')
  BY ChannelAssumption, FS_Subset, FS_CardinalityType DEF Awake
<1>4. WakeupsSuffice'
  <2>1. CASE RecvParks(r) \/ SwapOutAll(r)
    <3>1. Len(buffer') = 0  BY <2>1 DEF RecvParks, SwapOutAll, channel
    <3> QED  BY <3>1, <1>1, <1>3 DEF WakeupsSuffice, ChannelTypeOK
  <2>2. CASE RecvCalled(r) \/ TimesOut(r) \/ SpuriousWakeup(r)
    <3>1. Awake \subseteq Awake'
      BY <2>2 DEF RecvCalled, TimesOut, SpuriousWakeup, Awake, ChannelTypeOK
    <3>2. Cardinality(Awake) <= Cardinality(Awake')
      BY <3>1, <1>3, FS_Subset
    <3>3. parked' \subseteq parked /\ buffer' = buffer /\ notifies' = notifies
      BY <2>2 DEF RecvCalled, TimesOut, SpuriousWakeup, channel
    <3> QED
      BY <3>2, <3>3, <1>3, AwakeFinite DEF WakeupsSuffice, ChannelTypeOK
  <2> QED  BY <2>1, <2>2
<1> QED  BY <1>1, <1>2, <1>4

(* The three invariants together are inductive.                            *)
LEMMA ChannelInvariant == ChannelSpec => []IInv
<1>1. ChannelInit => IInv
  <2> SUFFICES ASSUME ChannelInit PROVE IInv  OBVIOUS
  <2>1. ChannelTypeOK
    <3>1. sent \in [Senders -> 0 .. MaxSends]  BY ChannelAssumption DEF ChannelInit
    <3>2. call \in [Receivers -> {"none", "recv", "recv_for"}]  BY DEF ChannelInit
    <3>3. buffer \in Seq(Values) /\ taken \in Seq(Values)
      BY DEF ChannelInit
    <3>4. closed \in BOOLEAN /\ closing \in BOOLEAN /\ notifies \in Nat  BY ZenonT(60) DEF ChannelInit
    <3>5. parked = {} /\ expired = {}  BY DEF ChannelInit
    <3> QED  BY <3>1, <3>2, <3>3, <3>4, <3>5 DEF ChannelTypeOK
  <2>2. WakeupsSuffice /\ ClosedWakesAll  BY DEF ChannelInit, WakeupsSuffice, ClosedWakesAll
  <2> QED  BY <2>1, <2>2 DEF IInv
<1>2. IInv /\ [ChannelNext]_channel_vars => IInv'
  <2>1. ASSUME IInv, ChannelNext PROVE IInv'
    BY <2>1, SendersKeepInv, NotifiesKeepInv, ReturnsKeepInv, ReceiversKeepInv DEF ChannelNext, Proceeds
  <2>2. ASSUME IInv, UNCHANGED channel_vars PROVE IInv'
    BY <2>2 DEF channel_vars, channel, receivers, IInv, ChannelTypeOK, WakeupsSuffice, ClosedWakesAll, Awake
  <2> QED  BY <2>1, <2>2
<1> QED  BY <1>1, <1>2, PTL DEF ChannelSpec

(* Types of the channel, whatever the order of pushes, notifications,      *)
(* timeouts and wakeups.                                                   *)
THEOREM ChannelTypes == ChannelSpec => []ChannelTypeOK
<1>1. IInv => ChannelTypeOK  BY DEF IInv
<1> QED  BY <1>1, ChannelInvariant, PTL

(* send's notify_one after the unlock is enough: no value waits while all  *)
(* receivers sleep.                                                        *)
THEOREM ChannelWakeups == ChannelSpec => []WakeupsSuffice
<1>1. IInv => WakeupsSuffice  BY DEF IInv
<1> QED  BY <1>1, ChannelInvariant, PTL

(* close leaves no receiver asleep.                                        *)
THEOREM ChannelCloseWakes == ChannelSpec => []ClosedWakesAll
<1>1. IInv => ClosedWakesAll  BY DEF IInv
<1> QED  BY <1>1, ChannelInvariant, PTL

(* The channel with its threads implements the abstract queue: every value *)
(* comes out once and in order, and none goes in after close.              *)
THEOREM ChannelIsQueue == ChannelSpec => ImplementsQueue
<1>1. ChannelInit => Queue!QInit
  BY DEF ChannelInit, Queue!QInit
<1>2. ChannelTypeOK /\ [ChannelNext]_channel_vars => [Queue!QNext]_(Queue!qVars)
  <2> SUFFICES ASSUME ChannelTypeOK, [ChannelNext]_channel_vars
               PROVE  Queue!QNext \/ UNCHANGED <<buffer, closed, taken>>
    BY DEF Queue!qVars
  <2>1. ASSUME NEW s \in Senders, Send(s) PROVE Queue!QNext
    <3>1. <<s, sent[s] + 1>> \in Values
      BY <2>1, ChannelAssumption DEF Send, ChannelTypeOK, Values
    <3>2. Queue!Put(<<s, sent[s] + 1>>)  BY <2>1 DEF Send, Queue!Put
    <3> QED  BY <3>1, <3>2 DEF Queue!QNext
  <2>2. ASSUME NEW r \in Receivers, RecvTakes(r) PROVE Queue!QNext
    <3>1. 1 \in 1 .. Len(buffer)  BY <2>2 DEF RecvTakes, ChannelTypeOK
    <3>2. SubSeq(buffer, 1, 1) = <<Head(buffer)>>
      BY <2>2, FirstOfSeq DEF RecvTakes, ChannelTypeOK
    <3>3. SubSeq(buffer, 2, Len(buffer)) = Tail(buffer)  BY <2>2 DEF RecvTakes, ChannelTypeOK
    <3>4. taken \o <<Head(buffer)>> = Append(taken, Head(buffer))
      BY <2>2 DEF RecvTakes, ChannelTypeOK
    <3>5. Queue!TakeFirst(1)
      BY SMT, SMTT(60), <2>2, <3>2, <3>3, <3>4 DEF RecvTakes, Returns, Queue!TakeFirst
    <3> QED  BY <3>1, <3>5 DEF Queue!QNext
  <2>3. ASSUME NEW r \in Receivers, SwapOutAll(r) PROVE Queue!QNext
    <3>1. Len(buffer) \in 1 .. Len(buffer)  BY <2>3 DEF SwapOutAll, ChannelTypeOK
    <3>2. SubSeq(buffer, 1, Len(buffer)) = buffer  BY DEF ChannelTypeOK
    <3>3. SubSeq(buffer, Len(buffer) + 1, Len(buffer)) = <<>>  BY DEF ChannelTypeOK
    <3>4. Queue!TakeFirst(Len(buffer))
      BY <2>3, <3>2, <3>3 DEF SwapOutAll, Queue!TakeFirst
    <3> QED  BY <3>1, <3>4 DEF Queue!QNext
  <2>4. ASSUME Close PROVE Queue!QNext
    BY <2>4 DEF Close, Queue!Shut, Queue!QNext
  <2>5. ASSUME NEW s \in Senders, SendRefused(s) PROVE UNCHANGED <<buffer, closed, taken>>
    BY <2>5 DEF SendRefused, channel
  <2>6. ASSUME NotifyOne \/ NotifyAll PROVE UNCHANGED <<buffer, closed, taken>>
    BY <2>6 DEF NotifyOne, NotifyAll
  <2>7. ASSUME NEW r \in Receivers,
               \/ RecvCalled(r) \/ RecvNothing(r) \/ RecvParks(r)
               \/ TimesOut(r) \/ SpuriousWakeup(r)
        PROVE  UNCHANGED <<buffer, closed, taken>>
    BY <2>7 DEF RecvCalled, RecvNothing, Returns, RecvParks, TimesOut, SpuriousWakeup, channel
  <2>8. ASSUME UNCHANGED channel_vars PROVE UNCHANGED <<buffer, closed, taken>>
    BY <2>8 DEF channel_vars, channel
  <2> QED
    BY ZenonT(60), <2>1, <2>2, <2>3, <2>4, <2>5, <2>6, <2>7, <2>8 DEF ChannelNext, Proceeds
<1> QED  BY <1>1, <1>2, ChannelTypes, PTL DEF ChannelSpec, ImplementsQueue, Queue!QSpec

-----------------------------------------------------------------------------
(* The reactor and its pool.                                               *)

(* A thread that is joining the loop or shutting the pool down has cleared *)
(* running_; the pool is shut down behind the loop; and a pool that is     *)
(* stopped while the first run lasts belongs to a loop that has ended.     *)
LoopBeforePool ==
  /\ runs \in Nat
  /\ at # "none" => runs >= 1
  /\ stopper \in {"join", "pools"} => running = FALSE
  /\ stopper = "pools" => at = "exited"
  /\ stop = TRUE => at = "exited" \/ runs > 1
  /\ stop = TRUE => runs >= 1
  /\ stop \in BOOLEAN /\ running \in BOOLEAN

(* Every step keeps the order of the shutdown.                             *)
LEMMA LoopBeforePoolKept ==
  ASSUME LoopBeforePool, [RNext]_all
  PROVE  LoopBeforePool'
<1> USE DEF LoopBeforePool
<1>1. CASE Tick /\ UNCHANGED pool
  BY <1>1 DEF Tick, pool
<1>2. CASE Run /\ UNCHANGED pool
  BY <1>2 DEF Run, pool
<1>3. CASE Stop /\ UNCHANGED pool
  BY ZenonT(60), <1>3 DEF Stop, pool
<1>4. CASE Schedule
  BY <1>4 DEF Schedule, ScheduleIn, pool
<1>5. CASE Post
  BY <1>5 DEF Post, Pool!Submit, vars
<1>6. CASE EntryPosts
  BY <1>6 DEF EntryPosts, RunEntry, Pool!Submit
<1>7. CASE LoopRuns
  BY <1>7 DEF LoopRuns, LoopStep, TestAndReadClock, TakeMutex, PopTop, PopEnds, RunEntry,
              WaitEnds, pool
<1>8. CASE PoolNotifies
  BY ZenonT(60), <1>8 DEF PoolNotifies, Pool!NotifyOne, vars
<1>9. ASSUME NEW w \in Workers, PoolWorks(w) \/ PoolWakes(w)
      PROVE  LoopBeforePool'
  BY <1>9 DEF PoolWorks, PoolWakes, Pool!WorkerStep, Pool!LoopHead, Pool!TakeTask,
              Pool!NothingToTake, Pool!Park, Pool!FinishTask, Pool!SpuriousWakeup, vars
<1>10. CASE StopGoesOn
  <2>1. CASE JoinLoop /\ UNCHANGED pool
    BY <2>1 DEF JoinLoop, pool
  <2>2. CASE stopper = "pools" /\ (Pool!SetStop \/ Pool!NotifyAll \/ Pool!Join) /\ UNCHANGED vars
    BY ZenonT(60), <2>2 DEF Pool!SetStop, Pool!NotifyAll, Pool!Join, vars
  <2>3. CASE shutdown = "down" /\ StopEnds /\ UNCHANGED pool
    BY <2>3 DEF StopEnds, pool
  <2> QED  BY ZenonT(60), <1>10, <2>1, <2>2, <2>3 DEF StopGoesOn
<1>11. CASE UNCHANGED all
  BY <1>11 DEF all, vars, pool
<1> QED
  BY ZenonT(60), <1>1, <1>2, <1>3, <1>4, <1>5, <1>6, <1>7, <1>8, <1>9, <1>10, <1>11 DEF RNext

(* Reactor::stop joins the loop before it shuts the pools down: an entry   *)
(* that posts a task finds a pool that is not stopped.                     *)
THEOREM ReactorLivePool == RSpec => EntriesPostToLivePool
<1>1. RInit => LoopBeforePool
  <2> SUFFICES ASSUME RInit PROVE LoopBeforePool  OBVIOUS
  <2>1. runs = 0 /\ at = "none" /\ stopper = "none" /\ running = FALSE  BY DEF RInit, Init
  <2>2. stop = FALSE  BY DEF RInit, Pool!Init
  <2> QED  BY ZenonT(60), <2>1, <2>2 DEF LoopBeforePool
<1>2. LoopBeforePool /\ [RNext]_all => [EntryPosts => ~stop \/ runs > 1]_all
  BY DEF EntryPosts, RunEntry, LoopBeforePool
<1> QED  BY <1>1, <1>2, LoopBeforePoolKept, PTL DEF RSpec, EntriesPostToLivePool

(* The tasks queued and started are tasks that were posted.                *)
TasksOK ==
  /\ submitted \in Nat
  /\ queue \in Seq(1 .. MaxTasks) /\ started \in Seq(1 .. MaxTasks)

(* What a step does to the queue: a task is posted, one starts, or it      *)
(* stays as it was.                                                        *)
LEMMA QueueSteps ==
  ASSUME [RNext]_all
  PROVE  \/ Pool!Submit
         \/ \E w \in Workers : Pool!TakeTask(w)
         \/ UNCHANGED <<queue, started, submitted>>
<1>1. CASE EntryPosts \/ Post  BY <1>1 DEF EntryPosts, Post
<1>2. CASE ((Tick \/ Run \/ Stop) /\ UNCHANGED pool) \/ Schedule \/ LoopRuns
  BY <1>2 DEF Schedule, LoopRuns, pool
<1>3. CASE PoolNotifies  BY <1>3 DEF PoolNotifies, Pool!NotifyOne
<1>4. ASSUME NEW w \in Workers, PoolWorks(w) \/ PoolWakes(w)
      PROVE  Pool!TakeTask(w) \/ UNCHANGED <<queue, started, submitted>>
  BY ZenonT(60), <1>4 DEF PoolWorks, PoolWakes, Pool!WorkerStep, Pool!LoopHead,
              Pool!NothingToTake, Pool!Park, Pool!FinishTask, Pool!SpuriousWakeup
<1>5. CASE StopGoesOn
  BY <1>5 DEF StopGoesOn, Pool!SetStop, Pool!NotifyAll, Pool!Join, pool
<1>6. CASE UNCHANGED all  BY <1>6 DEF all, pool
<1> QED  BY ZenonT(60), <1>1, <1>2, <1>3, <1>4, <1>5, <1>6 DEF RNext

(* ThreadPool::submit and worker_loop: tasks start once each and in order. *)
THEOREM ReactorStartsInOrder == RSpec => StartsInOrder
<1> USE PoolsAssumption
<1>1. RInit => TasksOK /\ Pool!Queue!QInit
  BY DEF RInit, Pool!Init, TasksOK, Pool!Queue!QInit
<1>2. TasksOK /\ [RNext]_all => TasksOK' /\ [Pool!Queue!QNext]_(Pool!Queue!qVars)
  <2> SUFFICES ASSUME TasksOK, [RNext]_all
               PROVE  TasksOK' /\ (Pool!Queue!QNext \/ UNCHANGED <<queue, started>>)
    BY DEF Pool!Queue!qVars
  <2>1. CASE Pool!Submit
    <3>1. submitted + 1 \in 1 .. MaxTasks /\ submitted' = submitted + 1
      BY <2>1 DEF Pool!Submit, TasksOK
    <3>2. queue' = Append(queue, submitted + 1) /\ started' = started
      BY <2>1 DEF Pool!Submit
    <3>3. queue' \in Seq(1 .. MaxTasks)  BY SMT, SMTT(60), <3>1, <3>2 DEF TasksOK
    <3>4. Pool!Queue!Put(submitted + 1)  BY <3>2 DEF Pool!Queue!Put
    <3> QED  BY SMT, SMTT(60), <3>1, <3>2, <3>3, <3>4 DEF TasksOK, Pool!Queue!QNext, Pool!Tasks
  <2>2. ASSUME NEW w \in Workers, Pool!TakeTask(w)
        PROVE  TasksOK' /\ Pool!Queue!QNext
    <3>1. /\ queue # <<>> /\ queue' = Tail(queue)
          /\ started' = Append(started, Head(queue)) /\ submitted' = submitted
      BY <2>2 DEF Pool!TakeTask, Pool!Popped
    <3>2. Head(queue) \in 1 .. MaxTasks /\ Tail(queue) \in Seq(1 .. MaxTasks)
      BY <3>1 DEF TasksOK
    <3>3. started' \in Seq(1 .. MaxTasks)  BY SMT, SMTT(60), <3>1, <3>2 DEF TasksOK
    <3>4. SubSeq(queue, 1, 1) = <<Head(queue)>>  BY ZenonT(60), <3>1, FirstOfSeq DEF TasksOK
    <3>5. SubSeq(queue, 2, Len(queue)) = Tail(queue) /\ 1 \in 1 .. Len(queue)
      BY SMT, SMTT(60), <3>1 DEF TasksOK
    <3>6. started \o <<Head(queue)>> = Append(started, Head(queue))
      BY <3>2 DEF TasksOK
    <3>7. Pool!Queue!TakeFirst(1)  BY <3>1, <3>4, <3>5, <3>6 DEF Pool!Queue!TakeFirst
    <3> QED  BY ZenonT(60), <3>1, <3>2, <3>3, <3>5, <3>7 DEF TasksOK, Pool!Queue!QNext
  <2>3. CASE UNCHANGED <<queue, started, submitted>>  BY <2>3 DEF TasksOK
  <2> QED  BY ZenonT(60), <2>1, <2>2, <2>3, QueueSteps
<1> QED  BY <1>1, <1>2, PTL DEF RSpec, StartsInOrder, Pool!StartsInOrder, Pool!Queue!QSpec

-----------------------------------------------------------------------------
(* The timer and the loop.                                                 *)

InOrder(s) == \A i, j \in DOMAIN s : i < j => Before(s[i], s[j])

(* A batch is in order and due, and there is one only while the loop takes *)
(* or runs it; while the mutex is held it comes before all that is left in *)
(* the timer, and afterwards before what was there when it was returned.   *)
TimerOK ==
  /\ TypeOK
  /\ InOrder(due)
  /\ \A e \in Range(due) : e.deadline <= loop_now
  /\ at \notin {"pop", "run"} => due = <<>>
  /\ at = "pop" => \A e \in Range(due), f \in heap : Before(e, f)
  /\ at = "run" => \A e \in Range(due), f \in heap : f.seq < mark => Before(e, f)
  /\ running \/ stopper = "join" \/ at \in {"none", "exited"}

(* The loop's own steps, its entries that post included.                   *)
LEMMA TimerSteps ==
  ASSUME [RNext]_all
  PROVE  \/ Tick \/ Run \/ Stop \/ ScheduleIn
         \/ TestAndReadClock \/ TakeMutex \/ PopTop \/ PopEnds \/ RunEntry \/ WaitEnds
         \/ JoinLoop \/ StopEnds \/ UNCHANGED vars
  BY ZenonT(60) DEF RNext, Schedule, Post, EntryPosts, LoopRuns, LoopStep, PoolNotifies,
       PoolWorks, PoolWakes, StopGoesOn, all

(* A step that leaves timer and batch alone and does not move the loop.    *)
LEMMA BatchLeftAlone ==
  ASSUME TimerOK, UNCHANGED <<heap, due, at, loop_now, mark>>
  PROVE  /\ InOrder(due)'
         /\ (\A e \in Range(due) : e.deadline <= loop_now)'
         /\ (at \notin {"pop", "run"} => due = <<>>)'
         /\ (at = "pop" => \A e \in Range(due), f \in heap : Before(e, f))'
         /\ (at = "run" => \A e \in Range(due), f \in heap : f.seq < mark => Before(e, f))'
  BY ZenonT(60) DEF TimerOK, InOrder, Range

(* An empty batch is in order.                                             *)
LEMMA NoBatch ==
  ASSUME NEW s, s = <<>>
  PROVE  InOrder(s) /\ Range(s) = {}
<1>1. DOMAIN s = {}  OBVIOUS
<1> QED  BY ZenonT(60), <1>1 DEF InOrder, Range

(* What the loop of pop_expired appends to a batch, if it comes behind it, *)
(* leaves the batch in order.                                              *)
LEMMA AppendInOrder ==
  ASSUME NEW s \in Seq(Entries), InOrder(s), NEW e \in Entries,
         \A f \in Range(s) : Before(f, e)
  PROVE  /\ Append(s, e) \in Seq(Entries)
         /\ InOrder(Append(s, e))
         /\ \A f \in Range(Append(s, e)) : f \in Range(s) \/ f = e
<1> DEFINE t == Append(s, e)
<1>1. /\ t \in Seq(Entries) /\ DOMAIN t = 1 .. Len(s) + 1 /\ t[Len(s) + 1] = e
      /\ Len(s) \in Nat /\ DOMAIN s = 1 .. Len(s)
  OBVIOUS
<1>2. \A i \in 1 .. Len(s) : t[i] = s[i]  OBVIOUS
<1> HIDE DEF t
<1>3. \A i \in 1 .. Len(s) : s[i] \in Range(s)  BY ZenonT(60), <1>1 DEF Range
<1>4. \A i \in 1 .. Len(s) + 1 : i \in 1 .. Len(s) \/ i = Len(s) + 1  BY <1>1
<1>5. ASSUME NEW i \in DOMAIN t, NEW j \in DOMAIN t, i < j PROVE Before(t[i], t[j])
  <2>1. i \in 1 .. Len(s)  BY <1>1, <1>5
  <2>2. CASE j \in 1 .. Len(s)
    BY ZenonT(60), <1>1, <1>2, <1>5, <2>1, <2>2 DEF InOrder
  <2>3. CASE j = Len(s) + 1
    BY ZenonT(60), <1>1, <1>2, <1>3, <2>1, <2>3
  <2> QED  BY ZenonT(60), <1>1, <1>4, <2>2, <2>3
<1>6. \A f \in Range(t) : f \in Range(s) \/ f = e
  BY ZenonT(60), <1>1, <1>2, <1>3, <1>4 DEF Range
<1> QED  BY ZenonT(60), <1>1, <1>5, <1>6 DEF InOrder, t

(* The first entry of a batch in order comes before the rest, which is in  *)
(* order too.                                                              *)
LEMMA TailInOrder ==
  ASSUME NEW s \in Seq(Entries), s # <<>>, InOrder(s)
  PROVE  /\ Tail(s) \in Seq(Entries) /\ InOrder(Tail(s))
         /\ Head(s) \in Range(s)
         /\ \A f \in Range(Tail(s)) : f \in Range(s) /\ Before(Head(s), f)
<1> DEFINE t == Tail(s)
<1>1. /\ t \in Seq(Entries) /\ Len(s) \in Nat /\ DOMAIN s = 1 .. Len(s)
      /\ DOMAIN t = 1 .. Len(s) - 1 /\ 1 \in DOMAIN s /\ Head(s) = s[1]
  OBVIOUS
<1>2. \A i \in DOMAIN t : i + 1 \in DOMAIN s /\ 1 < i + 1 /\ t[i] = s[i + 1]
  BY SMT, SMTT(60)
<1>3. \A i, j \in DOMAIN t : i < j => i + 1 < j + 1  BY <1>1
<1> HIDE DEF t
<1>4. \A i, j \in DOMAIN t : i < j => Before(t[i], t[j])
  BY ZenonT(60), <1>2, <1>3 DEF InOrder
<1>5. \A i \in DOMAIN t : t[i] \in Range(s) /\ Before(Head(s), t[i])
  BY ZenonT(60), <1>1, <1>2 DEF InOrder, Range
<1>6. Head(s) \in Range(s)  BY ZenonT(60), <1>1 DEF Range
<1> QED  BY ZenonT(60), <1>1, <1>4, <1>5, <1>6 DEF InOrder, Range, t

(* Every step keeps the timer and the loop in order.                       *)
LEMMA TimerOKKept ==
  ASSUME TimerOK, [RNext]_all
  PROVE  TimerOK'
<1> USE ReactorAssumption
<1>1. CASE Tick
  <2>1. TypeOK'  BY <1>1 DEF TimerOK, TypeOK, Tick, timer
  <2> QED  BY ZenonT(60), <1>1, <2>1, BatchLeftAlone DEF TimerOK, Tick, timer
<1>2. CASE Run
  <2>1. TypeOK'  BY <1>2 DEF TimerOK, TypeOK, Run, timer
  <2>2. due = <<>> /\ due' = <<>> /\ at' = "test" /\ running'
    BY ZenonT(60), <1>2 DEF TimerOK, Run
  <2> QED  BY ZenonT(60), <2>1, <2>2, NoBatch DEF TimerOK
<1>3. CASE Stop
  <2>1. TypeOK'  BY ZenonT(60), <1>3 DEF TimerOK, TypeOK, Stop, timer
  <2> QED  BY ZenonT(60), <1>3, <2>1, BatchLeftAlone DEF TimerOK, Stop, timer
<1>4. CASE ScheduleIn
  <2>1. PICK read \in 0 .. now, d \in Delays, s \in BOOLEAN :
          heap' = heap \cup {[deadline |-> read + d, skippable |-> s, seq |-> next_seq]}
    BY <1>4 DEF ScheduleIn
  <2> DEFINE e == [deadline |-> read + d, skippable |-> s, seq |-> next_seq]
  <2>2. e \in Entries /\ e.seq = next_seq /\ next_seq \in Nat /\ mark \in Nat /\ mark <= next_seq
    BY SMT, SMTT(60) DEF TimerOK, TypeOK, Entries
  <2> HIDE DEF e
  <2>3. heap' = heap \cup {e}  BY <2>1 DEF e
  <2>4. at # "pop" /\ next_seq' = next_seq + 1 /\ next_seq < MaxEntries
        /\ UNCHANGED <<now, running, runs, stopper, at, loop_now, due, mark>>
    BY <1>4 DEF ScheduleIn
  <2>5. TypeOK'
    BY SMT, SMTT(60), <2>2, <2>3, <2>4 DEF TimerOK, TypeOK
  <2>6. ~(e.seq < mark)  BY <2>2
  <2>7. (at = "run" => \A x \in Range(due), f \in heap : f.seq < mark => Before(x, f))'
    BY ZenonT(60), <2>3, <2>4, <2>6 DEF TimerOK, Range
  <2> QED
    BY ZenonT(60), <2>4, <2>5, <2>7 DEF TimerOK, InOrder, Range
<1>5. CASE TestAndReadClock \/ TakeMutex
  <2>1. TypeOK'
    BY SMT, SMTT(60), <1>5 DEF TimerOK, TypeOK, TestAndReadClock, TakeMutex, timer
  <2>2. /\ due = <<>> /\ due' = <<>> /\ at' \in {"lock", "pop", "exited"}
        /\ UNCHANGED <<running, stopper>> /\ (at' = "exited" \/ at \notin {"none", "exited"})
    BY <1>5 DEF TimerOK, TestAndReadClock, TakeMutex
  <2> QED  BY ZenonT(60), <2>1, <2>2, NoBatch DEF TimerOK
<1>6. CASE PopTop
  <2>1. PICK e \in heap : /\ TopDue(e)
                          /\ heap' = heap \ {e}
                          /\ due' = IF TooLate(e, loop_now) THEN due ELSE Append(due, e)
    BY <1>6 DEF PopTop
  <2>2. at = "pop" /\ UNCHANGED <<next_seq, now, running, runs, stopper, at, loop_now, mark>>
    BY <1>6 DEF PopTop
  <2>3. e \in Entries /\ due \in Seq(Entries) /\ InOrder(due)
        /\ \A f \in Range(due) : Before(f, e) /\ f.deadline <= loop_now
    BY ZenonT(60), <2>2 DEF TimerOK, TypeOK
  <2>4. e.deadline <= loop_now /\ \A f \in heap' : f \in heap /\ Before(e, f)
    BY ZenonT(60), <2>1 DEF TopDue, IsTop
  <2>5. due' \in Seq(Entries) /\ InOrder(due') /\ \A f \in Range(due') : f \in Range(due) \/ f = e
    <3>1. CASE TooLate(e, loop_now)  BY ZenonT(60), <2>1, <2>3, <3>1
    <3>2. CASE ~TooLate(e, loop_now)  BY ZenonT(60), <2>1, <2>3, <3>2, AppendInOrder
    <3> QED  BY <3>1, <3>2
  <2>6. TypeOK'
    BY <2>2, <2>4, <2>5 DEF TimerOK, TypeOK
  <2>7. \A x \in Range(due') : x.deadline <= loop_now /\ \A f \in heap' : Before(x, f)
    BY ZenonT(60), <2>2, <2>3, <2>4, <2>5 DEF TimerOK
  <2> QED
    BY ZenonT(60), <2>2, <2>5, <2>6, <2>7 DEF TimerOK, InOrder, Range
<1>7. CASE PopEnds
  <2>1. TypeOK'  BY <1>7 DEF PopEnds, TimerOK, TypeOK, timer
  <2>2. /\ at = "pop" /\ at' = "run"
        /\ UNCHANGED <<heap, due, loop_now, running, stopper>>
    BY <1>7 DEF PopEnds, timer
  <2> QED  BY ZenonT(60), <2>1, <2>2 DEF TimerOK, InOrder, Range
<1>8. CASE RunEntry
  <2>1. /\ at = "run" /\ due # <<>> /\ due' = Tail(due) /\ due \in Seq(Entries) /\ InOrder(due)
        /\ UNCHANGED <<heap, next_seq, now, running, runs, stopper, at, loop_now, mark>>
    BY <1>8 DEF RunEntry, timer, TimerOK, TypeOK
  <2>2. due' \in Seq(Entries) /\ InOrder(due') /\ \A f \in Range(due') : f \in Range(due)
    BY ZenonT(60), <2>1, TailInOrder
  <2>3. TypeOK'  BY <2>1, <2>2 DEF TimerOK, TypeOK
  <2> QED  BY ZenonT(60), <2>1, <2>2, <2>3 DEF TimerOK, InOrder, Range
<1>9. CASE WaitEnds
  <2>1. TypeOK'  BY <1>9 DEF TimerOK, TypeOK, WaitEnds, timer
  <2>2. /\ due' = <<>> /\ at = "run" /\ at' = "test" /\ UNCHANGED <<running, stopper>>
    BY <1>9 DEF WaitEnds
  <2> QED  BY ZenonT(60), <2>1, <2>2, NoBatch DEF TimerOK
<1>10. CASE JoinLoop \/ StopEnds \/ UNCHANGED vars
  <2>1. TypeOK'
    BY <1>10 DEF TimerOK, TypeOK, JoinLoop, StopEnds, vars, timer
  <2>2. /\ UNCHANGED <<heap, due, at, loop_now, mark, running>>
        /\ stopper' = stopper \/ at = "exited" \/ stopper # "join"
    BY <1>10 DEF JoinLoop, StopEnds, vars, timer
  <2> QED  BY ZenonT(60), <2>1, <2>2, BatchLeftAlone DEF TimerOK
<1> QED
  BY ZenonT(60), <1>1, <1>2, <1>3, <1>4, <1>5, <1>6, <1>7, <1>8, <1>9, <1>10, TimerSteps

(* The reactor starts with an empty timer.                                 *)
LEMMA TimerOKInit == RInit => TimerOK
<1> SUFFICES ASSUME RInit PROVE TimerOK  OBVIOUS
<1>1. due = <<>> /\ heap = {} /\ at = "none"  BY DEF RInit, Init
<1>2. InOrder(due) /\ Range(due) = {}  BY ZenonT(60), <1>1, NoBatch
<1>3. TypeOK
  <2>1. running \in BOOLEAN  BY ZenonT(60) DEF RInit, Init
  <2>2. heap \subseteq Entries /\ due \in Seq(Entries)  BY <1>1
  <2> QED  BY <2>1, <2>2, ReactorAssumption DEF RInit, Init, TypeOK
<1> QED  BY ZenonT(60), <1>1, <1>2, <1>3 DEF TimerOK

(* A lag of more than K whole seconds is at least K + 1 of them.           *)
LEMMA WholeSeconds ==
  ASSUME NEW x \in Nat, NEW P \in Nat \ {0}, NEW K \in Nat, x \div P > K
  PROVE  x >= (K + 1) * P
<1> DEFINE q == x \div P
<1>1. q \in Nat /\ q * P <= x  OBVIOUS
<1> HIDE DEF q
<1>2. q >= K + 1  BY <1>1 DEF q
<1>3. PICK k \in Nat : q = K + 1 + k  BY <1>1, <1>2
<1>4. q * P = (K + 1) * P + k * P  BY <1>3
<1>5. k * P \in Nat /\ (K + 1) * P \in Nat  OBVIOUS
<1> QED  BY <1>1, <1>4, <1>5

(* PriorityTimer::pop_expired and main_loop lose no entry: one leaves by   *)
(* being run, or because it may be skipped and is late enough.             *)
THEOREM ReactorLeavesRunOrLate == RSpec => LeavesRunOrLate
<1>1. TimerOK /\ [RNext]_all =>
        [\A e \in Waiting : e \notin Waiting' =>
           /\ e.deadline <= loop_now
           /\ \/ at = "run" /\ e = Head(due)
              \/ /\ at = "pop" /\ e.skippable
                 /\ loop_now >= e.deadline + (SkipThreshold + 1) * PerSecond]_vars
  <2> SUFFICES ASSUME TimerOK, [RNext]_all, ~UNCHANGED vars,
                      NEW e \in Waiting, e \notin Waiting'
               PROVE  /\ e.deadline <= loop_now
                      /\ \/ at = "run" /\ e = Head(due)
                         \/ /\ at = "pop" /\ e.skippable
                            /\ loop_now >= e.deadline + (SkipThreshold + 1) * PerSecond
    BY ZenonT(60)
  <2>1. CASE heap \subseteq heap' /\ UNCHANGED due
    BY <2>1 DEF Waiting, Range
  <2>2. CASE PopTop
    <3>1. loop_now \in Nat /\ at = "pop" /\ heap \subseteq Entries /\ due \in Seq(Entries)
      BY <2>2 DEF PopTop, TimerOK, TypeOK
    <3>2. PICK p \in heap : /\ TopDue(p)
                            /\ heap' = heap \ {p}
                            /\ due' = IF TooLate(p, loop_now) THEN due ELSE Append(due, p)
      BY <2>2 DEF PopTop
    <3>3. e \notin heap' /\ e \notin Range(due)'  BY DEF Waiting
    <3>4. \A x : x \in Range(due) => x \in Range(Append(due, p))
      BY <3>1 DEF Range
    <3>5. p \in Range(Append(due, p))
      <4>1. Len(due) + 1 \in DOMAIN Append(due, p) /\ Append(due, p)[Len(due) + 1] = p
        BY <3>1
      <4> QED  BY ZenonT(60), <4>1 DEF Range
    <3>6. e \notin Range(due)
      BY ZenonT(60), <3>2, <3>3, <3>4 DEF Range
    <3>7. e = p /\ e.deadline <= loop_now
      BY ZenonT(60), <3>2, <3>3, <3>6 DEF Waiting, TopDue
    <3>8. e \in heap /\ TooLate(e, loop_now)
      BY ZenonT(60), <3>2, <3>3, <3>5, <3>7 DEF Range
    <3>9. e.deadline \in Nat /\ e.skippable
      BY <3>1, <3>8 DEF Entries, TooLate
    <3>10. PICK x \in Nat : x = loop_now - e.deadline  BY <3>1, <3>7, <3>9
    <3>11. x \div PerSecond > SkipThreshold  BY ZenonT(60), <3>8, <3>10 DEF TooLate
    <3>12. x >= (SkipThreshold + 1) * PerSecond
      BY ZenonT(60), <3>11, WholeSeconds, ReactorAssumption
    <3>13. PICK y : y = (SkipThreshold + 1) * PerSecond  OBVIOUS
    <3>14. y \in Int  BY <3>13, ReactorAssumption
    <3>15. loop_now >= e.deadline + y  BY <3>1, <3>9, <3>10, <3>12, <3>13, <3>14
    <3> QED  BY ZenonT(60), <3>1, <3>7, <3>9, <3>13, <3>15
  <2>3. CASE RunEntry
    <3>1. at = "run" /\ due # <<>> /\ due' = Tail(due) /\ heap' = heap /\ due \in Seq(Entries)
      BY <2>3 DEF RunEntry, timer, TimerOK, TypeOK
    <3>2. e \in Range(due) /\ e \notin Range(due)'  BY <3>1 DEF Waiting
    <3>3. PICK i \in 1 .. Len(due) : e = due[i]  BY <3>1, <3>2 DEF Range
    <3>4. i = 1
      <4> SUFFICES ASSUME i # 1 PROVE FALSE  OBVIOUS
      <4>1. i - 1 \in 1 .. Len(Tail(due)) /\ Tail(due)[i - 1] = due[i]
        BY SMT, SMTT(60), <3>1
      <4>2. Tail(due) \in Seq(Entries)  BY <3>1
      <4>3. i - 1 \in DOMAIN Tail(due)  BY <4>1, <4>2
      <4> QED  BY ZenonT(60), <3>1, <3>2, <3>3, <4>1, <4>3 DEF Range
    <3>5. e = Head(due)  BY <3>1, <3>3, <3>4
    <3>6. e.deadline <= loop_now  BY ZenonT(60), <3>2 DEF TimerOK
    <3> QED  BY <3>1, <3>5, <3>6
  <2>4. \/ heap \subseteq heap' /\ UNCHANGED due
        \/ PopTop \/ RunEntry
    <3>1. CASE Tick \/ Run \/ Stop \/ TestAndReadClock \/ TakeMutex \/ PopEnds \/ WaitEnds
               \/ JoinLoop \/ StopEnds
      BY <3>1 DEF Tick, Run, Stop, TestAndReadClock, TakeMutex, PopEnds, WaitEnds, JoinLoop, StopEnds, timer
    <3>2. CASE ScheduleIn  BY <3>2 DEF ScheduleIn
    <3> QED  BY ZenonT(60), <3>1, <3>2, TimerSteps
  <2> QED  BY <2>1, <2>2, <2>3, <2>4
<1> QED  BY <1>1, TimerOKInit, TimerOKKept, PTL DEF RSpec, LeavesRunOrLate

(* Whatever main_loop runs comes before all that is left of its batch and  *)
(* before all that was in the timer when pop_expired returned.             *)
THEOREM ReactorDeadlineOrder == RSpec => RunsInDeadlineOrder
<1>1. TimerOK /\ [RNext]_all =>
        [at = "run" /\ due' # due =>
           \A f \in Waiting' : f.seq < mark => Before(Head(due), f)]_vars
  <2> SUFFICES ASSUME TimerOK, [RNext]_all, at = "run", due' # due,
                      NEW f \in Waiting', f.seq < mark
               PROVE  Before(Head(due), f)
    BY ZenonT(60)
  <2>1. RunEntry
    <3>1. CASE Tick \/ Run \/ Stop \/ ScheduleIn \/ TestAndReadClock \/ TakeMutex \/ PopEnds
                 \/ WaitEnds \/ JoinLoop \/ StopEnds \/ UNCHANGED vars
      BY <3>1 DEF Tick, Run, Stop, ScheduleIn, TestAndReadClock, TakeMutex, PopEnds, WaitEnds,
                  JoinLoop, StopEnds, vars
    <3>2. CASE PopTop  BY <3>2 DEF PopTop
    <3> QED  BY ZenonT(60), <3>1, <3>2, TimerSteps
  <2>2. /\ due # <<>> /\ due' = Tail(due) /\ heap' = heap /\ due \in Seq(Entries) /\ InOrder(due)
    BY <2>1 DEF RunEntry, timer, TimerOK, TypeOK
  <2>3. Head(due) \in Range(due) /\ \A g \in Range(due') : Before(Head(due), g)
    BY ZenonT(60), <2>2, TailInOrder
  <2>4. CASE f \in heap'  BY ZenonT(60), <2>2, <2>3, <2>4 DEF TimerOK
  <2>5. CASE f \in Range(due')  BY <2>3, <2>5
  <2> QED  BY ZenonT(60), <2>4, <2>5 DEF Waiting, Range
<1> QED  BY <1>1, TimerOKInit, TimerOKKept, PTL DEF RSpec, RunsInDeadlineOrder

-----------------------------------------------------------------------------
(* Types of the reactor and its pool.                                      *)

(* Every step of the pool keeps its types; the mutex has one holder.       *)
LEMMA PoolTypesKept ==
  ASSUME Pool!TypeOK, [RNext]_all
  PROVE  Pool!TypeOK'
<1> USE PoolsAssumption
<1>1. CASE UNCHANGED pool
  BY <1>1 DEF pool, Pool!TypeOK, Pool!In
<1>2. CASE Pool!Submit
  BY SMT, SMTT(60), <1>2 DEF Pool!Submit, Pool!TypeOK, Pool!In, Pool!Tasks, Pool!Notifies
<1>3. CASE Pool!NotifyOne
  BY SMT, SMTT(60), <1>3 DEF Pool!NotifyOne, Pool!TypeOK, Pool!In, Pool!Goto
<1>4. ASSUME NEW w \in Workers, Pool!WorkerStep(w) \/ Pool!SpuriousWakeup(w)
      PROVE  Pool!TypeOK'
  <2>1. CASE Pool!LoopHead(w)
    BY ZenonT(60), <2>1 DEF Pool!LoopHead, Pool!TypeOK, Pool!In, Pool!Goto
  <2>2. CASE Pool!TakeTask(w)
    BY SMT, SMTT(60), <2>2 DEF Pool!TakeTask, Pool!Popped, Pool!TypeOK, Pool!In, Pool!Goto
  <2>3. CASE Pool!NothingToTake(w)
    BY ZenonT(60), <2>3 DEF Pool!NothingToTake, Pool!TestsUnder, Pool!MutexFree, Pool!TypeOK,
         Pool!In, Pool!Goto
  <2>4. CASE Pool!Park(w)
    BY ZenonT(60), <2>4 DEF Pool!Park, Pool!TypeOK, Pool!In, Pool!Goto
  <2>5. CASE Pool!FinishTask(w) \/ Pool!SpuriousWakeup(w)
    BY ZenonT(60), <2>5 DEF Pool!FinishTask, Pool!SpuriousWakeup, Pool!TypeOK, Pool!In, Pool!Goto
  <2> QED  BY ZenonT(60), <1>4, <2>1, <2>2, <2>3, <2>4, <2>5 DEF Pool!WorkerStep
<1>5. CASE Pool!SetStop
  <2>1. stop' = (shutdown' # "up")  BY ZenonT(60), <1>5 DEF Pool!SetStop
  <2> QED  BY ZenonT(60), <1>5, <2>1 DEF Pool!SetStop, Pool!TypeOK, Pool!In
<1>6. CASE Pool!NotifyAll
  BY ZenonT(60), <1>6 DEF Pool!NotifyAll, Pool!TypeOK, Pool!In
<1>7. CASE Pool!Join
  BY ZenonT(60), <1>7 DEF Pool!Join, Pool!TypeOK, Pool!In
<1> QED
  BY ZenonT(60), <1>1, <1>2, <1>3, <1>4, <1>5, <1>6, <1>7 DEF RNext, Schedule, Post, EntryPosts,
       LoopRuns, PoolNotifies, PoolWorks, PoolWakes, StopGoesOn, all

(* The reactor's and the pool's variables keep their types: the clock the  *)
(* loop read is not ahead of the clock, and the mutex has one holder.      *)
THEOREM ReactorTypes == RSpec => []RTypeOK
<1>1. RInit => Pool!TypeOK
  <2> SUFFICES ASSUME RInit PROVE Pool!TypeOK  OBVIOUS
  <2>1. stop = (shutdown # "up")  BY ZenonT(60) DEF RInit, Pool!Init
  <2> QED  BY SMT, SMTT(60), <2>1, PoolsAssumption DEF RInit, Pool!Init, Pool!TypeOK, Pool!In, Pool!Tasks
<1>2. TimerOK /\ Pool!TypeOK => RTypeOK  BY DEF TimerOK, RTypeOK
<1> QED  BY <1>1, <1>2, TimerOKInit, TimerOKKept, PoolTypesKept, PTL DEF RSpec
=============================================================================
