---------------------------- MODULE CopyChannel ----------------------------
(***************************************************************************)
(* The channel between threads (framework/copy_channel.h).  Senders push   *)
(* under the mutex and notify after it; a receiver that finds neither a    *)
(* value nor the end of the channel blocks on the condition variable, for  *)
(* a time or for good.  buffer_ and closed_ only change under the mutex,   *)
(* so testing the predicate and joining the wait set is one step.          *)
(*                                                                         *)
(* A value is the pair of its sender and a serial number.  A send on a     *)
(* closed channel throws, a try_send returns false: neither changes the    *)
(* channel, and both use up the serial number.                             *)
(***************************************************************************)
EXTENDS Integers, Sequences, FiniteSets

CONSTANTS
  Senders,
  Receivers,
  MaxSends    \* bound on the sends of one sender

ASSUME ChannelAssumption ==
  /\ IsFiniteSet(Receivers)
  /\ MaxSends \in Nat

VARIABLES
  buffer,   \* buffer_
  closed,   \* closed_
  notifies, \* notify_one calls that are still to come
  closing,  \* close() has not called notify_all yet
  sent,     \* sends per sender
  call,     \* the operation each receiver is in
  parked,   \* receivers in the wait set of cv_
  expired,  \* receivers whose wait_for has timed out
  taken     \* history: the values handed out, in order

channel == <<buffer, closed, notifies, closing>>
receivers == <<call, parked, expired>>
channel_vars == <<channel, sent, receivers, taken>>

Values == Senders \X (1 .. MaxSends)

ChannelInit ==
  /\ buffer = <<>>
  /\ closed = FALSE
  /\ notifies = 0
  /\ closing = FALSE
  /\ sent = [s \in Senders |-> 0]
  /\ call = [r \in Receivers |-> "none"]
  /\ parked = {}
  /\ expired = {}
  /\ taken = <<>>

-----------------------------------------------------------------------------
(* send and try_send, close.                                               *)

\* Mutant: the value goes in front.
Send_Front(s) ==
  /\ sent[s] < MaxSends
  /\ sent' = [sent EXCEPT ![s] = @ + 1]
  /\ ~closed
  /\ buffer' = <<<<s, sent[s] + 1>>>> \o buffer
  /\ notifies' = notifies + 1
  /\ UNCHANGED <<closed, closing, receivers, taken>>

Send(s) ==
  /\ sent[s] < MaxSends
  /\ sent' = [sent EXCEPT ![s] = @ + 1]
  /\ ~closed
  /\ buffer' = Append(buffer, <<s, sent[s] + 1>>)
  /\ notifies' = notifies + 1
  /\ UNCHANGED <<closed, closing, receivers, taken>>

SendRefused(s) ==
  /\ sent[s] < MaxSends
  /\ sent' = [sent EXCEPT ![s] = @ + 1]
  /\ closed
  /\ UNCHANGED <<channel, receivers, taken>>

NotifyOne ==
  /\ notifies > 0
  /\ notifies' = notifies - 1
  /\ \/ parked = {} /\ UNCHANGED parked
     \/ \E r \in parked : parked' = parked \ {r}
  /\ UNCHANGED <<buffer, closed, closing, sent, call, expired, taken>>

Close ==
  /\ ~closed
  /\ closed' = TRUE
  /\ closing' = TRUE
  /\ UNCHANGED <<buffer, notifies, sent, receivers, taken>>

\* Mutant: notify_one instead of notify_all.
NotifyAll_One ==
  /\ closing
  /\ closing' = FALSE
  /\ \/ parked = {} /\ UNCHANGED parked
     \/ \E r \in parked : parked' = parked \ {r}
  /\ UNCHANGED <<buffer, closed, notifies, sent, call, expired, taken>>

NotifyAll ==
  /\ closing
  /\ closing' = FALSE
  /\ parked' = {}
  /\ UNCHANGED <<buffer, closed, notifies, sent, call, expired, taken>>

-----------------------------------------------------------------------------
(* recv, and recv with a timeout or recv_for.                              *)

Awake == {r \in Receivers : call[r] # "none" /\ r \notin parked}

RecvCalled(r) ==
  /\ call[r] = "none"
  /\ \E kind \in {"recv", "recv_for"} : call' = [call EXCEPT ![r] = kind]
  /\ UNCHANGED <<channel, sent, parked, expired, taken>>

Returns(r) ==
  /\ r \in Awake
  /\ call' = [call EXCEPT ![r] = "none"]
  /\ expired' = expired \ {r}
  /\ UNCHANGED <<closed, notifies, closing, sent, parked>>

RecvTakes(r) ==
  /\ buffer # <<>>
  /\ Returns(r)
  /\ buffer' = Tail(buffer)
  /\ taken' = Append(taken, Head(buffer))

\* The channel is closed and drained, or the wait timed out.
RecvNothing(r) ==
  /\ buffer = <<>>
  /\ closed \/ r \in expired
  /\ Returns(r)
  /\ UNCHANGED <<buffer, taken>>

\* Mutant: the predicate is not tested before blocking.
RecvParks_Untested(r) ==
  /\ r \in Awake \ expired
  /\ parked' = parked \cup {r}
  /\ UNCHANGED <<channel, sent, call, expired, taken>>

RecvParks(r) ==
  /\ r \in Awake \ expired
  /\ buffer = <<>>
  /\ ~closed
  /\ parked' = parked \cup {r}
  /\ UNCHANGED <<channel, sent, call, expired, taken>>

\* The deadline of a wait_for passes, asleep or between two wakeups.
TimesOut(r) ==
  /\ call[r] = "recv_for"
  /\ r \notin expired
  /\ parked' = parked \ {r}
  /\ expired' = expired \cup {r}
  /\ UNCHANGED <<channel, sent, call, taken>>

SpuriousWakeup(r) ==
  /\ r \in parked
  /\ parked' = parked \ {r}
  /\ UNCHANGED <<channel, sent, call, expired, taken>>

SwapOutAll(r) ==
  /\ call[r] = "none"
  /\ buffer # <<>>
  /\ taken' = taken \o buffer
  /\ buffer' = <<>>
  /\ UNCHANGED <<closed, notifies, closing, sent, receivers>>

Proceeds(r) == RecvTakes(r) \/ RecvNothing(r) \/ RecvParks(r)

ChannelNext ==
  \/ \E s \in Senders : Send(s) \/ SendRefused(s)
  \/ NotifyOne \/ Close \/ NotifyAll
  \/ \E r \in Receivers :
       RecvCalled(r) \/ Proceeds(r) \/ TimesOut(r) \/ SpuriousWakeup(r) \/ SwapOutAll(r)

(* A thread that is about to notify does, a thread that can take the mutex *)
(* does in the end, and a timeout expires.  Nobody has to send or receive. *)
ChannelFairness ==
  /\ WF_channel_vars(NotifyOne)
  /\ WF_channel_vars(NotifyAll)
  /\ \A r \in Receivers : WF_channel_vars(Proceeds(r)) /\ WF_channel_vars(TimesOut(r))

ChannelSpec == ChannelInit /\ [][ChannelNext]_channel_vars /\ ChannelFairness

-----------------------------------------------------------------------------
(* Types.                                                                  *)
ChannelTypeOK ==
  /\ buffer \in Seq(Values)
  /\ closed \in BOOLEAN
  /\ notifies \in Nat
  /\ closing \in BOOLEAN
  /\ sent \in [Senders -> 0 .. MaxSends]
  /\ call \in [Receivers -> {"none", "recv", "recv_for"}]
  /\ parked \subseteq {r \in Receivers : call[r] # "none"}
  /\ expired \subseteq {r \in Receivers : call[r] = "recv_for"} \ parked
  /\ taken \in Seq(Values)

(* send notifies after the unlock, once per value: while receivers sleep,  *)
(* every value in the buffer has a notification to come or a receiver that *)
(* is awake, whatever timeouts, stolen values and swaps came in between.   *)
WakeupsSuffice == parked # {} => Len(buffer) <= notifies + Cardinality(Awake)

(* close: once its notify_all is through, no receiver sleeps, and none     *)
(* falls asleep any more.                                                  *)
ClosedWakesAll == closed /\ ~closing => parked = {}

Queue == INSTANCE FifoQueue WITH q <- buffer, out <- taken

(* The channel with its threads implements the abstract queue: values come *)
(* out once, in order, and none gets in after close.                       *)
ImplementsQueue == Queue!QSpec

(* recv returns once the channel is closed; recv_for always returns.       *)
RecvReturns ==
  \A r \in Receivers :
    /\ call[r] = "recv" /\ closed ~> call[r] = "none"
    /\ call[r] = "recv_for" ~> call[r] = "none"
=============================================================================
