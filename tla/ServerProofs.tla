---------------------------- MODULE ServerProofs ----------------------------
(***************************************************************************)
(* The server of main.cpp, for every number of calls: types, the pool, the *)
(* registration protocol between the handlers of SynthesizeStream and      *)
(* dispatch_to_writers, and the balance of inflight.                       *)
(***************************************************************************)
EXTENDS Server, AccountingProofs

\* The server's own variables.
EntryOK ==
  /\ rpc \in [Rids -> {"new", "sent", "queued", "polling", "leaving", "reading", "done"}]
  /\ status \in [Rids -> {"none", "OK", "UNAUTHENTICATED", "INVALID_ARGUMENT"}]
  /\ sent \in [Rids -> Nat]
  /\ local_queues \subseteq StreamRids
  /\ writers \subseteq Rids
  /\ queue \in [Rids -> Seq(ClientWrites)]

MainOK ==
  /\ target \in {"none", "queue", "writer", "nobody"}
  /\ g_stop \in BOOLEAN
  /\ main_pc \in {"running", "shutdown", "reactor", "join", "bus", "bye"}
  /\ missed \subseteq {"reactor", "bus"}

HistoryOK ==
  /\ accepted \in [Rids -> Nat]
  /\ answered \in [Rids -> Nat]
  /\ lost \subseteq Rids
  /\ dangling \subseteq Rids

\* A stream call is in the two maps exactly while its handler is between
\* the lines that put it there and the lines that erase it.
Registered ==
  \A r \in StreamRids :
    /\ r \in local_queues <=> rpc[r] \in {"queued", "polling", "leaving"}
    /\ r \in writers <=> rpc[r] \in {"polling", "leaving"}

\* Between look-up and delivery the write is still the first of the list.
TargetOK ==
  /\ target # "none" => phase = "dispatch" /\ cs.client_writes # <<>>
  /\ target = "writer" => Head(cs.client_writes).rid \in BidiRids

\* The inductive invariant.
IInv == RestOK /\ PoolInv /\ EntryOK /\ MainOK /\ HistoryOK /\ Registered /\ TargetOK

-----------------------------------------------------------------------------
(* The process starts with nothing registered.                             *)
LEMMA InitIInv == Init => IInv
  <1> SUFFICES ASSUME Init PROVE IInv
    OBVIOUS
  <1>1. RestOK
    <2>1. <<>> \in Seq(Messages)
      OBVIOUS
    <2>2. EmptyChangeSet \in ChangeSets
      BY DEF EmptyChangeSet, ChangeSets
    <2>3. 0 \in 0 .. Modulus - 1
      BY HeartbeatAssumption
    <2>4. pending \in [DOMAIN pending -> PendingRequests(Audio)] /\ DOMAIN pending = {}
      BY DEF Init, HbInit, EmptyStore
    <2>5. now \in Nat
      BY ZenonT(60), ServerAssumption DEF Init
    <2> QED
      BY SMT, SMTT(60), <2>1, <2>2, <2>3, <2>4, <2>5 DEF Init, HbInit, RestOK, Phases
  <1>2. PoolInv
    <2>1. Ids(pool) = {} /\ pool.lru = <<>>
      BY DEF Init, HbInit, EmptyPool, Ids
    <2>2. IsFiniteSet(Ids(pool)) /\ Cardinality(Ids(pool)) <= PoolMax
      BY SMT, SMTT(60), <2>1, FS_EmptySet, PoolAssumption
    <2>3. pool \in [sessions : [Ids(pool) -> SessionRecords(Rids)], lru : Seq(Nat)]
      BY DEF Init, HbInit, EmptyPool, Ids
    <2>4. IsInjective(pool.lru) /\ Range(pool.lru) = Ids(pool)
      BY SMT, SMTT(60), <2>1 DEF IsInjective, Range
    <2> QED
      BY ZenonT(60), <2>1, <2>2, <2>3, <2>4 DEF PoolInv, PoolValue, PoolOK
  <1>3. EntryOK
    <2>1. <<>> \in Seq(ClientWrites)
      OBVIOUS
    <2> QED
      BY ZenonT(60), <2>1 DEF Init, EntryOK
  <1>4. MainOK /\ HistoryOK /\ Registered /\ TargetOK
    BY ZenonT(60) DEF Init, MainOK, HistoryOK, Registered, TargetOK, Rids
  <1> QED
    BY ZenonT(60), <1>1, <1>2, <1>3, <1>4 DEF IInv

-----------------------------------------------------------------------------
(* The heartbeat's part is kept by a step that moves only its phase or the *)
(* clock.                                                                  *)
LEMMA HbFrame ==
  ASSUME RestOK, PoolInv, phase' \in Phases, now' \in Nat,
         UNCHANGED <<channels, batch, changed_sessions, cs, board, backend>>
  PROVE  RestOK' /\ PoolInv'
  <1>1. RestOK'
    BY ZenonT(60) DEF RestOK, channels, board
  <1>2. PoolInv'
    BY ZenonT(60) DEF PoolInv, board
  <1> QED
    BY ZenonT(60), <1>1, <1>2

(* The handlers' part, untouched.                                          *)
LEMMA EntryFrame ==
  ASSUME EntryOK, Registered, UNCHANGED entryVars
  PROVE  EntryOK' /\ Registered'
  <1>1. UNCHANGED rpc /\ UNCHANGED status /\ UNCHANGED sent /\ UNCHANGED local_queues
        /\ UNCHANGED writers /\ UNCHANGED queue
    BY ZenonT(60) DEF entryVars
  <1> QED
    BY ZenonT(60), <1>1 DEF EntryOK, Registered

(* The history, untouched.                                                 *)
LEMMA HistoryFrame ==
  ASSUME HistoryOK, UNCHANGED history
  PROVE  HistoryOK'
  BY ZenonT(60) DEF HistoryOK, history

(* A step that leaves heartbeat, target and history alone needs only the   *)
(* handlers' part and the main thread's.                                   *)
LEMMA HeartbeatAsleep ==
  ASSUME IInv, UNCHANGED <<hbVars, target, history>>, EntryOK', Registered', MainOK'
  PROVE  IInv'
  <1>1. RestOK' /\ PoolInv'
    <2>1. /\ phase' \in Phases /\ now' \in Nat
          /\ UNCHANGED <<channels, batch, changed_sessions, cs, board, backend>>
      BY ZenonT(60) DEF IInv, RestOK, hbVars
    <2> QED
      BY ZenonT(60), <2>1, HbFrame DEF IInv
  <1>2. HistoryOK'
    BY ZenonT(60), HistoryFrame DEF IInv
  <1>3. TargetOK'
    BY ZenonT(60) DEF IInv, TargetOK, hbVars
  <1> QED
    BY ZenonT(60), <1>1, <1>2, <1>3 DEF IInv

(* Steps of the handlers that leave the heartbeat alone.                   *)
LEMMA EntryOnlyKeeps ==
  ASSUME IInv, EntryOnly, EntryOK', Registered'
  PROVE  IInv'
  <1>1. MainOK'
    BY ZenonT(60) DEF IInv, EntryOnly, mainVars, MainOK
  <1>2. UNCHANGED <<hbVars, target, history>>
    BY ZenonT(60) DEF EntryOnly, mainVars
  <1> QED
    BY ZenonT(60), <1>1, <1>2, HeartbeatAsleep

(* CopyChannel::send of a request, by either kind of handler.              *)
LEMMA SendKeeps ==
  ASSUME IInv, NEW r \in Rids, SendRequest(r), EntryOK', Registered',
         UNCHANGED <<mainVars, history>>
  PROVE  IInv'
  <1>1. TtsRequestMsg(r) \in Messages
    BY ZenonT(60) DEF TtsRequestMsg, Messages
  <1>2. request_channel' \in Seq(Messages)
    BY SMT, SMTT(60), <1>1 DEF IInv, SendRequest, RestOK
  <1> QED
    BY ZenonT(60), <1>2 DEF IInv, SendRequest, mainVars, history, board,
                RestOK, PoolInv, MainOK, HistoryOK, TargetOK

(* The handler of SynthesizeStream, from the call to its return.           *)
LEMMA StreamKeepsIInv ==
  ASSUME IInv, NEW r \in StreamRids, StreamSend(r) \/ StreamHandler(r)
  PROVE  IInv'
  <1>a. r \in Rids /\ EntryOK /\ Registered
    BY DEF Rids, IInv
  <1>1. CASE StreamSend(r)
    <2>1. EntryOK'
      BY SMT, SMTT(60), <1>1, <1>a DEF StreamSend, SendRequest, Goto, EntryOK
    <2>2. Registered'
      BY SMT, SMTT(60), <1>1, <1>a DEF StreamSend, Goto, EntryOK, Registered
    <2> QED
      BY ZenonT(60), <1>1, <1>a, <2>1, <2>2, SendKeeps DEF StreamSend
  <1>2. CASE StreamRegisterQueue(r)
    <2>1. EntryOK' /\ EntryOnly
      BY ZenonT(60), <1>2, <1>a DEF StreamRegisterQueue, Goto, EntryOK
    <2>2. Registered'
      BY SMT, SMTT(60), <1>2, <1>a DEF StreamRegisterQueue, Goto, EntryOK, Registered
    <2> QED
      BY ZenonT(60), <2>1, <2>2, EntryOnlyKeeps
  <1>3. CASE StreamRegisterWriter(r)
    <2>1. EntryOK' /\ EntryOnly
      BY ZenonT(60), <1>3, <1>a DEF StreamRegisterWriter, Goto, EntryOK
    <2>2. Registered'
      BY SMT, SMTT(60), <1>3, <1>a DEF StreamRegisterWriter, Goto, EntryOK, Registered
    <2> QED
      BY <2>1, <2>2, EntryOnlyKeeps
  <1>4. CASE StreamPoll(r)
    <2>4. /\ rpc[r] = "polling" /\ queue' = [queue EXCEPT ![r] = <<>>]
          /\ UNCHANGED <<status, sent, local_queues, writers>> /\ EntryOnly
      BY ZenonT(60), <1>4 DEF StreamPoll
    <2>5. rpc' \in {rpc, [rpc EXCEPT ![r] = "leaving"]}
      BY ZenonT(60), <1>4 DEF StreamPoll
    <2>8. EntryOK'
      <3>1. rpc' \in [Rids -> {"new", "sent", "queued", "polling", "leaving", "reading", "done"}]
        BY ZenonT(60), <1>a, <2>5 DEF EntryOK
      <3>2. queue' \in [Rids -> Seq(ClientWrites)]
        BY SMT, SMTT(60), <1>a, <2>4 DEF EntryOK
      <3> QED
        BY ZenonT(60), <1>a, <2>4, <3>1, <3>2 DEF EntryOK
    <2>9. Registered'
      <3>1. CASE rpc' = rpc
        BY ZenonT(60), <1>a, <2>4, <3>1 DEF Registered
      <3>2. CASE rpc' = [rpc EXCEPT ![r] = "leaving"]
        BY SMT, SMTT(60), <1>a, <2>4, <3>2 DEF EntryOK, Registered
      <3> QED
        BY ZenonT(60), <2>5, <3>1, <3>2
    <2> QED
      BY ZenonT(60), <2>4, <2>8, <2>9, EntryOnlyKeeps
  <1>5. CASE StreamGiveUp(r)
    <2>1. EntryOK' /\ EntryOnly
      BY ZenonT(60), <1>5, <1>a DEF StreamGiveUp, Goto, EntryOK
    <2>2. Registered'
      BY SMT, SMTT(60), <1>5, <1>a DEF StreamGiveUp, Goto, EntryOK, Registered
    <2> QED
      BY <2>1, <2>2, EntryOnlyKeeps
  <1>6. CASE StreamLeave(r)
    <2>1. EntryOK' /\ EntryOnly
      BY ZenonT(60), <1>6, <1>a DEF StreamLeave, Goto, Return, EntryOK
    <2>2. Registered'
      BY SMT, SMTT(60), <1>6, <1>a DEF StreamLeave, Goto, EntryOK, Registered
    <2> QED
      BY <2>1, <2>2, EntryOnlyKeeps
  <1> QED
    BY ZenonT(60), <1>1, <1>2, <1>3, <1>4, <1>5, <1>6 DEF StreamHandler

(* A rejected call, and the handler of SynthesizeClient.                   *)
LEMMA BidiKeepsIInv ==
  ASSUME IInv,
         \/ \E r \in Rids : Reject(r)
         \/ \E r \in BidiRids : BidiOpen(r) \/ BidiRead(r) \/ BidiReturn(r)
  PROVE  IInv'
  <1>a. EntryOK /\ Registered /\ StreamRids \cap BidiRids = {}
    BY ZenonT(60), HeartbeatAssumption DEF IInv
  <1>1. ASSUME NEW r \in Rids, Reject(r) PROVE IInv'
    <2>1. EntryOK' /\ EntryOnly
      BY ZenonT(60), <1>1, <1>a DEF Reject, Unauth, Goto, Return, EntryOK
    <2>2. Registered'
      BY SMT, SMTT(60), <1>1, <1>a DEF Reject, Goto, EntryOK, Registered
    <2> QED
      BY ZenonT(60), <2>1, <2>2, EntryOnlyKeeps
  <1>2. ASSUME NEW r \in BidiRids, BidiOpen(r) PROVE IInv'
    <2>1. EntryOK' /\ EntryOnly
      BY ZenonT(60), <1>2, <1>a DEF BidiOpen, Goto, EntryOK, Rids
    <2>2. Registered'
      BY SMT, SMTT(60), <1>2, <1>a DEF BidiOpen, Goto, EntryOK, Registered
    <2> QED
      BY ZenonT(60), <2>1, <2>2, EntryOnlyKeeps
  <1>3. ASSUME NEW r \in BidiRids, BidiRead(r) PROVE IInv'
    <2>1. EntryOK' /\ r \in Rids
      BY SMT, SMTT(60), <1>3, <1>a DEF BidiRead, SendRequest, EntryOK, Rids
    <2>2. Registered'
      BY ZenonT(60), <1>3, <1>a DEF BidiRead, Registered
    <2> QED
      BY ZenonT(60), <1>3, <2>1, <2>2, SendKeeps DEF BidiRead
  <1>4. ASSUME NEW r \in BidiRids, BidiReturn(r) PROVE IInv'
    <2>1. EntryOK' /\ EntryOnly
      BY ZenonT(60), <1>4, <1>a DEF BidiReturn, Goto, Return, EntryOK, Rids
    <2>2. Registered'
      BY SMT, SMTT(60), <1>4, <1>a DEF BidiReturn, Goto, EntryOK, Registered
    <2> QED
      BY <2>1, <2>2, EntryOnlyKeeps
  <1> QED
    BY ZenonT(60), <1>1, <1>2, <1>3, <1>4

(* No step of the tick or of the jobs runs while a write is looked up.     *)
LEMMA TickIsNotDispatch ==
  ASSUME Tick \/ RunLocalJob \/ EndIteration
  PROVE  phase # "dispatch"
  BY ZenonT(60) DEF Tick, RunLocalJob, EndIteration, DrainRequests, DrainWsEvents, Handling,
         RequestDenied, RequestLocal, RequestReusesSession, RequestCreatesSession,
         RequestNoSession, HandleLocalComplete, HandleLocalFailed, HandleCancel, Response,
         HandleConnected, HandleTaskStarted, HandleAudioChunk, HandleTaskFinished,
         HandleTaskFailed, HandleDisconnected, BatchHandled, EmitCompleted, AllEmitted,
         EvolveCloses, EvolveRequests

(* The heartbeat thread: ticks, local jobs and its exit.                   *)
LEMMA TickKeepsIInv ==
  ASSUME IInv, HeartbeatTick \/ HeartbeatJobs \/ HeartbeatExit
  PROVE  IInv'
  <1>a. HbInv /\ RestOK /\ PoolInv /\ EntryOK /\ MainOK /\ HistoryOK /\ Registered /\ TargetOK
    BY ZenonT(60), HbInvParts DEF IInv
  <1>b. ASSUME HbInv', UNCHANGED <<entryVars, mainVars>>, HistoryOK', phase # "dispatch"
        PROVE  IInv'
    <2>1. RestOK' /\ PoolInv'
      BY ZenonT(60), <1>b, HbInvPartsNext
    <2>2. EntryOK' /\ MainOK' /\ Registered'
      BY ZenonT(60), <1>a, <1>b DEF entryVars, mainVars, EntryOK, MainOK, Registered
    <2>3. target' = "none"
      BY ZenonT(60), <1>a, <1>b DEF mainVars, TargetOK
    <2> QED
      BY ZenonT(60), <1>b, <2>1, <2>2, <2>3 DEF IInv, TargetOK
  <1>1. CASE HeartbeatTick
    <2>1. Tick /\ UNCHANGED <<entryVars, mainVars, answered, lost, dangling>>
      BY ZenonT(60), <1>1 DEF HeartbeatTick
    <2>2. HbInv'
      BY ZenonT(60), <1>a, <2>1, HeartbeatKeepsInv
    <2>3. accepted' \in [Rids -> Nat]
      <3>1. CASE Len(cs'.local_jobs) > Len(cs.local_jobs)
        <4>1. cs'.local_jobs \in Seq(Rids) /\ cs.local_jobs \in Seq(Rids)
          BY ZenonT(60), <1>a, <2>2 DEF HbInv, HbTypeOK, ChangeSets
        <4>2. Last(cs'.local_jobs) \in Rids
          BY SMT, SMTT(60), <3>1, <4>1 DEF Last
        <4>3. accepted' = [accepted EXCEPT ![Last(cs'.local_jobs)] = @ + 1]
          BY ZenonT(60), <1>1, <3>1 DEF HeartbeatTick
        <4> QED
          BY SMT, SMTT(60), <1>a, <4>2, <4>3 DEF HistoryOK
      <3>2. CASE ~(Len(cs'.local_jobs) > Len(cs.local_jobs))
        <4>1. accepted' = accepted
          BY ZenonT(60), <1>1, <3>2 DEF HeartbeatTick
        <4> QED
          BY ZenonT(60), <1>a, <4>1 DEF HistoryOK
      <3> QED
        BY ZenonT(60), <3>1, <3>2
    <2>4. HistoryOK'
      BY ZenonT(60), <1>a, <2>1, <2>3 DEF HistoryOK
    <2> QED
      BY ZenonT(60), <1>b, <2>1, <2>2, <2>4, TickIsNotDispatch
  <1>2. CASE HeartbeatJobs
    <2>1. RunLocalJob \/ EndIteration
      BY ZenonT(60), <1>2 DEF HeartbeatJobs
    <2>2. HbInv'
      BY ZenonT(60), <1>a, <2>1, HeartbeatKeepsInv
    <2>3. HistoryOK' /\ UNCHANGED <<entryVars, mainVars>>
      BY ZenonT(60), <1>2, <1>a DEF HeartbeatJobs, history, HistoryOK
    <2> QED
      BY ZenonT(60), <1>b, <2>1, <2>2, <2>3, TickIsNotDispatch
  <1>3. CASE HeartbeatExit
    <2>1. /\ phase # "dispatch" /\ phase' \in Phases /\ now' \in Nat
          /\ UNCHANGED <<channels, batch, changed_sessions, cs, board, backend>>
          /\ UNCHANGED <<entryVars, mainVars, history>>
      BY ZenonT(60), <1>3, <1>a DEF HeartbeatExit, RestOK, Phases
    <2>2. RestOK' /\ PoolInv' /\ HistoryOK'
      BY ZenonT(60), <1>a, <2>1, HbFrame, HistoryFrame
    <2>3. HbInv'
      BY ZenonT(60), <2>2, HbInvPartsNext
    <2> QED
      BY ZenonT(60), <1>b, <2>1, <2>2, <2>3
  <1> QED
    BY ZenonT(60), <1>1, <1>2, <1>3

(* dispatch_to_writers, under the lock and after it.                       *)
LEMMA DispatchKeepsIInv ==
  ASSUME IInv, LookUpWriter \/ DeliverWrite \/ EndDispatch
  PROVE  IInv'
  <1> DEFINE w == Head(cs.client_writes)
             r == w.rid
  <1>a. RestOK /\ PoolInv /\ EntryOK /\ MainOK /\ HistoryOK /\ Registered /\ TargetOK
    BY ZenonT(60) DEF IInv
  <1>b. cs.client_writes \in Seq(ClientWrites)
    BY ZenonT(60), <1>a DEF RestOK, ChangeSets
  <1>c. ASSUME cs.client_writes # <<>>
        PROVE  w \in ClientWrites /\ r \in Rids /\ Tail(cs.client_writes) \in Seq(ClientWrites)
    <2>1. w \in ClientWrites /\ Tail(cs.client_writes) \in Seq(ClientWrites)
      BY SMT, SMTT(60), <1>b, <1>c
    <2> HIDE DEF w
    <2> QED
      BY ZenonT(60), <2>1 DEF ClientWrites
  <1> HIDE DEF w, r
  <1>1. CASE LookUpWriter
    <2>1. /\ cs.client_writes # <<>> /\ phase = "dispatch"
          /\ target' = IF r \in local_queues THEN "queue"
                       ELSE IF r \in writers THEN "writer" ELSE "nobody"
          /\ lost' \in {lost, lost \cup {r}}
          /\ UNCHANGED <<hbVars, entryVars, g_stop, main_pc, missed, accepted, answered, dangling>>
      BY ZenonT(60), <1>1 DEF LookUpWriter, w, r
    <2>2. r \in StreamRids /\ r \in writers => r \in local_queues
      BY ZenonT(60), <1>a DEF Registered
    <2>3. target' = "writer" => r \in BidiRids
      BY ZenonT(60), <1>c, <2>1, <2>2 DEF Rids
    <2>4. MainOK' /\ HistoryOK'
      BY ZenonT(60), <1>a, <1>c, <2>1 DEF MainOK, HistoryOK
    <2>5. TargetOK'
      <3>1. phase = "dispatch" /\ cs.client_writes # <<>> /\ UNCHANGED <<phase, cs>>
        BY ZenonT(60), <2>1 DEF hbVars
      <3>2. Head(cs'.client_writes).rid = r
        BY ZenonT(60), <3>1 DEF w, r
      <3> QED
        BY ZenonT(60), <2>3, <3>1, <3>2 DEF TargetOK
    <2>6. RestOK' /\ PoolInv' /\ EntryOK' /\ Registered'
      BY ZenonT(60), <1>a, <2>1 DEF hbVars, board, channels, entryVars, RestOK, PoolInv,
         EntryOK, Registered
    <2> QED
      BY ZenonT(60), <2>4, <2>5, <2>6 DEF IInv
  <1>2. CASE DeliverWrite
    <2>1. /\ phase = "dispatch" /\ target # "none" /\ target' = "none"
          /\ cs' = [cs EXCEPT !.client_writes = Tail(@)]
          /\ queue' = IF target = "queue" THEN [queue EXCEPT ![r] = Append(@, w)] ELSE queue
          /\ dangling' \in {dangling, dangling \cup {r}}
          /\ writers' = IF target = "writer" /\ w.is_final THEN writers \ {r} ELSE writers
          /\ answered' \in {answered, [answered EXCEPT ![r] = @ + 1]}
          /\ UNCHANGED <<phase, channels, batch, changed_sessions, board, backend, now,
                         rpc, status, sent, local_queues, g_stop, main_pc, missed, accepted, lost>>
      <3>1. dangling' = dangling \/ dangling' = dangling \cup {r}
        BY ZenonT(60), <1>2 DEF DeliverWrite, w, r
      <3>2. answered' = answered \/ answered' = [answered EXCEPT ![r] = @ + 1]
        BY ZenonT(60), <1>2 DEF DeliverWrite, w, r
      <3> QED
        BY ZenonT(60), <1>2, <3>1, <3>2 DEF DeliverWrite, w, r
    <2>2. w \in ClientWrites /\ r \in Rids /\ Tail(cs.client_writes) \in Seq(ClientWrites)
      BY ZenonT(60), <1>a, <1>c, <2>1 DEF TargetOK
    <2>3. target = "writer" => r \notin StreamRids
      BY ZenonT(60), <1>a, HeartbeatAssumption DEF TargetOK, w, r
    <2>4. RestOK' /\ PoolInv'
      <3>1. cs' \in ChangeSets
        BY ZenonT(60), <1>a, <2>1, <2>2 DEF RestOK, ChangeSets
      <3> QED
        BY ZenonT(60), <1>a, <2>1, <3>1 DEF RestOK, PoolInv, channels, board
    <2>5. EntryOK'
      <3>1. Append(queue[r], w) \in Seq(ClientWrites)
        BY SMT, SMTT(60), <1>a, <2>2 DEF EntryOK
      <3>2. queue' \in [Rids -> Seq(ClientWrites)]
        BY ZenonT(60), <1>a, <2>1, <2>2, <3>1 DEF EntryOK
      <3>3. writers' \subseteq Rids
        BY ZenonT(60), <1>a, <2>1 DEF EntryOK
      <3> QED
        BY ZenonT(60), <1>a, <2>1, <3>2, <3>3 DEF EntryOK
    <2>6. Registered'
      <3>1. \A x \in StreamRids : x \in writers' <=> x \in writers
        BY ZenonT(60), <2>1, <2>3
      <3> QED
        BY ZenonT(60), <1>a, <2>1, <3>1 DEF Registered
    <2>7. HistoryOK'
      <3>1. answered' \in [Rids -> Nat]
        BY SMT, SMTT(60), <1>a, <2>1, <2>2 DEF HistoryOK
      <3> QED
        BY ZenonT(60), <1>a, <2>1, <2>2, <3>1 DEF HistoryOK
    <2>8. MainOK' /\ TargetOK'
      BY ZenonT(60), <1>a, <2>1 DEF MainOK, TargetOK
    <2> QED
      BY ZenonT(60), <2>4, <2>5, <2>6, <2>7, <2>8 DEF IInv
  <1>3. CASE EndDispatch
    <2>1. /\ cs.client_writes = <<>> /\ phase' \in Phases /\ now' \in Nat
          /\ UNCHANGED <<channels, batch, changed_sessions, cs, board, backend>>
          /\ UNCHANGED <<entryVars, mainVars, history>>
      BY ZenonT(60), <1>3, <1>a DEF EndDispatch, RestOK, Phases
    <2>2. RestOK' /\ PoolInv' /\ EntryOK' /\ Registered' /\ HistoryOK'
      BY ZenonT(60), <1>a, <2>1, HbFrame, EntryFrame, HistoryFrame
    <2>3. MainOK' /\ TargetOK'
      BY ZenonT(60), <1>a, <2>1 DEF mainVars, MainOK, TargetOK
    <2> QED
      BY ZenonT(60), <2>2, <2>3 DEF IInv
  <1> QED
    BY <1>1, <1>2, <1>3

(* The main thread, the signal and the clock.                              *)
LEMMA MainKeepsIInv ==
  ASSUME IInv, MainThread \/ StopMissesWorker \/ MissedWorkerWakes
               \/ Signal \/ AdvanceClock \/ Finished \/ UNCHANGED vars
  PROVE  IInv'
  <1>a. EntryOK /\ MainOK /\ Registered
    BY ZenonT(60) DEF IInv
  <1>1. CASE MainThread \/ MissedWorkerWakes
    <2>1. /\ main_pc' \in {"running", "shutdown", "reactor", "join", "bus", "bye"}
          /\ UNCHANGED <<g_stop, missed>>
          /\ UNCHANGED entryVars /\ UNCHANGED <<hbVars, target, history>>
      BY ZenonT(60), <1>1 DEF MainThread, MainSeesStop, MainServerDown, MainReactorStopped,
           MainJoins, MainBusStopped, MissedWorkerWakes, MainGoto
    <2>2. MainOK'
      BY ZenonT(60), <1>a, <2>1 DEF MainOK
    <2> QED
      BY ZenonT(60), <1>a, <2>1, <2>2, EntryFrame, HeartbeatAsleep
  <1>2. CASE StopMissesWorker
    <2>1. /\ main_pc \in {"reactor", "bus"} /\ missed' = missed \cup {main_pc}
          /\ UNCHANGED <<g_stop, main_pc>>
          /\ UNCHANGED entryVars /\ UNCHANGED <<hbVars, target, history>>
      BY ZenonT(60), <1>2 DEF StopMissesWorker
    <2>2. MainOK'
      BY ZenonT(60), <1>a, <2>1 DEF MainOK
    <2> QED
      BY ZenonT(60), <1>a, <2>1, <2>2, EntryFrame, HeartbeatAsleep
  <1>3. CASE Signal
    <2>1. UNCHANGED entryVars /\ UNCHANGED <<hbVars, target, history>>
      BY ZenonT(60), <1>3 DEF Signal
    <2>2. MainOK'
      BY ZenonT(60), <1>3, <1>a DEF Signal, MainOK
    <2> QED
      BY ZenonT(60), <1>a, <2>1, <2>2, EntryFrame, HeartbeatAsleep
  <1>4. CASE AdvanceClock
    <2>1. /\ phase' \in Phases /\ now' \in Nat /\ UNCHANGED phase
          /\ UNCHANGED <<channels, batch, changed_sessions, cs, board, backend>>
          /\ UNCHANGED <<entryVars, mainVars, history>>
      BY SMT, SMTT(60), <1>4 DEF AdvanceClock, IInv, RestOK
    <2>2. RestOK' /\ PoolInv' /\ EntryOK' /\ Registered' /\ HistoryOK'
      BY ZenonT(60), <2>1, HbFrame, EntryFrame, HistoryFrame DEF IInv
    <2>3. MainOK' /\ TargetOK'
      BY ZenonT(60), <2>1 DEF IInv, mainVars, MainOK, TargetOK
    <2> QED
      BY ZenonT(60), <2>2, <2>3 DEF IInv
  <1>5. CASE Finished \/ UNCHANGED vars
    <2>1. /\ UNCHANGED entryVars /\ UNCHANGED mainVars
          /\ UNCHANGED <<hbVars, target, history>>
      BY ZenonT(60), <1>5 DEF Finished, vars, mainVars
    <2>2. MainOK'
      BY ZenonT(60), <1>a, <2>1 DEF MainOK, mainVars
    <2> QED
      BY ZenonT(60), <1>a, <2>1, <2>2, EntryFrame, HeartbeatAsleep
  <1> QED
    BY ZenonT(60), <1>1, <1>2, <1>3, <1>4, <1>5

(* The inductive step.                                                     *)
LEMMA NextIInv == IInv /\ [Next]_vars => IInv'
  BY ZenonT(60), StreamKeepsIInv, BidiKeepsIInv, TickKeepsIInv, DispatchKeepsIInv, MainKeepsIInv
     DEF Next, HeartbeatThread

-----------------------------------------------------------------------------
(* The invariant holds in every state of the server.                       *)
LEMMA ServerInvariant == Spec => []IInv
  BY InitIInv, NextIInv, PTL DEF Spec

(* The server's state keeps its types in every interleaving of handlers,   *)
(* heartbeat and main thread; a write always names a call.                 *)
THEOREM ServerTypes == Spec => []TypeOK
  <1>1. IInv => TypeOK
    BY ZenonT(60), HbInvParts DEF IInv, TypeOK, HbInv, EntryOK, MainOK, HistoryOK
  <1> QED
    BY <1>1, ServerInvariant, PTL

(* dispatch_to_writers never uses the registered ServerWriter of a         *)
(* SynthesizeStream call: its handler registers the queue first and erases *)
(* both under one lock, and the look-up prefers the queue.                 *)
THEOREM ServerStreamWrites == Spec => []StreamWritesGoThroughQueue
  <1>1. IInv => StreamWritesGoThroughQueue
    BY ZenonT(60) DEF IInv, TargetOK, StreamWritesGoThroughQueue
  <1> QED
    BY <1>1, ServerInvariant, PTL

(* A SynthesizeStream call that has returned is in neither map.            *)
THEOREM ServerNothingLeft == Spec => []NothingLeftRegistered
  <1>1. IInv => NothingLeftRegistered
    BY ZenonT(60) DEF IInv, Registered, NothingLeftRegistered
  <1> QED
    BY <1>1, ServerInvariant, PTL

-----------------------------------------------------------------------------
(* The books of the server.  main.cpp connects no upstream transport and   *)
(* sends no Cancel, so a request leaves the store only with an answer.     *)

\* SynthesizeClient calls name no engine: they go to the local one, unless
\* it is missing or not preferred.
BidiLocal == BidiRids = {} \/ (LocalReady /\ PreferLocal)

ServerMsgs == [type : {"TtsRequest", "LocalComplete", "LocalFailed"}, rid : Rids]

\* What the channels carry, and what the store never holds.
Wired ==
  /\ request_channel \in Seq(ServerMsgs)
  /\ batch \in Seq(ServerMsgs)
  /\ ws_event_channel = <<>>
  /\ CollectTerminal(pending) = {}

\* A stream call sends its one request when it starts.
SentOnce ==
  \A r \in StreamRids : sent[r] <= 1 /\ (rpc[r] = "new" => sent[r] = 0)

Exact ==
  /\ WorkOK
  /\ Load = inflight /\ inflight <= HighWatermark
  /\ \A r \in Rids : Owed(r) <= sent[r]
  /\ BidiRids \subseteq LocalRids

(* Nothing wires an upstream event or a cancellation to the heartbeat.     *)
LEMMA TickWired ==
  ASSUME RestOK, WorkOK, Wired, Tick \/ RunLocalJob \/ EndIteration
  PROVE  Wired'
  <1>a. pending \in [DOMAIN pending -> PendingRequests(Audio)]
    BY DEF RestOK
  <1>b. request_channel \in Seq(ServerMsgs) /\ batch \in Seq(ServerMsgs) /\ ws_event_channel = <<>>
    BY DEF Wired
  <1>c. ASSUME NEW type, Handling(type)
        PROVE  /\ type \in {"TtsRequest", "LocalComplete", "LocalFailed"}
               /\ request_channel' \in Seq(ServerMsgs) /\ batch' \in Seq(ServerMsgs)
               /\ ws_event_channel' = <<>>
    <2>1. batch # <<>> /\ Head(batch).type = type /\ batch' = Tail(batch) /\ UNCHANGED channels
      BY <1>c DEF Handling
    <2>2. Head(batch) \in ServerMsgs /\ Tail(batch) \in Seq(ServerMsgs)
      BY <1>b, <2>1
    <2> QED
      BY ZenonT(60), <1>b, <2>1, <2>2 DEF ServerMsgs, channels
  <1>d. ASSUME NEW S, NEW x, pending' = SetPendingState(pending, S, x), x = "Streaming"
        PROVE  CollectTerminal(pending') = {}
    <2>1. \A r \in DOMAIN pending : pending'[r] \in {pending[r], [pending[r] EXCEPT !.state = x]}
      BY <1>d DEF SetPendingState
    <2>2. DOMAIN pending' = DOMAIN pending
      BY ZenonT(60), <1>d DEF SetPendingState
    <2>3. \A r \in DOMAIN pending : pending[r].state \notin TerminalStates
      BY DEF Wired, CollectTerminal
    <2>4. \A r \in DOMAIN pending : [pending[r] EXCEPT !.state = x].state = x
      BY ZenonT(60), <1>a DEF PendingRequests
    <2>5. x \notin TerminalStates
      BY <1>d DEF TerminalStates
    <2> QED
      BY ZenonT(60), <2>1, <2>2, <2>3, <2>4, <2>5 DEF CollectTerminal
  <1>e. ASSUME NEW r, NEW sid, NEW x, pending' = PendingAdd(pending, r, PendingRequest(sid, x)),
               x \in {"Streaming", "AwaitingSession"}
        PROVE  CollectTerminal(pending') = {}
    <2>1. \A q \in DOMAIN pending' : \/ q \in DOMAIN pending /\ pending'[q] = pending[q]
                                     \/ pending'[q].state = x
      BY <1>e DEF PendingAdd, PendingRequest
    <2>2. x \notin TerminalStates
      BY <1>e DEF TerminalStates
    <2> QED
      BY ZenonT(60), <2>1, <2>2 DEF CollectTerminal, Wired
  <1>f. ASSUME NEW S, pending' = PendingRemove(pending, S)
        PROVE  CollectTerminal(pending') = {}
    <2>1. \A q \in DOMAIN pending' : q \in DOMAIN pending /\ pending'[q] = pending[q]
      BY <1>f DEF PendingRemove
    <2> QED
      BY ZenonT(60), <2>1 DEF CollectTerminal, Wired
  <1>g. ASSUME pending' = pending PROVE CollectTerminal(pending') = {}
    BY ZenonT(60), <1>g DEF Wired
  <1>1. CASE DrainRequests
    <2>1. batch' = request_channel /\ request_channel' = <<>> /\ UNCHANGED <<ws_event_channel, pending>>
      BY ZenonT(60), <1>1 DEF DrainRequests, board
    <2> QED
      BY SMT, SMTT(60), <1>b, <1>g, <2>1 DEF Wired
  <1>2. CASE DrainWsEvents
    <2>1. /\ batch' = batch \o ws_event_channel /\ ws_event_channel' = <<>>
          /\ UNCHANGED <<request_channel, pending>>
      BY <1>2 DEF DrainWsEvents, board
    <2>2. batch' = batch
      BY SMT, SMTT(60), <1>b, <2>1
    <2> QED
      BY ZenonT(60), <1>b, <1>g, <2>1, <2>2 DEF Wired
  <1>3. CASE RequestDenied \/ RequestNoSession
    <2>1. Handling("TtsRequest") /\ pending' = pending
      BY ZenonT(60), <1>3 DEF RequestDenied, RequestNoSession
    <2> QED
      BY ZenonT(60), <1>c, <1>g, <2>1 DEF Wired
  <1>4. CASE RequestLocal
    <2>1. Handling("TtsRequest")
      BY ZenonT(60), <1>4 DEF RequestLocal
    <2>2. CollectTerminal(pending') = {}
      <3>1. \E r : \/ pending' = SetPendingState(pending, {r}, "Streaming")
                    \/ pending' = PendingAdd(pending, r, PendingRequest(NoSession, "Streaming"))
        BY ZenonT(60), <1>4 DEF RequestLocal
      <3> QED
        BY ZenonT(60), <3>1, <1>d, <1>e
    <2> QED
      BY ZenonT(60), <1>c, <2>1, <2>2 DEF Wired
  <1>5. CASE RequestReusesSession \/ RequestCreatesSession
    <2>1. Handling("TtsRequest")
      BY ZenonT(60), <1>5 DEF RequestReusesSession, RequestCreatesSession
    <2>2. \E r, sid : pending' = PendingAdd(pending, r, PendingRequest(sid, "AwaitingSession"))
      BY ZenonT(60), <1>5 DEF RequestReusesSession, RequestCreatesSession, BindTo
    <2> QED
      BY ZenonT(60), <1>c, <1>e, <2>1, <2>2 DEF Wired
  <1>6. CASE HandleLocalComplete \/ HandleLocalFailed
    <2>1. \E type : Handling(type)
      BY ZenonT(60), <1>6 DEF HandleLocalComplete, HandleLocalFailed
    <2>2. \E S : pending' = PendingRemove(pending, S)
      BY ZenonT(60), <1>6 DEF HandleLocalComplete, HandleLocalFailed, LocalDone
    <2> QED
      BY ZenonT(60), <1>c, <1>f, <2>1, <2>2 DEF Wired
  <1>7. CASE HandleCancel \/ HandleConnected \/ HandleTaskStarted \/ HandleAudioChunk
             \/ HandleTaskFinished \/ HandleTaskFailed \/ HandleDisconnected
    <2>1. Handling("Cancel") \/ Handling("TtsResponse")
      BY ZenonT(60), <1>7 DEF HandleCancel, HandleConnected, HandleTaskStarted, HandleAudioChunk,
                  HandleTaskFinished, HandleTaskFailed, HandleDisconnected, Response
    <2> QED
      BY SMT, SMTT(60), <1>c, <2>1
  <1>8. CASE \/ BatchHandled \/ AllEmitted \/ EvolveRequests
             \/ (\E r \in Rids : EmitCompleted(r)) \/ (\E id \in Ids(pool) : EvolveCloses(id))
    <2>1. UNCHANGED <<channels, batch>>
      BY ZenonT(60), <1>8 DEF BatchHandled, AllEmitted, EvolveRequests, EmitCompleted, EvolveCloses
    <2>2. pending' = pending \/ \E S : pending' = PendingRemove(pending, S)
      BY ZenonT(60), <1>8 DEF BatchHandled, AllEmitted, EvolveRequests, EmitCompleted, EvolveCloses, board
    <2> QED
      BY ZenonT(60), <1>b, <1>f, <1>g, <2>1, <2>2 DEF Wired, channels
  <1>9. CASE RunLocalJob
    <2>1. Jobs # <<>> /\ Jobs \in Seq(LocalRids) /\ UNCHANGED <<batch, pending, ws_event_channel>>
      BY ZenonT(60), <1>9 DEF RunLocalJob, WorkOK, QueuesOK, Jobs, board
    <2> DEFINE h == Head(Jobs)
    <2>2. h \in Rids
      BY SMT, SMTT(60), <2>1 DEF LocalRids
    <2>3. /\ LocalSynthCompleteMsg(h) \in ServerMsgs /\ LocalSynthFailedMsg(h) \in ServerMsgs
      BY ZenonT(60), <2>2 DEF ServerMsgs, LocalSynthCompleteMsg, LocalSynthFailedMsg
    <2>4. PICK m \in ServerMsgs : request_channel' = Append(request_channel, m)
      BY ZenonT(60), <1>9, <2>3 DEF RunLocalJob, Jobs
    <2> QED
      BY SMT, SMTT(60), <1>b, <1>g, <2>1, <2>4 DEF Wired
  <1>10. CASE EndIteration
    <2>1. UNCHANGED <<channels, batch, pending>>
      BY ZenonT(60), <1>10 DEF EndIteration, board
    <2> QED
      BY ZenonT(60), <1>b, <1>g, <2>1 DEF Wired, channels
  <1> QED
    BY ZenonT(60), <1>1, <1>2, <1>3, <1>4, <1>5, <1>6, <1>7, <1>8, <1>9, <1>10 DEF Tick

(* The tick and the local jobs: a request that is taken on replaces no     *)
(* record, because the record would be a second answer owed to it.         *)
LEMMA HeartbeatExact ==
  ASSUME RestOK, RestOK', PoolInv, EntryOK, Exact, Wired, SentOnce, sent' = sent,
         Tick \/ RunLocalJob \/ EndIteration
  PROVE  Exact'
  <1>a. WorkOK /\ Load = inflight /\ inflight <= HighWatermark /\ BidiRids \subseteq LocalRids
    BY ZenonT(60) DEF Exact
  <1>b. inflight \in Nat /\ HighWatermark \in Nat /\ Modulus \in Nat /\ HighWatermark < Modulus
    BY SMT, SMTT(60), HeartbeatAssumption DEF RestOK
  <1>c. LocalRids' = LocalRids
    BY ZenonT(60), FlowFixed
  <1>1. WorkOK'
    BY ZenonT(60), <1>a, WorkKept
  <1>2. ASSUME Handling("TtsRequest"), Head(batch).rid \in Waiting PROVE FALSE
    <2>1. Head(batch) \in Messages /\ Head(batch).type = "TtsRequest"
      BY ZenonT(60), <1>2, HandlingTypes
    <2>2. PICK r \in Rids : r = Head(batch).rid
      BY ZenonT(60), <2>1 DEF Messages
    <2>3. Head(batch) = TtsRequestMsg(r)
      BY ZenonT(60), <2>1, <2>2 DEF Messages, TtsRequestMsg
    <2>4. r \in StreamRids /\ r \in Waiting
      BY ZenonT(60), <1>2, <1>a, <2>2, WaitingSet DEF Rids
    <2> DEFINE q == Queued(TokensOf(r))
               o == Count(Jobs, {r})
               f == Count(Writes, FinalsTo(r))
    <2>5. /\ q \in Nat /\ o \in Nat /\ f \in Nat /\ QueuesOK
          /\ \A m \in TokensOf(r) : m.type # "TtsResponse"
      BY ZenonT(60), <1>a, OwedParts DEF WorkOK
    <2>6. Owed(r) = q + o + f + 1
      BY ZenonT(60), <2>4 DEF Owed
    <2> DEFINE q2 == Queued(TokensOf(r))'
    <2>7. \A type : Handling(type) =>
            q = q2 + (IF Head(batch) \in TokensOf(r) THEN 1 ELSE 0) /\ q2 \in Nat
      BY ZenonT(60), <2>5, QueuedCounts
    <2>8. Head(batch) \in TokensOf(r)
      BY ZenonT(60), <2>3 DEF TokensOf
    <2>9. Owed(r) <= sent[r] /\ sent[r] <= 1 /\ sent[r] \in Nat
      BY ZenonT(60), <2>4 DEF Exact, SentOnce, EntryOK
    <2> HIDE DEF q, o, f, q2
    <2>10. q = q2 + 1 /\ q2 \in Nat
      BY ZenonT(60), <1>2, <2>7, <2>8
    <2> QED
      BY SMT, SMTT(60), <2>5, <2>6, <2>9, <2>10
  <1>3. Load' = inflight' /\ inflight' <= HighWatermark
    <2> DEFINE l  == Load
               l2 == Load'
    <2>1. /\ l \in Nat
          /\ \/ inflight' = inflight /\ l2 = l
             \/ Admit /\ IncInflight /\ l2 = l + 1
             \/ DecInflight /\ l >= 1 /\ l2 = l - 1
      BY ZenonT(60), <1>a, <1>2, TickLoad DEF Wired
    <2>2. l = inflight
      BY ZenonT(60), <1>a
    <2> HIDE DEF l, l2
    <2>3. CASE inflight' = inflight /\ l2 = l
      BY ZenonT(60), <1>a, <1>b, <2>2, <2>3 DEF l2
    <2>4. CASE Admit /\ IncInflight /\ l2 = l + 1
      <3>1. inflight + 1 \in 0 .. Modulus - 1 /\ inflight + 1 <= HighWatermark
        BY SMT, SMTT(60), <1>b, <2>4 DEF Admit
      <3>2. inflight' = inflight + 1
        BY ZenonT(60), <2>4, <3>1, ModSmall DEF IncInflight
      <3> QED
        BY ZenonT(60), <1>b, <2>2, <2>4, <3>1, <3>2 DEF l2
    <2>5. CASE DecInflight /\ l >= 1 /\ l2 = l - 1
      <3>1. inflight - 1 \in 0 .. Modulus - 1
        BY SMT, SMTT(60), <1>a, <1>b, <2>2, <2>5
      <3>2. inflight' = inflight - 1
        BY ZenonT(60), <2>5, <3>1, ModSmall DEF DecInflight
      <3> QED
        BY SMT, SMTT(60), <1>a, <1>b, <2>2, <2>5, <3>2 DEF l2
    <2> QED
      BY ZenonT(60), <2>1, <2>3, <2>4, <2>5
  <1>4. ASSUME NEW r \in Rids PROVE Owed(r)' <= sent'[r]
    <2> DEFINE o  == Owed(r)
               o2 == Owed(r)'
    <2>1. o2 <= o /\ o \in Nat
      BY ZenonT(60), <1>a, TickOwes, OwedParts DEF WorkOK
    <2>2. o2 \in Nat
      BY ZenonT(60), <1>1, WorkTypesNext
    <2>3. o <= sent[r] /\ sent[r] \in Nat
      BY ZenonT(60) DEF Exact, EntryOK
    <2> HIDE DEF o, o2
    <2>4. o2 <= sent[r]
      BY SMT, SMTT(60), <2>1, <2>2, <2>3
    <2> QED
      BY ZenonT(60), <2>4 DEF o2
  <1> QED
    BY ZenonT(60), <1>a, <1>c, <1>1, <1>3, <1>4 DEF Exact

(* A handler sends a request.                                              *)
LEMMA SendExact ==
  ASSUME RestOK, EntryOK, Exact, Wired, NEW x \in Rids, SendRequest(x)
  PROVE  Exact' /\ Wired'
  <1> DEFINE m == TtsRequestMsg(x)
  <1>1. /\ request_channel' = Append(request_channel, m)
        /\ UNCHANGED <<phase, ws_event_channel, batch, cs, pool, pending, backend, inflight>>
        /\ sent' = [sent EXCEPT ![x] = @ + 1]
    BY DEF SendRequest, board
  <1>2. /\ WorkOK' /\ Load' = Load
        /\ \A r \in Rids : Owed(r)' = Owed(r) + (IF m = TtsRequestMsg(r) THEN 1 ELSE 0)
    BY ZenonT(60), <1>1, SendWork DEF Exact
  <1>3. ASSUME NEW r \in Rids PROVE Owed(r)' <= sent'[r]
    <2> DEFINE o  == Owed(r)
               o2 == Owed(r)'
    <2>1. o <= sent[r] /\ sent[r] \in Nat /\ sent \in [Rids -> Nat]
      BY DEF Exact, EntryOK
    <2>2. o \in Nat
      BY ZenonT(60), OwedParts DEF Exact, WorkOK
    <2>3. m = TtsRequestMsg(r) <=> r = x
      BY ZenonT(60) DEF TtsRequestMsg
    <2>4. o2 = o + (IF r = x THEN 1 ELSE 0)
      BY ZenonT(60), <1>2, <2>3
    <2> HIDE DEF o, o2
    <2>5. sent'[r] = sent[r] + (IF r = x THEN 1 ELSE 0)
      BY SMT, SMTT(60), <1>1, <2>1
    <2>6. o2 <= sent'[r]
      BY SMT, SMTT(60), <2>1, <2>2, <2>4, <2>5
    <2> QED
      BY ZenonT(60), <2>6 DEF o2
  <1>4. LocalRids' = LocalRids
    BY ZenonT(60), <1>1, LocalRidsFixed
  <1>5. Exact'
    BY ZenonT(60), <1>1, <1>2, <1>3, <1>4 DEF Exact
  <1>6. Wired'
    <2>1. m \in ServerMsgs
      BY ZenonT(60) DEF ServerMsgs, TtsRequestMsg
    <2> QED
      BY SMT, SMTT(60), <1>1, <2>1 DEF Wired
  <1> QED
    BY ZenonT(60), <1>5, <1>6

(* A write leaves the ChangeSet, or nothing of the heartbeat changes but   *)
(* its phase and the clock.                                                *)
LEMMA OthersExact ==
  ASSUME RestOK, RestOK', EntryOK, Exact, Wired,
         UNCHANGED <<channels, batch, board, backend, sent, Jobs>>,
         Writes' = Writes \/ (Writes # <<>> /\ Writes' = Tail(Writes)),
         phase' = phase \/ batch = <<>>
  PROVE  Exact' /\ Wired'
  <1>1. UNCHANGED <<request_channel, ws_event_channel, batch, pool, pending, inflight, backend, Jobs>>
    BY ZenonT(60) DEF channels, board
  <1>2. ws_event_channel' \in Seq(WsSide)
    BY <1>1 DEF Exact, WorkOK, QueuesOK
  <1>3. /\ WorkOK' /\ Load' = Load
        /\ \A r \in Rids : Writes' = Writes => Owed(r)' = Owed(r)
        /\ \A r \in Rids : Count(Writes', FinalsTo(r)) \in Nat =>
             Owed(r)' + Count(Writes, FinalsTo(r)) = Owed(r) + Count(Writes', FinalsTo(r))
    BY ZenonT(60), <1>1, <1>2, KeepWork DEF Exact
  <1>4. ASSUME NEW r \in Rids PROVE Owed(r)' <= sent'[r]
    <2> DEFINE o  == Owed(r)
               o2 == Owed(r)'
               f  == Count(Writes, FinalsTo(r))
               f2 == Count(Writes', FinalsTo(r))
    <2>1. o \in Nat /\ f \in Nat
      BY ZenonT(60), OwedParts DEF Exact, WorkOK
    <2>2. o2 \in Nat
      BY ZenonT(60), <1>3, WorkTypesNext
    <2>3. o <= sent[r] /\ sent[r] \in Nat /\ sent' = sent
      BY ZenonT(60) DEF Exact, EntryOK
    <2>4. o2 <= o
      <3>1. CASE Writes' = Writes
        <4>1. o2 = o
          BY ZenonT(60), <1>3, <3>1
        <4> QED
          BY SMT, SMTT(60), <2>1, <4>1
      <3>2. CASE Writes # <<>> /\ Writes' = Tail(Writes)
        <4>1. Writes \in Seq(ClientWrites) /\ Tail(Writes) \in Seq(ClientWrites)
          BY <3>2 DEF RestOK, ChangeSets, Writes
        <4>2. f2 \in Nat
          BY ZenonT(60), <3>2, <4>1, CountType
        <4>3. f = f2 + (IF Head(Writes) \in FinalsTo(r) THEN 1 ELSE 0)
          BY ZenonT(60), <3>2, <4>1, CountTail
        <4>4. o2 + f = o + f2
          BY ZenonT(60), <1>3, <4>2
        <4> HIDE DEF o, o2, f, f2
        <4> QED
          BY SMT, SMTT(60), <2>1, <2>2, <4>2, <4>3, <4>4
      <3> QED
        BY ZenonT(60), <3>1, <3>2
    <2> HIDE DEF o, o2
    <2>5. o2 <= sent'[r]
      BY SMT, SMTT(60), <2>1, <2>2, <2>3, <2>4
    <2> QED
      BY ZenonT(60), <2>5 DEF o2
  <1>5. LocalRids' = LocalRids
    BY ZenonT(60), <1>1, LocalRidsFixed
  <1>6. Exact'
    BY ZenonT(60), <1>1, <1>3, <1>4, <1>5 DEF Exact
  <1>7. Wired'
    BY ZenonT(60), <1>1 DEF Wired
  <1> QED
    BY ZenonT(60), <1>6, <1>7

(* Only StreamSend sends for a stream call, and it leaves "new" for good.  *)
LEMMA NextSentOnce == IInv /\ SentOnce /\ [Next]_vars => SentOnce'
  <1> SUFFICES ASSUME IInv, SentOnce, [Next]_vars PROVE SentOnce'
    BY ZenonT(60)
  <1>a. EntryOK /\ StreamRids \cap BidiRids = {} /\ \A r \in StreamRids : r \in Rids
    BY ZenonT(60), HeartbeatAssumption DEF IInv, Rids
  <1>b. ASSUME sent' = sent, NEW r \in Rids, NEW x, x # "new", rpc' = rpc \/ rpc' = [rpc EXCEPT ![r] = x]
        PROVE  SentOnce'
    BY ZenonT(60), <1>a, <1>b DEF SentOnce, EntryOK
  <1>c. ASSUME UNCHANGED entryVars PROVE SentOnce'
    BY ZenonT(60), <1>c DEF SentOnce, entryVars
  <1>1. ASSUME NEW r \in Rids, Reject(r) PROVE SentOnce'
    BY ZenonT(60), <1>1, <1>b DEF Reject, Goto
  <1>2. ASSUME NEW r \in StreamRids, StreamSend(r) PROVE SentOnce'
    <2>1. /\ rpc[r] = "new" /\ rpc' = [rpc EXCEPT ![r] = "sent"]
          /\ sent' = [sent EXCEPT ![r] = @ + 1]
      BY ZenonT(60), <1>2 DEF StreamSend, Goto, SendRequest
    <2>2. sent[r] = 0 /\ r \in Rids
      BY ZenonT(60), <1>a, <2>1 DEF SentOnce
    <2> QED
      BY SMT, SMTT(60), <1>a, <2>1, <2>2 DEF SentOnce, EntryOK
  <1>3. ASSUME NEW r \in StreamRids, StreamHandler(r) PROVE SentOnce'
    <2>1. r \in Rids
      BY ZenonT(60), <1>a
    <2>2. CASE StreamPoll(r)
      <3>1. sent' = sent /\ (rpc' = rpc \/ rpc' = [rpc EXCEPT ![r] = "leaving"])
        BY ZenonT(60), <2>2 DEF StreamPoll
      <3> QED
        BY ZenonT(60), <1>b, <2>1, <3>1
    <2>3. CASE StreamRegisterQueue(r) \/ StreamRegisterWriter(r) \/ StreamGiveUp(r) \/ StreamLeave(r)
      BY ZenonT(60), <1>b, <2>1, <2>3 DEF StreamRegisterQueue, StreamRegisterWriter, StreamGiveUp, StreamLeave, Goto
    <2> QED
      BY ZenonT(60), <1>3, <2>2, <2>3 DEF StreamHandler
  <1>4. ASSUME NEW r \in BidiRids, BidiOpen(r) \/ BidiReturn(r) PROVE SentOnce'
    <2>1. r \in Rids
      BY ZenonT(60) DEF Rids
    <2> QED
      BY ZenonT(60), <1>4, <1>b, <2>1 DEF BidiOpen, BidiReturn, Goto
  <1>5. ASSUME NEW r \in BidiRids, BidiRead(r) PROVE SentOnce'
    <2>1. rpc' = rpc /\ sent' = [sent EXCEPT ![r] = @ + 1]
      BY ZenonT(60), <1>5 DEF BidiRead, SendRequest
    <2> QED
      BY ZenonT(60), <1>a, <2>1 DEF SentOnce, EntryOK
  <1>6. CASE HeartbeatThread
    <2>1. UNCHANGED <<rpc, sent>>
      BY ZenonT(60), <1>6 DEF HeartbeatThread, HeartbeatTick, HeartbeatJobs, HeartbeatExit, LookUpWriter,
                  DeliverWrite, EndDispatch, entryVars
    <2> QED
      BY ZenonT(60), <2>1 DEF SentOnce
  <1>7. CASE MainThread \/ StopMissesWorker \/ MissedWorkerWakes
               \/ Signal \/ AdvanceClock \/ Finished \/ UNCHANGED vars
    BY ZenonT(60), <1>7, <1>c DEF MainThread, MainSeesStop, MainServerDown, MainReactorStopped,
                      MainJoins, MainBusStopped, MissedWorkerWakes, MainGoto, StopMissesWorker, Signal,
                      AdvanceClock, Finished, vars
  <1> QED
    BY ZenonT(60), <1>1, <1>2, <1>3, <1>4, <1>5, <1>6, <1>7 DEF Next

(* The inductive step.                                                     *)
LEMMA NextExact ==
  IInv /\ IInv' /\ Exact /\ Wired /\ SentOnce /\ [Next]_vars => Exact' /\ Wired'
  <1> SUFFICES ASSUME IInv, IInv', Exact, Wired, SentOnce, [Next]_vars PROVE Exact' /\ Wired'
    BY ZenonT(60)
  <1>a. RestOK /\ RestOK' /\ PoolInv /\ EntryOK /\ TargetOK /\ \A r \in StreamRids \cup BidiRids : r \in Rids
    BY ZenonT(60) DEF IInv, Rids
  <1>b. ASSUME UNCHANGED hbVars, sent' = sent PROVE Exact' /\ Wired'
    <2>1. UNCHANGED <<channels, batch, board, backend, Jobs, Writes, phase>>
      BY ZenonT(60), <1>b DEF hbVars, Jobs, Writes
    <2> QED
      BY ZenonT(60), <1>a, <1>b, <2>1, OthersExact
  <1>1. CASE \E r \in Rids : Reject(r)
    BY ZenonT(60), <1>1, <1>b DEF Reject, EntryOnly
  <1>2. CASE \/ \E r \in StreamRids : StreamSend(r)
             \/ \E r \in BidiRids : BidiRead(r)
    <2>1. \E r \in Rids : SendRequest(r)
      BY ZenonT(60), <1>2, <1>a DEF StreamSend, BidiRead
    <2> QED
      BY ZenonT(60), <1>a, <2>1, SendExact
  <1>3. CASE \E r \in StreamRids : StreamHandler(r)
    <2>1. UNCHANGED hbVars /\ sent' = sent
      BY ZenonT(60), <1>3 DEF StreamHandler, StreamPoll, StreamRegisterQueue, StreamRegisterWriter,
                              StreamGiveUp, StreamLeave, EntryOnly
    <2> QED
      BY ZenonT(60), <1>b, <2>1
  <1>4. CASE \E r \in BidiRids : BidiOpen(r) \/ BidiReturn(r)
    BY ZenonT(60), <1>4, <1>b DEF BidiOpen, BidiReturn, EntryOnly
  <1>5. CASE HeartbeatTick \/ HeartbeatJobs
    <2>1. (Tick \/ RunLocalJob \/ EndIteration) /\ sent' = sent
      BY ZenonT(60), <1>5 DEF HeartbeatTick, HeartbeatJobs, entryVars
    <2>2. Exact'
      BY ZenonT(60), <1>a, <2>1, HeartbeatExact
    <2>3. Wired'
      BY ZenonT(60), <1>a, <2>1, TickWired DEF Exact
    <2> QED
      BY ZenonT(60), <2>2, <2>3
  <1>6. CASE HeartbeatExit \/ LookUpWriter \/ EndDispatch \/ AdvanceClock
    <2>1. /\ UNCHANGED <<channels, batch, board, backend, sent, Jobs, Writes>>
          /\ phase' = phase \/ phase \in {"idle", "dispatch"}
      BY ZenonT(60), <1>6 DEF HeartbeatExit, LookUpWriter, EndDispatch, AdvanceClock, hbVars, entryVars, Jobs, Writes
    <2>2. phase' = phase \/ batch = <<>>
      BY ZenonT(60), <2>1 DEF Exact, WorkOK, QueuesOK
    <2> QED
      BY ZenonT(60), <1>a, <2>1, <2>2, OthersExact
  <1>7. CASE DeliverWrite
    <2>1. /\ UNCHANGED <<channels, batch, board, backend, sent, phase>>
          /\ target # "none" /\ cs' = [cs EXCEPT !.client_writes = Tail(@)]
      BY ZenonT(60), <1>7 DEF DeliverWrite
    <2>2. Writes # <<>>
      BY ZenonT(60), <1>a, <2>1 DEF TargetOK, Writes
    <2>3. Writes' = Tail(Writes) /\ Jobs' = Jobs
      BY ZenonT(60), <1>a, <2>1 DEF RestOK, ChangeSets, Writes, Jobs
    <2> QED
      BY ZenonT(60), <1>a, <2>1, <2>2, <2>3, OthersExact
  <1>8. CASE MainThread \/ StopMissesWorker \/ MissedWorkerWakes
               \/ Signal \/ Finished \/ UNCHANGED vars
    <2>1. UNCHANGED hbVars /\ sent' = sent
      BY ZenonT(60), <1>8 DEF MainThread, MainSeesStop, MainServerDown, MainReactorStopped,
                  MainJoins, MainBusStopped, MissedWorkerWakes, MainGoto, StopMissesWorker, Signal,
                  Finished, vars, entryVars
    <2> QED
      BY <1>b, <2>1
  <1> QED
    BY ZenonT(60), <1>1, <1>2, <1>3, <1>4, <1>5, <1>6, <1>7, <1>8 DEF Next, HeartbeatThread

(* BackpressureController as main.cpp wires it: inflight counts exactly    *)
(* the local jobs that are queued or answered and the requests that wait   *)
(* for an upstream session, for every number of calls and every order of   *)
(* their threads.  A SynthesizeClient call that went upstream would reuse  *)
(* its record for every chunk, and each chunk would add a unit; so these   *)
(* calls must go to the local engine, or there must be none.               *)
THEOREM ServerInflightExact == BidiLocal => (Spec => []InflightExact)
  <1> SUFFICES ASSUME BidiLocal PROVE Spec => []InflightExact
    BY ZenonT(60)
  <1>1. Init => Exact /\ Wired /\ SentOnce
    <2> SUFFICES ASSUME Init PROVE Exact /\ Wired /\ SentOnce
      BY ZenonT(60)
    <2>1. WorkOK /\ Load = 0 /\ \A r \in Rids : Owed(r) = 0
      BY ZenonT(60), InitWork DEF Init
    <2>2. inflight = 0 /\ 0 <= HighWatermark /\ \A r \in Rids : sent[r] = 0
      BY SMT, SMTT(60), HeartbeatAssumption DEF Init, HbInit
    <2>3. BidiRids \subseteq LocalRids
      BY ZenonT(60), HeartbeatAssumption DEF BidiLocal, Init, HbInit, LocalRids, ShouldUseLocal, Rids
    <2>4. Wired
      BY SMT, SMTT(60) DEF Init, HbInit, Wired, EmptyStore, CollectTerminal
    <2>5. SentOnce
      BY SMT, SMTT(60), <2>2 DEF SentOnce, Rids
    <2> QED
      BY SMT, SMTT(60), <2>1, <2>2, <2>3, <2>4, <2>5 DEF Exact
  <1>2. IInv /\ Exact => InflightExact
    <2> SUFFICES ASSUME IInv, Exact PROVE InflightExact
      OBVIOUS
    <2>1. RestOK
      BY ZenonT(60) DEF IInv
    <2>2. LocalOutstanding + Cardinality({r \in DOMAIN pending : ~ShouldUseLocal(r)}) = Load
      BY <2>1, LoadIs
    <2> QED
      BY <2>2 DEF Exact, InflightExact
  <1> QED
    BY <1>1, <1>2, ServerInvariant, NextSentOnce, NextExact, PTL DEF Spec
=============================================================================
