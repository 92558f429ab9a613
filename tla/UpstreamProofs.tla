--------------------------- MODULE UpstreamProofs ---------------------------
(***************************************************************************)
(* The pipeline of UpstreamPipeline, for every number of requests, pool    *)
(* size, timeout and watermark: its types, its pool, the failures that are *)
(* reported in the tick that handles them, and what an iteration does to   *)
(* the sessions and to the messages between them and their WebSockets.     *)
(***************************************************************************)
EXTENDS UpstreamPipeline, HeartbeatProofs

\* The inductive invariant behind types and the pool's representation.
IInv == TypeOK /\ PoolConsistent

\* The pipeline's own variables.
PipeOK ==
  /\ link \in [DOMAIN link -> [stage : Stages, todo : Seq(Rids), chunks : Nat]]
  /\ DOMAIN link \subseteq Nat
  /\ sent \in [Rids -> Nat]
  /\ cancelled \subseteq Rids
  /\ finals \in [Rids -> Nat]

(* IInv is the heartbeat's invariant and the pipeline's own.               *)
LEMMA IInvParts == IInv <=> RestOK /\ PoolInv /\ PipeOK
  BY HbInvParts DEF IInv, TypeOK, PoolConsistent, HbInv, PipeOK

(* The pipeline starts with empty channels, an empty pool and no link.     *)
LEMMA InitIInv == Init => IInv
  <1> SUFFICES ASSUME Init PROVE IInv
    OBVIOUS
  <1>1. RestOK
    <2>1. <<>> \in Seq(Messages)
      OBVIOUS
    <2>2. EmptyChangeSet \in ChangeSets
      BY DEF EmptyChangeSet, ChangeSets
    <2>3. 0 \in 0 .. Modulus - 1
      BY HeartbeatAssumption
    <2>4. pending \in [DOMAIN pending -> PendingRequests(Audio)] /\ DOMAIN pending = {}
      BY DEF Init, HbInit, EmptyStore
    <2>5. now \in Nat
      BY PipelineAssumption DEF Init
    <2> QED
      BY <2>1, <2>2, <2>3, <2>4, <2>5 DEF Init, HbInit, RestOK, Phases
  <1>2. PoolInv
    <2>1. Ids(pool) = {} /\ pool.lru = <<>>
      BY DEF Init, HbInit, EmptyPool, Ids
    <2>2. IsFiniteSet(Ids(pool)) /\ Cardinality(Ids(pool)) <= PoolMax
      BY <2>1, FS_EmptySet, PoolAssumption
    <2>3. pool \in [sessions : [Ids(pool) -> SessionRecords(Rids)], lru : Seq(Nat)]
      BY DEF Init, HbInit, EmptyPool, Ids
    <2>4. IsInjective(pool.lru) /\ Range(pool.lru) = Ids(pool)
      BY <2>1 DEF IsInjective, Range
    <2> QED
      BY <2>1, <2>2, <2>3, <2>4 DEF PoolInv, PoolValue, PoolOK
  <1>3. PipeOK
    BY DEF Init, PipeOK
  <1> QED
    BY <1>1, <1>2, <1>3, IInvParts

(* The environment: senders, the test harness and the clock.               *)
LEMMA SenderKeepsIInv ==
  ASSUME RestOK, PoolInv, PipeOK,
         AdvanceClock \/ \E r \in Rids : Submit(r) \/ Cancel(r) \/ HarnessBind(r)
  PROVE  RestOK' /\ PoolInv' /\ PipeOK'
  <1>1. CASE AdvanceClock
    BY <1>1 DEF AdvanceClock, RestOK, PoolInv, PipeOK, channels, board, pipeVars
  <1>2. ASSUME NEW r \in Rids, Submit(r) PROVE RestOK' /\ PoolInv' /\ PipeOK'
    <2>1. TtsRequestMsg(r) \in Messages
      BY DEF TtsRequestMsg, Messages
    <2>2. request_channel' \in Seq(Messages)
      BY <1>2, <2>1 DEF Submit, RestOK
    <2>3. sent' \in [Rids -> Nat]
      BY <1>2 DEF Submit, PipeOK
    <2> QED
      BY ZenonT(60), <1>2, <2>2, <2>3 DEF Submit, RestOK, PoolInv, PipeOK, board
  <1>3. ASSUME NEW r \in Rids, Cancel(r) PROVE RestOK' /\ PoolInv' /\ PipeOK'
    <2>1. CancelRequestMsg(r) \in Messages
      BY DEF CancelRequestMsg, Messages
    <2>2. request_channel' \in Seq(Messages)
      BY <1>3, <2>1 DEF Cancel, RestOK
    <2> QED
      BY <1>3, <2>2 DEF Cancel, RestOK, PoolInv, PipeOK, board
  <1>4. ASSUME NEW r \in Rids, HarnessBind(r) PROVE RestOK' /\ PoolInv' /\ PipeOK'
    <2>1. pending[r] \in PendingRequests(Audio)
      BY <1>4 DEF HarnessBind, RestOK
    <2>2. pending' = [pending EXCEPT ![r] = [pending[r] EXCEPT !.state = "Streaming"]]
      BY ZenonT(60), <1>4, <2>1 DEF HarnessBind, BindSession, RestOK, PendingRequests
    <2>3. [pending[r] EXCEPT !.state = "Streaming"] \in PendingRequests(Audio)
      BY <2>1 DEF PendingRequests, PendingStates
    <2>4. pending' \in [DOMAIN pending -> PendingRequests(Audio)]
      BY ZenonT(60), <2>2, <2>3 DEF RestOK
    <2> QED
      BY <1>4, <2>4 DEF HarnessBind, RestOK, PoolInv, PipeOK, channels, pipeVars
  <1> QED
    BY <1>1, <1>2, <1>3, <1>4

(* The far ends of the WebSockets.                                         *)
LEMMA LinkKeepsIInv ==
  ASSUME RestOK, PoolInv, PipeOK, NEW s \in DOMAIN link,
         \/ Connects(s) \/ StartsTask(s) \/ Speaks(s) \/ FinishesTask(s)
         \/ FailsTask(s) \/ Disconnects(s)
  PROVE  RestOK' /\ PoolInv' /\ PipeOK'
  <1> DEFINE Links == [stage : Stages, todo : Seq(Rids), chunks : Nat]
  <1>a. OnLink
    BY ZenonT(60) DEF Connects, StartsTask, Speaks, FinishesTask, FailsTask, Disconnects, Advance
  <1>b. link[s] \in Links /\ s \in Nat
    BY DEF PipeOK
  <1>1. ASSUME NEW kind \in WsEventKinds, NEW audio \in Audio, NEW f \in BOOLEAN,
               Event(s, kind, audio, f)
        PROVE  ws_event_channel' \in Seq(Messages)
    <2>1. TtsResponseMsg(s, kind, audio, f) \in Messages
      BY <1>b DEF TtsResponseMsg, Messages
    <2> QED
      BY <1>1, <2>1 DEF Event, RestOK
  <1>2. ASSUME ws_event_channel' \in Seq(Messages),
               link' \in [DOMAIN link' -> Links], DOMAIN link' \subseteq DOMAIN link
        PROVE  RestOK' /\ PoolInv' /\ PipeOK'
    BY ZenonT(60), <1>2, <1>a DEF OnLink, RestOK, PoolInv, PipeOK, board
  <1>3. ASSUME NEW from, NEW kind \in WsEventKinds, NEW to \in Stages,
               Advance(s, from, kind, to)
        PROVE  RestOK' /\ PoolInv' /\ PipeOK'
    <2>1. ws_event_channel' \in Seq(Messages)
      BY ZenonT(60), <1>1, <1>3 DEF Advance, Audio
    <2>2. [link[s] EXCEPT !.stage = to] \in Links
      BY <1>b
    <2>3. link' = [link EXCEPT ![s] = [link[s] EXCEPT !.stage = to]]
      BY <1>3 DEF Advance
    <2>4. link' \in [DOMAIN link -> Links]
      BY <2>2, <2>3 DEF PipeOK
    <2> QED
      BY <1>2, <2>1, <2>4
  <1>4. CASE Connects(s) \/ StartsTask(s) \/ FinishesTask(s) \/ FailsTask(s)
    BY <1>3, <1>4 DEF Connects, StartsTask, FinishesTask, FailsTask, WsEventKinds, Stages
  <1>5. CASE Speaks(s)
    <2> DEFINE l == link[s]
               last == l.chunks + 1 = MaxAudio
               new == [l EXCEPT !.todo = IF last THEN Tail(@) ELSE @,
                                !.chunks = IF last THEN 0 ELSE @ + 1]
    <2>1. l.todo \in Seq(Rids) /\ l.todo # <<>> /\ l.chunks \in Nat
      BY <1>5, <1>b DEF Speaks
    <2>2. Head(l.todo) \in Audio /\ Tail(l.todo) \in Seq(Rids) /\ last \in BOOLEAN
      BY <2>1 DEF Audio
    <2>3. Event(s, "AudioChunk", Head(l.todo), last)
      BY <1>5 DEF Speaks
    <2>4. ws_event_channel' \in Seq(Messages)
      BY ZenonT(60), <1>1, <2>2, <2>3 DEF WsEventKinds
    <2>5. link' = [link EXCEPT ![s] = new]
      BY ZenonT(60), <1>5 DEF Speaks
    <2>6. new \in Links
      <3>1. CASE last
        BY ZenonT(60), <1>b, <2>1, <2>2, <3>1
      <3>2. CASE ~last
        <4>1. new = [l EXCEPT !.todo = @, !.chunks = @ + 1]
          BY <3>2
        <4>2. l \in Links /\ l.chunks + 1 \in Nat
          BY <1>b, <2>1
        <4> HIDE DEF new, l
        <4> QED
          BY ZenonT(60), <2>1, <4>1, <4>2
      <3> QED
        BY <3>1, <3>2
    <2> HIDE DEF new
    <2>7. link' \in [DOMAIN link -> Links]
      BY <2>5, <2>6 DEF PipeOK
    <2> QED
      BY <1>2, <2>4, <2>7
  <1>6. CASE Disconnects(s)
    <2>1. ws_event_channel' \in Seq(Messages)
      BY ZenonT(60), <1>1, <1>6 DEF Disconnects, Audio, WsEventKinds
    <2>2. link' \in [DOMAIN link \ {s} -> Links]
      BY <1>6 DEF Disconnects, PipeOK
    <2> QED
      BY <1>2, <2>1, <2>2
  <1> QED
    BY <1>4, <1>5, <1>6

(* The execution of the ChangeSet.                                         *)
LEMMA ExecuteKeepsIInv ==
  ASSUME RestOK, PoolInv, PipeOK, SendFrame \/ ExecuteChangeSet
  PROVE  RestOK' /\ PoolInv' /\ PipeOK'
  <1> DEFINE Links == [stage : Stages, todo : Seq(Rids), chunks : Nat]
  <1>a. cs \in ChangeSets /\ cs.ws_frames \in Seq(OutWsFrames) /\ cs.local_jobs \in Seq(Rids)
    BY DEF RestOK, ChangeSets
  <1>1. CASE SendFrame
    <2> DEFINE f == Head(cs.ws_frames)
               D == DOMAIN link \cup (IF f.op = "TaskStart" THEN {f.session} ELSE {})
    <2>1. f \in OutWsFrames /\ Tail(cs.ws_frames) \in Seq(OutWsFrames)
      BY <1>1, <1>a DEF SendFrame
    <2>2. f.session \in Nat /\ f.text \in Rids
      BY <2>1 DEF OutWsFrames
    <2>3. cs' \in ChangeSets
      BY ZenonT(60), <1>1, <1>a, <2>1 DEF SendFrame, ChangeSets
    <2>4. link' = [s \in D |-> IF s \notin DOMAIN link THEN NewLink
                               ELSE IF s = f.session /\ f.op = "TaskContinue"
                               THEN [link[s] EXCEPT !.todo = Append(@, f.text)]
                               ELSE link[s]]
      BY <1>1 DEF SendFrame
    <2> HIDE DEF f
    <2>5. NewLink \in Links
      BY DEF NewLink, Stages
    <2>6. ASSUME NEW s \in DOMAIN link
          PROVE  link[s] \in Links /\ [link[s] EXCEPT !.todo = Append(@, f.text)] \in Links
      <3>1. link[s] \in Links
        BY DEF PipeOK
      <3>2. Append(link[s].todo, f.text) \in Seq(Rids)
        BY <2>2, <3>1
      <3> QED
        BY ZenonT(60), <3>1, <3>2
    <2>7. link' \in [D -> Links] /\ D \subseteq Nat
      BY ZenonT(60), <2>2, <2>4, <2>5, <2>6 DEF PipeOK
    <2> QED
      BY ZenonT(60), <1>1, <2>3, <2>7 DEF SendFrame, RestOK, PoolInv, PipeOK, board, channels
  <1>2. CASE ExecuteChangeSet
    <2>1. cs' \in ChangeSets
      BY SMT, SMTT(60), <1>2, <1>a DEF ExecuteChangeSet, EmptyChangeSet, ChangeSets
    <2>2. link' \in [DOMAIN link' -> Links] /\ DOMAIN link' \subseteq Nat
      BY <1>2 DEF ExecuteChangeSet, CloseLinks, PipeOK
    <2>3. ASSUME NEW r \in Rids PROVE FinalWrites(r) \in Nat
      <3> DEFINE S == {i \in DOMAIN cs.client_writes :
                         cs.client_writes[i].rid = r /\ cs.client_writes[i].is_final}
      <3>1. DOMAIN cs.client_writes = 1 .. Len(cs.client_writes) /\ Len(cs.client_writes) \in Nat
        BY <1>a DEF ChangeSets
      <3>2. IsFiniteSet(DOMAIN cs.client_writes)
        BY <3>1, FS_Interval
      <3>3. IsFiniteSet(S)
        BY <3>2, FS_Subset
      <3>4. Cardinality(S) \in Nat
        BY <3>3, FS_CardinalityType
      <3> QED
        BY <3>4 DEF FinalWrites, Quantify
    <2>4. finals' \in [Rids -> Nat]
      BY <1>2, <2>3 DEF ExecuteChangeSet, PipeOK
    <2> QED
      BY <1>2, <2>1, <2>2, <2>4 DEF ExecuteChangeSet, RestOK, PoolInv, PipeOK, board,
                                    channels, Phases
  <1> QED
    BY <1>1, <1>2

(* The inductive step.                                                     *)
LEMMA NextIInv == IInv /\ [Next]_vars => IInv'
  <1> SUFFICES ASSUME IInv, [Next]_vars PROVE IInv'
    OBVIOUS
  <1>a. RestOK /\ PoolInv /\ PipeOK /\ HbInv
    BY IInvParts, HbInvParts
  <1>b. ASSUME RestOK', PoolInv', PipeOK' PROVE IInv'
    BY <1>b, IInvParts, PTL
  <1>1. CASE HeartbeatStep
    <2>1. HbInv'
      BY <1>1, <1>a, HeartbeatKeepsInv DEF HeartbeatStep
    <2>2. RestOK' /\ PoolInv'
      BY ZenonT(60), <2>1, HbInvPartsNext
    <2>3. PipeOK'
      BY <1>1, <1>a DEF HeartbeatStep, pipeVars, PipeOK
    <2> QED
      BY <1>b, <2>2, <2>3
  <1>2. CASE SendFrame \/ ExecuteChangeSet
    BY <1>2, <1>a, <1>b, ExecuteKeepsIInv
  <1>3. CASE AdvanceClock \/ \E r \in Rids : Submit(r) \/ Cancel(r) \/ HarnessBind(r)
    BY <1>3, <1>a, <1>b, SenderKeepsIInv
  <1>4. CASE \E s \in DOMAIN link :
               \/ Connects(s) \/ StartsTask(s) \/ Speaks(s) \/ FinishesTask(s)
               \/ FailsTask(s) \/ Disconnects(s)
    BY ZenonT(60), <1>4, <1>a, <1>b, LinkKeepsIInv
  <1>5. CASE UNCHANGED vars
    BY ZenonT(60), <1>5, <1>a, <1>b DEF vars, hbVars, pipeVars, board, channels, RestOK,
       PoolInv, PipeOK
  <1> QED
    BY <1>1, <1>2, <1>3, <1>4, <1>5 DEF Next

(* The invariant holds in every state of the pipeline.                     *)
LEMMA PipelineInvariant == Spec => []IInv
  BY InitIInv, NextIInv, PTL DEF Spec

(* The state of the whole pipeline keeps its types: every message names a  *)
(* request or session that exists, every pooled session a request.         *)
THEOREM PipelineTypes == Spec => []TypeOK
  <1>1. IInv => TypeOK
    BY DEF IInv
  <1> QED
    BY <1>1, PipelineInvariant, PTL

(* SessionPool: whatever sequence of requests, upstream events, expiries   *)
(* and failures the heartbeat handles, the LRU list and the session map    *)
(* hold the same ids, each once, and at most max_size_ of them.            *)
THEOREM PipelinePool == Spec => []PoolConsistent
  <1>1. IInv => PoolConsistent
    BY DEF IInv
  <1> QED
    BY <1>1, PipelineInvariant, PTL

-----------------------------------------------------------------------------
(* A failure is reported to evolve in the tick that handles it.            *)

Errored(p) == {id \in Ids(p) : p.sessions[id].state = "Errored"}

Quiet == {"dispatch", "jobs", "idle", "drain_ws"}

\* What makes NothingTerminalSurvives inductive.
Reported ==
  /\ Errored(pool) \subseteq changed_sessions
  /\ phase \in Quiet => CollectTerminal(pending) = {} /\ changed_sessions = {}

(* Only mark_errored adds to the sessions in error.                        *)
LEMMA ErroredAfter ==
  ASSUME NEW p, NEW R, PoolValue(p, R), NEW id
  PROVE  /\ \A rid : Errored(SetCurrentRequest(p, id, rid)) = Errored(p)
         /\ Errored(MarkClosed(p, id)) \subseteq Errored(p)
         /\ Errored(MarkErrored(p, id)) \subseteq Errored(p) \cup {id}
         /\ Errored(MarkDraining(p, id)) \subseteq Errored(p)
         /\ \A t : Errored(MarkReady(p, id, t)) \subseteq Errored(p)
         /\ \A t : Errored(MarkActive(p, id, t)) \subseteq Errored(p)
         /\ Errored(Add(p, id, SessionRecord(id))) \subseteq Errored(p)
  <1>a. \A x \in Ids(p) : p.sessions[x] \in SessionRecords(R)
    BY DEF PoolValue, Ids
  <1>b. \A x \in Ids(p) : DOMAIN p.sessions[x]
          = {"state", "created_at", "last_active_at", "current_request_id"}
    BY <1>a DEF SessionRecords
  <1>c. p = [sessions |-> p.sessions, lru |-> p.lru]
    BY DEF PoolValue
  <1>1. ASSUME NEW rid PROVE Errored(SetCurrentRequest(p, id, rid)) = Errored(p)
    BY <1>a, <1>c DEF Errored, SetCurrentRequest, Ids, SessionRecords
  <1>2. Errored(MarkClosed(p, id)) \subseteq Errored(p)
    BY DEF Errored, MarkClosed, Ids
  <1>3. Errored(MarkErrored(p, id)) \subseteq Errored(p) \cup {id}
    BY <1>a, <1>c DEF Errored, MarkErrored, SetSessionState, Ids, SessionRecords
  <1>4. Errored(MarkDraining(p, id)) \subseteq Errored(p)
    BY <1>a, <1>c DEF Errored, MarkDraining, SetSessionState, Ids, SessionRecords
  <1>5. ASSUME NEW t, NEW state, state # "Errored"
        PROVE  Errored(Touch(p, id, state, t)) \subseteq Errored(p)
    BY ZenonT(60), <1>5, <1>a, <1>c DEF Errored, Touch, Ids, SessionRecords
  <1>6. Errored(Add(p, id, SessionRecord(id))) \subseteq Errored(p)
    BY DEF Errored, Add, Ids, SessionRecord
  <1> QED
    BY ZenonT(60), <1>1, <1>2, <1>3, <1>4, <1>5, <1>6 DEF MarkReady, MarkActive

(* A tick handles a message, emits, closes sessions and drops requests.    *)
LEMMA TickReports ==
  ASSUME RestOK, PoolInv, Reported, Tick
  PROVE  Reported'
  <1>a. PoolValue(pool, Rids)
    BY DEF PoolInv
  <1>b. ASSUME phase' \notin Quiet, Errored(pool') \subseteq changed_sessions' PROVE Reported'
    BY <1>b DEF Reported
  <1>c. Errored(pool) \subseteq changed_sessions
    BY DEF Reported
  <1>d. ASSUME NEW type, Handling(type) PROVE phase' \notin Quiet
    BY <1>d DEF Handling, Quiet
  <1>1. CASE DrainRequests \/ DrainWsEvents \/ BatchHandled \/ AllEmitted
    BY <1>1 DEF DrainRequests, DrainWsEvents, BatchHandled, AllEmitted, Reported, Quiet,
                          board, channels
  <1>2. CASE RequestDenied \/ RequestLocal \/ RequestNoSession
    BY <1>2, <1>b, <1>c, <1>d DEF RequestDenied, RequestLocal, RequestNoSession
  <1>3. CASE RequestReusesSession
    <2> DEFINE sid == FindIdleLeastRecentlyUsed(pool)
               r == Head(batch).rid
    <2>1. PoolValue(MarkActive(pool, sid, now), Rids)
      BY ZenonT(60), <1>a, TouchKeepsPool DEF MarkActive, SessionStates, RestOK, PoolInv
    <2>2. pool' = SetCurrentRequest(MarkActive(pool, sid, now), sid, r)
      BY ZenonT(60), <1>3 DEF RequestReusesSession, BindTo
    <2>3. changed_sessions \subseteq changed_sessions' /\ phase' \notin Quiet
      BY <1>3, <1>d DEF RequestReusesSession, BindTo
    <2>4. Errored(pool') = Errored(MarkActive(pool, sid, now))
      BY ZenonT(60), <2>1, <2>2, ErroredAfter
    <2>5. Errored(MarkActive(pool, sid, now)) \subseteq Errored(pool)
      BY ZenonT(60), <1>a, ErroredAfter
    <2> HIDE DEF sid
    <2> QED  BY ZenonT(60), <1>b, <1>c, <2>3, <2>4, <2>5
  <1>4. CASE RequestCreatesSession
    <2> DEFINE r == Head(batch).rid
               p == Add(pool, next_sid, SessionRecord(next_sid))
    <2>1. pool' = SetCurrentRequest(p, next_sid, r)
      BY ZenonT(60), <1>4 DEF RequestCreatesSession, BindTo
    <2>2. changed_sessions \subseteq changed_sessions' /\ phase' \notin Quiet
      BY <1>4, <1>d DEF RequestCreatesSession, BindTo
    <2>3. Errored(p) \subseteq Errored(pool)
      BY ZenonT(60), <1>a, ErroredAfter
    <2> DEFINE R == Rids \cup {NoRequest}
    <2>4. PoolValue(p, R)
      <3>1. PoolValue(pool, R)
        BY <1>a DEF PoolValue, SessionRecords
      <3>2. SessionRecord(next_sid) \in SessionRecords(R)
        BY DEF SessionRecord, SessionRecords, SessionStates
      <3>3. next_sid \in Nat /\ next_sid \notin Ids(pool)
        BY DEF RestOK, PoolInv
      <3>4. PoolOK(pool) /\ ~PoolFull(pool)
        BY <1>4 DEF RequestCreatesSession, PoolInv
      <3> QED  BY ZenonT(60), <3>1, <3>2, <3>3, <3>4, AddKeepsPool
    <2> HIDE DEF R, p
    <2>5. Errored(pool') = Errored(p)
      <3>1. \A rid : Errored(SetCurrentRequest(p, next_sid, rid)) = Errored(p)
        BY ZenonT(60), <2>4, ErroredAfter
      <3> HIDE DEF r
      <3> QED  BY ZenonT(60), <2>1, <3>1
    <2> QED  BY ZenonT(60), <1>b, <1>c, <2>2, <2>3, <2>5
  <1>5. CASE HandleLocalComplete \/ HandleLocalFailed \/ HandleCancel
    <2>1. phase' \notin Quiet
      BY ZenonT(60), <1>5, <1>d DEF HandleLocalComplete, HandleLocalFailed, HandleCancel
    <2>2. UNCHANGED <<pool, changed_sessions>>
      <3>1. CASE \E w : LocalDone(w)
        BY ZenonT(60), <3>1 DEF LocalDone
      <3>2. CASE HandleCancel
        BY ZenonT(60), <3>2 DEF HandleCancel
      <3> QED  BY ZenonT(60), <1>5, <3>1, <3>2 DEF HandleLocalComplete, HandleLocalFailed
    <2> QED  BY <1>b, <1>c, <2>1, <2>2
  <1>6. CASE HandleTaskStarted \/ HandleAudioChunk \/ HandleTaskFinished
    BY <1>6, <1>b, <1>c, <1>d DEF HandleTaskStarted, HandleAudioChunk, HandleTaskFinished, Response
  <1>7. CASE HandleConnected \/ HandleTaskFailed \/ HandleDisconnected
    <2> DEFINE sid == Head(batch).session
    <2>1. phase' \notin Quiet /\ changed_sessions' = changed_sessions \cup {sid}
      BY <1>7, <1>d DEF HandleConnected, HandleTaskFailed, HandleDisconnected, Response
    <2>2. \/ pool' = MarkReady(pool, sid, now) \/ pool' = MarkErrored(pool, sid)
          \/ pool' = MarkClosed(pool, sid)
      BY ZenonT(60), <1>7 DEF HandleConnected, HandleTaskFailed, HandleDisconnected
    <2>3. Errored(pool') \subseteq Errored(pool) \cup {sid}
      BY <1>a, <2>2, ErroredAfter
    <2> HIDE DEF sid
    <2> QED  BY ZenonT(60), <1>b, <1>c, <2>1, <2>3
  <1>8. ASSUME NEW r \in Rids, EmitCompleted(r) PROVE Reported'
    <2>1. phase' \notin Quiet /\ changed_sessions \subseteq changed_sessions'
      BY <1>8 DEF EmitCompleted, Quiet
    <2>2. pool' = MarkDraining(pool, pending[r].session_id)
      BY <1>8 DEF EmitCompleted
    <2>3. Errored(pool') \subseteq Errored(pool)
      BY ZenonT(60), <1>a, <2>2, ErroredAfter
    <2> QED  BY ZenonT(60), <1>b, <1>c, <2>1, <2>3
  <1>9. ASSUME NEW id \in Ids(pool), EvolveCloses(id) PROVE Reported'
    <2>1. phase' \notin Quiet /\ changed_sessions' = changed_sessions /\ pool' = MarkClosed(pool, id)
      BY <1>9 DEF EvolveCloses, Quiet
    <2>2. Errored(pool') \subseteq Errored(pool)
      BY ZenonT(60), <1>a, <2>1, ErroredAfter
    <2> QED  BY ZenonT(60), <1>b, <1>c, <2>1, <2>2
  <1>10. CASE EvolveRequests
    <2>1. \A id \in Ids(pool) : id \in changed_sessions => pool.sessions[id].state # "Errored"
      BY <1>10 DEF EvolveRequests, CloseReason
    <2>2. Errored(pool) = {}
      BY ZenonT(60), <1>c, <2>1 DEF Errored
    <2>3. pending' = PendingRemove(pending, CollectTerminal(pending))
      BY <1>10 DEF EvolveRequests
    <2>4. CollectTerminal(pending') = {}
      BY <2>3 DEF CollectTerminal, PendingRemove
    <2>5. pool' = pool /\ changed_sessions' = {}
      BY <1>10 DEF EvolveRequests
    <2> QED  BY ZenonT(60), <2>2, <2>4, <2>5 DEF Reported
  <1> QED
    BY ZenonT(60), <1>1, <1>2, <1>3, <1>4, <1>5, <1>6, <1>7, <1>8, <1>9, <1>10 DEF Tick

(* Nothing else touches the pool, and only the harness the store.          *)
LEMMA NextReports == IInv /\ Reported /\ [Next]_vars => Reported'
  <1> SUFFICES ASSUME IInv, Reported, [Next]_vars PROVE Reported'
    OBVIOUS
  <1>a. RestOK /\ PoolInv
    BY IInvParts
  <1>b. ASSUME UNCHANGED <<pool, pending, changed_sessions>>, phase' \in Quiet => phase \in Quiet
        PROVE  Reported'
    BY <1>b DEF Reported
  <1>1. CASE Tick
    BY <1>1, <1>a, TickReports
  <1>2. CASE RunLocalJob \/ EndIteration
    BY <1>2, <1>b DEF RunLocalJob, EndIteration, board, channels, Quiet
  <1>3. CASE SendFrame \/ ExecuteChangeSet
    BY <1>3, <1>b DEF SendFrame, ExecuteChangeSet, board, channels, Quiet
  <1>4. CASE AdvanceClock
    BY <1>4, <1>b DEF AdvanceClock, board, channels
  <1>5. ASSUME NEW r \in Rids, Submit(r) \/ Cancel(r) PROVE Reported'
    BY <1>5, <1>b DEF Submit, Cancel, board
  <1>6. ASSUME NEW r \in Rids, HarnessBind(r) PROVE Reported'
    <2>1. /\ r \in DOMAIN pending
          /\ pending' = [pending EXCEPT ![r].session_id = pending[r].session_id, ![r].state = "Streaming"]
      BY ZenonT(60), <1>6 DEF HarnessBind, BindSession
    <2>2. pending \in [DOMAIN pending -> PendingRequests(Audio)]
      BY <1>a DEF RestOK
    <2>3. DOMAIN pending' = DOMAIN pending /\ pending'[r].state = "Streaming"
      <3>1. pending[r] \in PendingRequests(Audio)
        BY <2>1, <2>2
      <3> DEFINE bound == [pending[r] EXCEPT !.session_id = pending[r].session_id, !.state = "Streaming"]
      <3>2. bound.state = "Streaming"
        BY ZenonT(60), <3>1 DEF PendingRequests
      <3>3. pending' = [pending EXCEPT ![r] = bound]
        BY ZenonT(60), <2>1, <2>2
      <3> HIDE DEF bound
      <3> QED  BY ZenonT(60), <2>1, <3>2, <3>3
    <2>4. \A x \in DOMAIN pending : x # r => pending'[x] = pending[x]
      BY <2>1
    <2>5. CollectTerminal(pending') \subseteq CollectTerminal(pending)
      BY <2>3, <2>4 DEF CollectTerminal, TerminalStates
    <2>6. UNCHANGED <<pool, changed_sessions, phase>>
      BY <1>6 DEF HarnessBind
    <2> QED  BY <2>5, <2>6 DEF Reported
  <1>7. ASSUME NEW s \in DOMAIN link,
               \/ Connects(s) \/ StartsTask(s) \/ Speaks(s) \/ FinishesTask(s)
               \/ FailsTask(s) \/ Disconnects(s)
        PROVE  Reported'
    <2>1. OnLink
      BY ZenonT(60), <1>7 DEF Connects, StartsTask, Speaks, FinishesTask, FailsTask, Disconnects, Advance
    <2> QED  BY <2>1, <1>b DEF OnLink, board
  <1>8. CASE UNCHANGED vars
    BY <1>8, <1>b DEF vars, hbVars, board
  <1> QED
    BY ZenonT(60), <1>1, <1>2, <1>3, <1>4, <1>5, <1>6, <1>7, <1>8 DEF Next, HeartbeatStep

(* evolve: whatever failures, cancellations and emissions a tick handled,  *)
(* when it ends no failed or cancelled request is left in the store and no *)
(* errored session in the pool.                                            *)
THEOREM PipelineNothingTerminal == Spec => []NothingTerminalSurvives
  <1>1. Init => Reported
    BY DEF Init, HbInit, EmptyPool, EmptyStore, Reported, Errored, Ids, CollectTerminal
  <1>2. Reported => NothingTerminalSurvives
    BY DEF Reported, NothingTerminalSurvives, Errored, Quiet
  <1> QED
    BY <1>1, <1>2, PipelineInvariant, NextReports, PTL DEF Spec

-----------------------------------------------------------------------------
(* The life of a session.                                                  *)

\* One session changes its state.
Moves(id, state, active) ==
  /\ Ids(pool') = Ids(pool)
  /\ \A s \in Ids(pool) :
       /\ pool'.sessions[s].state = IF s = id THEN state ELSE pool.sessions[s].state
       /\ pool'.sessions[s].last_active_at =
            IF s = id THEN active ELSE pool.sessions[s].last_active_at

\* The steps of the tick that change the pool.
Reuses(id) ==
  /\ RequestReusesSession /\ id = FindIdleLeastRecentlyUsed(pool)
  /\ id \in Ids(pool) /\ pool.sessions[id].state = "Ready"
  /\ Moves(id, "Streaming", now) /\ pool'.lru = MoveToFront(pool.lru, id)

Creates ==
  /\ RequestCreatesSession
  /\ Ids(pool') = Ids(pool) \cup {next_sid} /\ next_sid \notin Ids(pool)
  /\ pool'.sessions[next_sid].state = "Connecting"
  /\ pool'.sessions[next_sid].last_active_at = 0
  /\ \A s \in Ids(pool) :
       /\ pool'.sessions[s].state = pool.sessions[s].state
       /\ pool'.sessions[s].last_active_at = pool.sessions[s].last_active_at
  /\ pool'.lru = <<next_sid>> \o pool.lru

Readies(id) ==
  /\ HandleConnected /\ id = Head(batch).session
  /\ Moves(id, "Ready", now)
  /\ pool'.lru = IF id \in Ids(pool) THEN MoveToFront(pool.lru, id) ELSE pool.lru

Fails(id) ==
  /\ HandleTaskFailed /\ id = Head(batch).session
  /\ Moves(id, "Errored", pool.sessions[id].last_active_at) /\ pool'.lru = pool.lru

Drains(id) ==
  /\ \E r \in FindReadyToEmit(pending) : EmitCompleted(r) /\ id = pending[r].session_id
  /\ Moves(id, "Draining", pool.sessions[id].last_active_at) /\ pool'.lru = pool.lru

Closes(id) ==
  /\ \/ HandleDisconnected /\ id = Head(batch).session
     \/ id \in Ids(pool) /\ EvolveCloses(id)
  /\ Ids(pool') = Ids(pool) \ {id}
  /\ \A s \in Ids(pool') : pool'.sessions[s] = pool.sessions[s]
  /\ pool'.lru = RemoveFirst(pool.lru, id)

Stays ==
  /\ pool' = pool /\ ~RequestCreatesSession
  /\ Handling("TtsResponse") => Head(batch).kind \in {"TaskStarted", "AudioChunk", "TaskFinished"}

(* Every step of the tick is of one of these kinds.                        *)
LEMMA TickPool ==
  ASSUME RestOK, PoolInv, Tick
  PROVE  \/ Stays \/ Creates
         \/ \E id \in Nat : Reuses(id) \/ Readies(id) \/ Fails(id) \/ Drains(id) \/ Closes(id)
  <1>a. /\ PoolValue(pool, Rids) /\ PoolOK(pool) /\ now \in Nat /\ "Streaming" \in SessionStates
        /\ next_sid \in Nat /\ next_sid \notin Ids(pool) /\ Ids(pool) \subseteq Nat
    BY DEF PoolInv, RestOK, SessionStates
  <1>b. Handling("TtsResponse") => Head(batch).session \in Nat
    BY HandlingTypes, MessageFields
  <1>1. CASE RequestReusesSession
    <2>c. PICK id : id = FindIdleLeastRecentlyUsed(pool)
      OBVIOUS
    <2>d. PICK r : r = Head(batch).rid
      OBVIOUS
    <2>p. PICK p : p = Touch(pool, id, "Streaming", now)
      OBVIOUS
    <2>1. pool' = SetCurrentRequest(p, id, r) /\ id # NoSession
      BY ZenonT(60), <1>1, <2>c, <2>d, <2>p DEF RequestReusesSession, BindTo, MarkActive
    <2>2. id \in Ids(pool) /\ pool.sessions[id].state = "Ready"
      BY ZenonT(60), <1>a, <2>1, <2>c, FindIdleFinds
    <2>3. PoolValue(p, Rids)
      BY ZenonT(60), <1>a, <2>p, TouchKeepsPool
    <2>4. /\ Ids(p) = Ids(pool)
          /\ \A s \in Ids(pool) :
               /\ p.sessions[s].state = IF s = id THEN "Streaming" ELSE pool.sessions[s].state
               /\ p.sessions[s].last_active_at = IF s = id THEN now ELSE pool.sessions[s].last_active_at
      BY SMT, SMTT(60), <1>a, <2>p, TouchFields
    <2>5. /\ Ids(pool') = Ids(p) /\ pool'.lru = p.lru
          /\ \A s \in Ids(p) :
               /\ pool'.sessions[s].state = p.sessions[s].state
               /\ pool'.sessions[s].last_active_at = p.sessions[s].last_active_at
      BY <2>1, <2>3, SetRequestFields
    <2>6. p.lru = MoveToFront(pool.lru, id)
      BY <2>2, <2>p DEF Touch
    <2>7. Moves(id, "Streaming", now)
      BY ZenonT(60), <2>4, <2>5 DEF Moves
    <2>8. Reuses(id) /\ id \in Nat
      BY ZenonT(60), <1>1, <1>a, <2>2, <2>5, <2>6, <2>7, <2>c DEF Reuses
    <2> QED
      BY <2>8
  <1>2. CASE RequestCreatesSession
    <2>d. PICK r : r = Head(batch).rid
      OBVIOUS
    <2>p. PICK p : p = Add(pool, next_sid, SessionRecord(next_sid))
      OBVIOUS
    <2>1. pool' = SetCurrentRequest(p, next_sid, r)
      BY ZenonT(60), <1>2, <2>d, <2>p DEF RequestCreatesSession, BindTo
    <2> DEFINE R == Rids \cup {NoRequest}
    <2>2. PoolValue(p, R) /\ Ids(p) = Ids(pool) \cup {next_sid}
      <3>1. PoolValue(pool, R)
        BY <1>a DEF PoolValue, SessionRecords
      <3>2. SessionRecord(next_sid) \in SessionRecords(R)
        BY DEF SessionRecord, SessionRecords, SessionStates
      <3>3. ~PoolFull(pool)
        BY ZenonT(60), <1>2 DEF RequestCreatesSession
      <3> QED
        BY ZenonT(60), <1>a, <2>p, <3>1, <3>2, <3>3, AddKeepsPool
    <2>3. /\ p.lru = <<next_sid>> \o pool.lru /\ p.sessions[next_sid] = SessionRecord(next_sid)
          /\ \A s \in Ids(pool) : p.sessions[s] = pool.sessions[s]
      BY ZenonT(60), <1>a, <2>p DEF Add
    <2> HIDE DEF R
    <2>4. /\ Ids(pool') = Ids(p) /\ pool'.lru = p.lru
          /\ \A s \in Ids(p) :
               /\ pool'.sessions[s].state = p.sessions[s].state
               /\ pool'.sessions[s].last_active_at = p.sessions[s].last_active_at
      BY SMT, SMTT(60), <2>1, <2>2, SetRequestFields
    <2>5. SessionRecord(next_sid).state = "Connecting" /\ SessionRecord(next_sid).last_active_at = 0
      BY DEF SessionRecord
    <2>6. /\ pool'.sessions[next_sid].state = "Connecting"
          /\ pool'.sessions[next_sid].last_active_at = 0
          /\ \A s \in Ids(pool) :
               /\ pool'.sessions[s].state = pool.sessions[s].state
               /\ pool'.sessions[s].last_active_at = pool.sessions[s].last_active_at
      BY ZenonT(60), <2>2, <2>3, <2>4, <2>5
    <2>7. Creates
      BY ZenonT(60), <1>2, <1>a, <2>2, <2>3, <2>4, <2>6 DEF Creates
    <2> QED
      BY <2>7
  <1>3. CASE HandleConnected
    <2>c. PICK id : id = Head(batch).session
      OBVIOUS
    <2>1. pool' = Touch(pool, id, "Ready", now) /\ id \in Nat
      BY ZenonT(60), <1>3, <1>b, <2>c DEF HandleConnected, MarkReady, Response
    <2>2. /\ Ids(pool') = Ids(pool)
          /\ \A s \in Ids(pool) :
               /\ pool'.sessions[s].state = IF s = id THEN "Ready" ELSE pool.sessions[s].state
               /\ pool'.sessions[s].last_active_at = IF s = id THEN now ELSE pool.sessions[s].last_active_at
      BY <1>a, <2>1, TouchFields
    <2>3. pool'.lru = IF id \in Ids(pool) THEN MoveToFront(pool.lru, id) ELSE pool.lru
      BY <2>1 DEF Touch
    <2>4. Readies(id)
      BY ZenonT(60), <1>3, <2>c, <2>2, <2>3 DEF Readies, Moves
    <2> QED
      BY <2>1, <2>4
  <1>4. ASSUME NEW id, NEW state, pool' = SetSessionState(pool, id, state)
        PROVE  Moves(id, state, pool.sessions[id].last_active_at) /\ pool'.lru = pool.lru
    <2>1. /\ Ids(pool') = Ids(pool) /\ pool'.lru = pool.lru
          /\ \A s \in Ids(pool) :
               /\ pool'.sessions[s].state = IF s = id THEN state ELSE pool.sessions[s].state
               /\ pool'.sessions[s].last_active_at = pool.sessions[s].last_active_at
      BY <1>a, <1>4, SetSessionFields
    <2> QED
      BY ZenonT(60), <2>1 DEF Moves
  <1>5. CASE HandleTaskFailed
    <2>c. PICK id : id = Head(batch).session
      OBVIOUS
    <2>1. pool' = SetSessionState(pool, id, "Errored") /\ id \in Nat
      BY <1>5, <1>b, <2>c DEF HandleTaskFailed, MarkErrored, Response
    <2>2. Fails(id)
      BY ZenonT(60), <1>4, <1>5, <2>1, <2>c DEF Fails
    <2> QED
      BY <2>1, <2>2
  <1>6. ASSUME NEW r \in Rids, EmitCompleted(r)
        PROVE  \E id \in Nat : Drains(id)
    <2>1. r \in FindReadyToEmit(pending) /\ pool' = SetSessionState(pool, pending[r].session_id, "Draining")
      BY <1>6 DEF EmitCompleted, MarkDraining
    <2>2. pending[r].session_id \in Nat
      BY <2>1 DEF FindReadyToEmit, RestOK, PendingRequests
    <2>3. Drains(pending[r].session_id)
      BY ZenonT(60), <1>4, <1>6, <2>1 DEF Drains
    <2> QED
      BY <2>2, <2>3
  <1>7. ASSUME NEW id \in Nat, pool' = MarkClosed(pool, id),
               \/ HandleDisconnected /\ id = Head(batch).session
               \/ id \in Ids(pool) /\ EvolveCloses(id)
        PROVE  Closes(id)
    <2>1. /\ Ids(pool') = Ids(pool) \ {id}
          /\ \A s \in Ids(pool) \ {id} : pool'.sessions[s] = pool.sessions[s]
      BY ZenonT(60), <1>7, CloseFields
    <2>2. pool'.lru = RemoveFirst(pool.lru, id)
      BY <1>7 DEF MarkClosed
    <2> QED
      BY ZenonT(60), <1>7, <2>1, <2>2 DEF Closes
  <1>8. CASE HandleDisconnected
    <2>1. Head(batch).session \in Nat /\ pool' = MarkClosed(pool, Head(batch).session)
      BY <1>8, <1>b DEF HandleDisconnected, Response
    <2> QED
      BY ZenonT(60), <1>7, <1>8, <2>1
  <1>9. ASSUME NEW id \in Ids(pool), EvolveCloses(id) PROVE Closes(id) /\ id \in Nat
    BY <1>7, <1>9, <1>a DEF EvolveCloses
  <1>10. CASE \/ DrainRequests \/ DrainWsEvents \/ RequestDenied \/ RequestNoSession \/ RequestLocal
              \/ HandleCancel \/ BatchHandled \/ AllEmitted \/ EvolveRequests
    <2>1. pool' = pool
      BY ZenonT(60), <1>10 DEF DrainRequests, DrainWsEvents, RequestDenied, RequestNoSession, RequestLocal,
                  HandleCancel, BatchHandled, AllEmitted, EvolveRequests, board
    <2>2. ~Handling("TtsResponse")
      BY ZenonT(60), <1>10 DEF DrainRequests, DrainWsEvents, RequestDenied, RequestNoSession, RequestLocal,
                  HandleCancel, BatchHandled, AllEmitted, EvolveRequests, Handling
    <2>3. ~RequestCreatesSession
      BY <1>10 DEF DrainRequests, DrainWsEvents, RequestDenied, RequestNoSession, RequestLocal,
                  HandleCancel, BatchHandled, AllEmitted, EvolveRequests, Handling,
                  RequestCreatesSession
    <2> QED
      BY ZenonT(60), <2>1, <2>2, <2>3 DEF Stays
  <1>11. CASE HandleLocalComplete \/ HandleLocalFailed
    <2>1. pool' = pool
      BY ZenonT(60), <1>11 DEF HandleLocalComplete, HandleLocalFailed, LocalDone
    <2>2. ~Handling("TtsResponse") /\ ~RequestCreatesSession
      <3>1. Handling("LocalComplete") \/ Handling("LocalFailed")
        BY ZenonT(60), <1>11 DEF HandleLocalComplete, HandleLocalFailed
      <3> QED
        BY <3>1 DEF RequestCreatesSession, Handling
    <2> QED
      BY ZenonT(60), <2>1, <2>2 DEF Stays
  <1>12. CASE HandleTaskStarted \/ HandleAudioChunk \/ HandleTaskFinished
    <2>1. /\ pool' = pool /\ Handling("TtsResponse")
          /\ Head(batch).kind \in {"TaskStarted", "AudioChunk", "TaskFinished"}
      BY ZenonT(60), <1>12 DEF HandleTaskStarted, HandleAudioChunk, HandleTaskFinished, Response
    <2>2. ~RequestCreatesSession
      BY <2>1 DEF RequestCreatesSession, Handling
    <2> QED
      BY <2>1, <2>2 DEF Stays
  <1> QED
    BY ZenonT(60), <1>1, <1>2, <1>3, <1>5, <1>6, <1>8, <1>9, <1>10, <1>11, <1>12 DEF Tick

-----------------------------------------------------------------------------
(* The messages between the tick and the far ends of the WebSockets.       *)

Frames == cs.ws_frames

\* Sessions whose TaskStart frame has not been sent yet.
Starting == {f.session : f \in {x \in Range(Frames) : x.op = "TaskStart"}}

\* The upstream events the heartbeat has not handled yet, in its order.
Events == batch \o ws_event_channel

Said == Range(Events) \cap WsSide

Spoken == {m.session : m \in Said}

\* A Connected that comes after another event of its session.
Late == {p \in WsSide \X WsSide : p[1].session = p[2].session /\ p[2].kind = "Connected"}

\* A second TaskStart of a session.
Twice == {p \in OutWsFrames \X OutWsFrames :
            p[1].session = p[2].session /\ p[1].op = "TaskStart" /\ p[2].op = "TaskStart"}

(* Which of these names a step can change.                                 *)
LEMMA EventTypes ==
  ASSUME RestOK, QueuesOK
  PROVE  /\ batch \in Seq(Messages) /\ ws_event_channel \in Seq(Messages)
         /\ Events \in Seq(Messages) /\ WsSide \subseteq Messages
         /\ RequestSide \cap WsSide = {}
  <1>1. batch \in Seq(Messages) /\ ws_event_channel \in Seq(Messages)
    BY DEF RestOK
  <1>2. WsSide \subseteq Messages
    BY DEF WsSide, Messages
  <1>3. \A m \in RequestSide : m.type # "TtsResponse"
    BY DEF RequestSide
  <1>4. \A m \in WsSide : m.type = "TtsResponse"
    BY DEF WsSide
  <1>5. RequestSide \cap WsSide = {}
    BY <1>3, <1>4
  <1> QED
    BY ZenonT(60), <1>1, <1>2, <1>5, JoinItems DEF Events

(* What a step of the tick leaves of the events: all of them, in their     *)
(* order, but for the one it handles.                                      *)
LEMMA TickSays ==
  ASSUME RestOK, QueuesOK, Apart(Events, Late), Tick
  PROVE  /\ Apart(Events', Late) /\ Said' \subseteq Said
         /\ \/ Said' = Said /\ ~Handling("TtsResponse")
            \/ /\ Handling("TtsResponse")
               /\ Head(batch) \in Said /\ Said \subseteq Said' \cup {Head(batch)}
               /\ \A y \in Said' : <<Head(batch), y>> \notin Late
  <1>a. /\ batch \in Seq(Messages) /\ ws_event_channel \in Seq(Messages)
        /\ Events \in Seq(Messages) /\ WsSide \subseteq Messages
        /\ RequestSide \cap WsSide = {}
    BY EventTypes
  <1>1. CASE DrainRequests
    <2>1. batch = <<>> /\ batch' = request_channel /\ ws_event_channel' = ws_event_channel
      BY <1>1 DEF DrainRequests, QueuesOK
    <2>2. Events = ws_event_channel /\ Events' = request_channel \o ws_event_channel
      BY <1>a, <2>1 DEF Events
    <2>3. request_channel \in Seq(Messages) /\ request_channel \in Seq(RequestSide)
      BY DEF QueuesOK, RestOK
    <2>4. Range(request_channel) \subseteq RequestSide
      BY <2>3 DEF Range
    <2>5. /\ Range(Events') = Range(request_channel) \cup Range(Events)
          /\ Apart(request_channel, Late)
             /\ (\A x \in Range(request_channel), y \in Range(Events) : <<x, y>> \notin Late)
             => Apart(Events', Late)
      BY ZenonT(60), <1>a, <2>2, <2>3, JoinHolds
    <2>6. \A x \in RequestSide : \A y : <<x, y>> \notin Late
      BY <1>a DEF Late
    <2>7. Apart(request_channel, Late)
      BY ZenonT(60), <2>4, <2>6 DEF Apart, Range
    <2>8. Apart(Events', Late) /\ Said' = Said
      BY ZenonT(60), <1>a, <2>4, <2>5, <2>6, <2>7 DEF Said
    <2> QED
      BY <1>1, <2>8 DEF DrainRequests, Handling
  <1>2. CASE DrainWsEvents
    <2>1. batch' = batch \o ws_event_channel /\ ws_event_channel' = <<>>
      BY <1>2 DEF DrainWsEvents
    <2>2. Events' = Events
      BY <1>a, <2>1 DEF Events
    <2> QED
      BY <1>2, <2>2 DEF DrainWsEvents, Handling, Said
  <1>3. ASSUME NEW type, Handling(type)
        PROVE  /\ Apart(Events', Late) /\ Said' \subseteq Said
               /\ \/ Said' = Said /\ ~Handling("TtsResponse")
                  \/ /\ Handling("TtsResponse")
                     /\ Head(batch) \in Said /\ Said \subseteq Said' \cup {Head(batch)}
                     /\ \A y \in Said' : <<Head(batch), y>> \notin Late
    <2>1. /\ batch # <<>> /\ batch' = Tail(batch) /\ ws_event_channel' = ws_event_channel
          /\ Head(batch).type = type
      BY <1>3 DEF Handling, channels
    <2>2. Events # <<>> /\ Head(Events) = Head(batch) /\ Tail(Events) = Events'
      BY <1>a, <2>1 DEF Events
    <2>3. /\ Range(Events) = Range(Events') \cup {Head(batch)}
          /\ Apart(Events', Late) /\ \A y \in Range(Events') : <<Head(batch), y>> \notin Late
      BY ZenonT(60), <1>a, <2>2, TailHolds
    <2>4. Head(batch) \in RequestSide \cup WsSide /\ Head(batch).type = type
      BY <1>3, HandlingQueues
    <2>5. Head(batch) \in WsSide <=> type = "TtsResponse"
      BY <2>4 DEF WsSide, RequestSide
    <2>6. Handling("TtsResponse") => type = "TtsResponse"
      BY <2>1 DEF Handling
    <2>7. CASE type = "TtsResponse"
      BY ZenonT(60), <1>3, <2>3, <2>5, <2>7 DEF Said
    <2>8. CASE type # "TtsResponse"
      BY ZenonT(60), <2>3, <2>5, <2>6, <2>8 DEF Said
    <2> QED
      BY <2>7, <2>8
  <1>4. CASE UNCHANGED <<batch, ws_event_channel>> /\ \A type : ~Handling(type)
    BY <1>4 DEF Events, Said
  <1>5. \/ DrainRequests \/ DrainWsEvents \/ (\E type : Handling(type))
        \/ UNCHANGED <<batch, ws_event_channel>> /\ (batch = <<>> \/ phase # "handle")
    <2>1. CASE Discards \/ (\E r \in Rids : Takes(r)) \/ (\E w : Answers(w))
      <3>1. \E type : Handling(type)
        BY ZenonT(60), <2>1 DEF Discards, Takes, Answers
      <3> QED
        BY <3>1
    <2>2. CASE (\E w : Emits(w)) \/ Pauses \/ Drops
      BY ZenonT(60), <2>2 DEF Emits, Pauses, Drops, channels
    <2> QED
      BY ZenonT(60), <2>1, <2>2, TickFlow
  <1> QED
    BY ZenonT(60), <1>1, <1>2, <1>3, <1>4, <1>5 DEF Handling

(* The frames a step of the tick adds.                                     *)
LEMMA TickFrames ==
  ASSUME RestOK, Tick, Apart(Frames, Twice), \A s \in Starting : s # next_sid
  PROVE  /\ next_sid' \in Nat /\ next_sid' >= next_sid /\ Apart(Frames', Twice)
         /\ \/ Starting' = Starting /\ ~RequestCreatesSession
            \/ /\ Starting' = Starting \cup {next_sid} /\ next_sid' = next_sid + 1
               /\ RequestCreatesSession
  <1>a. cs \in ChangeSets /\ next_sid \in Nat /\ Frames \in Seq(OutWsFrames)
    BY DEF RestOK, ChangeSets, Frames
  <1>b. ASSUME Frames' = Frames PROVE Starting' = Starting
    BY <1>b DEF Starting
  <1>1. CASE RequestCreatesSession
    <2> DEFINE r == Head(batch).rid
               a == OutWsFrame(next_sid, "TaskStart", r)
               b == OutWsFrame(next_sid, "TaskContinue", r)
    <2>1. r \in Rids
      BY SMT, SMTT(60), <1>1, HandlingTypes, MessageFields DEF RequestCreatesSession
    <2>2. a \in OutWsFrames /\ b \in OutWsFrames /\ a.op = "TaskStart" /\ b.op # "TaskStart"
          /\ a.session = next_sid
      BY <1>a, <2>1 DEF OutWsFrame, OutWsFrames
    <2>3. Frames' = Frames \o <<a, b>> /\ next_sid' = next_sid + 1
      BY ZenonT(60), <1>1, <1>a DEF RequestCreatesSession, BindTo, Frames, ChangeSets
    <2> HIDE DEF a, b
    <2>4. <<a, b>> \notin Twice
      BY <2>2 DEF Twice
    <2>5. /\ <<a, b>> \in Seq(OutWsFrames) /\ Range(<<a, b>>) = {a, b} /\ Apart(<<a, b>>, Twice)
      BY ZenonT(60), <2>2, <2>4, ShortHolds
    <2>6. \A x \in Range(Frames) : <<x, a>> \notin Twice /\ <<x, b>> \notin Twice
      BY <2>2 DEF Twice, Starting
    <2>7. Apart(Frames', Twice) /\ Range(Frames') = Range(Frames) \cup {a, b}
      <3>1. \A x \in Range(Frames), y \in Range(<<a, b>>) : <<x, y>> \notin Twice
        BY ZenonT(60), <2>5, <2>6
      <3>2. PICK t : t = <<a, b>>
        BY ZenonT(60)
      <3>3. Apart(Frames \o t, Twice) /\ Range(Frames \o t) = Range(Frames) \cup Range(t)
        BY ZenonT(60), <1>a, <2>5, <3>1, <3>2, JoinHolds
      <3> QED
        BY ZenonT(60), <2>3, <2>5, <3>2, <3>3
    <2>8. Starting' = Starting \cup {next_sid}
      BY ZenonT(60), <2>2, <2>7 DEF Starting
    <2> QED
      BY SMT, SMTT(60), <1>1, <1>a, <2>3, <2>7, <2>8
  <1>2. CASE RequestReusesSession
    <2> DEFINE r == Head(batch).rid
               a == OutWsFrame(FindIdleLeastRecentlyUsed(pool), "TaskContinue", r)
    <2>3. Frames' = Frames \o <<a>> /\ next_sid' = next_sid /\ a.op # "TaskStart"
      <3>1. a.op # "TaskStart"
        BY ZenonT(60) DEF OutWsFrame
      <3> QED
        BY ZenonT(60), <1>2, <1>a, <3>1 DEF RequestReusesSession, BindTo, Frames, ChangeSets
    <2> HIDE DEF a
    <2>c. ~RequestCreatesSession
      BY <1>2 DEF RequestReusesSession, RequestCreatesSession
    <2> DEFINE T == OutWsFrames \cup {a}
    <2>4. Frames \in Seq(T) /\ a \in T
      BY <1>a
    <2> HIDE DEF T
    <2>5. <<a>> \in Seq(T) /\ Range(<<a>>) = {a} /\ Apart(<<a>>, Twice)
      BY ZenonT(60), <2>4, ShortHolds
    <2>6. \A x \in Range(Frames) : <<x, a>> \notin Twice
      BY <2>3 DEF Twice
    <2>7. Apart(Frames', Twice) /\ Range(Frames') = Range(Frames) \cup {a}
      <3>1. \A x \in Range(Frames), y \in Range(<<a>>) : <<x, y>> \notin Twice
        BY ZenonT(60), <2>5, <2>6
      <3>2. PICK t : t = <<a>>
        BY ZenonT(60)
      <3>3. Apart(Frames \o t, Twice) /\ Range(Frames \o t) = Range(Frames) \cup Range(t)
        BY ZenonT(60), <2>4, <2>5, <3>1, <3>2, JoinHolds
      <3> QED
        BY ZenonT(60), <2>3, <2>5, <3>2, <3>3
    <2>8. Starting' = Starting
      BY ZenonT(60), <2>3, <2>7 DEF Starting
    <2> QED
      BY SMT, SMTT(60), <1>a, <2>3, <2>7, <2>8, <2>c
  <1>3. CASE ~Binds
    <2>1. Frames' = Frames
      <3>1. CASE \/ DrainRequests \/ DrainWsEvents \/ RequestDenied \/ RequestNoSession
                 \/ HandleCancel \/ HandleConnected \/ HandleTaskStarted \/ HandleAudioChunk
                 \/ HandleTaskFinished \/ HandleTaskFailed \/ HandleDisconnected
                 \/ BatchHandled \/ AllEmitted
        BY ZenonT(60), <3>1 DEF DrainRequests, DrainWsEvents, RequestDenied, RequestNoSession, HandleCancel,
             HandleConnected, HandleTaskStarted, HandleAudioChunk, HandleTaskFinished,
             HandleTaskFailed, HandleDisconnected, Response, BatchHandled, AllEmitted, Frames
      <3>2. CASE RequestLocal
        BY ZenonT(60), <1>a, <3>2 DEF RequestLocal, ChangeSets, Frames
      <3>3. CASE HandleLocalComplete \/ HandleLocalFailed
        <4>1. PICK w : LocalDone(w)
          BY ZenonT(60), <3>3 DEF HandleLocalComplete, HandleLocalFailed
        <4> QED
          BY ZenonT(60), <1>a, <4>1 DEF LocalDone, ChangeSets, Frames
      <3>4. CASE \E r \in Rids : EmitCompleted(r)
        BY ZenonT(60), <1>a, <3>4 DEF EmitCompleted, ChangeSets, Frames
      <3>5. CASE \E id \in Ids(pool) : EvolveCloses(id)
        BY ZenonT(60), <1>a, <3>5 DEF EvolveCloses, ChangeSets, Frames
      <3>6. CASE EvolveRequests
        BY ZenonT(60), <1>a, <3>6 DEF EvolveRequests, ChangeSets, Frames
      <3> QED
        BY ZenonT(60), <1>3, <3>1, <3>2, <3>3, <3>4, <3>5, <3>6 DEF Tick, Binds
    <2>2. next_sid' \in {next_sid, next_sid + 1}
      <3>1. CASE HandleLocalComplete \/ HandleLocalFailed
        BY ZenonT(60), <3>1 DEF HandleLocalComplete, HandleLocalFailed, LocalDone
      <3>2. CASE ~(HandleLocalComplete \/ HandleLocalFailed)
        BY ZenonT(60), <1>3, <3>2 DEF Tick, Binds, DrainRequests, DrainWsEvents, RequestDenied, RequestLocal,
             RequestNoSession, HandleCancel,
             HandleConnected, HandleTaskStarted, HandleAudioChunk, HandleTaskFinished,
             HandleTaskFailed, HandleDisconnected, Response, BatchHandled, AllEmitted,
             EmitCompleted, EvolveCloses, EvolveRequests, board
      <3> QED
        BY <3>1, <3>2
    <2> QED
      BY SMT, SMTT(60), <1>3, <1>a, <1>b, <2>1, <2>2 DEF Binds
  <1> QED
    BY <1>1, <1>2, <1>3 DEF Binds

\* What a step of the tick may do to the record of a request.
Keeps(r) ==
  /\ r \in DOMAIN pending
  /\ pending'[r].session_id = pending[r].session_id
  /\ pending'[r].final_received = pending[r].final_received
  /\ pending'[r].state \in {pending[r].state, "Failed", "Cancelled"}

Bound(r) ==
  /\ Binds /\ r \notin LocalRids
  /\ pending'[r].session_id = IF RequestCreatesSession THEN next_sid ELSE FindIdleLeastRecentlyUsed(pool)
  /\ ~pending'[r].final_received

Chunk(r) ==
  /\ HandleAudioChunk
  /\ r \in DOMAIN pending /\ r = CurrentRequest(pool, Head(batch).session)
  /\ pending'[r].session_id = pending[r].session_id
  /\ pending'[r].state = pending[r].state

Local(r) ==
  /\ r \in LocalRids
  /\ \/ pending'[r].session_id = NoSession
     \/ r \in DOMAIN pending /\ pending'[r].session_id = pending[r].session_id

(* Every record is kept, bound, given a chunk, or that of a local request; *)
(* a failed task fails the requests of its session.                        *)
LEMMA TickRecords ==
  ASSUME RestOK, Tick
  PROVE  /\ \A r \in DOMAIN pending' : Keeps(r) \/ Bound(r) \/ Chunk(r) \/ Local(r)
         /\ HandleTaskFailed => \A r \in DOMAIN pending' :
              pending'[r].session_id = Head(batch).session => pending'[r].state = "Failed"
  <1> DEFINE P == \A r \in DOMAIN pending' : Keeps(r) \/ Bound(r) \/ Chunk(r) \/ Local(r)
  <1>a. /\ pending \in [DOMAIN pending -> PendingRequests(Audio)] /\ DOMAIN pending \subseteq Rids
        /\ \A x \in DOMAIN pending :
             DOMAIN pending[x] = {"session_id", "state", "accumulated_audio", "final_received"}
    BY DEF RestOK, PendingRequests
  <1>b. ASSUME NEW S, NEW x \in {"Failed", "Cancelled"}, pending' = SetPendingState(pending, S, x)
        PROVE  /\ \A r \in DOMAIN pending' : Keeps(r)
               /\ \A r \in DOMAIN pending' \cap S : pending'[r].state = x
    <2>1. /\ DOMAIN pending' = DOMAIN pending
          /\ \A r \in DOMAIN pending : /\ pending'[r].session_id = pending[r].session_id
                                       /\ pending'[r].final_received = pending[r].final_received
      BY <1>a, <1>b, SetStateFields
    <2>2. \A r \in DOMAIN pending :
            pending'[r] = IF r \in S THEN [pending[r] EXCEPT !.state = x] ELSE pending[r]
      BY ZenonT(60), <1>b DEF SetPendingState
    <2>3. \A r \in DOMAIN pending : [pending[r] EXCEPT !.state = x].state = x
      BY ZenonT(60), <1>a
    <2>4. \A r \in DOMAIN pending : pending'[r].state = IF r \in S THEN x ELSE pending[r].state
      BY ZenonT(60), <2>2, <2>3
    <2> QED
      BY ZenonT(60), <2>1, <2>4 DEF Keeps
  <1>d. ASSUME NEW S, pending' = PendingRemove(pending, S) PROVE \A r \in DOMAIN pending' : Keeps(r)
    <2>1. DOMAIN pending' = DOMAIN pending \ S /\ \A q \in DOMAIN pending \ S : pending'[q] = pending[q]
      BY <1>d DEF PendingRemove
    <2> QED
      BY ZenonT(60), <2>1 DEF Keeps
  <1>1. ASSUME \/ DrainRequests \/ DrainWsEvents \/ RequestDenied \/ RequestNoSession
             \/ HandleConnected \/ HandleTaskStarted \/ HandleTaskFinished
             \/ BatchHandled \/ AllEmitted \/ \E id \in Ids(pool) : EvolveCloses(id)
        PROVE  P
    <2>1. pending' = pending
      BY ZenonT(60), <1>1 DEF DrainRequests, DrainWsEvents, RequestDenied, RequestNoSession, HandleConnected,
                  HandleTaskStarted, HandleTaskFinished, BatchHandled, AllEmitted, EvolveCloses, board
    <2> QED
      BY ZenonT(60), <2>1 DEF Keeps
  <1>2. ASSUME RequestLocal
        PROVE  P
    <2>r. PICK r : r = Head(batch).rid
      OBVIOUS
    <2>1. r \in LocalRids
      BY SMT, SMTT(60), <1>2, <2>r, HandlingTypes, MessageFields DEF RequestLocal, LocalRids
    <2>2. \/ pending' = SetPendingState(pending, {r}, "Streaming")
          \/ pending' = PendingAdd(pending, r, PendingRequest(NoSession, "Streaming"))
      BY <1>2, <2>r DEF RequestLocal
    <2>3. CASE pending' = SetPendingState(pending, {r}, "Streaming")
      <3>1. /\ DOMAIN pending' = DOMAIN pending
            /\ \A q \in DOMAIN pending : pending'[q].session_id = pending[q].session_id
        BY <1>a, <2>3, SetStateFields
      <3>2. \A q \in DOMAIN pending : q # r => pending'[q] = pending[q]
        BY ZenonT(60), <2>3 DEF SetPendingState
      <3> QED
        BY ZenonT(60), <2>1, <3>1, <3>2 DEF Keeps, Local
    <2>4. CASE pending' = PendingAdd(pending, r, PendingRequest(NoSession, "Streaming"))
      <3>1. /\ DOMAIN pending' = DOMAIN pending \cup {r}
            /\ \A q \in DOMAIN pending : q # r => pending'[q] = pending[q]
            /\ pending'[r].session_id = NoSession
        BY <2>4 DEF PendingAdd, PendingRequest
      <3> QED
        BY ZenonT(60), <2>1, <3>1 DEF Keeps, Local
    <2> QED
      BY ZenonT(60), <2>2, <2>3, <2>4
  <1>3. ASSUME Binds
        PROVE  P
    <2>r. PICK r : r = Head(batch).rid
      OBVIOUS
    <2>s. PICK sid : sid = IF RequestCreatesSession THEN next_sid ELSE FindIdleLeastRecentlyUsed(pool)
      OBVIOUS
    <2>1. pending' = PendingAdd(pending, r, PendingRequest(sid, "AwaitingSession"))
      <3>1. CASE RequestCreatesSession
        BY ZenonT(60), <3>1, <2>r, <2>s DEF RequestCreatesSession, BindTo
      <3>2. CASE ~RequestCreatesSession
        BY ZenonT(60), <1>3, <3>2, <2>r, <2>s DEF RequestReusesSession, BindTo, Binds
      <3> QED
        BY <3>1, <3>2
    <2>2. /\ DOMAIN pending' = DOMAIN pending \cup {r}
          /\ \A q \in DOMAIN pending : q # r => pending'[q] = pending[q]
          /\ pending'[r].session_id = sid /\ pending'[r].final_received = FALSE
      BY <2>1 DEF PendingAdd, PendingRequest
    <2>4. r \notin LocalRids
      BY ZenonT(60), <1>3, <2>r DEF Binds, RequestReusesSession, RequestCreatesSession, LocalRids
    <2>3. \A q \in DOMAIN pending' : Keeps(q) \/ Bound(q)
      BY ZenonT(60), <1>3, <2>2, <2>4, <2>s DEF Keeps, Bound
    <2> QED
      BY <2>3
  <1>5. ASSUME HandleLocalComplete \/ HandleLocalFailed
        PROVE  P
    <2>1. \A r \in DOMAIN pending' : Keeps(r)
      BY ZenonT(60), <1>5, <1>d DEF HandleLocalComplete, HandleLocalFailed, LocalDone
    <2> QED
      BY <2>1
  <1>6. ASSUME HandleCancel
        PROVE  P
    <2>1. \A r \in DOMAIN pending' : Keeps(r)
      BY ZenonT(60), <1>6, <1>b DEF HandleCancel
    <2> QED
      BY <2>1
  <1>7. ASSUME HandleTaskFailed \/ HandleDisconnected
        PROVE  /\ P
               /\ \A r \in DOMAIN pending' :
                    pending'[r].session_id = Head(batch).session => pending'[r].state = "Failed"
    <2>s. PICK sid : sid = Head(batch).session
      OBVIOUS
    <2>1. pending' = SetPendingState(pending, CollectBySession(pending, sid), "Failed")
      BY ZenonT(60), <1>7, <2>s DEF HandleTaskFailed, HandleDisconnected
    <2>2. /\ \A r \in DOMAIN pending' : Keeps(r)
          /\ \A r \in DOMAIN pending' \cap CollectBySession(pending, sid) : pending'[r].state = "Failed"
      BY ZenonT(60), <1>b, <2>1
    <2>3. \A r \in DOMAIN pending' : pending'[r].session_id = sid => r \in CollectBySession(pending, sid)
      BY ZenonT(60), <2>2 DEF Keeps, CollectBySession
    <2> QED
      BY ZenonT(60), <2>2, <2>3, <2>s
  <1>8. ASSUME HandleAudioChunk
        PROVE  P
    <2>c. PICK c : c = CurrentRequest(pool, Head(batch).session)
      BY ZenonT(60)
    <2>1. PICK a, f : pending' = AppendChunk(pending, c, a, f)
      BY ZenonT(60), <1>8, <2>c DEF HandleAudioChunk
    <2>2. /\ DOMAIN pending' = DOMAIN pending
          /\ \A x \in DOMAIN pending : /\ pending'[x].session_id = pending[x].session_id
                                       /\ x # c => pending'[x] = pending[x]
      BY <1>a, <2>1, AppendFields
    <2>3. ASSUME c \in DOMAIN pending PROVE pending'[c].state = pending[c].state
      <3> DEFINE rec == [pending[c] EXCEPT !.accumulated_audio = Append(@, a), !.final_received = @ \/ f]
      <3>1. pending' = [pending EXCEPT ![c] = rec]
        BY ZenonT(60), <1>a, <2>1, <2>3 DEF AppendChunk
      <3>2. rec.state = pending[c].state
        BY ZenonT(60), <1>a, <2>3
      <3> HIDE DEF rec
      <3> QED
        BY ZenonT(60), <2>3, <3>1, <3>2
    <2>5. \A r \in DOMAIN pending' : Keeps(r) \/ Chunk(r)
      BY ZenonT(60), <1>8, <2>2, <2>3, <2>c DEF Keeps, Chunk
    <2> QED
      BY <2>5
  <1>9. ASSUME \E r \in Rids : EmitCompleted(r)
        PROVE  P
    <2>1. PICK r \in Rids : EmitCompleted(r)
      BY <1>9
    <2>2. \A x \in DOMAIN pending' : Keeps(x)
      BY ZenonT(60), <2>1, <1>d DEF EmitCompleted
    <2> QED
      BY <2>2
  <1>10. ASSUME EvolveRequests
        PROVE  P
    <2>1. \A x \in DOMAIN pending' : Keeps(x)
      BY ZenonT(60), <1>10, <1>d DEF EvolveRequests
    <2> QED
      BY <2>1
  <1> HIDE DEF P
  <1>11. P
    BY ZenonT(60), <1>1, <1>2, <1>3, <1>5, <1>6, <1>7, <1>8, <1>9, <1>10 DEF Tick, Binds
  <1> QED
    BY ZenonT(60), <1>7, <1>11 DEF P

-----------------------------------------------------------------------------
(* How requests fail and sessions end.                                     *)

\* Sessions the tick has decided to close.
Closing == {c.session : c \in cs.close_sessions}

(* Without a cancellation a request fails only with its session.           *)
LEMMA TickFails ==
  ASSUME RestOK, Tick, ~HandleCancel, NEW r \in DOMAIN pending',
         pending'[r].state \in {"Failed", "Cancelled"}
  PROVE  /\ r \in DOMAIN pending /\ pending'[r].session_id = pending[r].session_id
         /\ \/ pending'[r].state = pending[r].state
            \/ /\ pending'[r].state = "Failed" /\ pending[r].session_id = Head(batch).session
               /\ HandleTaskFailed \/ HandleDisconnected
  <1> DEFINE P == /\ r \in DOMAIN pending /\ pending'[r].session_id = pending[r].session_id
                  /\ \/ pending'[r].state = pending[r].state
                     \/ /\ pending'[r].state = "Failed" /\ pending[r].session_id = Head(batch).session
                        /\ HandleTaskFailed \/ HandleDisconnected
  <1>a. /\ pending \in [DOMAIN pending -> PendingRequests(Audio)] /\ DOMAIN pending \subseteq Rids
        /\ \A x \in DOMAIN pending :
             DOMAIN pending[x] = {"session_id", "state", "accumulated_audio", "final_received"}
    BY DEF RestOK, PendingRequests
  <1>d. ASSUME NEW S, pending' = PendingRemove(pending, S) PROVE P
    BY ZenonT(60), <1>d DEF PendingRemove
  <1>e. ASSUME NEW S, NEW x, pending' = SetPendingState(pending, S, x)
        PROVE  /\ r \in DOMAIN pending /\ pending'[r].session_id = pending[r].session_id
               /\ pending'[r].state = IF r \in S THEN x ELSE pending[r].state
    <2>1. r \in DOMAIN pending /\ pending'[r].session_id = pending[r].session_id
      BY SMT, SMTT(60), <1>a, <1>e, SetStateFields
    <2>2. pending'[r] = IF r \in S THEN [pending[r] EXCEPT !.state = x] ELSE pending[r]
      BY ZenonT(60), <1>e, <2>1 DEF SetPendingState
    <2>3. [pending[r] EXCEPT !.state = x].state = x
      BY ZenonT(60), <1>a, <2>1
    <2> QED
      BY ZenonT(60), <2>1, <2>2, <2>3
  <1>f. ASSUME NEW q, NEW s, NEW x \in {"AwaitingSession", "Streaming"},
               pending' = PendingAdd(pending, q, PendingRequest(s, x))
        PROVE  P
    <2>1. PendingRequest(s, x).state = x
      BY ZenonT(60) DEF PendingRequest
    <2>2. r # q
      BY ZenonT(60), <1>f, <2>1 DEF PendingAdd
    <2> QED
      BY ZenonT(60), <1>f, <2>2 DEF PendingAdd
  <1>1. ASSUME \/ DrainRequests \/ DrainWsEvents \/ RequestDenied \/ RequestNoSession
             \/ HandleConnected \/ HandleTaskStarted \/ HandleTaskFinished
             \/ BatchHandled \/ AllEmitted \/ \E id \in Ids(pool) : EvolveCloses(id)
        PROVE  P
    <2>1. pending' = pending
      BY ZenonT(60), <1>1 DEF DrainRequests, DrainWsEvents, RequestDenied, RequestNoSession, HandleConnected,
                  HandleTaskStarted, HandleTaskFinished, BatchHandled, AllEmitted, EvolveCloses, board
    <2> QED
      BY ZenonT(60), <2>1
  <1>2. ASSUME RequestLocal PROVE P
    <2>r. PICK q : q = Head(batch).rid
      OBVIOUS
    <2>2. \/ pending' = SetPendingState(pending, {q}, "Streaming")
          \/ pending' = PendingAdd(pending, q, PendingRequest(NoSession, "Streaming"))
      BY <1>2, <2>r DEF RequestLocal
    <2>3. CASE pending' = SetPendingState(pending, {q}, "Streaming")
      BY SMT, SMTT(60), <1>e, <2>3
    <2> QED
      BY ZenonT(60), <2>2, <2>3, <1>f
  <1>3. ASSUME Binds PROVE P
    <2>1. PICK q, sid : pending' = PendingAdd(pending, q, PendingRequest(sid, "AwaitingSession"))
      BY ZenonT(60), <1>3 DEF RequestCreatesSession, RequestReusesSession, BindTo, Binds
    <2> QED
      BY ZenonT(60), <1>f, <2>1
  <1>5. ASSUME HandleLocalComplete \/ HandleLocalFailed \/ EvolveRequests \/ \E q \in Rids : EmitCompleted(q)
        PROVE  P
    <2>1. \E S : pending' = PendingRemove(pending, S)
      BY ZenonT(60), <1>5 DEF HandleLocalComplete, HandleLocalFailed, LocalDone, EvolveRequests, EmitCompleted
    <2> QED
      BY ZenonT(60), <2>1, <1>d
  <1>7. ASSUME HandleTaskFailed \/ HandleDisconnected PROVE P
    <2>s. PICK sid : sid = Head(batch).session
      BY ZenonT(60)
    <2>1. pending' = SetPendingState(pending, CollectBySession(pending, sid), "Failed")
      BY ZenonT(60), <1>7, <2>s DEF HandleTaskFailed, HandleDisconnected
    <2>2. /\ r \in DOMAIN pending /\ pending'[r].session_id = pending[r].session_id
          /\ pending'[r].state = IF r \in CollectBySession(pending, sid) THEN "Failed" ELSE pending[r].state
      BY ZenonT(60), <1>e, <2>1
    <2>3. r \in CollectBySession(pending, sid) => pending[r].session_id = sid
      BY ZenonT(60) DEF CollectBySession
    <2> QED
      BY ZenonT(60), <1>7, <2>2, <2>3, <2>s
  <1>8. ASSUME HandleAudioChunk PROVE P
    <2>1. PICK c, a, f : pending' = AppendChunk(pending, c, a, f)
      BY ZenonT(60), <1>8 DEF HandleAudioChunk
    <2>2. /\ DOMAIN pending' = DOMAIN pending
          /\ \A x \in DOMAIN pending : /\ pending'[x].session_id = pending[x].session_id
                                       /\ x # c => pending'[x] = pending[x]
      BY SMT, SMTT(60), <1>a, <2>1, AppendFields
    <2>3. ASSUME c \in DOMAIN pending PROVE pending'[c].state = pending[c].state
      <3> DEFINE rec == [pending[c] EXCEPT !.accumulated_audio = Append(@, a), !.final_received = @ \/ f]
      <3>1. pending' = [pending EXCEPT ![c] = rec]
        BY ZenonT(60), <1>a, <2>1, <2>3 DEF AppendChunk
      <3>2. rec.state = pending[c].state
        BY ZenonT(60), <1>a, <2>3
      <3> HIDE DEF rec
      <3> QED
        BY ZenonT(60), <2>3, <3>1, <3>2
    <2> QED
      BY ZenonT(60), <2>2, <2>3
  <1> HIDE DEF P
  <1>11. P
    BY ZenonT(60), <1>1, <1>2, <1>3, <1>5, <1>7, <1>8 DEF Tick, Binds
  <1> QED
    BY ZenonT(60), <1>11 DEF P

(* What the tick adds to the sessions to be closed.                        *)
LEMMA TickCloses ==
  ASSUME RestOK, Tick
  PROVE  /\ phase' \notin {"jobs", "idle"}
         /\ \/ phase \notin {"evolve", "dispatch"} /\ Closing' = Closing
            \/ /\ phase' \in {"evolve", "dispatch"}
               /\ \/ \E id \in Ids(pool) : EvolveCloses(id) /\ Closing' = Closing \cup {id}
                  \/ /\ EvolveRequests
                     /\ Closing' = Closing \cup {pending[r].session_id : r \in CollectTerminal(pending)}
  <1>a. cs \in ChangeSets
    BY DEF RestOK
  <1>b. ASSUME NEW C, cs' = [cs EXCEPT !.close_sessions = C] PROVE Closing' = {c.session : c \in C}
    BY ZenonT(60), <1>a, <1>b DEF ChangeSets, Closing
  <1>1. CASE DrainRequests \/ DrainWsEvents \/ BatchHandled \/ AllEmitted
    BY ZenonT(60), <1>1 DEF DrainRequests, DrainWsEvents, BatchHandled, AllEmitted, Closing
  <1>2. ASSUME NEW type, Handling(type) PROVE phase = "handle" /\ phase' = "handle"
    BY <1>2 DEF Handling
  <1>3. ASSUME cs.close_sessions' = cs.close_sessions PROVE Closing' = Closing
    BY ZenonT(60), <1>3 DEF Closing
  <1>4. /\ \A x : [cs EXCEPT !.ws_frames = x].close_sessions = cs.close_sessions
        /\ \A x : [cs EXCEPT !.local_jobs = x].close_sessions = cs.close_sessions
        /\ \A x : [cs EXCEPT !.client_writes = x].close_sessions = cs.close_sessions
    BY ZenonT(60), <1>a DEF ChangeSets
  <1>5. CASE \/ RequestDenied \/ RequestNoSession \/ HandleCancel \/ HandleConnected \/ HandleTaskStarted
             \/ HandleAudioChunk \/ HandleTaskFinished \/ HandleTaskFailed \/ HandleDisconnected
    <2>1. cs' = cs /\ \E type : Handling(type)
      BY ZenonT(60), <1>5 DEF RequestDenied, RequestNoSession, HandleCancel, HandleConnected, HandleTaskStarted,
            HandleAudioChunk, HandleTaskFinished, HandleTaskFailed, HandleDisconnected, Response
    <2> QED
      BY ZenonT(60), <1>2, <1>3, <2>1
  <1>6. CASE RequestLocal \/ Binds \/ HandleLocalComplete \/ HandleLocalFailed
    <2>1. cs.close_sessions' = cs.close_sessions /\ \E type : Handling(type)
      BY ZenonT(60), <1>4, <1>6 DEF RequestLocal, Binds, RequestReusesSession, RequestCreatesSession, BindTo,
            HandleLocalComplete, HandleLocalFailed, LocalDone
    <2> QED
      BY ZenonT(60), <1>2, <1>3, <2>1
  <1>7. ASSUME NEW r \in Rids, EmitCompleted(r)
        PROVE  phase' = "emit" /\ phase = "emit" /\ Closing' = Closing
    <2>1. cs.close_sessions' = cs.close_sessions
      BY ZenonT(60), <1>4, <1>7 DEF EmitCompleted
    <2> QED
      BY ZenonT(60), <1>3, <1>7, <2>1 DEF EmitCompleted
  <1>8. ASSUME NEW id \in Ids(pool), EvolveCloses(id)
        PROVE  phase' = "evolve" /\ Closing' = Closing \cup {id}
    <2>1. PICK c : c = [session |-> id, reason |-> CloseReason(id)]
      BY ZenonT(60)
    <2>2. c.session = id
      BY ZenonT(60), <2>1
    <2>3. Closing' = {x.session : x \in cs.close_sessions \cup {c}}
      BY ZenonT(60), <1>8, <1>b, <2>1 DEF EvolveCloses
    <2>4. phase' = "evolve"
      BY <1>8 DEF EvolveCloses
    <2> QED
      BY ZenonT(60), <2>2, <2>3, <2>4 DEF Closing
  <1>9. CASE EvolveRequests
    <2> DEFINE done == CollectTerminal(pending)
               C(r) == [session |-> pending[r].session_id, reason |-> "request_failed_or_cancelled"]
    <2>2. \A r : C(r).session = pending[r].session_id
      BY ZenonT(60)
    <2>3. Closing' = {x.session : x \in cs.close_sessions \cup {C(r) : r \in done}}
      BY ZenonT(60), <1>9, <1>b DEF EvolveRequests
    <2>4. phase' = "dispatch"
      BY <1>9 DEF EvolveRequests
    <2> HIDE DEF C, done
    <2>5. Closing' = Closing \cup {pending[r].session_id : r \in done}
      BY ZenonT(60), <2>2, <2>3 DEF Closing
    <2> QED
      BY ZenonT(60), <1>9, <2>4, <2>5 DEF done
  <1> QED
    BY ZenonT(60), <1>1, <1>5, <1>6, <1>7, <1>8, <1>9 DEF Tick, Binds

(* The end of a session that the tick handles takes it out of the pool or  *)
(* marks it; and this, or evolve, is what takes a session out.             *)
LEMMA TickEnds ==
  ASSUME RestOK, PoolInv, Tick
  PROVE  /\ Handling("TtsResponse") /\ Head(batch).kind \in {"TaskFailed", "Disconnected"} =>
              Head(batch).session \notin Ids(pool') \/ Head(batch).session \in Errored(pool')
         /\ \A s \in Ids(pool) \ Ids(pool') :
              \/ HandleDisconnected /\ s = Head(batch).session
              \/ EvolveCloses(s)
         /\ \A id \in Ids(pool) : EvolveCloses(id) => id \notin Ids(pool')
  <1>a. Ids(pool) \subseteq Nat
    BY SMT, SMTT(60) DEF PoolInv, RestOK
  <1>1. ASSUME Handling("TtsResponse"), Head(batch).kind \in {"TaskFailed", "Disconnected"}
        PROVE  Head(batch).session \notin Ids(pool') \/ Head(batch).session \in Errored(pool')
    <2>1. phase = "handle" /\ Head(batch).type = "TtsResponse"
      BY ZenonT(60), <1>1 DEF Handling
    <2>2. ~Stays /\ ~Creates /\ \A id \in Nat : ~Reuses(id) /\ ~Readies(id) /\ ~Drains(id) /\ ~EvolveCloses(id)
      BY ZenonT(60), <1>1, <2>1 DEF Stays, Creates, RequestCreatesSession, Reuses, RequestReusesSession, Handling,
                  Readies, HandleConnected, Response, Drains, EmitCompleted, EvolveCloses
    <2>3. PICK id \in Nat : Fails(id) \/ Closes(id)
      BY ZenonT(60), <2>2, TickPool
    <2>4. CASE Fails(id)
      BY ZenonT(60), <2>4 DEF Fails, Moves, Errored
    <2>5. CASE Closes(id)
      BY ZenonT(60), <2>2, <2>5 DEF Closes
    <2> QED
      BY <2>3, <2>4, <2>5
  <1>2. ASSUME NEW s \in Ids(pool) \ Ids(pool')
        PROVE  (HandleDisconnected /\ s = Head(batch).session) \/ EvolveCloses(s)
    <2>1. ~Stays /\ ~Creates /\ \A id \in Nat : ~Reuses(id) /\ ~Readies(id) /\ ~Fails(id) /\ ~Drains(id)
      BY ZenonT(60), <1>2 DEF Stays, Creates, Reuses, Readies, Fails, Drains, Moves
    <2>2. PICK id \in Nat : Closes(id)
      BY ZenonT(60), <2>1, TickPool
    <2> QED
      BY ZenonT(60), <1>2, <2>2 DEF Closes
  <1>3. ASSUME NEW id \in Ids(pool), EvolveCloses(id) PROVE id \notin Ids(pool')
    BY ZenonT(60), <1>3 DEF EvolveCloses, MarkClosed, Ids
  <1> QED
    BY ZenonT(60), <1>1, <1>2, <1>3
=============================================================================
