------------------------------ MODULE Heartbeat ------------------------------
(***************************************************************************)
(* Stage 3 of the server: one iteration of the heartbeat thread.           *)
(*                                                                         *)
(*   idle -> drain_ws -> handle -> emit -> evolve -> dispatch -> jobs -> idle *)
(*                                                                         *)
(* "idle" to "evolve" is Heartbeat::tick (heartbeat/heartbeat.h) with the  *)
(* MessageProcessor, DataEvolutionEngine, BackpressureController and       *)
(* ChangeSetBuilder it calls; "dispatch" and "jobs" are the loop body of   *)
(* main.cpp that consumes the ChangeSet on the same thread.                *)
(*                                                                         *)
(* The thread is the only writer of the pool, of the pending store and of  *)
(* the inflight counter, so other threads interleave with it through the   *)
(* two channels alone.  The module has no Next: Server composes it with    *)
(* the gRPC handlers as main.cpp does, UpstreamPipeline with the upstream  *)
(* service as the end-to-end tests do.                                     *)
(*                                                                         *)
(* The clock has the granularity of the pool's timeouts and stands still   *)
(* within a tick.  Counters that only GetMetrics reads are left out.       *)
(***************************************************************************)
EXTENDS SessionPool, PendingRequestStore

CONSTANTS
  StreamRids,     \* ids of SynthesizeStream calls: one request message each
  BidiRids,       \* ids of SynthesizeClient calls: one message per text chunk
  StreamBackends, \* the Backend values SynthesizeStream calls ask for
  HighWatermark,  \* BackpressureController::high_watermark_
  Modulus,        \* 2^64, the modulus of the unsigned inflight counter
  LocalReady,     \* local_engine_ && local_engine_->IsReady()
  PreferLocal     \* prefer_local_

Rids == StreamRids \cup BidiRids

Backends == {"Auto", "Local", "Upstream"}

ASSUME HeartbeatAssumption ==
  /\ IsFiniteSet(Rids)
  /\ StreamRids \cap BidiRids = {}
  /\ NoRequest \notin Rids
  /\ StreamBackends \subseteq Backends
  /\ HighWatermark \in Nat \ {0}
  /\ Modulus \in Nat
  /\ HighWatermark < Modulus
  /\ LocalReady \in BOOLEAN
  /\ PreferLocal \in BOOLEAN

VARIABLES
  phase,             \* where the heartbeat thread is
  request_channel,   \* request_channel_: requests, cancels, local results
  ws_event_channel,  \* ws_event_channel_: upstream events
  batch,             \* what drain_batch returned and tick has not handled yet
  changed_sessions,  \* tick's local set
  cs,                \* the ChangeSet
  pool,              \* DataBoard::session_pool
  next_sid,          \* the next id generate_session_id returns
  pending,           \* DataBoard::pending
  inflight,          \* MetricsSnapshot::inflight_
  refused,           \* requests given up with a WsFrameSendFailedEvent
  backend,           \* the Backend of each request
  now                \* steady_clock::now()

board == <<pool, next_sid, pending, inflight, refused>>
channels == <<request_channel, ws_event_channel>>
hbVars == <<phase, channels, batch, changed_sessions, cs, board, backend, now>>

Phases == {"idle", "drain_ws", "handle", "emit", "evolve", "dispatch", "jobs", "stopped"}

-----------------------------------------------------------------------------
(* Messages (framework/messages.h) and the ChangeSet (change_set.h).       *)

TtsRequestMsg(r) == [type |-> "TtsRequest", rid |-> r]

CancelRequestMsg(r) == [type |-> "Cancel", rid |-> r]

LocalSynthCompleteMsg(r) == [type |-> "LocalComplete", rid |-> r]

LocalSynthFailedMsg(r) == [type |-> "LocalFailed", rid |-> r]

\* audio is the request whose text the chunk speaks.
TtsResponseMsg(sid, kind, audio, is_final) ==
  [type |-> "TtsResponse", session |-> sid, kind |-> kind,
   audio |-> audio, is_final |-> is_final]

WsEventKinds ==
  {"Connected", "TaskStarted", "AudioChunk", "TaskFinished", "TaskFailed", "Disconnected"}

WriteToClient(r, audio, is_final, status) ==
  [rid |-> r, audio |-> audio, is_final |-> is_final, status |-> status]

OutWsFrame(sid, op, r) == [session |-> sid, op |-> op, text |-> r]

EmptyChangeSet ==
  [ws_frames |-> <<>>, client_writes |-> <<>>, close_sessions |-> {}, local_jobs |-> <<>>]

Audio == Rids \cup {NoRequest}

Messages ==
  [type : {"TtsRequest", "Cancel", "LocalComplete", "LocalFailed"}, rid : Rids]
  \cup [type : {"TtsResponse"}, session : Nat, kind : WsEventKinds,
        audio : Audio, is_final : BOOLEAN]

OutWsFrames == [session : Nat, op : {"TaskStart", "TaskContinue"}, text : Rids]

ClientWrites ==
  [rid : Rids, audio : Seq(Audio), is_final : BOOLEAN, status : {"ok", "failed"}]

CloseReasons ==
  {"evolve_session_closed", "lifetime_exceeded", "idle_timeout", "request_failed_or_cancelled"}

CloseSessions == [session : Nat, reason : CloseReasons]

ChangeSets ==
  [ws_frames : Seq(OutWsFrames), client_writes : Seq(ClientWrites),
   close_sessions : SUBSET CloseSessions, local_jobs : Seq(Rids)]

IncInflight == inflight' = (inflight + 1) % Modulus

DecInflight == inflight' = (inflight - 1) % Modulus

HbInit ==
  /\ phase = "idle"
  /\ request_channel = <<>>
  /\ ws_event_channel = <<>>
  /\ batch = <<>>
  /\ changed_sessions = {}
  /\ cs = EmptyChangeSet
  /\ pool = EmptyPool
  /\ next_sid = 1
  /\ pending = EmptyStore
  /\ inflight = 0
  /\ refused = {}
  /\ backend \in [Rids -> Backends]
  /\ \A r \in Rids : backend[r] \in IF r \in StreamRids THEN StreamBackends ELSE {"Auto"}

-----------------------------------------------------------------------------
(* drain_batch: the two channels are emptied one after the other, and the  *)
(* requests are handled before the upstream events.                        *)

DrainRequests ==
  /\ phase = "idle"
  /\ phase' = "drain_ws"
  /\ batch' = request_channel
  /\ request_channel' = <<>>
  /\ UNCHANGED <<ws_event_channel, changed_sessions, cs, board, backend, now>>

DrainWsEvents ==
  /\ phase = "drain_ws"
  /\ phase' = "handle"
  /\ batch' = batch \o ws_event_channel
  /\ ws_event_channel' = <<>>
  /\ UNCHANGED <<request_channel, changed_sessions, cs, board, backend, now>>

-----------------------------------------------------------------------------
(* The message loop of tick.                                               *)

Handling(type) ==
  /\ phase = "handle"
  /\ batch # <<>>
  /\ Head(batch).type = type
  /\ batch' = Tail(batch)
  /\ UNCHANGED <<phase, channels, backend, now>>

\* Mutant: the watermark itself is still admitted.
Admit_OffByOne == inflight <= HighWatermark

\* BackpressureController::evaluate; queued_ is never set and stays 0.
Admit == inflight < HighWatermark

ShouldUseLocal(r) ==
  /\ LocalReady
  /\ \/ backend[r] = "Local"
     \/ backend[r] = "Auto" /\ PreferLocal

RequestDenied ==
  /\ Handling("TtsRequest")
  /\ ~Admit
  /\ refused' = refused \cup {Head(batch).rid}
  /\ UNCHANGED <<changed_sessions, cs, pool, next_sid, pending, inflight>>

RequestLocal ==
  LET r == Head(batch).rid IN
  /\ Handling("TtsRequest")
  /\ Admit
  /\ ShouldUseLocal(r)
  /\ pending' = IF r \in DOMAIN pending
                THEN SetPendingState(pending, {r}, "Streaming")
                ELSE PendingAdd(pending, r, PendingRequest(NoSession, "Streaming"))
  /\ IncInflight
  /\ cs' = [cs EXCEPT !.local_jobs = Append(@, r)]
  /\ UNCHANGED <<changed_sessions, pool, next_sid, refused>>

\* Mutant: the pending record does not name its session.
BindTo_Unbound(r, sid, p, frames) ==
  /\ pending' = PendingAdd(pending, r, PendingRequest(NoSession, "AwaitingSession"))
  /\ IncInflight
  /\ changed_sessions' = changed_sessions \cup {sid}
  /\ pool' = SetCurrentRequest(p, sid, r)
  /\ cs' = [cs EXCEPT !.ws_frames = @ \o frames]
  /\ UNCHANGED refused

\* bind_request, the current_request_id and the frames of handle_request,
\* once a session has been found or made.
BindTo(r, sid, p, frames) ==
  /\ pending' = PendingAdd(pending, r, PendingRequest(sid, "AwaitingSession"))
  /\ IncInflight
  /\ changed_sessions' = changed_sessions \cup {sid}
  /\ pool' = SetCurrentRequest(p, sid, r)
  /\ cs' = [cs EXCEPT !.ws_frames = @ \o frames]
  /\ UNCHANGED refused

RequestReusesSession ==
  LET r   == Head(batch).rid
      sid == FindIdleLeastRecentlyUsed(pool)
  IN
  /\ Handling("TtsRequest")
  /\ Admit
  /\ ~ShouldUseLocal(r)
  /\ sid # NoSession
  /\ BindTo(r, sid, MarkActive(pool, sid, now), <<OutWsFrame(sid, "TaskContinue", r)>>)
  /\ UNCHANGED next_sid

RequestCreatesSession ==
  LET r   == Head(batch).rid
      sid == next_sid
  IN
  /\ Handling("TtsRequest")
  /\ Admit
  /\ ~ShouldUseLocal(r)
  /\ FindIdleLeastRecentlyUsed(pool) = NoSession
  /\ ~PoolFull(pool)
  /\ BindTo(r, sid, Add(pool, sid, SessionRecord(sid)),
            <<OutWsFrame(sid, "TaskStart", r), OutWsFrame(sid, "TaskContinue", r)>>)
  /\ next_sid' = next_sid + 1

RequestNoSession ==
  /\ Handling("TtsRequest")
  /\ Admit
  /\ ~ShouldUseLocal(Head(batch).rid)
  /\ FindIdleLeastRecentlyUsed(pool) = NoSession
  /\ PoolFull(pool)
  /\ refused' = refused \cup {Head(batch).rid}
  /\ next_sid' = next_sid + 1
  /\ UNCHANGED <<changed_sessions, cs, pool, pending, inflight>>

\* Mutant: the unit of inflight is not given back.
LocalDone_Leaks(w) ==
  /\ cs' = [cs EXCEPT !.client_writes = Append(@, w)]
  /\ pending' = PendingRemove(pending, {w.rid})
  /\ UNCHANGED <<changed_sessions, pool, next_sid, inflight, refused>>

\* handle_local_complete and handle_local_failed differ in what they write.
LocalDone(w) ==
  /\ cs' = [cs EXCEPT !.client_writes = Append(@, w)]
  /\ DecInflight
  /\ pending' = PendingRemove(pending, {w.rid})
  /\ UNCHANGED <<changed_sessions, pool, next_sid, refused>>

HandleLocalComplete ==
  LET r == Head(batch).rid IN
  /\ Handling("LocalComplete")
  /\ LocalDone(WriteToClient(r, <<r>>, TRUE, "ok"))

HandleLocalFailed ==
  LET r == Head(batch).rid IN
  /\ Handling("LocalFailed")
  /\ LocalDone(WriteToClient(r, <<>>, TRUE, "failed"))

HandleCancel ==
  /\ Handling("Cancel")
  /\ pending' = SetPendingState(pending, {Head(batch).rid}, "Cancelled")
  /\ UNCHANGED <<changed_sessions, cs, pool, next_sid, inflight, refused>>

\* handle_response, one action per WsEventKind.
Response(kind) ==
  /\ Handling("TtsResponse")
  /\ Head(batch).kind = kind
  /\ UNCHANGED <<cs, next_sid, inflight, refused>>

HandleConnected ==
  LET sid == Head(batch).session IN
  /\ Response("Connected")
  /\ pool' = MarkReady(pool, sid, now)
  /\ changed_sessions' = changed_sessions \cup {sid}
  /\ UNCHANGED pending

HandleTaskStarted ==
  /\ Response("TaskStarted")
  /\ UNCHANGED <<changed_sessions, pool, pending>>

\* The chunk is credited to whatever request the session works for now.
HandleAudioChunk ==
  LET m   == Head(batch)
      rid == CurrentRequest(pool, m.session)
  IN
  /\ Response("AudioChunk")
  /\ pending' = AppendChunk(pending, rid, m.audio, m.is_final)
  /\ UNCHANGED <<changed_sessions, pool>>

HandleTaskFinished ==
  /\ Response("TaskFinished")
  /\ changed_sessions' = changed_sessions \cup {Head(batch).session}
  /\ UNCHANGED <<pool, pending>>

\* Mutant: the failed session is not reported to evolve.
HandleTaskFailed_Unreported ==
  LET sid == Head(batch).session IN
  /\ Response("TaskFailed")
  /\ pending' = SetPendingState(pending, CollectBySession(pending, sid), "Failed")
  /\ pool' = MarkErrored(pool, sid)
  /\ UNCHANGED changed_sessions

HandleTaskFailed ==
  LET sid == Head(batch).session IN
  /\ Response("TaskFailed")
  /\ pending' = SetPendingState(pending, CollectBySession(pending, sid), "Failed")
  /\ pool' = MarkErrored(pool, sid)
  /\ changed_sessions' = changed_sessions \cup {sid}

\* Mutant: the session of a dropped connection stays in the pool.
HandleDisconnected_KeepsSession ==
  LET sid == Head(batch).session IN
  /\ Response("Disconnected")
  /\ pending' = SetPendingState(pending, CollectBySession(pending, sid), "Failed")
  /\ changed_sessions' = changed_sessions \cup {sid}
  /\ UNCHANGED pool

HandleDisconnected ==
  LET sid == Head(batch).session IN
  /\ Response("Disconnected")
  /\ pending' = SetPendingState(pending, CollectBySession(pending, sid), "Failed")
  /\ pool' = MarkClosed(pool, sid)
  /\ changed_sessions' = changed_sessions \cup {sid}

BatchHandled ==
  /\ phase = "handle"
  /\ batch = <<>>
  /\ phase' = "emit"
  /\ UNCHANGED <<channels, batch, changed_sessions, cs, board, backend, now>>

-----------------------------------------------------------------------------
(* find_ready_to_emit and emit_completed: one iteration per step, in the   *)
(* order of an unordered map.                                              *)

EmitCompleted(r) ==
  LET p == pending[r] IN
  /\ phase = "emit"
  /\ r \in FindReadyToEmit(pending)
  /\ cs' = [cs EXCEPT !.client_writes =
              Append(@, WriteToClient(r, p.accumulated_audio, p.final_received, "ok"))]
  /\ DecInflight
  /\ pool' = MarkDraining(pool, p.session_id)
  /\ changed_sessions' = changed_sessions \cup {p.session_id}
  /\ pending' = PendingRemove(pending, {r})
  /\ UNCHANGED <<phase, channels, batch, next_sid, refused, backend, now>>

AllEmitted ==
  /\ phase = "emit"
  /\ FindReadyToEmit(pending) = {}
  /\ phase' = "evolve"
  /\ UNCHANGED <<channels, batch, changed_sessions, cs, board, backend, now>>

-----------------------------------------------------------------------------
(* DataEvolutionEngine::evolve: close what failed, what is too old and     *)
(* what has been idle for too long, one session per step, then drop the    *)
(* finished requests.                                                      *)

CloseReason(id) ==
  IF id \in changed_sessions /\ pool.sessions[id].state \in {"Errored", "Closed"}
  THEN "evolve_session_closed"
  ELSE IF LifetimeExpired(pool, id, now) THEN "lifetime_exceeded"
  ELSE IF IdleExpired(pool, id, now) THEN "idle_timeout"
  ELSE "none"

EvolveCloses(id) ==
  /\ phase = "evolve"
  /\ id \in Ids(pool)
  /\ CloseReason(id) # "none"
  /\ pool' = MarkClosed(pool, id)
  /\ cs' = [cs EXCEPT !.close_sessions =
              @ \cup {[session |-> id, reason |-> CloseReason(id)]}]
  /\ UNCHANGED <<phase, channels, batch, changed_sessions, next_sid, pending,
                 inflight, refused, backend, now>>

\* The terminal requests leave the store; the inflight counter stays.
EvolveRequests ==
  LET done == CollectTerminal(pending) IN
  /\ phase = "evolve"
  /\ \A id \in Ids(pool) : CloseReason(id) = "none"
  /\ pending' = PendingRemove(pending, done)
  /\ cs' = [cs EXCEPT !.close_sessions =
              @ \cup {[session |-> pending[r].session_id,
                       reason  |-> "request_failed_or_cancelled"] : r \in done}]
  /\ changed_sessions' = {}
  /\ phase' = "dispatch"
  /\ UNCHANGED <<channels, batch, pool, next_sid, inflight, refused, backend, now>>

Tick ==
  \/ DrainRequests \/ DrainWsEvents
  \/ RequestDenied \/ RequestLocal
  \/ RequestReusesSession \/ RequestCreatesSession \/ RequestNoSession
  \/ HandleLocalComplete \/ HandleLocalFailed \/ HandleCancel
  \/ HandleConnected \/ HandleTaskStarted \/ HandleAudioChunk
  \/ HandleTaskFinished \/ HandleTaskFailed \/ HandleDisconnected
  \/ BatchHandled
  \/ \E r \in Rids : EmitCompleted(r)
  \/ AllEmitted
  \/ \E id \in Ids(pool) : EvolveCloses(id)
  \/ EvolveRequests

-----------------------------------------------------------------------------
(* main.cpp runs the local jobs on the heartbeat thread itself; the engine *)
(* may succeed or fail, and the answer comes back through the request      *)
(* channel.                                                                *)

\* Mutant: a failed synthesis is logged and not answered.
RunLocalJob_DropsFailure ==
  /\ phase = "jobs"
  /\ cs.local_jobs # <<>>
  /\ \/ UNCHANGED request_channel
     \/ request_channel' = Append(request_channel, LocalSynthCompleteMsg(Head(cs.local_jobs)))
  /\ cs' = [cs EXCEPT !.local_jobs = Tail(@)]
  /\ UNCHANGED <<phase, ws_event_channel, batch, changed_sessions, board, backend, now>>

RunLocalJob ==
  /\ phase = "jobs"
  /\ cs.local_jobs # <<>>
  /\ \E answer \in {LocalSynthCompleteMsg(Head(cs.local_jobs)),
                    LocalSynthFailedMsg(Head(cs.local_jobs))} :
       request_channel' = Append(request_channel, answer)
  /\ cs' = [cs EXCEPT !.local_jobs = Tail(@)]
  /\ UNCHANGED <<phase, ws_event_channel, batch, changed_sessions, board, backend, now>>

EndIteration ==
  /\ phase = "jobs"
  /\ cs.local_jobs = <<>>
  /\ phase' = "idle"
  /\ cs' = EmptyChangeSet
  /\ UNCHANGED <<channels, batch, changed_sessions, board, backend, now>>

-----------------------------------------------------------------------------
(* Types of the heartbeat's state.  Every pooled session works for a       *)
(* request and has an id that was drawn before.                            *)
HbTypeOK ==
  /\ phase \in Phases
  /\ request_channel \in Seq(Messages)
  /\ ws_event_channel \in Seq(Messages)
  /\ batch \in Seq(Messages)
  /\ changed_sessions \subseteq Nat
  /\ cs \in ChangeSets
  /\ next_sid \in Nat \ {0}
  /\ pool \in [sessions : [Ids(pool) -> SessionRecords(Rids)], lru : Seq(Nat)]
  /\ Ids(pool) \subseteq 1 .. next_sid - 1
  /\ pending \in [DOMAIN pending -> PendingRequests(Audio)]
  /\ DOMAIN pending \subseteq Rids
  /\ inflight \in 0 .. Modulus - 1
  /\ refused \subseteq Rids
  /\ backend \in [Rids -> Backends]
  /\ now \in Nat

\* Local work that is under way: jobs to run and answers not handled yet.
LocalOutstanding ==
  LET answers(q) == Quantify(DOMAIN q, LAMBDA i : q[i].type \in {"LocalComplete", "LocalFailed"})
  IN Len(cs.local_jobs) + answers(request_channel) + answers(batch)
=============================================================================
