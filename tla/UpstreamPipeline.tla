--------------------------- MODULE UpstreamPipeline ---------------------------
(***************************************************************************)
(* The heartbeat with the upstream path connected, as docs/DEVELOPMENT.md  *)
(* section 7 draws it and tests/test_heartbeat_e2e.cpp drives it: requests *)
(* come in through request_channel, the ChangeSet's frames reach MiniMax   *)
(* over one WebSocket per session, MiniMax's events come back through      *)
(* ws_event_channel.                                                       *)
(*                                                                         *)
(* link models the far end of each WebSocket (external): how far its task  *)
(* has come and the texts it still has to speak, in order.  main.cpp does  *)
(* not connect this path; Server models main.cpp.                          *)
(***************************************************************************)
EXTENDS Heartbeat

CONSTANTS
  MaxChunks,     \* request messages of one SynthesizeClient call
  MaxAudio,      \* chunks of audio per text, the final one included
  CancelRids,    \* requests for which a CancelRequestMsg may be sent
  HarnessBinds,  \* the embedding calls PendingRequestStore::bind_session
  Uptime,        \* steady clock when the process starts
  MaxNow         \* bound on the clock

ASSUME PipelineAssumption ==
  /\ MaxChunks \in Nat /\ MaxAudio \in Nat \ {0}
  /\ CancelRids \subseteq Rids
  /\ HarnessBinds \in BOOLEAN
  /\ Uptime \in Nat /\ MaxNow \in Nat

VARIABLES
  link,       \* the live WebSockets: stage, texts to speak, chunks sent
  sent,       \* request messages sent per request
  cancelled,  \* requests cancelled
  finals      \* history: final writes handed to the client, per request

pipeVars == <<link, sent, cancelled, finals>>
vars == <<hbVars, pipeVars>>

Stages == {"dialing", "connected", "started", "finished", "failed"}

NewLink == [stage |-> "dialing", todo |-> <<>>, chunks |-> 0]

Init ==
  /\ HbInit
  /\ link = [s \in {} |-> NewLink]
  /\ sent = [r \in Rids |-> 0]
  /\ cancelled = {}
  /\ finals = [r \in Rids |-> 0]
  /\ now = Uptime

-----------------------------------------------------------------------------
(* The sender of requests (stage 1).                                       *)

Submit(r) ==
  /\ sent[r] < IF r \in StreamRids THEN 1 ELSE MaxChunks
  /\ sent' = [sent EXCEPT ![r] = @ + 1]
  /\ request_channel' = Append(request_channel, TtsRequestMsg(r))
  /\ UNCHANGED <<phase, ws_event_channel, batch, changed_sessions, cs, board,
                 backend, now, link, cancelled, finals>>

Cancel(r) ==
  /\ r \in CancelRids \ cancelled
  /\ sent[r] > 0
  /\ cancelled' = cancelled \cup {r}
  /\ request_channel' = Append(request_channel, CancelRequestMsg(r))
  /\ UNCHANGED <<phase, ws_event_channel, batch, changed_sessions, cs, board,
                 backend, now, link, sent, finals>>

\* The end-to-end test binds a request between two ticks.
HarnessBind(r) ==
  /\ HarnessBinds
  /\ phase = "idle"
  /\ r \in DOMAIN pending
  /\ pending[r].state = "AwaitingSession"
  /\ pending' = BindSession(pending, r, pending[r].session_id)
  /\ UNCHANGED <<phase, channels, batch, changed_sessions, cs, pool, next_sid,
                 inflight, refused, backend, now, pipeVars>>

-----------------------------------------------------------------------------
(* Execution of the ChangeSet (stage 4): the frames go to their links, one *)
(* after the other; then the writes go to the clients and the links of the *)
(* closed sessions go.  A frame for a session without a link is dropped,   *)
(* as dispatch_pending drops it.                                           *)

SendFrame ==
  LET f == Head(cs.ws_frames) IN
  /\ phase = "dispatch"
  /\ cs.ws_frames # <<>>
  /\ link' = [s \in DOMAIN link \cup (IF f.op = "TaskStart" THEN {f.session} ELSE {}) |->
                IF s \notin DOMAIN link THEN NewLink
                ELSE IF s = f.session /\ f.op = "TaskContinue"
                THEN [link[s] EXCEPT !.todo = Append(@, f.text)]
                ELSE link[s]]
  /\ cs' = [cs EXCEPT !.ws_frames = Tail(@)]
  /\ UNCHANGED <<phase, channels, batch, changed_sessions, board, backend, now,
                 sent, cancelled, finals>>

FinalWrites(r) ==
  Quantify(DOMAIN cs.client_writes,
           LAMBDA i : cs.client_writes[i].rid = r /\ cs.client_writes[i].is_final)

CloseLinks ==
  link' = [s \in DOMAIN link \ {c.session : c \in cs.close_sessions} |-> link[s]]

\* Mutant: collect copies the writes out and leaves them in the builder.
ExecuteChangeSet_KeepsWrites ==
  /\ phase = "dispatch"
  /\ cs.ws_frames = <<>>
  /\ phase' = "jobs"
  /\ CloseLinks
  /\ finals' = [r \in Rids |-> finals[r] + FinalWrites(r)]
  /\ cs' = [cs EXCEPT !.close_sessions = {}]
  /\ UNCHANGED <<channels, batch, changed_sessions, board, backend, now,
                 sent, cancelled>>

ExecuteChangeSet ==
  /\ phase = "dispatch"
  /\ cs.ws_frames = <<>>
  /\ phase' = "jobs"
  /\ CloseLinks
  /\ finals' = [r \in Rids |-> finals[r] + FinalWrites(r)]
  /\ cs' = [EmptyChangeSet EXCEPT !.local_jobs = cs.local_jobs]
  /\ UNCHANGED <<channels, batch, changed_sessions, board, backend, now,
                 sent, cancelled>>

-----------------------------------------------------------------------------
(* MiniMax: what one session may report next.                              *)

Event(s, kind, audio, is_final) ==
  ws_event_channel' = Append(ws_event_channel, TtsResponseMsg(s, kind, audio, is_final))

OnLink ==
  UNCHANGED <<phase, request_channel, batch, changed_sessions, cs, board, backend,
              now, sent, cancelled, finals>>

Advance(s, from, kind, to) ==
  /\ link[s].stage = from
  /\ link' = [link EXCEPT ![s].stage = to]
  /\ Event(s, kind, NoRequest, FALSE)
  /\ OnLink

Connects(s) == Advance(s, "dialing", "Connected", "connected")

StartsTask(s) == Advance(s, "connected", "TaskStarted", "started")

FinishesTask(s) == link[s].todo = <<>> /\ Advance(s, "started", "TaskFinished", "finished")

FailsTask(s) == \E from \in {"connected", "started"} : Advance(s, from, "TaskFailed", "failed")

Speaks(s) ==
  LET l == link[s]
      last == l.chunks + 1 = MaxAudio
  IN
  /\ l.stage = "started"
  /\ l.todo # <<>>
  /\ Event(s, "AudioChunk", Head(l.todo), last)
  /\ link' = [link EXCEPT ![s].todo = IF last THEN Tail(@) ELSE @,
                          ![s].chunks = IF last THEN 0 ELSE @ + 1]
  /\ OnLink

Disconnects(s) ==
  /\ link' = [x \in DOMAIN link \ {s} |-> link[x]]
  /\ Event(s, "Disconnected", NoRequest, FALSE)
  /\ OnLink

AdvanceClock ==
  /\ phase = "idle"
  /\ now < MaxNow
  /\ now' = now + 1
  /\ UNCHANGED <<phase, channels, batch, changed_sessions, cs, board, backend,
                 pipeVars>>

HeartbeatStep ==
  /\ Tick \/ RunLocalJob \/ EndIteration
  /\ UNCHANGED pipeVars

Next ==
  \/ HeartbeatStep
  \/ SendFrame
  \/ ExecuteChangeSet
  \/ AdvanceClock
  \/ \E r \in Rids : Submit(r) \/ Cancel(r) \/ HarnessBind(r)
  \/ \E s \in DOMAIN link :
       Connects(s) \/ StartsTask(s) \/ Speaks(s) \/ FinishesTask(s)
       \/ FailsTask(s) \/ Disconnects(s)

Spec == Init /\ [][Next]_vars

-----------------------------------------------------------------------------
(* Types.  A link speaks the texts of requests.                            *)
TypeOK ==
  /\ HbTypeOK
  /\ link \in [DOMAIN link -> [stage : Stages, todo : Seq(Rids), chunks : Nat]]
  /\ DOMAIN link \subseteq Nat
  /\ sent \in [Rids -> Nat]
  /\ cancelled \subseteq Rids
  /\ finals \in [Rids -> Nat]

(* SessionPool: through every reuse, failure and expiry the LRU list and   *)
(* the session map hold the same ids, each once, and at most max_size_.    *)
PoolConsistent == PoolOK(pool)

(* find_idle_least_recently_used scans the LRU list from its back; that is *)
(* the least recently active session whatever events arrived in between.   *)
LruSorted == LruOrdered(pool)

(* BackpressureController: the unsigned inflight counter stays at or below *)
(* the high watermark (a decrement without its increment would wrap it     *)
(* round to Modulus - 1 and shut the gate for good), and it covers the     *)
(* work: every upstream request in the store and every local job, queued   *)
(* or answered, holds one unit of it.                                      *)
InflightWithin ==
  /\ inflight <= HighWatermark
  /\ inflight >= LocalOutstanding
                 + Cardinality({r \in DOMAIN pending : ~ShouldUseLocal(r)})

(* evolve: between two ticks no failed or cancelled request is left in the *)
(* store and no errored session in the pool, whichever order the failure   *)
(* events of several sessions and the emission of audio came in.           *)
NothingTerminalSurvives ==
  phase \in {"dispatch", "jobs", "idle"} =>
    /\ CollectTerminal(pending) = {}
    /\ \A id \in Ids(pool) : pool.sessions[id].state # "Errored"

(* emit_completed: a SynthesizeStream request gets at most one final write *)
(* over its life, counting those of the ChangeSet under construction.      *)
FinalOnce == \A r \in StreamRids : finals[r] + FinalWrites(r) <= 1

(* handle_response credits audio through current_request_id and fails      *)
(* requests through PendingRequest::session_id: while a stream request is  *)
(* in the store, a session that works for it is the one it is bound to.    *)
SessionBacklink ==
  \A s \in Ids(pool) :
    LET r == pool.sessions[s].current_request_id
    IN r \in StreamRids \cap DOMAIN pending => pending[r].session_id = s

(* Without cancellation the pool and the connections agree between ticks:  *)
(* a pooled session has a live link, or the event that its link failed is  *)
(* on its way; and no link outlives its session.                           *)
PoolMirrorsLinks ==
  phase = "idle" =>
    /\ \A s \in Ids(pool) :
         \/ s \in DOMAIN link /\ link[s].stage # "failed"
         \/ \E m \in Range(ws_event_channel) :
              m.session = s /\ m.kind \in {"TaskFailed", "Disconnected"}
    /\ DOMAIN link \subseteq Ids(pool)

Rank(state) ==
  CASE state = "Connecting" -> 1
    [] state = "Ready"      -> 2
    [] state = "Streaming"  -> 3
    [] state = "Draining"   -> 4
    [] state = "Errored"    -> 5

(* The session state machine: a session only moves forward through         *)
(* Connecting, Ready, Streaming, Draining; an errored one stays errored    *)
(* until it is removed; and a removed id never comes back, whatever events *)
(* of it are still queued.                                                 *)
SessionsOnlyAdvance ==
  [][\A s \in 1 .. next_sid - 1 :
       s \in Ids(pool') =>
         /\ s \in Ids(pool)
         /\ Rank(pool.sessions[s].state) <= Rank(pool'.sessions[s].state)]_vars

-----------------------------------------------------------------------------
(* What the repository says of the program and the code does not keep.     *)

(* docs/DEVELOPMENT.md section 7: the final chunk leads to emit_completed  *)
(* and a WriteToClient.  After the emission pass no request that has       *)
(* received its final chunk remains.                                       *)
FinalChunkIsEmitted ==
  phase = "evolve" =>
    \A r \in DOMAIN pending :
      pending[r].final_received => pending[r].state \in TerminalStates

(* docs/DEVELOPMENT.md section 7: the audio a request accumulates is that  *)
(* of its own text.                                                        *)
OwnAudio ==
  \A i \in DOMAIN cs.client_writes :
    Range(cs.client_writes[i].audio) \subseteq {cs.client_writes[i].rid}

(* README: TTS_POOL_IDLE_MS is the threshold after which an idle session   *)
(* is reclaimed; a session that a request is bound to is not idle.         *)
BoundSessionNotIdleClosed ==
  \A c \in cs.close_sessions :
    c.reason = "idle_timeout" => CollectBySession(pending, c.session) = {}

(* README: TTS_POOL_LIFETIME_S is the maximum life of a session.  No       *)
(* session is older than the process, so none is closed for its age before *)
(* the process has run that long.                                          *)
LifetimeRespected ==
  \A c \in cs.close_sessions :
    c.reason = "lifetime_exceeded" => now - Uptime >= MaxLifetime

(* docs/API.md section 4: inflight_requests is the number of requests in   *)
(* flight, so it is zero when no message is queued, no request is in the   *)
(* store and no local work is under way.                                   *)
InflightDrains ==
  /\ phase = "idle"
  /\ request_channel = <<>>
  /\ DOMAIN pending = {}
  => inflight = 0
=============================================================================
