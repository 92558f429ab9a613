------------------------------- MODULE Server -------------------------------
(***************************************************************************)
(* The process main.cpp builds: the gRPC handlers of TtsServiceImpl        *)
(* (entry/tts_service_impl.h), one thread per call; the heartbeat thread,  *)
(* which ticks, hands the writes of the ChangeSet to dispatch_to_writers   *)
(* and runs the local jobs; and the main thread, which shuts down after a  *)
(* signal.  ws_frames, close_sessions and emit_messages of the ChangeSet   *)
(* have no consumer in main.cpp, and ws_event_channel no sender.           *)
(*                                                                         *)
(* A handler is split where it takes or releases a lock or touches a       *)
(* channel.  Authentication and parsing decide before the first shared     *)
(* access, so they appear as a call that is rejected.                      *)
(***************************************************************************)
EXTENDS Heartbeat

CONSTANTS
  MaxChunks,  \* TextChunks of one SynthesizeClient call
  Uptime,     \* steady clock when the process starts
  MaxNow      \* bound on the clock

ASSUME ServerAssumption ==
  /\ MaxChunks \in Nat
  /\ Uptime \in Nat
  /\ MaxNow \in Nat

VARIABLES
  rpc,           \* where the handler of each call is
  status,        \* the grpc::Status it returned
  sent,          \* request messages it has sent
  local_queues,  \* ids in local_queues_
  writers,       \* ids in writers_
  queue,         \* the CopyChannel each stream call polls
  target,        \* what dispatch_to_writers has looked up for the first write
  g_stop,        \* the signal flag
  main_pc,       \* where the main thread is
  missed,        \* stops of main that missed a worker between its test and its wait
  accepted,      \* history: local jobs taken on, per request
  answered,      \* history: final writes dispatched, per request
  lost,          \* history: open calls whose write met no registration
  dangling       \* history: calls whose stream was used after they returned

entryVars == <<rpc, status, sent, local_queues, writers, queue>>
mainVars == <<target, g_stop, main_pc, missed>>
history == <<accepted, answered, lost, dangling>>
vars == <<hbVars, entryVars, mainVars, history>>

Init ==
  /\ HbInit
  /\ now = Uptime
  /\ rpc = [r \in Rids |-> "new"]
  /\ status = [r \in Rids |-> "none"]
  /\ sent = [r \in Rids |-> 0]
  /\ local_queues = {}
  /\ writers = {}
  /\ queue = [r \in Rids |-> <<>>]
  /\ target = "none"
  /\ g_stop = FALSE
  /\ main_pc = "running"
  /\ missed = {}
  /\ accepted = [r \in Rids |-> 0]
  /\ answered = [r \in Rids |-> 0]
  /\ lost = {}
  /\ dangling = {}

-----------------------------------------------------------------------------
(* Steps every handler takes.                                              *)

Goto(r, from, to) == rpc[r] = from /\ rpc' = [rpc EXCEPT ![r] = to]

Return(r, s) == status' = [status EXCEPT ![r] = s]

SendRequest(r) ==
  /\ request_channel' = Append(request_channel, TtsRequestMsg(r))
  /\ sent' = [sent EXCEPT ![r] = @ + 1]
  /\ UNCHANGED <<phase, ws_event_channel, batch, changed_sessions, cs, board, backend, now>>

EntryOnly == UNCHANGED <<hbVars, mainVars, history>>

\* check_auth may refuse any call.
Unauth(r) == Return(r, "UNAUTHENTICATED")

\* unauth() or the ParseError branch: nothing has been sent or registered.
\* The empty settings a SynthesizeClient call parses with are never refused.
Reject(r) ==
  /\ main_pc = "running"
  /\ Goto(r, "new", "done")
  /\ \/ Unauth(r)
     \/ r \in StreamRids /\ Return(r, "INVALID_ARGUMENT")
  /\ UNCHANGED <<sent, local_queues, writers, queue>>
  /\ EntryOnly

-----------------------------------------------------------------------------
(* SynthesizeStream.  The request is sent before the call registers for    *)
(* its answer.                                                             *)

StreamSend(r) ==
  /\ main_pc = "running"
  /\ Goto(r, "new", "sent")
  /\ SendRequest(r)
  /\ UNCHANGED <<status, local_queues, writers, queue, mainVars, history>>

\* Mutant: the writer is registered before the queue.
StreamRegisterQueue_WriterFirst(r) ==
  /\ Goto(r, "sent", "queued")
  /\ writers' = writers \cup {r}
  /\ UNCHANGED <<status, sent, local_queues, queue>>
  /\ EntryOnly

StreamRegisterQueue(r) ==
  /\ Goto(r, "sent", "queued")
  /\ local_queues' = local_queues \cup {r}
  /\ UNCHANGED <<status, sent, writers, queue>>
  /\ EntryOnly

StreamRegisterWriter(r) ==
  /\ Goto(r, "queued", "polling")
  /\ writers' = writers \cup {r}
  /\ UNCHANGED <<status, sent, local_queues, queue>>
  /\ EntryOnly

\* One round of the polling loop: everything queued is taken and written, up
\* to the final response or to a Write that fails.
StreamPoll(r) ==
  /\ rpc[r] = "polling"
  /\ queue[r] # <<>>
  /\ \/ rpc' = [rpc EXCEPT ![r] = "leaving"]
     \/ (\A i \in DOMAIN queue[r] : ~queue[r][i].is_final) /\ UNCHANGED rpc
  /\ queue' = [queue EXCEPT ![r] = <<>>]
  /\ UNCHANGED <<status, sent, local_queues, writers>>
  /\ EntryOnly

\* Mutant: the loop has no deadline and no cancellation.
StreamGiveUp_Never(r) == rpc[r] = "polling" /\ UNCHANGED vars

\* IsCancelled() or the deadline of 60 seconds.
StreamGiveUp(r) ==
  /\ Goto(r, "polling", "leaving")
  /\ UNCHANGED <<status, sent, local_queues, writers, queue>>
  /\ EntryOnly

\* Mutant: only the queue is erased.
StreamLeave_KeepsWriter(r) ==
  /\ Goto(r, "leaving", "done")
  /\ Return(r, "OK")
  /\ local_queues' = local_queues \ {r}
  /\ UNCHANGED <<sent, writers, queue>>
  /\ EntryOnly

StreamLeave(r) ==
  /\ Goto(r, "leaving", "done")
  /\ Return(r, "OK")
  /\ local_queues' = local_queues \ {r}
  /\ writers' = writers \ {r}
  /\ UNCHANGED <<sent, queue>>
  /\ EntryOnly

-----------------------------------------------------------------------------
(* SynthesizeClient.                                                       *)

BidiOpen(r) ==
  /\ main_pc = "running"
  /\ Goto(r, "new", "reading")
  /\ writers' = writers \cup {r}
  /\ UNCHANGED <<status, sent, local_queues, queue>>
  /\ EntryOnly

BidiRead(r) ==
  /\ rpc[r] = "reading"
  /\ sent[r] < MaxChunks
  /\ SendRequest(r)
  /\ UNCHANGED <<rpc, status, local_queues, writers, queue, mainVars, history>>

\* stream->Read returns false; the writer stays registered.
BidiReturn(r) ==
  /\ Goto(r, "reading", "done")
  /\ Return(r, "OK")
  /\ UNCHANGED <<sent, local_queues, writers, queue>>
  /\ EntryOnly

-----------------------------------------------------------------------------
(* The heartbeat thread.                                                   *)

Last(jobs) == jobs[Len(jobs)]

\* Mutant: the loop does not look at g_stop.
HeartbeatTick_IgnoresStop ==
  /\ Tick
  /\ accepted' = IF Len(cs'.local_jobs) > Len(cs.local_jobs)
                 THEN [accepted EXCEPT ![Last(cs'.local_jobs)] = @ + 1]
                 ELSE accepted
  /\ UNCHANGED <<entryVars, mainVars, answered, lost, dangling>>

\* accepted follows what the tick added to the jobs of the ChangeSet.
HeartbeatTick ==
  /\ phase = "idle" => ~g_stop
  /\ Tick
  /\ accepted' = IF Len(cs'.local_jobs) > Len(cs.local_jobs)
                 THEN [accepted EXCEPT ![Last(cs'.local_jobs)] = @ + 1]
                 ELSE accepted
  /\ UNCHANGED <<entryVars, mainVars, answered, lost, dangling>>

HeartbeatJobs ==
  /\ RunLocalJob \/ EndIteration
  /\ UNCHANGED <<entryVars, mainVars, history>>

HeartbeatExit ==
  /\ phase = "idle"
  /\ g_stop
  /\ phase' = "stopped"
  /\ UNCHANGED <<channels, batch, changed_sessions, cs, board, backend, now,
                 entryVars, mainVars, history>>

\* dispatch_to_writers, under the lock: copy the queue pointer and the
\* writer out of the maps.  The queue is preferred.
LookUpWriter ==
  LET r == Head(cs.client_writes).rid IN
  /\ phase = "dispatch"
  /\ cs.client_writes # <<>>
  /\ target = "none"
  /\ target' = IF r \in local_queues THEN "queue"
               ELSE IF r \in writers THEN "writer" ELSE "nobody"
  /\ lost' = IF r \notin local_queues \cup writers /\ rpc[r] # "done"
             THEN lost \cup {r} ELSE lost
  /\ UNCHANGED <<hbVars, entryVars, g_stop, main_pc, missed, accepted, answered, dangling>>

\* ... and after the lock: use what was found.  A writer of a call that has
\* returned holds a pointer to a dead stream.
DeliverWrite ==
  LET w == Head(cs.client_writes)
      r == w.rid
  IN
  /\ phase = "dispatch"
  /\ target # "none"
  /\ target' = "none"
  /\ cs' = [cs EXCEPT !.client_writes = Tail(@)]
  /\ queue' = IF target = "queue" THEN [queue EXCEPT ![r] = Append(@, w)] ELSE queue
  /\ dangling' = IF target = "writer" /\ rpc[r] = "done"
                 THEN dangling \cup {r} ELSE dangling
  /\ writers' = IF target = "writer" /\ w.is_final THEN writers \ {r} ELSE writers
  /\ answered' = IF w.is_final THEN [answered EXCEPT ![r] = @ + 1] ELSE answered
  /\ UNCHANGED <<phase, channels, batch, changed_sessions, board, backend, now,
                 rpc, status, sent, local_queues, g_stop, main_pc, missed, accepted, lost>>

EndDispatch ==
  /\ phase = "dispatch"
  /\ cs.client_writes = <<>>
  /\ phase' = "jobs"
  /\ UNCHANGED <<channels, batch, changed_sessions, cs, board, backend, now,
                 entryVars, mainVars, history>>

HeartbeatThread ==
  HeartbeatTick \/ HeartbeatJobs \/ HeartbeatExit \/ LookUpWriter \/ DeliverWrite \/ EndDispatch

-----------------------------------------------------------------------------
(* The main thread.  After SIGINT or SIGTERM it goes through               *)
(* server->Shutdown(), which waits for the handlers and has no deadline,   *)
(* reactor->stop(), the joins and bus->stop_workers().                     *)

Signal ==
  /\ ~g_stop
  /\ g_stop' = TRUE
  /\ UNCHANGED <<hbVars, entryVars, target, main_pc, missed, history>>

MainGoto(from, to) ==
  /\ main_pc = from
  /\ main_pc' = to
  /\ UNCHANGED <<hbVars, entryVars, target, g_stop, missed, history>>

MainSeesStop == g_stop /\ MainGoto("running", "shutdown")

MainServerDown == (\A r \in Rids : rpc[r] \in {"new", "done"}) /\ MainGoto("shutdown", "reactor")

\* What ReactorPools and EventBus show of the two stops: one returns unless
\* it missed a worker (StopReturns, StopsUnlessMissed) ...
MainReactorStopped == "reactor" \notin missed /\ MainGoto("reactor", "join")

\* server_wait_thread ends with the server; the heartbeat thread sees g_stop.
MainJoins == phase = "stopped" /\ MainGoto("join", "bus")

MainBusStopped == "bus" \notin missed /\ MainGoto("bus", "bye")

\* ... which can happen, as the flag is set without the mutex ...
StopMissesWorker ==
  /\ main_pc \in {"reactor", "bus"} \ missed
  /\ missed' = missed \cup {main_pc}
  /\ UNCHANGED <<hbVars, entryVars, target, g_stop, main_pc, history>>

\* ... and then it returns only if that worker wakes up spuriously.
MissedWorkerWakes ==
  \/ "reactor" \in missed /\ MainGoto("reactor", "join")
  \/ "bus" \in missed /\ MainGoto("bus", "bye")

MainThread ==
  MainSeesStop \/ MainServerDown \/ MainReactorStopped \/ MainJoins \/ MainBusStopped

AdvanceClock ==
  /\ phase = "idle"
  /\ now < MaxNow
  /\ now' = now + 1
  /\ UNCHANGED <<phase, channels, batch, changed_sessions, cs, board, backend,
                 entryVars, mainVars, history>>

StreamHandler(r) ==
  \/ StreamRegisterQueue(r) \/ StreamRegisterWriter(r)
  \/ StreamPoll(r) \/ StreamGiveUp(r) \/ StreamLeave(r)

\* The process has ended.
Finished == main_pc = "bye" /\ UNCHANGED vars

Next ==
  \/ HeartbeatThread
  \/ MainThread
  \/ StopMissesWorker \/ MissedWorkerWakes
  \/ Signal
  \/ AdvanceClock
  \/ \E r \in Rids : Reject(r)
  \/ \E r \in StreamRids : StreamSend(r) \/ StreamHandler(r)
  \/ \E r \in BidiRids : BidiOpen(r) \/ BidiRead(r) \/ BidiReturn(r)
  \/ Finished

(* Threads the operating system runs keep running; a polling call meets    *)
(* its deadline.  Nobody has to call, to signal or to end a stream, and no *)
(* spurious wakeup has to happen.                                          *)
Fairness ==
  /\ WF_vars(HeartbeatThread)
  /\ WF_vars(MainThread)
  /\ \A r \in StreamRids : WF_vars(StreamHandler(r))

Spec == Init /\ [][Next]_vars /\ Fairness

-----------------------------------------------------------------------------
(* Types.                                                                  *)
TypeOK ==
  /\ HbTypeOK
  /\ rpc \in [Rids -> {"new", "sent", "queued", "polling", "leaving", "reading", "done"}]
  /\ status \in [Rids -> {"none", "OK", "UNAUTHENTICATED", "INVALID_ARGUMENT"}]
  /\ sent \in [Rids -> Nat]
  /\ local_queues \subseteq StreamRids
  /\ writers \subseteq Rids
  /\ queue \in [Rids -> Seq(ClientWrites)]
  /\ target \in {"none", "queue", "writer", "nobody"}
  /\ g_stop \in BOOLEAN
  /\ main_pc \in {"running", "shutdown", "reactor", "join", "bus", "bye"}
  /\ missed \subseteq {"reactor", "bus"}
  /\ accepted \in [Rids -> Nat]
  /\ answered \in [Rids -> Nat]
  /\ lost \subseteq Rids
  /\ dangling \subseteq Rids

(* dispatch_to_writers: the ServerWriter of a SynthesizeStream call is     *)
(* written by its own handler alone.  The heartbeat thread never uses the  *)
(* registered writer of such a call, however registration, dispatch and    *)
(* departure interleave.                                                   *)
StreamWritesGoThroughQueue ==
  target = "writer" => Head(cs.client_writes).rid \in BidiRids

(* SynthesizeStream: whichever way the call ends, it leaves nothing in     *)
(* local_queues_ or writers_.                                              *)
NothingLeftRegistered ==
  \A r \in StreamRids : rpc[r] = "done" => r \notin local_queues \cup writers

(* As main.cpp is wired, inflight is exactly the local work under way plus *)
(* the requests that wait in the store for the upstream service.           *)
InflightExact ==
  inflight = LocalOutstanding + Cardinality({r \in DOMAIN pending : ~ShouldUseLocal(r)})

(* SynthesizeStream: a call that has sent its request returns, answered or *)
(* not, stop or no stop.                                                   *)
CallsReturn == \A r \in StreamRids : rpc[r] = "sent" ~> rpc[r] = "done"

(* Every local job taken on is answered with a final write, or the process *)
(* is asked to stop first.                                                 *)
JobsAnswered ==
  \A r \in Rids : answered[r] < accepted[r] ~> answered[r] = accepted[r] \/ g_stop

\* Every client of SynthesizeClient ends its half of the stream, or breaks.
ClientsHangUp == \A r \in BidiRids : rpc[r] = "reading" ~> rpc[r] # "reading"

(* main: after SIGINT or SIGTERM the calls drain, the heartbeat thread is  *)
(* joined and the process ends, or main is left in the very stop that      *)
(* missed a worker: nothing else can keep it.  Shutdown() waits without a  *)
(* deadline, so this is owed only to clients that hang up.                 *)
ShutdownCompletes == ClientsHangUp => (g_stop ~> main_pc = "bye" \/ main_pc \in missed)

-----------------------------------------------------------------------------
(* What the repository says of the program and the code does not keep.     *)

(* docs/API.md section 2: the write for a SynthesizeStream call reaches    *)
(* its local_queue.                                                        *)
StreamAnswerFindsQueue == lost \cap StreamRids = {}

(* docs/API.md section 3: every text chunk of a SynthesizeClient call is   *)
(* answered on its stream.                                                 *)
ChunkAnswerFindsWriter == lost \cap BidiRids = {}

(* docs/API.md section 3: the client half-closes and then reads its        *)
(* responses, so the stream is still there when they are written.          *)
StreamOutlivesAnswers == dangling = {}

(* docs/API.md section 6: a call refused by backpressure ends with         *)
(* RESOURCE_EXHAUSTED.                                                     *)
RefusedCallFails == \A r \in refused : status[r] # "OK"
=============================================================================
