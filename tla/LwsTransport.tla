---------------------------- MODULE LwsTransport ---------------------------
(***************************************************************************)
(* One upstream connection: frames of the heartbeat go through             *)
(* WsTaskScheduler and UpstreamClient into LwsClient, whose service thread *)
(* writes them (upstream/ws_task_scheduler.h, upstream/upstream_client.h,  *)
(* upstream/lws_transport.cpp).                                            *)
(*                                                                         *)
(* Threads: "owner" holds the client, dispatches, closes and destroys it;  *)
(* "connect" is connect_thread_ (run_loop); "loop" is loop_thread_         *)
(* (service_loop), in which libwebsockets runs the callbacks.  Any of them *)
(* can be in close_internal.  A jthread that joins itself throws, and      *)
(* nothing catches; to use a context or a connection after                 *)
(* lws_context_destroy, or to join a thread twice at once, is undefined.   *)
(* Both are kept in fault, which ends the process.                         *)
(***************************************************************************)
EXTENDS Integers, Sequences

CONSTANTS
  MaxFrames,  \* bound on the frames pumped; a frame is its number
  MaxChunks   \* bound on the pieces of text received

ASSUME TransportAssumption == MaxFrames \in Nat /\ MaxChunks \in Nat

VARIABLES
  at,                \* where each thread is
  closed,            \* closed_
  connected,         \* connected_
  session,           \* UpstreamClient::session_id_ is not empty
  context,           \* context_: "none", "live" or "destroyed"
  wsi,               \* wsi_ is set
  stop_requested,    \* of connect_thread_
  connect_joinable,  \* connect_thread_.joinable()
  loop_joinable,     \* loop_thread_.joinable()
  write_queue,       \* write_queue_
  writable,          \* libwebsockets owes the connection a WRITEABLE callback
  link,              \* the connection, as libwebsockets sees it
  chunks,            \* pieces of text received so far
  outbound,          \* WsTaskScheduler::outbound_
  drained,           \* dispatch_pending's drained, what is still to be sent
  pumped,            \* number of frames pumped
  fault,             \* "none", "self_join" or "undefined"
  ours,              \* history: frames dispatched for this session
  accepted,          \* history: of these, the ones send_text took
  wire,              \* history: texts written to the connection
  ended              \* history: libwebsockets reported an error or the close

handles == <<stop_requested, connect_joinable, loop_joinable>>
threads == <<at, handles>>
flags == <<closed, connected, session, context, wsi>>
sending == <<write_queue, writable, wire>>
scheduler == <<outbound, drained, pumped, ours, accepted>>
transport_vars == <<threads, flags, sending, link, chunks, scheduler, fault, ended>>

Threads == {"owner", "connect", "loop"}
Frames == [number : 1 .. MaxFrames, session : {"ours", "other"}]

Alive == fault = "none"
Goto(t, place) == at' = [at EXCEPT ![t] = place]

\* Undefined behaviour: the process dies or nothing is noticed.
MayFault == fault' \in {"none", "undefined"}

TransportInit ==
  /\ at = [t \in Threads |-> IF t = "owner" THEN "idle" ELSE "none"]
  /\ closed = FALSE /\ connected = FALSE /\ session = FALSE
  /\ context = "none" /\ wsi = FALSE
  /\ stop_requested = FALSE /\ connect_joinable = FALSE /\ loop_joinable = FALSE
  /\ write_queue = <<>> /\ writable = FALSE /\ wire = <<>>
  /\ link = "none"
  /\ chunks = 0
  /\ outbound = <<>> /\ drained = <<>> /\ pumped = 0 /\ ours = <<>> /\ accepted = <<>>
  /\ fault = "none" /\ ended = FALSE

-----------------------------------------------------------------------------
(* The heartbeat pumps; the owner dispatches.                              *)

Pump ==
  /\ Alive
  /\ pumped < MaxFrames
  /\ pumped' = pumped + 1
  /\ \E s \in {"ours", "other"} : outbound' = Append(outbound, [number |-> pumped + 1, session |-> s])
  /\ UNCHANGED <<threads, flags, sending, link, chunks, drained, ours, accepted, fault, ended>>

DispatchPending ==
  /\ Alive
  /\ at["owner"] = "idle"
  /\ drained = <<>> /\ outbound # <<>>
  /\ drained' = outbound
  /\ outbound' = <<>>
  /\ UNCHANGED <<threads, flags, sending, link, chunks, pumped, ours, accepted, fault, ended>>

\* A frame of a session without a client is left out.
SkipFrame ==
  /\ Alive
  /\ at["owner"] = "idle"
  /\ drained # <<>> /\ Head(drained).session = "other"
  /\ drained' = Tail(drained)
  /\ UNCHANGED <<threads, flags, sending, link, chunks, outbound, pumped, ours, accepted, fault, ended>>

\* Mutant: a frame is refused while another waits to be written.
Takes_IfQueueEmpty == connected /\ write_queue = <<>>
Takes == connected

\* UpstreamClient::send: nothing happens unless is_open(); send_text pushes.
Send ==
  /\ Alive
  /\ at["owner"] = "idle"
  /\ drained # <<>> /\ Head(drained).session = "ours"
  /\ drained' = Tail(drained)
  /\ ours' = Append(ours, Head(drained).number)
  /\ IF Takes
     THEN /\ write_queue' = Append(write_queue, Head(drained).number)
          /\ accepted' = Append(accepted, Head(drained).number)
          /\ Goto("owner", "arm")
     ELSE UNCHANGED <<write_queue, accepted, at>>
  /\ UNCHANGED <<handles, flags, writable, wire, link, chunks, outbound, pumped, fault, ended>>

\* The rest of send_text, after write_mtx_.
Arm ==
  /\ Alive
  /\ at["owner"] = "arm"
  /\ Goto("owner", "idle")
  /\ writable' = (writable \/ wsi)
  /\ IF wsi /\ context = "destroyed" THEN MayFault ELSE UNCHANGED fault
  /\ UNCHANGED <<handles, flags, write_queue, wire, link, chunks, scheduler, ended>>

-----------------------------------------------------------------------------
(* open and connect_thread_.                                               *)

Open ==
  /\ Alive
  /\ at["owner"] = "idle" /\ at["connect"] = "none"
  /\ Goto("connect", "create")
  /\ connect_joinable' = TRUE
  /\ UNCHANGED <<stop_requested, loop_joinable, flags, sending, link, chunks, scheduler, fault, ended>>

\* run_loop up to lws_create_context, which can fail.
CreateContext ==
  /\ Alive
  /\ at["connect"] = "create"
  /\ \/ context' = "live" /\ Goto("connect", "connect") /\ UNCHANGED session
     \/ session' = FALSE /\ Goto("connect", "exited") /\ UNCHANGED context
  /\ UNCHANGED <<handles, closed, connected, wsi, sending,
                 link, chunks, scheduler, fault, ended>>

\* connect_wsi; a failure can be reported before it returns.
ConnectWsi ==
  /\ Alive
  /\ at["connect"] = "connect"
  /\ \/ /\ wsi' = TRUE /\ link' = "connecting"
        /\ Goto("connect", "spawn")
        /\ UNCHANGED ended
     \/ /\ link' = "over" /\ ended' = TRUE
        /\ Goto("connect", IF closed THEN "spawn" ELSE "close")
        /\ UNCHANGED wsi
  /\ UNCHANGED <<handles, closed, connected, session, context,
                 sending, chunks, scheduler, fault>>

\* The thread runs before the assignment makes loop_thread_ joinable.
StartLoop ==
  /\ Alive
  /\ at["connect"] = "spawn"
  /\ at' = [at EXCEPT !["connect"] = "assign", !["loop"] = "test"]
  /\ UNCHANGED <<handles, flags, sending, link, chunks, scheduler, fault, ended>>

AssignLoop ==
  /\ Alive
  /\ at["connect"] = "assign"
  /\ loop_joinable' = TRUE
  /\ Goto("connect", "poll")
  /\ UNCHANGED <<stop_requested, connect_joinable, flags, sending, link, chunks, scheduler, fault, ended>>

\* Mutant: run_loop ends with a close_internal of its own.
AfterDestroy_Closes == "close"
AfterDestroy == "exited"

\* The loop of sleeps ends, and the context goes, whatever uses it.
DestroyContext ==
  /\ Alive
  /\ at["connect"] = "poll"
  /\ stop_requested \/ closed
  /\ context' = "destroyed"
  /\ link' = "over"
  /\ Goto("connect", AfterDestroy)
  /\ IF at["loop"] \in {"none", "test", "exited"} THEN UNCHANGED fault ELSE MayFault
  /\ UNCHANGED <<handles, closed, connected, session, wsi, sending, chunks, scheduler, ended>>

-----------------------------------------------------------------------------
(* loop_thread_: the test of service_loop, then lws_service, which waits   *)
(* at most 50 ms and runs the callbacks.                                   *)

\* Mutant: only the thread's own token ends the loop, which nobody stops.
GoesOn_TokenOnly == TRUE
\* context_ is nullptr once it is destroyed.
GoesOn == ~closed /\ context = "live"

LoopTest ==
  /\ Alive
  /\ at["loop"] = "test"
  /\ Goto("loop", IF GoesOn THEN "service" ELSE "exited")
  /\ UNCHANGED <<handles, flags, sending, link, chunks, scheduler, fault, ended>>

InService == Alive /\ at["loop"] = "service"

ServiceReturns ==
  /\ InService
  /\ ~(link = "up" /\ writable)
  /\ Goto("loop", "test")
  /\ UNCHANGED <<handles, flags, sending, link, chunks, scheduler, fault, ended>>

Established ==
  /\ InService
  /\ link = "connecting"
  /\ link' = "up"
  /\ connected' = TRUE
  /\ session' = TRUE
  /\ writable' = TRUE
  /\ Goto("loop", "test")
  /\ UNCHANGED <<handles, closed, context, wsi, write_queue,
                 wire, chunks, scheduler, fault, ended>>

\* Its text goes to recv_buffer_ and, by lines, to UpstreamCodec.
Receive ==
  /\ InService
  /\ link = "up"
  /\ chunks < MaxChunks
  /\ chunks' = chunks + 1
  /\ Goto("loop", "test")
  /\ UNCHANGED <<handles, flags, sending, link, scheduler, fault, ended>>

\* Mutant: the front of the queue is copied and not popped.
Popped_Not(q) == q
Popped(q) == IF q = <<>> THEN q ELSE Tail(q)
\* Mutant: the callback is not asked for again.
AskAgain_Not(q) == FALSE
AskAgain(q) == q # <<>>

Writeable ==
  /\ InService
  /\ link = "up" /\ writable
  /\ wire' = IF write_queue = <<>> THEN wire ELSE Append(wire, Head(write_queue))
  /\ write_queue' = Popped(write_queue)
  /\ writable' = AskAgain(write_queue')
  /\ Goto("loop", "test")
  /\ UNCHANGED <<handles, flags, link, chunks, scheduler, fault, ended>>

\* CONNECTION_ERROR and CLOSED: close_internal on this thread.
LinkEnds ==
  /\ InService
  /\ link \in {"connecting", "up"}
  /\ link' = "over"
  /\ ended' = TRUE
  /\ Goto("loop", IF closed THEN "test" ELSE "close")
  /\ UNCHANGED <<handles, flags, sending, chunks, scheduler, fault>>

-----------------------------------------------------------------------------
(* close_internal, by any thread t.  The test of closed_ and its setting   *)
(* are two steps.                                                          *)

\* UpstreamClient::close, or a destructor.
Close ==
  /\ Alive
  /\ at["owner"] = "idle" /\ drained = <<>>
  /\ ~closed
  /\ Goto("owner", "close")
  /\ UNCHANGED <<handles, flags, sending, link, chunks, scheduler, fault, ended>>

SetClosed(t) ==
  /\ Alive
  /\ at[t] = "close"
  /\ closed' = TRUE
  /\ connected' = FALSE
  /\ writable' = (writable \/ wsi)
  /\ stop_requested' = (stop_requested \/ connect_joinable)
  /\ Goto(t, "join_loop")
  /\ IF wsi /\ context = "destroyed" THEN MayFault ELSE UNCHANGED fault
  /\ UNCHANGED <<connect_joinable, loop_joinable, session, context, wsi, write_queue, wire, link,
                 chunks, scheduler, ended>>

JoinLoop(t) ==
  /\ Alive
  /\ at[t] = "join_loop"
  /\ \/ ~loop_joinable /\ Goto(t, "join_connect") /\ UNCHANGED <<loop_joinable, fault>>
     \/ loop_joinable /\ t = "loop" /\ fault' = "self_join" /\ UNCHANGED <<at, loop_joinable>>
     \/ /\ loop_joinable /\ t # "loop" /\ at["loop"] = "exited"
        /\ loop_joinable' = FALSE
        /\ Goto(t, "join_connect")
        /\ UNCHANGED fault
  /\ UNCHANGED <<stop_requested, connect_joinable, flags, sending, link, chunks, scheduler, ended>>

\* on_close_ clears the session id and the thread goes on behind its call.
Return(t) ==
  /\ session' = FALSE
  /\ Goto(t, CASE t = "owner" -> "idle" [] t = "loop" -> "test" [] OTHER -> "spawn")

JoinedTwice(t) == \E u \in Threads \ {t} : at[u] = "join_connect"

JoinConnect(t) ==
  /\ Alive
  /\ at[t] = "join_connect"
  /\ \/ ~connect_joinable /\ Return(t) /\ UNCHANGED <<connect_joinable, fault>>
     \/ /\ connect_joinable /\ t = "connect"
        /\ fault' = "self_join"
        /\ UNCHANGED <<at, connect_joinable, session>>
     \/ /\ connect_joinable /\ t # "connect" /\ at["connect"] = "exited"
        /\ connect_joinable' = FALSE
        /\ Return(t)
        /\ IF JoinedTwice(t) THEN MayFault ELSE UNCHANGED fault
  /\ UNCHANGED <<stop_requested, loop_joinable, closed, connected, context, wsi, sending, link,
                 chunks, scheduler, ended>>

CloseStep(t) == SetClosed(t) \/ JoinLoop(t) \/ JoinConnect(t)

\* ~LwsClient after ~UpstreamClient: the destructors of the jthreads join.
Destruct ==
  /\ Alive
  /\ at["owner"] = "idle" /\ drained = <<>>
  /\ closed
  /\ at["loop"] \in {"none", "exited"} /\ at["connect"] \in {"none", "exited"}
  /\ Goto("owner", "gone")
  /\ UNCHANGED <<handles, flags, sending, link, chunks, scheduler, fault, ended>>

OwnerStep == DispatchPending \/ SkipFrame \/ Send \/ Arm \/ CloseStep("owner")
ConnectStep ==
  CreateContext \/ ConnectWsi \/ StartLoop \/ AssignLoop \/ DestroyContext \/ CloseStep("connect")
LoopStep ==
  LoopTest \/ ServiceReturns \/ Established \/ Receive \/ Writeable \/ LinkEnds \/ CloseStep("loop")

TransportNext == Pump \/ Open \/ Close \/ Destruct \/ OwnerStep \/ ConnectStep \/ LoopStep

(* Threads that can run do; nobody has to pump, open, close or destroy.    *)
TransportFairness == WF_transport_vars(OwnerStep) /\ WF_transport_vars(ConnectStep) /\ WF_transport_vars(LoopStep)

TransportSpec == TransportInit /\ [][TransportNext]_transport_vars /\ TransportFairness

-----------------------------------------------------------------------------
Queue == INSTANCE FifoQueue WITH Values <- 1 .. MaxFrames, q <- write_queue, closed <- FALSE, out <- wire

(* What send_text takes is written once and in order, by a thread that is  *)
(* not the sender's: the connection implements a queue.                    *)
WritesInOrder == Queue!QSpec

(* UpstreamClient::send drops what comes before the connection stands and  *)
(* after it is closed, and nothing in between: the frames taken are        *)
(* neighbours among those dispatched for the session.                      *)
NoGapInFrames ==
  \E i \in 0 .. Len(ours) - Len(accepted) : accepted = SubSeq(ours, i + 1, i + Len(accepted))

(* A frame that was taken is written, unless the connection ends first.    *)
TakenIsWritten ==
  \A k \in 1 .. MaxFrames :
    (k \in {accepted[i] : i \in DOMAIN accepted})
      ~> (k \in {wire[i] : i \in DOMAIN wire} \/ closed \/ link = "over" \/ ~Alive)

(* Only an error or a close reported by libwebsockets makes a thread join  *)
(* itself: a client closed by its owner does not.                          *)
SelfJoinOnlyIfEnded == fault = "self_join" => ended

(* Once closed_ is set, close_internal returns to its caller, both threads *)
(* end, the context is destroyed and the session id is empty, or the       *)
(* process has died.                                                       *)
CloseCompletes ==
  closed ~> \/ ~Alive
            \/ /\ at["owner"] \in {"idle", "gone"}
               /\ at["connect"] \in {"none", "exited"} /\ at["loop"] \in {"none", "exited"}
               /\ context # "live" /\ ~session

(* docs/DEVELOPMENT.md, error 2201: a session whose connection drops is    *)
(* marked as closed and reclaimed, which takes a client that outlives the  *)
(* drop: no thread joins itself once the session has been opened.          *)
SurvivesDisconnect == session => fault # "self_join"
=============================================================================
