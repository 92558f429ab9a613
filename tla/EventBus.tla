------------------------------ MODULE EventBus ------------------------------
(***************************************************************************)
(* The event bus (framework/event_bus.h, event_bus.cpp): publishers push   *)
(* events into one Inbox, worker threads pop them and call the listeners   *)
(* subscribed at that moment, and stop_workers joins the workers.          *)
(*                                                                         *)
(* The mutex and the condition variable of the Inbox are modelled step by  *)
(* step.  A worker that found the queue empty still holds the mutex when   *)
(* it is about to block ("parking"); close() takes no mutex.  There is one *)
(* event type, so the registry holds one bucket, and slots is a set: the   *)
(* order in which listeners of one event run decides nothing.              *)
(***************************************************************************)
EXTENDS Integers, FiniteSets, Functions, Sequences

CONSTANTS
  Events,      \* the events that may be published, each once
  Listeners,   \* each subscribes and unsubscribes at most once
  NumWorkers,  \* the argument of start_workers
  NoEvent,     \* an empty task pointer
  NoOne        \* nobody holds the mutex of the inbox

Workers == 1 .. NumWorkers

ASSUME BusAssumption ==
  /\ NumWorkers \in Nat \ {0}
  /\ NoEvent \notin Events
  /\ NoOne \notin Workers

VARIABLES
  queue,      \* Inbox::queue_
  mtx,        \* the worker that holds Inbox::mtx_ across steps, or NoOne
  stop,       \* Inbox::stop_
  notifying,  \* events pushed whose notify_one is still to come
  ctl,        \* the thread that starts and stops the bus
  next_del,   \* the worker stop_workers deletes next
  token,      \* workers whose jthread has been asked to stop
  wpc,        \* where each worker is
  task,       \* the event each worker has in hand
  snapshot,   \* the listeners it still has to call
  slots,      \* TypeBucket::slots
  gone,       \* listeners that have unsubscribed
  pushed,     \* history: events in the order of push
  popped,     \* history: events in the order in which workers took them
  finished,   \* history: events whose dispatch is over
  calls,      \* history: <<event, listener>> of every call made
  absent      \* history: listeners that were gone when the event was pushed

inbox == <<queue, mtx, stop, notifying>>
control == <<ctl, next_del, token>>
workers == <<wpc, task, snapshot>>
registry == <<slots, gone>>
history == <<pushed, popped, finished, calls, absent>>
vars == <<inbox, control, workers, registry, history>>

Init ==
  /\ queue = <<>>
  /\ mtx = NoOne
  /\ stop = FALSE
  /\ notifying = {}
  /\ ctl = "new"
  /\ next_del = 1
  /\ token = {}
  /\ wpc = [w \in Workers |-> "unborn"]
  /\ task = [w \in Workers |-> NoEvent]
  /\ snapshot = [w \in Workers |-> {}]
  /\ slots = {}
  /\ gone = {}
  /\ pushed = <<>>
  /\ popped = <<>>
  /\ finished = {}
  /\ calls = {}
  /\ absent = [e \in Events |-> {}]

-----------------------------------------------------------------------------
(* Publishers: push under the mutex, then notify_one without it.           *)

\* Mutant: push_front.
Push_Front(e) ==
  /\ mtx = NoOne
  /\ e \notin Range(pushed)
  /\ queue' = <<e>> \o queue
  /\ pushed' = Append(pushed, e)
  /\ notifying' = notifying \cup {e}
  /\ absent' = [absent EXCEPT ![e] = gone]
  /\ UNCHANGED <<mtx, stop, control, workers, registry, popped, finished, calls>>

Push(e) ==
  /\ mtx = NoOne
  /\ e \notin Range(pushed)
  /\ queue' = Append(queue, e)
  /\ pushed' = Append(pushed, e)
  /\ notifying' = notifying \cup {e}
  /\ absent' = [absent EXCEPT ![e] = gone]
  /\ UNCHANGED <<mtx, stop, control, workers, registry, popped, finished, calls>>

Blocked == {w \in Workers : wpc[w] = "blocked"}

\* Mutant: nobody is woken.
Notify_Forgotten(e) ==
  /\ e \in notifying
  /\ notifying' = notifying \ {e}
  /\ UNCHANGED <<queue, mtx, stop, control, workers, registry, history>>

Notify(e) ==
  /\ e \in notifying
  /\ notifying' = notifying \ {e}
  /\ \/ Blocked = {} /\ UNCHANGED wpc
     \/ \E w \in Blocked : wpc' = [wpc EXCEPT ![w] = "wait"]
  /\ UNCHANGED <<queue, mtx, stop, control, task, snapshot, registry, history>>

-----------------------------------------------------------------------------
(* BusWorker::Impl::run_loop.                                              *)

WorkerOnly == UNCHANGED <<stop, notifying, control, registry, pushed, absent>>

GotoW(w, from, to) == wpc[w] = from /\ wpc' = [wpc EXCEPT ![w] = to]

\* while (!st.stop_requested())
WorkerLoop(w) ==
  /\ GotoW(w, "loop", IF w \in token THEN "exited" ELSE "try")
  /\ UNCHANGED <<queue, mtx, task, snapshot, popped, finished, calls>>
  /\ WorkerOnly

\* Lock, take the front of the queue, unlock: try_pop and wait_pop.
Take(w, from) ==
  /\ mtx = NoOne
  /\ queue # <<>>
  /\ GotoW(w, from, "run")
  /\ task' = [task EXCEPT ![w] = Head(queue)]
  /\ queue' = Tail(queue)
  /\ popped' = Append(popped, Head(queue))
  /\ UNCHANGED <<mtx, snapshot, finished, calls>>
  /\ WorkerOnly

TryPopFails(w) ==
  /\ mtx = NoOne
  /\ queue = <<>>
  /\ GotoW(w, "try", "wait")
  /\ UNCHANGED <<queue, mtx, task, snapshot, popped, finished, calls>>
  /\ WorkerOnly

\* wait_pop with an empty queue and stop_ requested returns nullptr, and
\* run_loop returns.
WaitStopped(w) ==
  /\ mtx = NoOne
  /\ queue = <<>>
  /\ stop
  /\ GotoW(w, "wait", "exited")
  /\ UNCHANGED <<queue, mtx, task, snapshot, popped, finished, calls>>
  /\ WorkerOnly

\* Mutant: the predicate is evaluated without the mutex.
WaitNotReady_Unlocked(w) ==
  /\ mtx = NoOne
  /\ queue = <<>>
  /\ ~stop
  /\ GotoW(w, "wait", "parking")
  /\ UNCHANGED <<queue, mtx, task, snapshot, popped, finished, calls>>
  /\ WorkerOnly

\* The predicate of cv_.wait is false: the worker is going to block.
WaitNotReady(w) ==
  /\ mtx = NoOne
  /\ queue = <<>>
  /\ ~stop
  /\ mtx' = w
  /\ GotoW(w, "wait", "parking")
  /\ UNCHANGED <<queue, task, snapshot, popped, finished, calls>>
  /\ WorkerOnly

\* The condition variable: release the mutex and block, atomically.
Park(w) ==
  /\ GotoW(w, "parking", "blocked")
  /\ mtx' = NoOne
  /\ UNCHANGED <<queue, task, snapshot, popped, finished, calls>>
  /\ WorkerOnly

SpuriousWakeup(w) ==
  /\ GotoW(w, "blocked", "wait")
  /\ UNCHANGED <<queue, mtx, task, snapshot, popped, finished, calls>>
  /\ WorkerOnly

\* dispatch_sync copies the slots under the bucket's mutex ...
TakeSnapshot(w) ==
  /\ GotoW(w, "run", "calling")
  /\ snapshot' = [snapshot EXCEPT ![w] = slots]
  /\ UNCHANGED <<queue, mtx, task, popped, finished, calls>>
  /\ WorkerOnly

\* ... and calls them without it.
CallListener(w) ==
  /\ wpc[w] = "calling"
  /\ \E l \in snapshot[w] :
       /\ snapshot' = [snapshot EXCEPT ![w] = @ \ {l}]
       /\ calls' = calls \cup {<<task[w], l>>}
  /\ UNCHANGED <<queue, mtx, wpc, task, popped, finished>>
  /\ WorkerOnly

DispatchDone(w) ==
  /\ snapshot[w] = {}
  /\ GotoW(w, "calling", "loop")
  /\ task' = [task EXCEPT ![w] = NoEvent]
  /\ finished' = finished \cup {task[w]}
  /\ UNCHANGED <<queue, mtx, snapshot, popped, calls>>
  /\ WorkerOnly

WorkerStep(w) ==
  \/ WorkerLoop(w)
  \/ Take(w, "try") \/ TryPopFails(w)
  \/ Take(w, "wait") \/ WaitStopped(w) \/ WaitNotReady(w) \/ Park(w)
  \/ TakeSnapshot(w) \/ CallListener(w) \/ DispatchDone(w)

-----------------------------------------------------------------------------
(* Subscriptions.                                                          *)

Subscribe(l) ==
  /\ l \notin slots \cup gone
  /\ slots' = slots \cup {l}
  /\ UNCHANGED <<inbox, control, workers, gone, history>>

\* Mutant: the slot is not erased.
Unsubscribe_Keeps(l) ==
  /\ l \in slots \ gone
  /\ gone' = gone \cup {l}
  /\ UNCHANGED <<inbox, control, workers, slots, pushed, popped, finished, calls, absent>>

Unsubscribe(l) ==
  /\ l \in slots
  /\ slots' = slots \ {l}
  /\ gone' = gone \cup {l}
  /\ UNCHANGED <<inbox, control, workers, pushed, popped, finished, calls, absent>>

-----------------------------------------------------------------------------
(* start_workers and stop_workers.                                         *)

ControlGoto(from, to) == ctl = from /\ ctl' = to

StartWorkers ==
  /\ ControlGoto("new", "running")
  /\ wpc' = [w \in Workers |-> "loop"]
  /\ UNCHANGED <<inbox, next_del, token, task, snapshot, registry, history>>

\* running_.exchange(false) and Inbox::close up to request_stop.
CloseInbox ==
  /\ ControlGoto("running", "closing")
  /\ stop' = TRUE
  /\ UNCHANGED <<queue, mtx, notifying, next_del, token, workers, registry, history>>

\* Mutant: the workers that are blocked are not woken.
NotifyAll_None ==
  /\ ControlGoto("closing", "deleting")
  /\ UNCHANGED <<inbox, next_del, token, workers, registry, history>>

NotifyAll ==
  /\ ControlGoto("closing", "deleting")
  /\ wpc' = [w \in Workers |-> IF wpc[w] = "blocked" THEN "wait" ELSE wpc[w]]
  /\ UNCHANGED <<inbox, next_del, token, task, snapshot, registry, history>>

\* delete w: ~jthread requests the thread to stop ...
RequestStop ==
  /\ ctl = "deleting"
  /\ next_del \in Workers \ token
  /\ token' = token \cup {next_del}
  /\ UNCHANGED <<inbox, ctl, next_del, workers, registry, history>>

\* ... and joins it.
Join ==
  /\ ctl = "deleting"
  /\ next_del \in token
  /\ wpc[next_del] = "exited"
  /\ next_del' = next_del + 1
  /\ UNCHANGED <<inbox, ctl, token, workers, registry, history>>

StopReturns ==
  /\ next_del > NumWorkers
  /\ ControlGoto("deleting", "stopped")
  /\ UNCHANGED <<inbox, next_del, token, workers, registry, history>>

Controller == NotifyAll \/ RequestStop \/ Join \/ StopReturns

Next ==
  \/ \E e \in Events : Push(e) \/ Notify(e)
  \/ \E w \in Workers : WorkerStep(w) \/ SpuriousWakeup(w)
  \/ \E l \in Listeners : Subscribe(l) \/ Unsubscribe(l)
  \/ StartWorkers \/ CloseInbox \/ Controller

(* Running threads go on running; a thread that waits for the mutex gets   *)
(* it in the end.  Spurious wakeups are never owed.                        *)
Fairness ==
  /\ \A e \in Events : WF_vars(Notify(e))
  /\ \A w \in Workers : SF_vars(WorkerStep(w))
  /\ WF_vars(Controller)

Spec == Init /\ [][Next]_vars /\ Fairness

-----------------------------------------------------------------------------
(* Types, who holds the mutex (the worker that is about to block), and     *)
(* that no worker does anything before start_workers.                      *)
TypeOK ==
  /\ queue \in Seq(Events)
  /\ mtx \in Workers \cup {NoOne}
  /\ stop \in BOOLEAN
  /\ notifying \subseteq Events
  /\ ctl \in {"new", "running", "closing", "deleting", "stopped"}
  /\ next_del \in Nat
  /\ token \subseteq Workers
  /\ wpc \in [Workers -> {"unborn", "loop", "try", "wait", "parking", "blocked",
                          "run", "calling", "exited"}]
  /\ task \in [Workers -> Events \cup {NoEvent}]
  /\ snapshot \in [Workers -> SUBSET Listeners]
  /\ slots \subseteq Listeners
  /\ gone \subseteq Listeners
  /\ pushed \in Seq(Events)
  /\ popped \in Seq(Events)
  /\ \A w \in Workers : wpc[w] = "parking" <=> mtx = w
  /\ ctl = "new" => \A w \in Workers : wpc[w] = "unborn"

(* Inbox: workers take the events in the order in which they were pushed,  *)
(* each once, and none is lost on the way.                                 *)
Fifo == popped \o queue = pushed

(* Inbox: the workers are never all asleep over a queued event, except     *)
(* while the notify_one of a push is still to come.                        *)
NoSleepOnWork ==
  queue # <<>> /\ (\A w \in Workers : wpc[w] = "blocked") => notifying # {}

(* ScopedSubscription: a listener whose subscription had ended when an     *)
(* event was published is not called for it.                               *)
NoCallAfterUnsubscribe == \A c \in calls : c[2] \notin absent[c[1]]

(* publish_async: while the bus runs, every event published is dispatched. *)
EventsDispatched ==
  \A e \in Events :
    e \in Range(pushed) /\ ctl = "running" ~> e \in finished \/ ctl # "running"

(* stop_workers returns, unless close's notify_all came while a worker was *)
(* between the predicate of its wait and blocking: the notification is     *)
(* given without the mutex, so that only such a worker can miss it.        *)
StopsUnlessMissed ==
  ctl = "closing" ~>
    \/ ctl = "stopped"
    \/ ctl = "deleting" /\ \E w \in Workers : wpc[w] = "parking"

(* stop_workers: tests/test_event_bus.cpp and main.cpp call it and expect  *)
(* it to return.  It need not.                                             *)
StopTerminates == ctl = "closing" ~> ctl = "stopped"
=============================================================================
