---------------------------- MODULE ThreadPool -----------------------------
(***************************************************************************)
(* The worker pool (framework/thread_pool.h).  submit pushes under the     *)
(* mutex and notifies after it.  shutdown sets stop_ WITHOUT the mutex, so *)
(* it can fall between a worker's test of the wait predicate and its       *)
(* joining the wait set: state "window", in which the worker still holds   *)
(* the mutex.  ReactorPools has the next-state relation.                   *)
(***************************************************************************)
EXTENDS Integers, Sequences, FiniteSets

CONSTANTS
  Workers,
  MaxTasks    \* bound on the tasks submitted; a task is its number

VARIABLES
  queue,      \* queue_
  stop,       \* stop_
  pending,    \* notify_one calls of submit that are still to come
  at,         \* where each worker is in worker_loop
  shutdown,   \* where the thread in shutdown() is
  submitted,  \* number of tasks submitted so far
  started,    \* history: the tasks started, in order
  missed      \* history: workers in the window when notify_all came

vars == <<queue, stop, pending, at, shutdown, submitted, started, missed>>

Tasks == 1 .. MaxTasks

In(place) == {w \in Workers : at[w] = place}
MutexFree == In("window") = {}
Goto(w, place) == at' = [at EXCEPT ![w] = place]

Init ==
  /\ queue = <<>>
  /\ stop = FALSE
  /\ pending = 0
  /\ at = [w \in Workers |-> "head"]
  /\ shutdown = "up"
  /\ submitted = 0
  /\ started = <<>>
  /\ missed = {}

\* Mutant: submit forgets to notify.
Notifies_Not == 0
Notifies == 1

\* submit does not look at stop_.
Submit ==
  /\ submitted < MaxTasks
  /\ MutexFree
  /\ submitted' = submitted + 1
  /\ queue' = Append(queue, submitted + 1)
  /\ pending' = pending + Notifies
  /\ UNCHANGED <<stop, at, shutdown, started, missed>>

NotifyOne ==
  /\ pending > 0
  /\ pending' = pending - 1
  /\ \/ In("parked") = {} /\ UNCHANGED at
     \/ \E w \in In("parked") : Goto(w, "lock")
  /\ UNCHANGED <<queue, stop, shutdown, submitted, started, missed>>

-----------------------------------------------------------------------------
(* worker_loop.                                                            *)

LoopHead(w) ==
  /\ at[w] = "head"
  /\ Goto(w, IF stop THEN "exited" ELSE "lock")
  /\ UNCHANGED <<queue, stop, pending, shutdown, submitted, started, missed>>

\* Mutant: the task is copied and not popped.
Popped_Not == queue
Popped == Tail(queue)

TakeTask(w) ==
  /\ at[w] = "lock"
  /\ MutexFree
  /\ queue # <<>>
  /\ queue' = Popped
  /\ started' = Append(started, Head(queue))
  /\ Goto(w, "run")
  /\ UNCHANGED <<stop, pending, shutdown, submitted, missed>>

\* Mutant: the predicate is tested without the mutex.
TestsUnder_Nothing == TRUE
TestsUnder == MutexFree

\* The predicate holds because of stop_, or does not hold.
NothingToTake(w) ==
  /\ at[w] = "lock"
  /\ TestsUnder
  /\ queue = <<>>
  /\ Goto(w, IF stop THEN "exited" ELSE "window")
  /\ UNCHANGED <<queue, stop, pending, shutdown, submitted, started, missed>>

Park(w) ==
  /\ at[w] = "window"
  /\ Goto(w, "parked")
  /\ UNCHANGED <<queue, stop, pending, shutdown, submitted, started, missed>>

SpuriousWakeup(w) ==
  /\ at[w] = "parked"
  /\ Goto(w, "lock")
  /\ UNCHANGED <<queue, stop, pending, shutdown, submitted, started, missed>>

FinishTask(w) ==
  /\ at[w] = "run"
  /\ Goto(w, "head")
  /\ UNCHANGED <<queue, stop, pending, shutdown, submitted, started, missed>>

-----------------------------------------------------------------------------
(* shutdown: the flag, notify_all, the joins.                              *)

SetStop ==
  /\ shutdown = "up"
  /\ stop' = TRUE
  /\ shutdown' = "notify"
  /\ UNCHANGED <<queue, pending, at, submitted, started, missed>>

NotifyAll ==
  /\ shutdown = "notify"
  /\ missed' = In("window")
  /\ at' = [w \in Workers |-> IF at[w] = "parked" THEN "lock" ELSE at[w]]
  /\ shutdown' = "join"
  /\ UNCHANGED <<queue, stop, pending, submitted, started>>

Join ==
  /\ shutdown = "join"
  /\ In("exited") = Workers
  /\ shutdown' = "down"
  /\ UNCHANGED <<queue, stop, pending, at, submitted, started, missed>>

WorkerStep(w) ==
  LoopHead(w) \/ TakeTask(w) \/ NothingToTake(w) \/ Park(w) \/ FinishTask(w)

-----------------------------------------------------------------------------
(* Types.  The mutex has at most one holder.                               *)
TypeOK ==
  /\ queue \in Seq(Tasks)
  /\ stop = (shutdown # "up")
  /\ pending \in Nat
  /\ at \in [Workers -> {"head", "lock", "window", "parked", "run", "exited"}]
  /\ \A v, w \in In("window") : v = w
  /\ shutdown \in {"up", "notify", "join", "down"}
  /\ submitted \in 0 .. MaxTasks
  /\ started \in Seq(Tasks)
  /\ missed \subseteq Workers

Queue == INSTANCE FifoQueue WITH Values <- Tasks, q <- queue, closed <- FALSE, out <- started

(* Tasks start once each, in the order of their submission.                *)
StartsInOrder == Queue!QSpec

(* A submitted task is started, unless the pool is shut down.              *)
TasksStart ==
  \A k \in Tasks :
    submitted >= k /\ ~stop ~> k \in {started[i] : i \in DOMAIN started} \/ stop
=============================================================================
