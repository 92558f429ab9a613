---------------------------- MODULE ReactorPools ---------------------------
(***************************************************************************)
(* The reactor with its worker pool (framework/reactor.h,                  *)
(* framework/thread_pool.h).  Tasks are posted with schedule_cpu by any    *)
(* thread, the entries of the timer included; stop joins the loop and then *)
(* shuts the pool down.  cpu_pool_ and io_pool_ are two of a kind, shut    *)
(* down one after the other: one stands for both.                          *)
(***************************************************************************)
EXTENDS Reactor

CONSTANTS
  Workers,
  MaxTasks,   \* bound on the tasks posted
  MaxWork     \* bound on entries and tasks together

ASSUME PoolsAssumption ==
  /\ IsFiniteSet(Workers)
  /\ Workers # {}
  /\ MaxTasks \in Nat /\ MaxWork \in Nat

VARIABLES queue, stop, pending, workers_at, shutdown, submitted, started, missed

pool == <<queue, stop, pending, workers_at, shutdown, submitted, started, missed>>
all == <<vars, pool>>

Pool == INSTANCE ThreadPool WITH at <- workers_at

RInit == Init /\ Pool!Init

MoreWork == next_seq + submitted < MaxWork

\* schedule_timer, schedule_cpu, and an entry that calls schedule_cpu.
Schedule == MoreWork /\ ScheduleIn /\ UNCHANGED pool
Post == MoreWork /\ Pool!Submit /\ UNCHANGED vars
EntryPosts == MoreWork /\ RunEntry /\ Pool!Submit

PoolNotifies == Pool!NotifyOne /\ UNCHANGED vars
PoolWorks(w) == Pool!WorkerStep(w) /\ UNCHANGED vars
PoolWakes(w) == Pool!SpuriousWakeup(w) /\ UNCHANGED vars

\* Mutant: the pool is shut down before the loop is joined.
StopGoesOn_PoolFirst ==
  \/ JoinLoop /\ UNCHANGED pool
  \/ stopper \in {"join", "pools"} /\ (Pool!SetStop \/ Pool!NotifyAll \/ Pool!Join) /\ UNCHANGED vars
  \/ shutdown = "down" /\ StopEnds /\ UNCHANGED pool

\* The rest of stop; a second one finds the pool's stop_ set.
StopGoesOn ==
  \/ JoinLoop /\ UNCHANGED pool
  \/ stopper = "pools" /\ (Pool!SetStop \/ Pool!NotifyAll \/ Pool!Join) /\ UNCHANGED vars
  \/ shutdown = "down" /\ StopEnds /\ UNCHANGED pool

LoopRuns == LoopStep /\ UNCHANGED pool

RNext ==
  \/ (Tick \/ Run \/ Stop) /\ UNCHANGED pool
  \/ Schedule \/ Post \/ EntryPosts \/ LoopRuns
  \/ PoolNotifies \/ \E w \in Workers : PoolWorks(w) \/ PoolWakes(w)
  \/ StopGoesOn

(* Threads that can run do, entries and tasks end; nobody has to schedule, *)
(* post, run or stop, and no spurious wakeup has to happen.                *)
RFairness ==
  /\ WF_all(LoopRuns)
  /\ WF_all(PoolNotifies)
  /\ \A w \in Workers : WF_all(PoolWorks(w))
  /\ WF_all(StopGoesOn)

RSpec == RInit /\ [][RNext]_all /\ RFairness

-----------------------------------------------------------------------------
(* Types of the reactor and of its pool.                                   *)
RTypeOK == TypeOK /\ Pool!TypeOK

(* Tasks start once each, in the order in which they were posted.          *)
StartsInOrder == Pool!StartsInOrder

(* A task that was posted is started, unless the reactor has been stopped. *)
TasksStart == Pool!TasksStart

(* stop returns, although notify_all can come while the loop is not        *)
(* waiting; unless it missed a worker between predicate and wait.          *)
StopReturns == stopper = "join" ~> stopper = "none" \/ missed # {}

(* The pool outlives the loop: an entry of the timer that posts a task     *)
(* finds a pool that is not stopped, unless the reactor was run again.     *)
EntriesPostToLivePool == [][EntryPosts => ~stop \/ runs > 1]_all
=============================================================================
