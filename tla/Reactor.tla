------------------------------ MODULE Reactor ------------------------------
(***************************************************************************)
(* The timer and the loop that serves it (framework/priority_timer.h,      *)
(* framework/reactor.h).  Any thread schedules entries; the loop thread    *)
(* reads the clock, takes the timer's mutex, pops the top of the heap as   *)
(* long as it is due, leaves out skippable entries that are too late, runs *)
(* the rest and waits at most a millisecond.  ReactorPools has the         *)
(* next-state relation.                                                    *)
(***************************************************************************)
EXTENDS Integers, FiniteSets, Functions, Sequences

CONSTANTS
  MaxEntries,     \* bound on the entries scheduled
  MaxNow,         \* bound on the clock
  MaxRuns,        \* bound on the calls of run that start the loop
  PerSecond,      \* clock units in a second
  Delays,         \* delays given to schedule_in
  SkipThreshold   \* skip_threshold_, in seconds

ASSUME ReactorAssumption ==
  /\ MaxEntries \in Nat /\ MaxNow \in Nat /\ MaxRuns \in Nat /\ SkipThreshold \in Nat
  /\ PerSecond \in Nat \ {0}
  /\ Delays \subseteq Nat

VARIABLES
  heap,       \* PriorityTimer::heap_
  next_seq,   \* PriorityTimer::next_seq_
  now,        \* the clock
  running,    \* running_
  runs,       \* calls of run that started the loop
  stopper,    \* where the thread in stop() is, if there is one
  at,         \* where the loop thread is in main_loop
  loop_now,   \* main_loop's now, 0 outside an iteration
  due,        \* pop_expired's out and main_loop's due, the entries still to run
  mark        \* history: next_seq_ when pop_expired returned, 0 outside a batch

timer == <<heap, next_seq>>
vars == <<timer, now, running, runs, stopper, at, loop_now, due, mark>>

Entries == [deadline : Nat, skippable : BOOLEAN, seq : Nat]

\* TimerEntry::operator>, turned round.
Before(e, f) == e.deadline < f.deadline \/ (e.deadline = f.deadline /\ e.seq < f.seq)

Init ==
  /\ heap = {}
  /\ next_seq = 0
  /\ now = 0
  /\ running = FALSE
  /\ runs = 0
  /\ stopper = "none"
  /\ at = "none"
  /\ loop_now = 0
  /\ due = <<>>
  /\ mark = 0

Tick ==
  /\ now < MaxNow
  /\ now' = now + 1
  /\ UNCHANGED <<timer, running, runs, stopper, at, loop_now, due, mark>>

\* The clock is read before the mutex is taken: read may be in the past.
ScheduleIn ==
  /\ at # "pop"
  /\ next_seq < MaxEntries
  /\ \E read \in 0 .. now, d \in Delays, s \in BOOLEAN :
       heap' = heap \cup {[deadline |-> read + d, skippable |-> s, seq |-> next_seq]}
  /\ next_seq' = next_seq + 1
  /\ UNCHANGED <<now, running, runs, stopper, at, loop_now, due, mark>>

-----------------------------------------------------------------------------
(* main_loop.                                                              *)

TestAndReadClock ==
  /\ at = "test"
  /\ \/ running /\ at' = "lock" /\ loop_now' = now
     \/ ~running /\ at' = "exited" /\ UNCHANGED loop_now
  /\ UNCHANGED <<timer, now, running, runs, stopper, due, mark>>

\* pop_expired's lock_guard, held while at = "pop".
TakeMutex ==
  /\ at = "lock"
  /\ at' = "pop"
  /\ UNCHANGED <<timer, now, running, runs, stopper, loop_now, due, mark>>

\* Mutant: the lag is compared in clock units, not in whole seconds.
TooLate_Exact(e, t) ==
  e.skippable /\ t - e.deadline > SkipThreshold * PerSecond

\* duration_cast to seconds truncates.
TooLate(e, t) ==
  e.skippable /\ (t - e.deadline) \div PerSecond > SkipThreshold

\* Mutant: the heap compares sequence numbers only.
IsTop_ByArrival(e) == \A f \in heap \ {e} : e.seq < f.seq
\* e is heap_.top().
IsTop(e) == \A f \in heap \ {e} : Before(e, f)

\* Mutant: an entry waits until its deadline has passed.
TopDue_Strict(e) == IsTop(e) /\ e.deadline < loop_now
\* The condition of the loop.
TopDue(e) == IsTop(e) /\ e.deadline <= loop_now

PopTop ==
  /\ at = "pop"
  /\ \E e \in heap :
       /\ TopDue(e)
       /\ heap' = heap \ {e}
       /\ due' = IF TooLate(e, loop_now) THEN due ELSE Append(due, e)
  /\ UNCHANGED <<next_seq, now, running, runs, stopper, at, loop_now, mark>>

\* The mutex is released with the return.
PopEnds ==
  /\ at = "pop"
  /\ \A e \in heap : ~TopDue(e)
  /\ at' = "run"
  /\ mark' = next_seq
  /\ UNCHANGED <<timer, now, running, runs, stopper, loop_now, due>>

RunEntry ==
  /\ at = "run"
  /\ due # <<>>
  /\ due' = Tail(due)
  /\ UNCHANGED <<timer, now, running, runs, stopper, at, loop_now, mark>>

\* After tick_fn_, wait_for ends within a millisecond, notified or not.
WaitEnds ==
  /\ at = "run"
  /\ due = <<>>
  /\ at' = "test"
  /\ loop_now' = 0
  /\ mark' = 0
  /\ UNCHANGED <<timer, now, running, runs, stopper, due>>

-----------------------------------------------------------------------------
(* run and stop.  Their callers take turns, as main does.                  *)

\* The loop can be started again after a stop.
Run ==
  /\ stopper = "none" /\ ~running
  /\ runs < MaxRuns
  /\ runs' = runs + 1
  /\ running' = TRUE
  /\ at' = "test"
  /\ UNCHANGED <<timer, now, stopper, loop_now, due, mark>>

\* Mutant: running_ is read, not exchanged.
Stop_KeepsRunning ==
  /\ stopper = "none" /\ running
  /\ stopper' = "join"
  /\ UNCHANGED <<timer, now, running, runs, at, loop_now, due, mark>>

\* The flag; the token and notify_all only shorten a wait.
Stop ==
  /\ stopper = "none" /\ running
  /\ running' = FALSE
  /\ stopper' = "join"
  /\ UNCHANGED <<timer, now, runs, at, loop_now, due, mark>>

JoinLoop ==
  /\ stopper = "join"
  /\ at = "exited"
  /\ stopper' = "pools"
  /\ UNCHANGED <<timer, now, running, runs, at, loop_now, due, mark>>

\* Both pools are shut down (ReactorPools says when).
StopEnds ==
  /\ stopper = "pools"
  /\ stopper' = "none"
  /\ UNCHANGED <<timer, now, running, runs, at, loop_now, due, mark>>

LoopStep == TestAndReadClock \/ TakeMutex \/ PopTop \/ PopEnds \/ RunEntry \/ WaitEnds

-----------------------------------------------------------------------------
(* Types.                                                                  *)
TypeOK ==
  /\ heap \subseteq Entries
  /\ next_seq \in 0 .. MaxEntries
  /\ now \in 0 .. MaxNow
  /\ running \in BOOLEAN
  /\ runs \in 0 .. MaxRuns
  /\ stopper \in {"none", "join", "pools"}
  /\ at \in {"none", "test", "lock", "pop", "run", "exited"}
  /\ loop_now \in 0 .. now
  /\ due \in Seq(Entries)
  /\ mark \in 0 .. next_seq

Waiting == heap \cup Range(due)

(* pop_expired and main_loop lose no entry: one leaves the timer and the   *)
(* batch only by being run in its turn, never before its deadline, or, if  *)
(* it is skippable, once it is SkipThreshold + 1 seconds late (the lag is  *)
(* truncated to whole seconds).  An entry that must not be skipped runs    *)
(* however late it is.                                                     *)
LeavesRunOrLate ==
  [][\A e \in Waiting : e \notin Waiting' =>
       /\ e.deadline <= loop_now
       /\ \/ at = "run" /\ e = Head(due)
          \/ /\ at = "pop" /\ e.skippable
             /\ loop_now >= e.deadline + (SkipThreshold + 1) * PerSecond]_vars

(* Entries run by deadline, then by sequence number: when main_loop runs   *)
(* one, no entry that comes before it is left in the batch or in the       *)
(* timer, other than those scheduled after pop_expired had returned.  The  *)
(* pop loop must take the least entry each time and the mutex must keep    *)
(* schedule_at out until it has ended.                                     *)
RunsInDeadlineOrder ==
  [][at = "run" /\ due' # due =>
       \A f \in Waiting' : f.seq < mark => Before(Head(due), f)]_vars

(* An entry that is due is run or left out, unless the reactor does not    *)
(* run.                                                                    *)
EntriesServed ==
  \A k \in 0 .. MaxEntries - 1 :
    (\E e \in heap : e.seq = k /\ e.deadline <= now)
      ~> ((\A e \in Waiting : e.seq # k) \/ ~running)
=============================================================================
