----------------------------- MODULE SessionPool -----------------------------
(***************************************************************************)
(* The upstream session pool (databoard/session_pool.h): session records   *)
(* by id, and the LRU list of ids, most recently used first.  Every        *)
(* operation of the class holds the pool's mutex from its first to its     *)
(* last line, so each one is a function from a pool to a pool.             *)
(*                                                                         *)
(* Session ids are positive numbers in order of creation: the code draws   *)
(* 64-bit random ids, whose collisions are left out.  NoSession and        *)
(* NoRequest stand for the empty string.                                   *)
(***************************************************************************)
EXTENDS Integers, FiniteSets, FiniteSetsExt, Functions, Sequences

CONSTANTS
  PoolMax,      \* max_size_
  IdleTimeout,  \* idle_timeout_
  MaxLifetime,  \* max_lifetime_
  NoRequest     \* an empty current_request_id

ASSUME PoolAssumption ==
  /\ PoolMax \in Nat \ {0}
  /\ IdleTimeout \in Nat \ {0}
  /\ MaxLifetime \in Nat \ {0}

NoSession == 0

SessionStates ==
  {"Cold", "Connecting", "Ready", "Streaming", "Draining", "Closed", "Errored"}

\* acquire_or_create_session builds the record; nothing ever sets created_at,
\* which keeps the epoch of the steady clock.
SessionRecord(id) ==
  [state |-> "Connecting", created_at |-> 0, last_active_at |-> 0,
   current_request_id |-> NoRequest]

SessionRecords(rids) ==
  [state : SessionStates, created_at : Nat, last_active_at : Nat, current_request_id : rids]

EmptyPool == [sessions |-> [id \in {} |-> SessionRecord(id)], lru |-> <<>>]

Ids(p) == DOMAIN p.sessions

\* Sessions whose last_active_at has been set, by mark_ready or mark_active.
Touched(s) == s.state \in {"Ready", "Streaming", "Draining"}

-----------------------------------------------------------------------------
\* Mutant: one session too many.
PoolFull_OffByOne(p) == Cardinality(Ids(p)) > PoolMax
PoolFull(p) == Cardinality(Ids(p)) >= PoolMax

\* add, when the pool is not full.
Add(p, id, rec) ==
  [sessions |-> [x \in Ids(p) \cup {id} |-> IF x = id THEN rec ELSE p.sessions[x]],
   lru      |-> <<id>> \o p.lru]

\* The id occurs at most once in the list (PoolConsistent), so removing its
\* first occurrence is what list::remove does.
RemoveFirst(lru, id) ==
  LET at == {i \in 1 .. Len(lru) : lru[i] = id}
  IN IF at = {} THEN lru
     ELSE SubSeq(lru, 1, Min(at) - 1) \o SubSeq(lru, Min(at) + 1, Len(lru))

MoveToFront(lru, id) == <<id>> \o RemoveFirst(lru, id)

\* Mutant: the timestamp changes and the position in the list does not.
Touch_StaysInPlace(p, id, state, now) ==
  IF id \in Ids(p)
  THEN [p EXCEPT !.sessions[id].state = state, !.sessions[id].last_active_at = now]
  ELSE p

\* The common body of mark_active and mark_ready.
Touch(p, id, state, now) ==
  IF id \in Ids(p)
  THEN [sessions |-> [p.sessions EXCEPT ![id].state = state,
                                        ![id].last_active_at = now],
        lru      |-> MoveToFront(p.lru, id)]
  ELSE p

MarkActive(p, id, now) == Touch(p, id, "Streaming", now)

MarkReady(p, id, now) == Touch(p, id, "Ready", now)

\* The common body of mark_draining and mark_errored.
SetSessionState(p, id, state) ==
  IF id \in Ids(p) THEN [p EXCEPT !.sessions[id].state = state] ELSE p

MarkDraining(p, id) == SetSessionState(p, id, "Draining")

MarkErrored(p, id) == SetSessionState(p, id, "Errored")

MarkClosed(p, id) ==
  [sessions |-> [x \in Ids(p) \ {id} |-> p.sessions[x]],
   lru      |-> RemoveFirst(p.lru, id)]

\* Heartbeat::handle_request writes through the pointer get returns.
SetCurrentRequest(p, id, rid) ==
  IF id \in Ids(p) THEN [p EXCEPT !.sessions[id].current_request_id = rid] ELSE p

CurrentRequest(p, id) ==
  IF id \in Ids(p) THEN p.sessions[id].current_request_id ELSE NoRequest

\* Mutant: a session whose task has been emitted counts as idle.
FindIdleLeastRecentlyUsed_Draining(p) ==
  LET free == {i \in DOMAIN p.lru : /\ p.lru[i] \in Ids(p)
                                    /\ p.sessions[p.lru[i]].state \in {"Ready", "Draining"}}
  IN IF free = {} THEN NoSession ELSE p.lru[Max(free)]

\* The search runs from the back of the list.
FindIdleLeastRecentlyUsed(p) ==
  LET ready == {i \in DOMAIN p.lru : /\ p.lru[i] \in Ids(p)
                                     /\ p.sessions[p.lru[i]].state = "Ready"}
  IN IF ready = {} THEN NoSession ELSE p.lru[Max(ready)]

IdleExpired(p, id, now) ==
  /\ p.sessions[id].state = "Ready"
  /\ now - p.sessions[id].last_active_at >= IdleTimeout

LifetimeExpired(p, id, now) == now - p.sessions[id].created_at >= MaxLifetime

-----------------------------------------------------------------------------
(* The representation: the list and the map hold the same ids, the list    *)
(* holds each of them once, and there are at most PoolMax.                 *)
PoolOK(p) ==
  /\ IsInjective(p.lru)
  /\ Range(p.lru) = Ids(p)
  /\ Cardinality(Ids(p)) <= PoolMax

(* Among the sessions that have ever been active, the list is sorted by    *)
(* last_active_at: the one nearest the back is the least recently used.    *)
LruOrdered(p) ==
  \A i, j \in DOMAIN p.lru :
    /\ i < j
    /\ Touched(p.sessions[p.lru[i]])
    /\ Touched(p.sessions[p.lru[j]])
    => p.sessions[p.lru[i]].last_active_at >= p.sessions[p.lru[j]].last_active_at
=============================================================================
