------------------------- MODULE PendingRequestStore -------------------------
(***************************************************************************)
(* The store of unfinished requests (databoard/pending_request_store.h), a *)
(* map from request id to record behind one mutex.  A piece of audio is    *)
(* named by the request whose text it speaks, so accumulated_audio is the  *)
(* sequence of those names.  Sample rate, channels, format, usage and      *)
(* timestamps are copied through and decide nothing: they are left out.    *)
(***************************************************************************)
EXTENDS Integers, Sequences

PendingStates == {"AwaitingSession", "Streaming", "Complete", "Failed", "Cancelled"}

TerminalStates == {"Failed", "Cancelled"}

PendingRequest(session, state) ==
  [session_id |-> session, state |-> state, accumulated_audio |-> <<>>,
   final_received |-> FALSE]

PendingRequests(audio) ==
  [session_id : Nat, state : PendingStates, accumulated_audio : Seq(audio),
   final_received : BOOLEAN]

EmptyStore == [rid \in {} |-> PendingRequest(0, "Streaming")]

\* add overwrites the record of an id that is already there.
PendingAdd(store, rid, p) ==
  [x \in DOMAIN store \cup {rid} |-> IF x = rid THEN p ELSE store[x]]

PendingRemove(store, rids) == [x \in DOMAIN store \ rids |-> store[x]]

SetPendingState(store, rids, state) ==
  [x \in DOMAIN store |->
     IF x \in rids THEN [store[x] EXCEPT !.state = state] ELSE store[x]]

BindSession(store, rid, session) ==
  [store EXCEPT ![rid].session_id = session, ![rid].state = "Streaming"]

AppendChunk(store, rid, audio, is_final) ==
  IF rid \in DOMAIN store
  THEN [store EXCEPT ![rid].accumulated_audio = Append(@, audio),
                     ![rid].final_received = @ \/ is_final]
  ELSE store

FindReadyToEmit(store) ==
  {r \in DOMAIN store : store[r].state = "Streaming" /\ store[r].final_received}

CollectBySession(store, session) == {r \in DOMAIN store : store[r].session_id = session}

CollectTerminal(store) == {r \in DOMAIN store : store[r].state \in TerminalStates}
=============================================================================
