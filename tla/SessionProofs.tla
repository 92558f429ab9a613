--------------------------- MODULE SessionProofs ---------------------------
(***************************************************************************)
(* The life of the sessions of UpstreamPipeline: a session is dialled      *)
(* once, is heard of only while it has a link, and never goes back to an   *)
(* earlier state; the LRU list is sorted by the last activity; and the     *)
(* pool and the links stay in step.  The steps are shown to keep this      *)
(* under what PipelineProofs knows of the queues and the requests.         *)
(***************************************************************************)
EXTENDS UpstreamProofs

-----------------------------------------------------------------------------
(* The life of a session, from the request that creates it to its close.   *)

\* A session is dialled once, and is heard of only after that.  links are the
\* sessions with a link, dialing those whose link is not up yet.
WiredTo(dialing, links) ==
  /\ Apart(Events, Late) /\ Apart(Frames, Twice)
  /\ \A s \in Spoken \cup links \cup Starting : s \in Nat /\ s < next_sid
  /\ (Starting \cup dialing) \cap Spoken = {}
  /\ Starting \cap links = {}

(* The tick keeps that.                                                    *)
LEMMA TickKeepsWired ==
  ASSUME RestOK, QueuesOK, NEW D, NEW L, WiredTo(D, L), Tick
  PROVE  WiredTo(D, L)'
  <1>a. next_sid \in Nat
    BY DEF RestOK
  <1>b. /\ Apart(Events, Late) /\ Apart(Frames, Twice)
        /\ \A s \in Spoken \cup L \cup Starting : s \in Nat /\ s < next_sid
    BY ZenonT(60) DEF WiredTo
  <1>c. next_sid \notin Spoken \cup L \cup Starting
    BY <1>a, <1>b
  <1>1. Apart(Events', Late) /\ Spoken' \subseteq Spoken
    BY ZenonT(60), <1>b, TickSays DEF Spoken
  <1>2. /\ next_sid' \in Nat /\ next_sid' >= next_sid /\ Apart(Frames', Twice)
        /\ \/ Starting' = Starting
           \/ Starting' = Starting \cup {next_sid} /\ next_sid' = next_sid + 1
    BY ZenonT(60), <1>b, <1>c, TickFrames
  <1>3. \A s \in Spoken' \cup L \cup Starting' : s \in Nat /\ s < next_sid'
    BY <1>1, <1>2, <1>a, <1>b
  <1>4. (Starting' \cup D) \cap Spoken' = {} /\ Starting' \cap L = {}
    BY ZenonT(60), <1>1, <1>2, <1>c DEF WiredTo
  <1>5. Late' = Late /\ Twice' = Twice
    BY DEF Late, Twice, WsSide, OutWsFrames, Audio, Rids
  <1> QED
    BY ZenonT(60), <1>1, <1>2, <1>3, <1>4, <1>5 DEF WiredTo

Living == {"Connecting", "Ready", "Streaming", "Draining", "Errored"}

\* Sessions whose Connected has not been handled yet.
Calling == {m.session : m \in {x \in Said : x.kind = "Connected"}}

\* Sessions that have audio to be handled.
Speaking == {m.session : m \in {x \in Said : x.kind = "AudioChunk"}}

\* A session is Connecting until its Connected is handled, and no longer.
SessionsLive(dialing, links) ==
  \A s \in Ids(pool) :
    LET state == pool.sessions[s].state IN
    /\ state \in Living
    /\ s \in Starting \cup dialing \cup Calling => state = "Connecting"
    /\ s \in (Speaking \cup (links \ dialing)) \ Calling => state # "Connecting"

\* A request whose audio is complete has a session that got connected; the
\* requests of a session in error can neither be bound nor emitted.
RequestsLive ==
  \A r \in DOMAIN pending :
    LET s == pending[r].session_id IN
    /\ s < next_sid
    /\ r \in LocalRids => s = NoSession
    /\ s \in Ids(pool) =>
         /\ pending[r].final_received => pool.sessions[s].state # "Connecting"
         /\ pool.sessions[s].state = "Errored" => pending[r].state \notin {"AwaitingSession", "Streaming"}

Lives(dialing, links) ==
  BidiRids \subseteq LocalRids /\ SessionsLive(dialing, links) /\ RequestsLive

(* What a step of the tick leaves of the events, by session.               *)
LEMMA TickHears ==
  ASSUME RestOK, QueuesOK, NEW D, NEW L, WiredTo(D, L), Tick
  PROVE  /\ Speaking' \subseteq Speaking /\ Calling' \subseteq Calling
         /\ \/ Calling' = Calling /\ ~Handling("TtsResponse")
            \/ \E sid \in Spoken :
                 /\ Handling("TtsResponse") /\ sid = Head(batch).session
                 /\ Calling' = Calling \ {sid}
                 /\ Head(batch).kind # "Connected" => sid \notin Calling
                 /\ Head(batch).kind = "AudioChunk" => sid \in Speaking
  <1>a. Apart(Events, Late)
    BY DEF WiredTo
  <1>1. /\ Said' \subseteq Said
        /\ \/ Said' = Said /\ ~Handling("TtsResponse")
           \/ /\ Handling("TtsResponse")
              /\ Head(batch) \in Said /\ Said \subseteq Said' \cup {Head(batch)}
              /\ \A y \in Said' : <<Head(batch), y>> \notin Late
    BY <1>a, TickSays
  <1>2. Speaking' \subseteq Speaking /\ Calling' \subseteq Calling
    BY ZenonT(60), <1>1 DEF Speaking, Calling
  <1>3. CASE Said' = Said /\ ~Handling("TtsResponse")
    BY ZenonT(60), <1>2, <1>3 DEF Calling
  <1>4. CASE /\ Handling("TtsResponse")
             /\ Head(batch) \in Said /\ Said \subseteq Said' \cup {Head(batch)}
             /\ \A y \in Said' : <<Head(batch), y>> \notin Late
    <2>m. PICK m : m = Head(batch)
      OBVIOUS
    <2>s. PICK sid : sid = m.session
      OBVIOUS
    <2>1. m \in WsSide /\ m \in Said /\ Said' \subseteq WsSide
      BY ZenonT(60), <1>1, <1>4, <2>m DEF Said
    <2>2. \A y \in Said' : y.kind = "Connected" => y.session # sid
      BY ZenonT(60), <1>4, <2>1, <2>m, <2>s DEF Late
    <2>3. Calling' = Calling \ {sid}
      <3>1. sid \notin Calling'
        BY ZenonT(60), <2>2 DEF Calling
      <3>2. ASSUME NEW s \in Calling, s # sid PROVE s \in Calling'
        <4>1. PICK y \in Said : y.kind = "Connected" /\ y.session = s
          BY ZenonT(60), <3>2 DEF Calling
        <4>2. y \in Said'
          BY ZenonT(60), <1>4, <2>m, <2>s, <3>2, <4>1
        <4> QED
          BY ZenonT(60), <4>1, <4>2 DEF Calling
      <3> QED
        BY ZenonT(60), <1>2, <3>1, <3>2
    <2>4. m.kind # "Connected" => sid \notin Calling
      <3> SUFFICES ASSUME m.kind # "Connected", sid \in Calling PROVE FALSE
        OBVIOUS
      <3>1. PICK y \in Said : y.kind = "Connected" /\ y.session = sid
        BY ZenonT(60) DEF Calling
      <3>2. y \in Said'
        BY ZenonT(60), <1>4, <2>m, <3>1
      <3> QED
        BY ZenonT(60), <2>2, <3>1, <3>2
    <2>5. sid \in Spoken /\ (m.kind = "AudioChunk" => sid \in Speaking)
      BY ZenonT(60), <2>1, <2>s DEF Spoken, Speaking
    <2> QED
      BY ZenonT(60), <1>2, <1>4, <2>3, <2>4, <2>5, <2>m, <2>s
  <1> QED
    BY <1>1, <1>3, <1>4

\* How a step of the tick may move session s.
Forward(s, old, new) ==
  \/ new = old
  \/ old = "Ready" /\ new \in {"Streaming", "Draining"}
  \/ old = "Streaming" /\ new = "Draining"
  \/ /\ Handling("TtsResponse") /\ s = Head(batch).session
     /\ \/ old = "Connecting" /\ new = "Ready"
        \/ HandleTaskFailed /\ new = "Errored"

Advances(s) == Forward(s, pool.sessions[s].state, pool'.sessions[s].state)

(* The tick moves sessions forward and creates them Connecting.            *)
LEMMA TickAdvances ==
  ASSUME RestOK, PoolInv, QueuesOK, NEW D, NEW L, WiredTo(D, L), Lives(D, L), Tick
  PROVE  /\ \A s \in Ids(pool') \cap Ids(pool) : Advances(s)
         /\ \A s \in Ids(pool') \ Ids(pool) :
              s = next_sid /\ pool'.sessions[s].state = "Connecting" /\ RequestCreatesSession
  <1> DEFINE Goal == /\ \A s \in Ids(pool') \cap Ids(pool) : Advances(s)
                     /\ \A s \in Ids(pool') \ Ids(pool) :
                          /\ s = next_sid /\ pool'.sessions[s].state = "Connecting"
                          /\ RequestCreatesSession
  <1>a. \A s \in Ids(pool) : pool.sessions[s].state \in Living
    BY ZenonT(60) DEF Lives, SessionsLive
  <1>b. ASSUME NEW id, NEW state, NEW active, Moves(id, state, active),
               id \in Ids(pool) => Forward(id, pool.sessions[id].state, state)
        PROVE  Goal
    BY ZenonT(60), <1>b DEF Moves, Advances, Forward
  <1>1. ASSUME Stays PROVE Goal
    BY ZenonT(60), <1>1 DEF Stays, Advances, Forward
  <1>2. ASSUME Creates PROVE Goal
    BY ZenonT(60), <1>2 DEF Creates, Advances, Forward
  <1>3. ASSUME NEW id \in Nat, Reuses(id) PROVE Goal
    BY ZenonT(60), <1>3, <1>b DEF Reuses, Forward
  <1>4. ASSUME NEW id \in Nat, Readies(id) PROVE Goal
    <2>1. Handling("TtsResponse") /\ id = Head(batch).session /\ Head(batch).kind = "Connected"
      BY <1>4 DEF Readies, HandleConnected, Response
    <2>2. Head(batch) \in Said
      BY <2>1, TickSays DEF WiredTo
    <2>3. id \in Ids(pool) => pool.sessions[id].state = "Connecting"
      BY ZenonT(60), <2>1, <2>2 DEF Calling, Lives, SessionsLive
    <2> QED
      BY ZenonT(60), <1>4, <1>b, <2>1, <2>3 DEF Readies, Forward
  <1>5. ASSUME NEW id \in Nat, Fails(id) PROVE Goal
    BY ZenonT(60), <1>5, <1>b DEF Fails, Forward, HandleTaskFailed, Response
  <1>6. ASSUME NEW id \in Nat, Drains(id) PROVE Goal
    <2>1. PICK r \in FindReadyToEmit(pending) : EmitCompleted(r) /\ id = pending[r].session_id
      BY <1>6 DEF Drains
    <2>2. r \in DOMAIN pending /\ pending[r].state = "Streaming" /\ pending[r].final_received
      BY DEF FindReadyToEmit
    <2>3. id \in Ids(pool) => pool.sessions[id].state \notin {"Connecting", "Errored"}
      BY ZenonT(60), <2>1, <2>2 DEF Lives, RequestsLive
    <2> QED
      BY ZenonT(60), <1>6, <1>a, <1>b, <2>3 DEF Drains, Forward, Living
  <1>7. ASSUME NEW id \in Nat, Closes(id) PROVE Goal
    BY ZenonT(60), <1>7 DEF Closes, Advances, Forward
  <1> HIDE DEF Goal
  <1>8. Goal
    BY ZenonT(60), <1>1, <1>2, <1>3, <1>4, <1>5, <1>6, <1>7, TickPool
  <1> QED
    BY <1>8 DEF Goal

(* A Connected makes its session Ready.                                    *)
LEMMA TickGreets ==
  ASSUME RestOK, PoolInv, Tick, Handling("TtsResponse"), Head(batch).kind = "Connected",
         NEW s \in Ids(pool'), s = Head(batch).session
  PROVE  pool'.sessions[s].state = "Ready"
  <1>1. phase = "handle" /\ Head(batch).type = "TtsResponse"
    BY DEF Handling
  <1>2. ~Stays /\ ~Creates /\ \A id \in Nat : ~Reuses(id) /\ ~Fails(id) /\ ~Drains(id) /\ ~Closes(id)
    BY <1>1 DEF Stays, Creates, RequestCreatesSession, Reuses, RequestReusesSession, Handling,
                Fails, HandleTaskFailed, Response, Drains, EmitCompleted,
                Closes, HandleDisconnected, EvolveCloses
  <1>3. PICK id \in Nat : Readies(id)
    BY ZenonT(60), <1>2, TickPool
  <1> QED
    BY ZenonT(60), <1>3 DEF Readies, Moves

(* The tick keeps the sessions' part of Lives.                             *)
LEMMA TickSessions ==
  ASSUME RestOK, PoolInv, QueuesOK, NEW D, NEW L, WiredTo(D, L), Lives(D, L), Tick
  PROVE  SessionsLive(D, L)'
  <1>a. /\ \A s \in Ids(pool') \cap Ids(pool) : Advances(s)
        /\ \A s \in Ids(pool') \ Ids(pool) : s = next_sid /\ pool'.sessions[s].state = "Connecting"
    BY ZenonT(60), TickAdvances
  <1>b. /\ Speaking' \subseteq Speaking /\ Calling' \subseteq Calling
        /\ \/ Calling' = Calling /\ ~Handling("TtsResponse")
           \/ \E sid \in Spoken :
                /\ Handling("TtsResponse") /\ sid = Head(batch).session
                /\ Calling' = Calling \ {sid}
                /\ Head(batch).kind # "Connected" => sid \notin Calling
    BY ZenonT(60), TickHears
  <1>c. Starting' \subseteq Starting \cup {next_sid}
    <2>1. Apart(Frames, Twice) /\ \A s \in Starting : s # next_sid
      BY DEF WiredTo, RestOK
    <2> QED
      BY <2>1, TickFrames
  <1>d. next_sid \notin Ids(pool) /\ next_sid \notin Speaking \cup L
    <2>1. Speaking \subseteq Spoken
      BY ZenonT(60) DEF Speaking, Spoken
    <2> QED
      BY <2>1 DEF WiredTo, RestOK, PoolInv
  <1>1. ASSUME NEW s \in Ids(pool') \ Ids(pool)
        PROVE  /\ pool'.sessions[s].state \in Living
               /\ s \in Starting' \cup D \cup Calling' => pool'.sessions[s].state = "Connecting"
               /\ s \in (Speaking' \cup (L \ D)) \ Calling' => pool'.sessions[s].state # "Connecting"
    BY ZenonT(60), <1>1, <1>a, <1>b, <1>d DEF Living
  <1>2. ASSUME NEW s \in Ids(pool') \cap Ids(pool)
        PROVE  /\ pool'.sessions[s].state \in Living
               /\ s \in Starting' \cup D \cup Calling' => pool'.sessions[s].state = "Connecting"
               /\ s \in (Speaking' \cup (L \ D)) \ Calling' => pool'.sessions[s].state # "Connecting"
    <2>o. PICK old, new : old = pool.sessions[s].state /\ new = pool'.sessions[s].state
      OBVIOUS
    <2>1. /\ old \in Living
          /\ s \in Starting \cup D \cup Calling => old = "Connecting"
          /\ s \in (Speaking \cup (L \ D)) \ Calling => old # "Connecting"
      BY ZenonT(60), <2>o DEF Lives, SessionsLive
    <2>2. Forward(s, old, new)
      BY ZenonT(60), <1>a, <2>o DEF Advances
    <2>3. s \in Starting' => s \in Starting
      BY ZenonT(60), <1>c, <1>d
    <2>4. Handling("TtsResponse") /\ s = Head(batch).session => s \notin Starting \cup D /\ s \notin Calling'
      BY ZenonT(60), <1>b DEF WiredTo
    <2>5. s \in Starting' \cup D \cup Calling' => new = "Connecting"
      BY ZenonT(60), <1>b, <2>1, <2>2, <2>3, <2>4 DEF Forward
    <2>6. new = "Connecting" => old = "Connecting"
      BY ZenonT(60), <2>2 DEF Forward
    <2>7. s \in Calling /\ s \notin Calling' =>
            Handling("TtsResponse") /\ s = Head(batch).session /\ Head(batch).kind = "Connected"
      BY ZenonT(60), <1>b
    <2>8. s \in Calling /\ s \notin Calling' => new = "Ready"
      BY ZenonT(60), <2>7, <2>o, TickGreets
    <2>9. s \in (Speaking' \cup (L \ D)) \ Calling' => new # "Connecting"
      BY ZenonT(60), <1>b, <2>1, <2>6, <2>8
    <2>10. new \in Living
      BY ZenonT(60), <2>1, <2>2 DEF Forward, Living
    <2> QED
      BY ZenonT(60), <2>5, <2>9, <2>10, <2>o
  <1> QED
    BY ZenonT(60), <1>1, <1>2 DEF SessionsLive

\* The record of a stream request names the session that works for it.
Named ==
  \A s \in Ids(pool), r \in StreamRids \cap DOMAIN pending :
    pool.sessions[s].current_request_id = r => pending[r].session_id = s

(* The tick keeps the requests' part of Lives.                             *)
LEMMA TickRequests ==
  ASSUME RestOK, PoolInv, QueuesOK, NEW D, NEW L, WiredTo(D, L), Lives(D, L), Named, Tick
  PROVE  RequestsLive' /\ (BidiRids \subseteq LocalRids)'
  <1>l. LocalRids' = LocalRids
    BY FlowFixed
  <1>a. /\ \A s \in Ids(pool') \cap Ids(pool) : Advances(s)
        /\ \A s \in Ids(pool') \ Ids(pool) :
             s = next_sid /\ pool'.sessions[s].state = "Connecting" /\ RequestCreatesSession
    BY ZenonT(60), TickAdvances
  <1>b. /\ next_sid \in Nat \ {0} /\ next_sid' \in Nat /\ next_sid' >= next_sid
        /\ RequestCreatesSession => next_sid' = next_sid + 1
    <2>1. Apart(Frames, Twice) /\ \A s \in Starting : s # next_sid
      BY DEF WiredTo, RestOK
    <2> QED
      BY <2>1, TickFrames DEF RestOK
  <1>c. NoSession = 0 /\ 0 \notin Ids(pool) /\ next_sid \notin Ids(pool) /\ \A s \in Ids(pool) : s < next_sid
    BY <1>b DEF PoolInv, NoSession
  <1>d. 0 \notin Ids(pool')
    BY <1>a, <1>b, <1>c
  <1>e. \A r \in DOMAIN pending :
          LET s == pending[r].session_id IN
          /\ s \in Nat /\ s < next_sid
          /\ r \in LocalRids => s = NoSession
          /\ s \in Ids(pool) =>
               /\ pending[r].final_received => pool.sessions[s].state # "Connecting"
               /\ pool.sessions[s].state = "Errored" => pending[r].state \notin {"AwaitingSession", "Streaming"}
    <2>1. \A r \in DOMAIN pending : pending[r].session_id \in Nat
      BY DEF RestOK, PendingRequests
    <2> QED
      BY ZenonT(60), <2>1 DEF Lives, RequestsLive
  <1>f. /\ \A r \in DOMAIN pending' : Keeps(r) \/ Bound(r) \/ Chunk(r) \/ Local(r)
        /\ HandleTaskFailed => \A r \in DOMAIN pending' :
             pending'[r].session_id = Head(batch).session => pending'[r].state = "Failed"
    BY TickRecords
  <1>1. ASSUME NEW r \in DOMAIN pending'
        PROVE  LET s == pending'[r].session_id IN
               /\ s < next_sid'
               /\ r \in LocalRids => s = NoSession
               /\ s \in Ids(pool') =>
                    /\ pending'[r].final_received => pool'.sessions[s].state # "Connecting"
                    /\ pool'.sessions[s].state = "Errored" => pending'[r].state \notin {"AwaitingSession", "Streaming"}
    <2>s. PICK s : s = pending'[r].session_id
      OBVIOUS
    <2>1. CASE Keeps(r)
      <3>1. /\ s \in Nat /\ s < next_sid /\ (r \in LocalRids => s = NoSession)
            /\ s \in Ids(pool) =>
                 /\ pending'[r].final_received => pool.sessions[s].state # "Connecting"
                 /\ pool.sessions[s].state = "Errored" => pending'[r].state \notin {"AwaitingSession", "Streaming"}
        BY ZenonT(60), <1>e, <2>1, <2>s DEF Keeps
      <3>2. s < next_sid'
        BY <1>b, <3>1
      <3>3. ASSUME s \in Ids(pool')
            PROVE  /\ pending'[r].final_received => pool'.sessions[s].state # "Connecting"
                   /\ pool'.sessions[s].state = "Errored" => pending'[r].state \notin {"AwaitingSession", "Streaming"}
        <4>1. s # next_sid
          BY <1>b, <3>1
        <4>2. s \in Ids(pool) /\ Forward(s, pool.sessions[s].state, pool'.sessions[s].state)
          BY ZenonT(60), <1>a, <3>3, <4>1 DEF Advances
        <4> QED
          BY ZenonT(60), <1>f, <2>s, <3>1, <4>2 DEF Forward
      <3> QED
        BY ZenonT(60), <2>s, <3>1, <3>2, <3>3
    <2>2. CASE Bound(r)
      <3>1. Binds /\ r \notin LocalRids /\ ~pending'[r].final_received /\ Handling("TtsRequest")
        BY ZenonT(60), <2>2 DEF Bound, Binds, RequestReusesSession, RequestCreatesSession
      <3>2. CASE RequestCreatesSession
        <4>1. s = next_sid
          BY <2>2, <2>s, <3>2 DEF Bound
        <4> QED
          BY SMT, SMTT(60), <1>a, <1>b, <1>c, <2>s, <3>1, <3>2, <4>1
      <3>3. CASE ~RequestCreatesSession
        <4>1. s = FindIdleLeastRecentlyUsed(pool) /\ RequestReusesSession
          BY ZenonT(60), <2>2, <2>s, <3>1, <3>3 DEF Bound, Binds
        <4>2. s \in Ids(pool) /\ pool.sessions[s].state = "Ready"
          BY ZenonT(60), <4>1, FindIdleFinds DEF RequestReusesSession, PoolInv
        <4>3. ~HandleTaskFailed
          BY <3>1 DEF HandleTaskFailed, Response, Handling
        <4>4. s \in Ids(pool') => pool'.sessions[s].state # "Errored"
          BY ZenonT(60), <1>a, <4>2, <4>3 DEF Advances, Forward
        <4>5. s < next_sid'
          BY <1>b, <1>c, <4>2 DEF PoolInv
        <4> QED
          BY ZenonT(60), <2>s, <3>1, <4>4, <4>5
      <3> QED
        BY <3>2, <3>3
    <2>3. CASE Chunk(r)
      <3>1. /\ HandleAudioChunk /\ pool' = pool /\ s = pending[r].session_id
            /\ r \in DOMAIN pending /\ r = CurrentRequest(pool, Head(batch).session)
            /\ pending'[r].state = pending[r].state
        BY ZenonT(60), <2>3, <2>s DEF Chunk, HandleAudioChunk
      <3>2. /\ s \in Nat /\ s < next_sid /\ (r \in LocalRids => s = NoSession)
            /\ s \in Ids(pool) /\ pool'.sessions[s].state = "Errored" =>
                 pending'[r].state \notin {"AwaitingSession", "Streaming"}
        BY ZenonT(60), <1>e, <3>1
      <3>3. s \in Ids(pool) => pool.sessions[s].state # "Connecting"
        <4> SUFFICES ASSUME s \in Ids(pool) PROVE pool.sessions[s].state # "Connecting"
          OBVIOUS
        <4>1. r \in Rids /\ r \notin LocalRids
          BY ZenonT(60), <1>c, <3>1, <3>2 DEF RestOK
        <4>2. r \in StreamRids
          BY <4>1 DEF Lives, Rids
        <4>3. Head(batch).session \in Ids(pool) /\ pool.sessions[Head(batch).session].current_request_id = r
          BY ZenonT(60), <3>1, <4>1, HeartbeatAssumption DEF CurrentRequest
        <4>4. s = Head(batch).session
          BY ZenonT(60), <3>1, <4>2, <4>3 DEF Named
        <4>5. Handling("TtsResponse") /\ Head(batch).kind = "AudioChunk"
          BY <3>1 DEF HandleAudioChunk, Response
        <4>6. s \in Speaking \ Calling
          BY ZenonT(60), <4>4, <4>5, TickHears
        <4> QED
          BY ZenonT(60), <4>6 DEF Lives, SessionsLive
      <3>4. s < next_sid'
        BY <1>b, <3>2
      <3> QED
        BY ZenonT(60), <2>s, <3>1, <3>2, <3>3, <3>4
    <2>4. CASE Local(r)
      <3>1. s = NoSession
        BY ZenonT(60), <1>e, <2>4, <2>s DEF Local
      <3> QED
        BY SMT, SMTT(60), <1>b, <1>c, <1>d, <2>s, <3>1
    <2> QED
      BY ZenonT(60), <1>f, <2>1, <2>2, <2>3, <2>4
  <1>2. BidiRids \subseteq LocalRids'
    BY <1>l DEF Lives
  <1> QED
    BY ZenonT(60), <1>l, <1>1, <1>2 DEF RequestsLive

-----------------------------------------------------------------------------
(* The order of the LRU list.                                              *)

Aged == \A s \in Ids(pool) : pool.sessions[s].last_active_at <= now

\* Pairs of sessions of which the second has been active since the first.
Stale(p) ==
  {x \in Ids(p) \X Ids(p) :
     /\ Touched(p.sessions[x[1]]) /\ Touched(p.sessions[x[2]])
     /\ p.sessions[x[1]].last_active_at < p.sessions[x[2]].last_active_at}

Sorted == Aged /\ Apart(pool.lru, Stale(pool))

(* LruOrdered in these terms.                                              *)
LEMMA LruApart ==
  ASSUME NEW p, NEW R, PoolValue(p, R), PoolOK(p)
  PROVE  Apart(p.lru, Stale(p)) => LruOrdered(p)
  <1> SUFFICES ASSUME Apart(p.lru, Stale(p)), NEW i \in DOMAIN p.lru, NEW j \in DOMAIN p.lru, i < j,
                      Touched(p.sessions[p.lru[i]]), Touched(p.sessions[p.lru[j]])
               PROVE  p.sessions[p.lru[i]].last_active_at >= p.sessions[p.lru[j]].last_active_at
    BY ZenonT(60) DEF LruOrdered
  <1>i. PICK a, b : a = p.lru[i] /\ b = p.lru[j]
    BY ZenonT(60)
  <1>1. a \in Ids(p) /\ b \in Ids(p)
    BY <1>i DEF PoolOK, Range
  <1>2. <<a, b>> \notin Stale(p)
    BY ZenonT(60), <1>i DEF Apart
  <1>3. ~(p.sessions[a].last_active_at < p.sessions[b].last_active_at)
    BY ZenonT(60), <1>1, <1>2, <1>i DEF Stale
  <1>4. p.sessions[a].last_active_at \in Nat /\ p.sessions[b].last_active_at \in Nat
    BY ZenonT(60), <1>1 DEF PoolValue, SessionRecords
  <1>5. p.sessions[a].last_active_at >= p.sessions[b].last_active_at
    BY <1>3, <1>4
  <1> QED
    BY ZenonT(60), <1>5, <1>i

(* A list whose sessions keep their times stays sorted, and so it does     *)
(* behind a session that has been active since all of them.                *)
LEMMA SortedBy ==
  ASSUME NEW p, NEW q, NEW l \in Seq(Nat), Apart(l, Stale(p)), Range(l) \subseteq Ids(p),
         \A s \in Range(l) : /\ q.sessions[s].last_active_at = p.sessions[s].last_active_at
                             /\ Touched(q.sessions[s]) => Touched(p.sessions[s])
  PROVE  /\ Apart(l, Stale(q))
         /\ \A id \in Nat : (\A y \in Range(l) : <<id, y>> \notin Stale(q)) => Apart(<<id>> \o l, Stale(q))
  <1>1. \A a, b \in Range(l) : <<a, b>> \in Stale(q) => <<a, b>> \in Stale(p)
    BY ZenonT(60) DEF Stale
  <1>2. \A i \in DOMAIN l : l[i] \in Range(l)
    BY ZenonT(60) DEF Range
  <1>3. Apart(l, Stale(q))
    BY ZenonT(60), <1>1, <1>2 DEF Apart
  <1>4. ASSUME NEW id \in Nat, \A y \in Range(l) : <<id, y>> \notin Stale(q)
        PROVE  Apart(<<id>> \o l, Stale(q))
    <2>t. PICK t : t = <<id>>
      BY ZenonT(60)
    <2>1. t \in Seq(Nat) /\ Range(t) = {id} /\ Apart(t, Stale(q))
      BY ZenonT(60), <2>t, ShortHolds
    <2>2. \A x \in Range(t), y \in Range(l) : <<x, y>> \notin Stale(q)
      BY ZenonT(60), <1>4, <2>1
    <2>3. Apart(t \o l, Stale(q))
      BY ZenonT(60), <1>3, <2>1, <2>2, JoinHolds
    <2> QED
      BY ZenonT(60), <2>3, <2>t
  <1> QED
    BY <1>3, <1>4

(* The tick keeps the list sorted.                                         *)
LEMMA TickSorted ==
  ASSUME RestOK, PoolInv, QueuesOK, NEW D, NEW L, WiredTo(D, L), Lives(D, L), Sorted, Tick
  PROVE  Sorted'
  <1>n. now' = now /\ now \in Nat
    <2>1. \A type : Handling(type) => now' = now
      BY DEF Handling
    <2>2. CASE \/ DrainRequests \/ DrainWsEvents \/ BatchHandled \/ AllEmitted \/ EvolveRequests
               \/ (\E r \in Rids : EmitCompleted(r)) \/ (\E id \in Ids(pool) : EvolveCloses(id))
      BY ZenonT(60), <2>2 DEF DrainRequests, DrainWsEvents, BatchHandled, AllEmitted, EvolveRequests,
                  EmitCompleted, EvolveCloses, RestOK
    <2>3. CASE \E type : Handling(type)
      BY ZenonT(60), <2>1, <2>3 DEF RestOK
    <2> QED
      BY ZenonT(60), <2>2, <2>3
         DEF Tick, RequestDenied, RequestLocal, RequestReusesSession, RequestCreatesSession,
             RequestNoSession, HandleLocalComplete, HandleLocalFailed, HandleCancel, Response,
             HandleConnected, HandleTaskStarted, HandleAudioChunk, HandleTaskFinished,
             HandleTaskFailed, HandleDisconnected
  <1>p. /\ pool.lru \in Seq(Nat) /\ IsInjective(pool.lru) /\ Range(pool.lru) = Ids(pool)
        /\ \A s \in Ids(pool) : pool.sessions[s].last_active_at \in Nat
    BY DEF PoolInv, PoolValue, PoolOK, SessionRecords
  <1>q. Apart(pool.lru, Stale(pool)) /\ \A s \in Ids(pool) : pool.sessions[s].last_active_at <= now
    BY ZenonT(60) DEF Sorted, Aged
  <1>r. ASSUME NEW id
        PROVE  /\ RemoveFirst(pool.lru, id) \in Seq(Nat)
               /\ Range(RemoveFirst(pool.lru, id)) = Ids(pool) \ {id}
               /\ Apart(RemoveFirst(pool.lru, id), Stale(pool))
    BY ZenonT(60), <1>p, <1>q, RemoveFirstInjective
  <1>a. ASSUME NEW id, NEW state, Moves(id, state, pool.sessions[id].last_active_at),
               pool'.lru = pool.lru,
               id \in Ids(pool) /\ state # "Errored" => Touched(pool.sessions[id])
        PROVE  Sorted'
    <2>1. \A s \in Ids(pool) : /\ pool'.sessions[s].last_active_at = pool.sessions[s].last_active_at
                               /\ Touched(pool'.sessions[s]) => Touched(pool.sessions[s])
      BY <1>a DEF Moves, Touched
    <2>2. Apart(pool.lru, Stale(pool'))
      BY ZenonT(60), <1>p, <1>q, <2>1, SortedBy
    <2> QED
      BY ZenonT(60), <1>a, <1>n, <1>q, <2>1, <2>2 DEF Moves, Sorted, Aged
  <1>b. ASSUME NEW id \in Ids(pool), NEW state, Moves(id, state, now),
               pool'.lru = MoveToFront(pool.lru, id)
        PROVE  Sorted'
    <2> DEFINE l == RemoveFirst(pool.lru, id)
    <2>1. \A s \in Ids(pool) \ {id} : /\ pool'.sessions[s].last_active_at = pool.sessions[s].last_active_at
                                      /\ Touched(pool'.sessions[s]) => Touched(pool.sessions[s])
      BY <1>b DEF Moves, Touched
    <2>2. \A s \in Ids(pool') : pool'.sessions[s].last_active_at <= now
      BY SMT, SMTT(60), <1>b, <1>n, <1>q DEF Moves
    <2>3. pool'.sessions[id].last_active_at = now
      BY ZenonT(60), <1>b DEF Moves
    <2>4. \A y \in Ids(pool') : <<id, y>> \notin Stale(pool')
      <3> SUFFICES ASSUME NEW y \in Ids(pool'), <<id, y>> \in Stale(pool') PROVE FALSE
        OBVIOUS
      <3>1. now < pool'.sessions[y].last_active_at
        BY ZenonT(60), <2>3 DEF Stale
      <3>2. pool'.sessions[y].last_active_at \in Nat
        BY ZenonT(60), <1>b, <1>n, <1>p DEF Moves
      <3> QED
        BY SMT, SMTT(60), <1>n, <2>2, <3>1, <3>2
    <2>5. id \in Nat /\ Ids(pool') = Ids(pool)
      BY <1>b DEF Moves, PoolInv
    <2> HIDE DEF l
    <2>6. Apart(<<id>> \o l, Stale(pool'))
      <3>1. l \in Seq(Nat) /\ Range(l) = Ids(pool) \ {id} /\ Apart(l, Stale(pool))
        BY <1>r DEF l
      <3>2. \A y \in Range(l) : <<id, y>> \notin Stale(pool')
        BY ZenonT(60), <2>4, <2>5, <3>1
      <3>3. Range(l) \subseteq Ids(pool)
        BY ZenonT(60), <3>1
      <3> QED
        BY ZenonT(60), <2>1, <2>5, <3>1, <3>2, <3>3, SortedBy
    <2> QED
      BY ZenonT(60), <1>b, <1>n, <2>2, <2>6 DEF Sorted, Aged, MoveToFront, l
  <1>1. ASSUME Stays PROVE Sorted'
    BY <1>1, <1>n DEF Stays, Sorted, Aged
  <1>2. ASSUME Creates PROVE Sorted'
    <2>1. \A s \in Ids(pool) : /\ pool'.sessions[s].last_active_at = pool.sessions[s].last_active_at
                               /\ Touched(pool'.sessions[s]) => Touched(pool.sessions[s])
      BY <1>2 DEF Creates, Touched
    <2>2. \A y : <<next_sid, y>> \notin Stale(pool')
      BY <1>2 DEF Creates, Stale, Touched
    <2>3. Apart(<<next_sid>> \o pool.lru, Stale(pool'))
      <3>1. next_sid \in Nat
        BY DEF RestOK
      <3> QED
        BY ZenonT(60), <1>p, <1>q, <2>1, <2>2, <3>1, SortedBy
    <2>4. \A s \in Ids(pool') : pool'.sessions[s].last_active_at <= now'
      BY SMT, SMTT(60), <1>2, <1>n, <1>q DEF Creates
    <2> QED
      BY ZenonT(60), <1>2, <2>3, <2>4 DEF Creates, Sorted, Aged
  <1>3. ASSUME NEW id \in Nat, Reuses(id) PROVE Sorted'
    BY ZenonT(60), <1>3, <1>b DEF Reuses
  <1>4. ASSUME NEW id \in Nat, Readies(id) PROVE Sorted'
    <2>1. CASE id \in Ids(pool)
      BY ZenonT(60), <1>4, <1>b, <2>1 DEF Readies
    <2>2. CASE id \notin Ids(pool)
      <3>1. /\ Ids(pool') = Ids(pool) /\ pool'.lru = pool.lru
            /\ Moves(id, "Errored", pool.sessions[id].last_active_at)
        BY ZenonT(60), <1>4, <2>2 DEF Readies, Moves
      <3> QED
        BY ZenonT(60), <1>a, <2>2, <3>1
    <2> QED
      BY <2>1, <2>2
  <1>5. ASSUME NEW id \in Nat, Fails(id) PROVE Sorted'
    BY ZenonT(60), <1>5, <1>a DEF Fails
  <1>6. ASSUME NEW id \in Nat, Drains(id) PROVE Sorted'
    <2>1. PICK r \in FindReadyToEmit(pending) : id = pending[r].session_id
      BY <1>6 DEF Drains
    <2>2. r \in DOMAIN pending /\ pending[r].state = "Streaming" /\ pending[r].final_received
      BY DEF FindReadyToEmit
    <2>3. id \in Ids(pool) => pool.sessions[id].state \in Living \ {"Connecting", "Errored"}
      BY ZenonT(60), <2>1, <2>2 DEF Lives, RequestsLive, SessionsLive
    <2>4. id \in Ids(pool) => Touched(pool.sessions[id])
      BY <2>3 DEF Living, Touched
    <2> QED
      BY ZenonT(60), <1>6, <1>a, <2>4 DEF Drains
  <1>7. ASSUME NEW id \in Nat, Closes(id) PROVE Sorted'
    <2>l. PICK l : l = RemoveFirst(pool.lru, id)
      OBVIOUS
    <2>1. /\ l \in Seq(Nat) /\ Range(l) = Ids(pool) \ {id} /\ Apart(l, Stale(pool)) /\ pool'.lru = l
          /\ Ids(pool') = Ids(pool) \ {id} /\ \A s \in Ids(pool') : pool'.sessions[s] = pool.sessions[s]
      BY ZenonT(60), <1>7, <1>r, <2>l DEF Closes
    <2>2. Apart(l, Stale(pool'))
      <3>1. /\ Range(l) \subseteq Ids(pool)
            /\ \A s \in Range(l) : pool'.sessions[s] = pool.sessions[s]
        BY ZenonT(60), <2>1
      <3> QED
        BY ZenonT(60), <2>1, <3>1, SortedBy
    <2> QED
      BY ZenonT(60), <1>n, <1>q, <2>1, <2>2 DEF Sorted, Aged
  <1> QED
    BY ZenonT(60), <1>1, <1>2, <1>3, <1>4, <1>5, <1>6, <1>7, TickPool

-----------------------------------------------------------------------------
(* The lives of the sessions and the states of their links.                *)

Dials == {s \in DOMAIN link : link[s].stage = "dialing"}

\* Sessions on their way to a connection, and sessions that have had one.
Dialing == Starting \cup Dials

Heard == Speaking \cup (DOMAIN link \ Dials)

Wired == WiredTo(Dials, DOMAIN link)

Alive == Lives(Dials, DOMAIN link)

(* What Wired asks of a step.                                              *)
LEMMA WiredBy ==
  ASSUME Wired, Apart(Events', Late), Apart(Frames', Twice),
         next_sid \in Nat, next_sid' \in Nat, next_sid' >= next_sid,
         Spoken' \cup DOMAIN link' \cup Starting' \subseteq Spoken \cup DOMAIN link \cup Starting,
         Dialing' \cap Spoken' = {}, Starting' \cap DOMAIN link' = {}
  PROVE  Wired'
  <1>1. \A s \in Spoken' \cup DOMAIN link' \cup Starting' : s \in Nat /\ s < next_sid
    BY ZenonT(60) DEF Wired, WiredTo, Dialing
  <1>2. \A s \in Spoken' \cup DOMAIN link' \cup Starting' : s \in Nat /\ s < next_sid'
    BY SMT, SMTT(60), <1>1
  <1>3. Late' = Late /\ Twice' = Twice
    BY DEF Late, Twice, WsSide, OutWsFrames, Audio, Rids
  <1> QED
    BY ZenonT(60), <1>2, <1>3 DEF Wired, WiredTo, Dialing

(* Steps that leave the links alone and add neither event nor frame.       *)
LEMMA BesideWired ==
  ASSUME Wired, Apart(Events', Late), Apart(Frames', Twice),
         next_sid \in Nat, next_sid' \in Nat, next_sid' >= next_sid,
         Said' \subseteq Said, Starting' \subseteq Starting, link' = link
  PROVE  Wired'
  <1>1. Spoken' \subseteq Spoken
    BY ZenonT(60) DEF Spoken
  <1>2. Dialing' \subseteq Dialing
    BY ZenonT(60) DEF Dialing, Dials
  <1>3. Dialing' \cap Spoken' = {} /\ Starting' \cap DOMAIN link' = {}
    BY ZenonT(60), <1>1, <1>2 DEF Wired, WiredTo, Dialing
  <1> QED
    BY ZenonT(60), <1>1, <1>3, WiredBy

(* Sending a TaskStart turns a session that starts into a link that dials. *)
LEMMA SendLinks ==
  ASSUME RestOK, PipeOK, Wired, SendFrame
  PROVE  /\ UNCHANGED <<Events, next_sid, pool, pending, phase, backend, now>>
         /\ Apart(Frames', Twice)
         /\ Dialing' = Dialing
         /\ Starting' \cup DOMAIN link' = Starting \cup DOMAIN link
         /\ Starting' \cap DOMAIN link' = {}
         /\ DOMAIN link \subseteq DOMAIN link'
         /\ \A s \in DOMAIN link : link'[s].stage = link[s].stage
         /\ \A s \in DOMAIN link' \ DOMAIN link : link'[s].stage = "dialing"
  <1> DEFINE f == Head(Frames)
             D == DOMAIN link \cup (IF f.op = "TaskStart" THEN {f.session} ELSE {})
  <1>a. cs \in ChangeSets /\ Frames \in Seq(OutWsFrames) /\ Frames # <<>>
    BY DEF RestOK, ChangeSets, Frames, SendFrame
  <1>1. UNCHANGED <<Events, next_sid, pool, pending, phase, backend, now>>
    BY DEF SendFrame, channels, board, Events
  <1>2. Frames' = Tail(Frames)
    BY ZenonT(60), <1>a DEF SendFrame, ChangeSets, Frames
  <1>3. /\ f \in OutWsFrames /\ Range(Frames) = Range(Frames') \cup {f} /\ Apart(Frames', Twice)
        /\ Range(Frames') \subseteq OutWsFrames
        /\ \A y \in Range(Frames') : <<f, y>> \notin Twice
    <2>1. /\ f \in OutWsFrames /\ Frames' \in Seq(OutWsFrames)
          /\ Range(Frames) = Range(Frames') \cup {f}
          /\ \A R : Apart(Frames, R) =>
               Apart(Frames', R) /\ \A y \in Range(Frames') : <<f, y>> \notin R
      BY ZenonT(60), <1>a, <1>2, TailHolds
    <2>2. Range(Frames') \subseteq OutWsFrames
      BY <2>1 DEF Range
    <2> QED
      BY ZenonT(60), <2>1, <2>2 DEF Wired, WiredTo, Dialing
  <1>4. link' = [s \in D |-> IF s \notin DOMAIN link THEN NewLink
                             ELSE IF s = f.session /\ f.op = "TaskContinue"
                             THEN [link[s] EXCEPT !.todo = Append(@, f.text)]
                             ELSE link[s]]
    BY DEF SendFrame, Frames
  <1>5. \A s \in DOMAIN link : DOMAIN link[s] = {"stage", "todo", "chunks"}
    BY DEF PipeOK
  <1> HIDE DEF f
  <1>6. DOMAIN link' = D /\ \A s \in DOMAIN link : link'[s].stage = link[s].stage
    <2>1. \A s \in DOMAIN link : link'[s] \in {link[s], [link[s] EXCEPT !.todo = Append(@, f.text)]}
      BY ZenonT(60), <1>4
    <2>2. \A s \in DOMAIN link : [link[s] EXCEPT !.todo = Append(@, f.text)].stage = link[s].stage
      BY ZenonT(60), <1>5
    <2> QED
      BY ZenonT(60), <1>4, <2>1, <2>2
  <1>7. \A s \in D \ DOMAIN link : link'[s].stage = "dialing"
    <2>1. NewLink.stage = "dialing"
      BY DEF NewLink
    <2> QED
      BY ZenonT(60), <1>4, <2>1
  <1>8. CASE f.op = "TaskStart"
    <2>1. D = DOMAIN link \cup {f.session}
      BY <1>8
    <2>2. f.session \notin Starting'
      <3>1. ASSUME NEW y \in Range(Frames'), y.op = "TaskStart" PROVE y.session # f.session
        BY ZenonT(60), <1>3, <1>8, <3>1 DEF Twice
      <3> QED
        BY ZenonT(60), <3>1 DEF Starting
    <2>3. Starting = Starting' \cup {f.session}
      BY ZenonT(60), <1>3, <1>8 DEF Starting
    <2>4. Starting \cap DOMAIN link = {}
      BY DEF Wired, WiredTo, Dialing
    <2> HIDE DEF D
    <2>5. Dialing' = Dialing
      BY ZenonT(60), <1>6, <1>7, <2>1, <2>3, <2>4 DEF Dialing, Dials
    <2>6. /\ Starting' \cup DOMAIN link' = Starting \cup DOMAIN link
          /\ Starting' \cap DOMAIN link' = {} /\ DOMAIN link \subseteq DOMAIN link'
      BY ZenonT(60), <1>6, <2>1, <2>2, <2>3, <2>4
    <2> QED
      BY ZenonT(60), <1>1, <1>3, <1>6, <1>7, <2>5, <2>6
  <1>9. CASE f.op # "TaskStart"
    <2>1. D = DOMAIN link
      BY <1>9
    <2>3. Starting = Starting'
      BY ZenonT(60), <1>3, <1>9 DEF Starting
    <2>4. Starting \cap DOMAIN link = {}
      BY DEF Wired, WiredTo, Dialing
    <2> HIDE DEF D
    <2>5. Dialing' = Dialing
      BY ZenonT(60), <1>6, <2>1, <2>3 DEF Dialing, Dials
    <2> QED
      BY ZenonT(60), <1>1, <1>3, <1>6, <1>7, <2>1, <2>3, <2>4, <2>5
  <1> QED
    BY ZenonT(60), <1>8, <1>9

(* What the far end of a link does: it reports an event and moves on.      *)
Reports(s, m) ==
  /\ OnLink
  /\ m \in WsSide /\ m.session = s
  /\ ws_event_channel' = Append(ws_event_channel, m)
  /\ \/ m.kind = "Disconnected" /\ link' = [x \in DOMAIN link \ {s} |-> link[x]]
     \/ /\ m.kind # "Disconnected"
        /\ DOMAIN link' = DOMAIN link /\ link'[s].stage # "dialing"
        /\ \A x \in DOMAIN link \ {s} : link'[x] = link[x]
        /\ m.kind = "Connected" <=> link[s].stage = "dialing"
        /\ link'[s].stage = "failed" => m.kind = "TaskFailed"

(* Every step of a link is of this form.                                   *)
LEMMA LinkReports ==
  ASSUME PipeOK, NEW s \in DOMAIN link,
         \/ Connects(s) \/ StartsTask(s) \/ Speaks(s) \/ FinishesTask(s)
         \/ FailsTask(s) \/ Disconnects(s)
  PROVE  \E m : Reports(s, m)
  <1>a. OnLink
    BY ZenonT(60) DEF Connects, StartsTask, Speaks, FinishesTask, FailsTask, Disconnects, Advance
  <1>b. link[s] \in [stage : Stages, todo : Seq(Rids), chunks : Nat] /\ s \in Nat
    BY ZenonT(60) DEF PipeOK
  <1>1. ASSUME NEW kind \in WsEventKinds, NEW audio \in Audio, NEW f \in BOOLEAN
        PROVE  /\ TtsResponseMsg(s, kind, audio, f) \in WsSide
               /\ TtsResponseMsg(s, kind, audio, f).session = s
               /\ TtsResponseMsg(s, kind, audio, f).kind = kind
    BY ZenonT(60), <1>b DEF TtsResponseMsg, WsSide
  <1>2. ASSUME NEW from, NEW kind \in WsEventKinds, NEW to, Advance(s, from, kind, to),
               kind # "Disconnected", to # "dialing", kind = "Connected" <=> from = "dialing",
               to = "failed" => kind = "TaskFailed"
        PROVE  \E m : Reports(s, m)
    <2> DEFINE m == TtsResponseMsg(s, kind, NoRequest, FALSE)
    <2>1. m \in WsSide /\ m.session = s /\ m.kind = kind
      BY ZenonT(60), <1>1 DEF Audio
    <2>2. ws_event_channel' = Append(ws_event_channel, m)
      BY <1>2 DEF Advance, Event
    <2>3. link' = [link EXCEPT ![s] = [link[s] EXCEPT !.stage = to]] /\ link[s].stage = from
      BY <1>2 DEF Advance
    <2>4. [link[s] EXCEPT !.stage = to].stage = to
      BY ZenonT(60), <1>b
    <2>5. /\ DOMAIN link' = DOMAIN link /\ link'[s].stage = to
          /\ \A x \in DOMAIN link \ {s} : link'[x] = link[x]
      BY ZenonT(60), <2>3, <2>4
    <2> HIDE DEF m
    <2>6. Reports(s, m)
      BY ZenonT(60), <1>2, <1>a, <2>1, <2>2, <2>3, <2>5 DEF Reports
    <2> QED
      BY <2>6
  <1>3. CASE Connects(s) \/ StartsTask(s) \/ FinishesTask(s) \/ FailsTask(s)
    <2>1. {"Connected", "TaskStarted", "TaskFinished", "TaskFailed"} \subseteq WsEventKinds
      BY DEF WsEventKinds
    <2>2. CASE Connects(s)
      BY ZenonT(60), <1>2, <2>1, <2>2 DEF Connects
    <2>3. CASE StartsTask(s)
      BY ZenonT(60), <1>2, <2>1, <2>3 DEF StartsTask
    <2>4. CASE FinishesTask(s)
      BY ZenonT(60), <1>2, <2>1, <2>4 DEF FinishesTask
    <2>5. CASE FailsTask(s)
      <3>1. PICK from \in {"connected", "started"} : Advance(s, from, "TaskFailed", "failed")
        BY <2>5 DEF FailsTask
      <3>2. from # "dialing"
        OBVIOUS
      <3> QED
        BY ZenonT(60), <1>2, <2>1, <3>1, <3>2
    <2> QED
      BY ZenonT(60), <1>3, <2>2, <2>3, <2>4, <2>5
  <1>4. CASE Speaks(s)
    <2> DEFINE l    == link[s]
               last == l.chunks + 1 = MaxAudio
               new  == [l EXCEPT !.todo = IF last THEN Tail(@) ELSE @,
                                 !.chunks = IF last THEN 0 ELSE @ + 1]
               m    == TtsResponseMsg(s, "AudioChunk", Head(l.todo), last)
    <2>1. ws_event_channel' = Append(ws_event_channel, m) /\ l.todo # <<>> /\ l.stage = "started"
      BY <1>4 DEF Speaks, Event
    <2>2. Head(l.todo) \in Audio /\ last \in BOOLEAN /\ "AudioChunk" \in WsEventKinds
      BY <1>b, <2>1 DEF Audio, WsEventKinds
    <2>3. m \in WsSide /\ m.session = s /\ m.kind = "AudioChunk"
      <3> HIDE DEF l, last
      <3> QED
        BY ZenonT(60), <1>1, <2>2
    <2>4. link' = [link EXCEPT ![s] = new]
      BY ZenonT(60), <1>4 DEF Speaks
    <2>5. new.stage = l.stage
      BY ZenonT(60), <1>b
    <2> HIDE DEF new, m
    <2>6. /\ DOMAIN link' = DOMAIN link /\ link'[s].stage = "started"
          /\ \A x \in DOMAIN link \ {s} : link'[x] = link[x]
      BY ZenonT(60), <2>1, <2>4, <2>5
    <2>7. Reports(s, m)
      BY ZenonT(60), <1>a, <2>1, <2>3, <2>6 DEF Reports
    <2> QED
      BY <2>7
  <1>5. CASE Disconnects(s)
    <2> DEFINE m == TtsResponseMsg(s, "Disconnected", NoRequest, FALSE)
    <2>1. m \in WsSide /\ m.session = s /\ m.kind = "Disconnected"
      <3>1. "Disconnected" \in WsEventKinds /\ NoRequest \in Audio /\ FALSE \in BOOLEAN
        BY DEF WsEventKinds, Audio
      <3> QED
        BY ZenonT(60), <1>1, <3>1
    <2>2. /\ ws_event_channel' = Append(ws_event_channel, m)
          /\ link' = [x \in DOMAIN link \ {s} |-> link[x]]
      BY <1>5 DEF Disconnects, Event
    <2> HIDE DEF m
    <2>3. Reports(s, m)
      BY ZenonT(60), <1>a, <2>1, <2>2 DEF Reports
    <2> QED
      BY <2>3
  <1> QED
    BY ZenonT(60), <1>3, <1>4, <1>5

(* What that does to the events.                                           *)
LEMMA ReportSays ==
  ASSUME RestOK, QueuesOK, NEW s, NEW m, Reports(s, m), Apart(Events, Late),
         m.kind = "Connected" => s \notin Spoken
  PROVE  Said' = Said \cup {m} /\ Apart(Events', Late)
  <1>a. /\ batch \in Seq(Messages) /\ ws_event_channel \in Seq(Messages)
        /\ Events \in Seq(Messages) /\ WsSide \subseteq Messages
    BY EventTypes
  <1>1. m \in WsSide /\ m \in Messages /\ m.session = s
    BY <1>a DEF Reports
  <1>2. batch' = batch /\ ws_event_channel' = Append(ws_event_channel, m)
    BY ZenonT(60) DEF Reports, OnLink
  <1>t. PICK t : t = <<m>>
    BY ZenonT(60)
  <1>3. t \in Seq(Messages) /\ Range(t) = {m} /\ Apart(t, Late)
    BY ZenonT(60), <1>1, <1>t, ShortHolds
  <1>4. Events' = Events \o t
    <2>1. ws_event_channel' = ws_event_channel \o t
      BY SMT, SMTT(60), <1>a, <1>1, <1>2, <1>t
    <2>2. batch \o (ws_event_channel \o t) = (batch \o ws_event_channel) \o t
      BY SMT, SMTT(60), <1>a, <1>3, JoinThree
    <2> QED
      BY ZenonT(60), <1>2, <2>1, <2>2 DEF Events
  <1>5. \A x \in Range(Events) : <<x, m>> \notin Late
    <2> SUFFICES ASSUME NEW x \in Range(Events), <<x, m>> \in Late PROVE FALSE
      OBVIOUS
    <2>1. x \in WsSide /\ x.session = s /\ m.kind = "Connected"
      BY <1>1 DEF Late
    <2> QED
      BY ZenonT(60), <2>1 DEF Said, Spoken
  <1>6. Range(Events') = Range(Events) \cup {m} /\ Apart(Events', Late)
    <2>1. \A x \in Range(Events), y \in Range(t) : <<x, y>> \notin Late
      BY ZenonT(60), <1>3, <1>5
    <2>2. Apart(Events \o t, Late) /\ Range(Events \o t) = Range(Events) \cup Range(t)
      BY ZenonT(60), <1>a, <1>3, <2>1, JoinHolds
    <2> QED
      BY ZenonT(60), <1>3, <1>4, <2>2
  <1> QED
    BY ZenonT(60), <1>1, <1>6 DEF Said

(* The inductive step.                                                     *)
LEMMA NextWired == IInv /\ QueuesOK /\ Wired /\ [Next]_vars => Wired'
  <1> SUFFICES ASSUME IInv, QueuesOK, Wired, [Next]_vars PROVE Wired'
    OBVIOUS
  <1>a. RestOK /\ PoolInv /\ PipeOK /\ QueuesOK /\ next_sid \in Nat /\ cs \in ChangeSets
    BY IInvParts DEF RestOK
  <1>b. Apart(Events, Late) /\ Apart(Frames, Twice)
    BY DEF Wired, WiredTo, Dialing
  <1>c. \A R : Apart(<<>>, R)
    BY DEF Apart
  <1>d. Range(<<>>) = {}
    BY DEF Range
  <1>e. ASSUME UNCHANGED <<batch, ws_event_channel, next_sid, link>>,
               Frames' = Frames \/ Frames' = <<>>
        PROVE  Wired'
    <2>1. Events' = Events
      BY <1>e DEF Events
    <2>2. Said' = Said
      BY <2>1 DEF Said
    <2>3. Starting' \subseteq Starting
      BY ZenonT(60), <1>d, <1>e DEF Starting
    <2>4. Apart(Frames', Twice) /\ Apart(Events', Late)
      BY ZenonT(60), <1>b, <1>c, <1>e, <2>1
    <2>5. next_sid' \in Nat /\ next_sid' >= next_sid
      BY <1>a, <1>e
    <2> QED
      BY ZenonT(60), <1>a, <1>e, <2>2, <2>3, <2>4, <2>5, BesideWired
  <1>1. CASE Tick /\ UNCHANGED pipeVars
    <2>1. PICK D, L : D = Dials /\ L = DOMAIN link
      OBVIOUS
    <2>2. Dials' = D /\ DOMAIN link' = L
      BY <1>1, <2>1 DEF pipeVars, Dials
    <2>3. WiredTo(D, L)
      BY ZenonT(60), <2>1 DEF Wired
    <2>4. WiredTo(D, L)'
      BY ZenonT(60), <1>1, <1>a, <2>3, TickKeepsWired
    <2> QED
      BY ZenonT(60), <2>2, <2>4 DEF Wired, WiredTo
  <1>2. CASE (RunLocalJob \/ EndIteration) /\ UNCHANGED pipeVars
    <2>1. Frames' = Frames \/ Frames' = <<>>
      <3>1. CASE RunLocalJob
        BY ZenonT(60), <1>a, <3>1 DEF RunLocalJob, ChangeSets, Frames
      <3>2. CASE EndIteration
        BY <3>2 DEF EndIteration, EmptyChangeSet, Frames
      <3> QED
        BY ZenonT(60), <1>2, <3>1, <3>2
    <2> QED
      BY ZenonT(60), <1>2, <1>e, <2>1 DEF RunLocalJob, EndIteration, pipeVars, channels, board
  <1>3. CASE SendFrame
    <2>1. /\ UNCHANGED <<Events, next_sid>> /\ Apart(Frames', Twice) /\ Dialing' = Dialing
          /\ Starting' \cup DOMAIN link' = Starting \cup DOMAIN link
          /\ Starting' \cap DOMAIN link' = {}
      BY ZenonT(60), <1>3, <1>a, SendLinks
    <2>2. Spoken' = Spoken
      BY <2>1 DEF Spoken, Said
    <2>3. next_sid' \in Nat /\ next_sid' >= next_sid /\ Apart(Events', Late)
      BY SMT, SMTT(60), <1>a, <1>b, <2>1
    <2>4. Spoken' \cup DOMAIN link' \cup Starting' \subseteq Spoken \cup DOMAIN link \cup Starting
      BY ZenonT(60), <2>1, <2>2
    <2>5. Dialing' \cap Spoken' = {}
      BY ZenonT(60), <2>1, <2>2 DEF Wired, WiredTo, Dialing
    <2> QED
      BY ZenonT(60), <1>a, <2>1, <2>3, <2>4, <2>5, WiredBy
  <1>4. CASE ExecuteChangeSet
    <2>1. /\ UNCHANGED <<batch, ws_event_channel, next_sid>> /\ Frames' = Frames
          /\ DOMAIN link' \subseteq DOMAIN link /\ \A s \in DOMAIN link' : link'[s] = link[s]
      BY <1>4 DEF ExecuteChangeSet, CloseLinks, EmptyChangeSet, Frames, channels, board
    <2>2. Events' = Events /\ Starting' = Starting
      BY <2>1 DEF Events, Starting
    <2>3. Spoken' = Spoken
      BY <2>2 DEF Spoken, Said
    <2>4. Dialing' \subseteq Dialing
      BY ZenonT(60), <2>1, <2>2 DEF Dialing, Dials
    <2>5. /\ Spoken' \cup DOMAIN link' \cup Starting' \subseteq Spoken \cup DOMAIN link \cup Starting
          /\ Dialing' \cap Spoken' = {} /\ Starting' \cap DOMAIN link' = {}
      BY ZenonT(60), <2>1, <2>2, <2>3, <2>4 DEF Wired, WiredTo, Dialing
    <2>6. next_sid' \in Nat /\ next_sid' >= next_sid /\ Apart(Events', Late) /\ Apart(Frames', Twice)
      BY SMT, SMTT(60), <1>a, <1>b, <2>1, <2>2
    <2> QED
      BY ZenonT(60), <1>a, <2>5, <2>6, WiredBy
  <1>5. CASE AdvanceClock \/ (\E r \in Rids : Submit(r) \/ Cancel(r) \/ HarnessBind(r)) \/ UNCHANGED vars
    <2>1. UNCHANGED <<batch, ws_event_channel, next_sid, link, cs>>
      BY <1>5 DEF AdvanceClock, Submit, Cancel, HarnessBind, vars, hbVars, pipeVars, board, channels
    <2> QED
      BY ZenonT(60), <2>1, <1>e DEF Frames
  <1>6. ASSUME NEW s \in DOMAIN link,
               \/ Connects(s) \/ StartsTask(s) \/ Speaks(s) \/ FinishesTask(s)
               \/ FailsTask(s) \/ Disconnects(s)
        PROVE  Wired'
    <2>1. PICK m : Reports(s, m)
      BY ZenonT(60), <1>6, <1>a, LinkReports
    <2>2. UNCHANGED <<cs, next_sid>> /\ m.session = s /\ s \in Spoken \cup DOMAIN link
      BY ZenonT(60), <2>1, <1>6 DEF Reports, OnLink, board
    <2>3. Starting' = Starting /\ Frames' = Frames
      BY <2>2 DEF Starting, Frames
    <2>4. m.kind = "Connected" => s \notin Spoken
      <3>1. m.kind = "Connected" => link[s].stage = "dialing"
        BY <2>1 DEF Reports
      <3> QED
        BY ZenonT(60), <3>1 DEF Wired, WiredTo, Dialing, Dials
    <2>5. Said' = Said \cup {m} /\ Apart(Events', Late)
      BY ZenonT(60), <1>a, <1>b, <2>1, <2>4, ReportSays
    <2>6. Spoken' = Spoken \cup {s}
      BY ZenonT(60), <2>2, <2>5 DEF Spoken
    <2>7. DOMAIN link' \subseteq DOMAIN link /\ Dialing' \subseteq Dialing \ {s}
      <3>1. /\ DOMAIN link' \subseteq DOMAIN link /\ \A x \in DOMAIN link' \ {s} : link'[x] = link[x]
            /\ s \in DOMAIN link' => link'[s].stage # "dialing"
        BY <2>1 DEF Reports
      <3>2. s \notin Starting
        BY ZenonT(60) DEF Wired, WiredTo, Dialing
      <3> QED
        BY ZenonT(60), <2>3, <3>1, <3>2 DEF Dialing, Dials
    <2>8. /\ Spoken' \cup DOMAIN link' \cup Starting' \subseteq Spoken \cup DOMAIN link \cup Starting
          /\ Dialing' \cap Spoken' = {} /\ Starting' \cap DOMAIN link' = {}
      BY ZenonT(60), <2>3, <2>6, <2>7 DEF Wired, WiredTo, Dialing
    <2>9. next_sid' \in Nat /\ next_sid' >= next_sid /\ Apart(Frames', Twice)
      BY SMT, SMTT(60), <1>a, <1>b, <2>2, <2>3
    <2> QED
      BY ZenonT(60), <1>a, <2>5, <2>8, <2>9, WiredBy
  <1> QED
    BY ZenonT(60), <1>1, <1>2, <1>3, <1>4, <1>5, <1>6 DEF Next, HeartbeatStep

(* Steps beside the tick: no new event says that a session got connected,  *)
(* but for sessions that were on their way to it.                          *)
LEMMA BesideAlive ==
  ASSUME Alive, UNCHANGED <<pool, next_sid, backend>>, RequestsLive',
         Dialing' \cup Calling' \subseteq Dialing \cup Calling,
         Heard' \ Calling' \subseteq Heard \ Calling
  PROVE  Alive'
  <1>1. LocalRids' = LocalRids
    BY LocalRidsFixed
  <1>2. SessionsLive(Dials, DOMAIN link)'
    BY ZenonT(60) DEF Alive, Lives, SessionsLive, Heard, Dialing
  <1> QED
    BY ZenonT(60), <1>1, <1>2 DEF Alive, Lives

(* The inductive step.                                                     *)
LEMMA NextAlive == IInv /\ QueuesOK /\ Named /\ Wired /\ Alive /\ [Next]_vars => Alive'
  <1> SUFFICES ASSUME IInv, QueuesOK, Named, Wired, Alive, [Next]_vars PROVE Alive'
    OBVIOUS
  <1>a. RestOK /\ PoolInv /\ PipeOK /\ QueuesOK /\ cs \in ChangeSets
    BY IInvParts DEF RestOK
  <1>b. ASSUME UNCHANGED <<pool, next_sid, backend, pending>>
        PROVE  RequestsLive'
    <2>1. LocalRids' = LocalRids
      BY <1>b, LocalRidsFixed
    <2> QED
      BY ZenonT(60), <1>b, <2>1 DEF Alive, Lives, RequestsLive
  <1>c. ASSUME UNCHANGED <<batch, ws_event_channel>>, Starting' \subseteq Starting,
               DOMAIN link' \subseteq DOMAIN link, \A s \in DOMAIN link' : link'[s] = link[s],
               UNCHANGED <<pool, next_sid, backend>>, RequestsLive'
        PROVE  Alive'
    <2>1. Said' = Said
      BY <1>c DEF Said, Events
    <2>2. Dialing' \subseteq Dialing /\ Calling' = Calling /\ Heard' \subseteq Heard
      BY ZenonT(60), <1>c, <2>1 DEF Dialing, Dials, Calling, Heard, Speaking
    <2> QED
      BY ZenonT(60), <1>c, <2>2, BesideAlive
  <1>1. CASE Tick /\ UNCHANGED pipeVars
    <2>1. PICK D, L : D = Dials /\ L = DOMAIN link
      OBVIOUS
    <2>2. Dials' = D /\ DOMAIN link' = L
      BY <1>1, <2>1 DEF pipeVars, Dials
    <2>3. WiredTo(D, L) /\ Lives(D, L)
      BY ZenonT(60), <2>1 DEF Wired, Alive
    <2>4. SessionsLive(D, L)' /\ RequestsLive' /\ (BidiRids \subseteq LocalRids)'
      BY ZenonT(60), <1>1, <1>a, <2>3, TickSessions, TickRequests
    <2> QED
      BY ZenonT(60), <2>2, <2>4 DEF Alive, Lives, SessionsLive
  <1>2. CASE (RunLocalJob \/ EndIteration) /\ UNCHANGED pipeVars
    <2>1. Frames' = Frames \/ Frames' = <<>>
      <3>1. CASE RunLocalJob
        BY ZenonT(60), <1>a, <3>1 DEF RunLocalJob, ChangeSets, Frames
      <3>2. CASE EndIteration
        BY ZenonT(60), <3>2 DEF EndIteration, EmptyChangeSet, Frames
      <3> QED
        BY ZenonT(60), <1>2, <3>1, <3>2
    <2>2. Range(<<>>) = {}
      BY DEF Range
    <2>3. Starting' \subseteq Starting
      BY ZenonT(60), <2>1, <2>2 DEF Starting
    <2>4. UNCHANGED <<batch, ws_event_channel, pool, next_sid, backend, pending, link>>
      BY <1>2 DEF RunLocalJob, EndIteration, pipeVars, channels, board
    <2> QED
      BY ZenonT(60), <1>b, <1>c, <2>3, <2>4
  <1>3. CASE SendFrame
    <2>1. /\ UNCHANGED <<Events, next_sid, pool, pending, backend>> /\ Dialing' = Dialing
          /\ DOMAIN link \subseteq DOMAIN link' /\ \A s \in DOMAIN link : link'[s].stage = link[s].stage
          /\ \A s \in DOMAIN link' \ DOMAIN link : link'[s].stage = "dialing"
      BY ZenonT(60), <1>3, <1>a, SendLinks
    <2>2. Said' = Said
      BY <2>1 DEF Said
    <2>3. Calling' = Calling /\ Heard' \subseteq Heard
      BY ZenonT(60), <2>1, <2>2 DEF Calling, Heard, Speaking, Dials
    <2> QED
      BY ZenonT(60), <1>b, <2>1, <2>3, BesideAlive
  <1>4. CASE ExecuteChangeSet
    <2>1. /\ UNCHANGED <<batch, ws_event_channel, next_sid, pool, pending, backend>> /\ Frames' = Frames
          /\ DOMAIN link' \subseteq DOMAIN link /\ \A s \in DOMAIN link' : link'[s] = link[s]
      BY ZenonT(60), <1>4 DEF ExecuteChangeSet, CloseLinks, EmptyChangeSet, Frames, channels, board
    <2>2. Starting' = Starting
      BY <2>1 DEF Starting
    <2> QED
      BY ZenonT(60), <1>b, <1>c, <2>1, <2>2
  <1>5. CASE AdvanceClock \/ (\E r \in Rids : Submit(r) \/ Cancel(r)) \/ UNCHANGED vars
    <2>1. UNCHANGED <<batch, ws_event_channel, next_sid, link, cs, pool, pending, backend>>
      BY ZenonT(60), <1>5 DEF AdvanceClock, Submit, Cancel, vars, hbVars, pipeVars, board, channels
    <2>2. Starting' = Starting
      BY <2>1 DEF Starting, Frames
    <2> QED
      BY ZenonT(60), <1>b, <1>c, <2>1, <2>2
  <1>6. ASSUME NEW x \in Rids, HarnessBind(x) PROVE Alive'
    <2>1. UNCHANGED <<batch, ws_event_channel, next_sid, link, cs, pool, backend>>
      BY ZenonT(60), <1>6 DEF HarnessBind, pipeVars, channels
    <2>2. LocalRids' = LocalRids /\ Starting' = Starting
      BY ZenonT(60), <2>1, LocalRidsFixed DEF Starting, Frames
    <2>3. pending[x] \in PendingRequests(Audio) /\ x \in DOMAIN pending /\ pending[x].state = "AwaitingSession"
      BY <1>6, <1>a DEF HarnessBind, RestOK
    <2>4. pending' = [pending EXCEPT ![x] = [pending[x] EXCEPT !.state = "Streaming"]]
      BY ZenonT(60), <1>6, <2>3 DEF HarnessBind, BindSession, PendingRequests
    <2>5. /\ [pending[x] EXCEPT !.state = "Streaming"].session_id = pending[x].session_id
          /\ [pending[x] EXCEPT !.state = "Streaming"].final_received = pending[x].final_received
      BY ZenonT(60), <2>3 DEF PendingRequests
    <2>6. /\ DOMAIN pending' = DOMAIN pending
          /\ \A r \in DOMAIN pending : /\ pending'[r].session_id = pending[r].session_id
                                       /\ pending'[r].final_received = pending[r].final_received
                                       /\ r # x => pending'[r].state = pending[r].state
      BY ZenonT(60), <2>4, <2>5
    <2>7. RequestsLive'
      BY ZenonT(60), <2>1, <2>2, <2>3, <2>6 DEF Alive, Lives, RequestsLive
    <2> QED
      BY ZenonT(60), <1>c, <2>1, <2>2, <2>7
  <1>7. ASSUME NEW s \in DOMAIN link,
               \/ Connects(s) \/ StartsTask(s) \/ Speaks(s) \/ FinishesTask(s)
               \/ FailsTask(s) \/ Disconnects(s)
        PROVE  Alive'
    <2>1. PICK m : Reports(s, m)
      BY <1>7, <1>a, LinkReports
    <2>2. UNCHANGED <<cs, next_sid, pool, pending, backend>> /\ m.session = s
      BY ZenonT(60), <2>1 DEF Reports, OnLink, board
    <2>3. /\ DOMAIN link' \subseteq DOMAIN link /\ \A x \in DOMAIN link' \ {s} : link'[x] = link[x]
          /\ s \in DOMAIN link' => link'[s].stage # "dialing"
          /\ m.kind = "Connected" => link[s].stage = "dialing"
          /\ m.kind = "Connected" \/ link[s].stage # "dialing" \/ (m.kind # "AudioChunk" /\ s \notin DOMAIN link')
      BY <2>1 DEF Reports
    <2>4. m.kind = "Connected" => s \notin Spoken
      BY ZenonT(60), <2>3 DEF Wired, WiredTo, Dialing, Dials
    <2>5. Said' = Said \cup {m}
      BY ZenonT(60), <1>a, <2>1, <2>4, ReportSays DEF Wired, WiredTo, Dialing
    <2>6. Starting' = Starting
      BY <2>2 DEF Starting, Frames
    <2>7. Calling' = Calling \cup (IF m.kind = "Connected" THEN {s} ELSE {})
      BY ZenonT(60), <2>2, <2>5 DEF Calling
    <2>8. Dialing' \subseteq Dialing /\ (m.kind = "Connected" => s \in Dialing)
      BY ZenonT(60), <2>3, <2>6 DEF Dialing, Dials
    <2>9. Heard' \subseteq Heard \cup {s}
      BY ZenonT(60), <2>2, <2>3, <2>5 DEF Heard, Speaking, Dials
    <2>10. s \in Heard \/ s \in Calling' \/ s \notin Heard'
      BY ZenonT(60), <2>2, <2>3, <2>5, <2>7 DEF Heard, Speaking, Dials
    <2>11. Heard' \ Calling' \subseteq Heard \ Calling
      BY ZenonT(60), <2>7, <2>9, <2>10
    <2>12. Dialing' \cup Calling' \subseteq Dialing \cup Calling
      BY ZenonT(60), <2>7, <2>8
    <2> QED
      BY ZenonT(60), <1>b, <2>2, <2>11, <2>12, BesideAlive
  <1> QED
    BY ZenonT(60), <1>1, <1>2, <1>3, <1>4, <1>5, <1>6, <1>7 DEF Next, HeartbeatStep

(* Only the tick touches the pool.                                         *)
LEMMA BesidePool ==
  ASSUME [Next]_vars, ~(Tick /\ UNCHANGED pipeVars)
  PROVE  UNCHANGED <<pool, next_sid>> /\ (now' = now \/ now' = now + 1)
  <1>1. CASE HeartbeatStep
    BY <1>1 DEF HeartbeatStep, RunLocalJob, EndIteration, board
  <1>2. CASE SendFrame \/ ExecuteChangeSet \/ AdvanceClock \/ UNCHANGED vars
    BY <1>2 DEF SendFrame, ExecuteChangeSet, AdvanceClock, vars, hbVars, board
  <1>3. CASE \E r \in Rids : Submit(r) \/ Cancel(r) \/ HarnessBind(r)
    BY ZenonT(60), <1>3 DEF Submit, Cancel, HarnessBind, board
  <1>4. CASE \E s \in DOMAIN link :
               \/ Connects(s) \/ StartsTask(s) \/ Speaks(s) \/ FinishesTask(s)
               \/ FailsTask(s) \/ Disconnects(s)
    <2>1. OnLink
      BY ZenonT(60), <1>4 DEF Connects, StartsTask, Speaks, FinishesTask, FailsTask, Disconnects, Advance
    <2> QED
      BY <2>1 DEF OnLink, board
  <1> QED
    BY ZenonT(60), <1>1, <1>2, <1>3, <1>4 DEF Next

-----------------------------------------------------------------------------
(* The pool and the links.                                                 *)

\* Sessions whose end has been reported and not been handled yet.
Ended == {m.session : m \in {x \in Said : x.kind \in {"TaskFailed", "Disconnected"}}}
Gone == {m.session : m \in {x \in Said : x.kind = "Disconnected"}}

\* A failed request has lost its session, or has one that is in error.
FailedLost ==
  \A r \in DOMAIN pending :
    /\ pending[r].state # "Cancelled"
    /\ pending[r].state = "Failed" /\ pending[r].session_id \in Ids(pool) =>
         pending[r].session_id \in Errored(pool)

\* Every session of the pool has a link that has not failed, one of sound, or
\* is about to get or to lose it; every link belongs to a session, or is about
\* to be closed.
MirroredIn(sound, links) ==
  /\ Ids(pool) \subseteq Starting \cup sound \cup Ended \cup Errored(pool)
  /\ links \cup Starting \subseteq Ids(pool) \cup Closing
  /\ Closing \cap Ids(pool) = {}
  /\ Gone \cap links = {}
  /\ phase \notin {"evolve", "dispatch"} => Closing = {}
  /\ phase \in {"jobs", "idle"} => Frames = <<>>

(* The tick keeps the pool and the links in step.                          *)
LEMMA TickMirrors ==
  ASSUME RestOK, PoolInv, QueuesOK, Reported, NEW D, NEW L, NEW S, WiredTo(D, L), Lives(D, L),
         FailedLost, ~HandleCancel, MirroredIn(S, L), Tick
  PROVE  MirroredIn(S, L)' /\ FailedLost'
  <1>a. /\ \A s \in Ids(pool') \cap Ids(pool) : Advances(s)
        /\ \A s \in Ids(pool') \ Ids(pool) : s = next_sid /\ RequestCreatesSession
    BY ZenonT(60), TickAdvances
  <1>b. \A s \in Ids(pool') \cap Errored(pool) : s \in Errored(pool')
    <2> SUFFICES ASSUME NEW s \in Ids(pool') \cap Errored(pool) PROVE s \in Errored(pool')
      BY ZenonT(60)
    <2>1. s \in Ids(pool) /\ pool.sessions[s].state = "Errored" /\ Advances(s)
      BY ZenonT(60), <1>a DEF Errored
    <2>2. pool'.sessions[s].state = "Errored"
      BY ZenonT(60), <2>1 DEF Advances, Forward
    <2> QED
      BY ZenonT(60), <2>2 DEF Errored
  <1>c. /\ Said' \subseteq Said
        /\ \/ Said' = Said
           \/ /\ Handling("TtsResponse")
              /\ Head(batch) \in Said /\ Said \subseteq Said' \cup {Head(batch)}
    BY ZenonT(60), TickSays DEF WiredTo
  <1>d. /\ \/ Starting' = Starting /\ ~RequestCreatesSession
           \/ Starting' = Starting \cup {next_sid} /\ RequestCreatesSession
    <2>1. \A s \in Starting : s # next_sid
      BY SMT, SMTT(60) DEF WiredTo, RestOK
    <2> QED
      BY ZenonT(60), <2>1, TickFrames DEF WiredTo
  <1>e. /\ Handling("TtsResponse") /\ Head(batch).kind \in {"TaskFailed", "Disconnected"} =>
             Head(batch).session \notin Ids(pool') \/ Head(batch).session \in Errored(pool')
        /\ \A s \in Ids(pool) \ Ids(pool') :
             (HandleDisconnected /\ s = Head(batch).session) \/ EvolveCloses(s)
        /\ \A id \in Ids(pool) : EvolveCloses(id) => id \notin Ids(pool')
    BY ZenonT(60), TickEnds
  <1>f. /\ phase' \notin {"jobs", "idle"}
        /\ \/ phase \notin {"evolve", "dispatch"} /\ Closing' = Closing
           \/ /\ phase' \in {"evolve", "dispatch"}
              /\ \/ \E id \in Ids(pool) : EvolveCloses(id) /\ Closing' = Closing \cup {id}
                 \/ /\ EvolveRequests
                    /\ Closing' = Closing \cup {pending[r].session_id : r \in CollectTerminal(pending)}
    BY ZenonT(60), TickCloses
  <1>m. /\ Ids(pool) \subseteq Starting \cup S \cup Ended \cup Errored(pool)
        /\ L \cup Starting \subseteq Ids(pool) \cup Closing
        /\ Closing \cap Ids(pool) = {}
        /\ Gone \cap L = {}
        /\ phase \notin {"evolve", "dispatch"} => Closing = {}
    BY ZenonT(60) DEF MirroredIn
  <1>h. /\ HandleDisconnected => Handling("TtsResponse") /\ Head(batch).kind = "Disconnected"
        /\ HandleTaskFailed => Handling("TtsResponse") /\ Head(batch).kind = "TaskFailed"
        /\ RequestCreatesSession => phase = "handle" /\ ~HandleDisconnected
    <2>1. HandleDisconnected => Handling("TtsResponse") /\ Head(batch).kind = "Disconnected"
      BY ZenonT(60) DEF HandleDisconnected, Response
    <2>2. HandleTaskFailed => Handling("TtsResponse") /\ Head(batch).kind = "TaskFailed"
      BY ZenonT(60) DEF HandleTaskFailed, Response
    <2>3. RequestCreatesSession => Handling("TtsRequest")
      BY ZenonT(60) DEF RequestCreatesSession
    <2> QED
      BY ZenonT(60), <2>1, <2>2, <2>3 DEF Handling
  <1>1. Ids(pool') \subseteq Starting' \cup S \cup Ended' \cup Errored(pool')
    <2> SUFFICES ASSUME NEW s \in Ids(pool') PROVE s \in Starting' \cup S \cup Ended' \cup Errored(pool')
      BY ZenonT(60)
    <2>1. CASE s \notin Ids(pool)
      BY ZenonT(60), <1>a, <1>d, <2>1
    <2>2. CASE s \in Ended
      <3>1. PICK m \in Said : m.kind \in {"TaskFailed", "Disconnected"} /\ m.session = s
        BY ZenonT(60), <2>2 DEF Ended
      <3>2. CASE m \in Said'
        BY ZenonT(60), <3>1, <3>2 DEF Ended
      <3>3. CASE m \notin Said'
        BY ZenonT(60), <1>c, <1>e, <3>1, <3>3
      <3> QED
        BY ZenonT(60), <3>2, <3>3
    <2> QED
      BY ZenonT(60), <1>b, <1>d, <1>m, <2>1, <2>2
  <1>2. L \cup Starting' \subseteq Ids(pool') \cup Closing'
    <2> SUFFICES ASSUME NEW s \in L \cup Starting' PROVE s \in Ids(pool') \cup Closing'
      BY ZenonT(60)
    <2>0. Closing \subseteq Closing' /\ \A id \in Ids(pool) : EvolveCloses(id) => id \in Closing'
      <3>1. Closing \subseteq Closing'
        BY ZenonT(60), <1>f
      <3>2. ASSUME NEW id \in Ids(pool), EvolveCloses(id) PROVE id \in Closing'
        <4>1. phase = "evolve" /\ phase' = "evolve" /\ ~EvolveRequests
          BY ZenonT(60), <3>2 DEF EvolveCloses, EvolveRequests
        <4>2. PICK x \in Ids(pool) : EvolveCloses(x) /\ Closing' = Closing \cup {x}
          BY ZenonT(60), <1>f, <4>1
        <4>3. Ids(pool') = Ids(pool) \ {x}
          BY ZenonT(60), <4>2 DEF EvolveCloses, MarkClosed, Ids
        <4> QED
          BY ZenonT(60), <1>e, <3>2, <4>2, <4>3
      <3> QED
        BY ZenonT(60), <3>1, <3>2
    <2>1. CASE s \notin L \cup Starting
      <3>1. s = next_sid /\ RequestCreatesSession
        BY ZenonT(60), <1>d, <2>1
      <3>2. /\ phase = "handle" /\ Head(batch).type = "TtsRequest"
            /\ FindIdleLeastRecentlyUsed(pool) = NoSession
        BY ZenonT(60), <3>1 DEF RequestCreatesSession, Handling
      <3>3. ~Stays /\ \A id \in Nat : ~Reuses(id) /\ ~Readies(id) /\ ~Fails(id) /\ ~Drains(id) /\ ~Closes(id)
        BY ZenonT(60), <3>1, <3>2 DEF Stays, Reuses, RequestReusesSession, Handling, Readies, HandleConnected,
              Response, Fails, HandleTaskFailed, Drains, EmitCompleted, Closes, HandleDisconnected, EvolveCloses
      <3>4. Creates
        BY ZenonT(60), <3>3, TickPool
      <3> QED
        BY ZenonT(60), <3>1, <3>4 DEF Creates
    <2>2. CASE s \in Ids(pool) \ Ids(pool') /\ ~EvolveCloses(s)
      <3>1. HandleDisconnected /\ s = Head(batch).session
        BY ZenonT(60), <1>e, <2>2
      <3>2. Head(batch) \in Said /\ Head(batch).kind = "Disconnected"
        BY ZenonT(60), <1>c, <1>h, <3>1, TickSays DEF WiredTo
      <3>3. s \in Gone /\ s \in Spoken
        BY ZenonT(60), <3>1, <3>2 DEF Gone, Spoken
      <3>4. s \notin Starting'
        BY ZenonT(60), <1>d, <1>h, <3>1, <3>3 DEF WiredTo
      <3> QED
        BY ZenonT(60), <1>m, <3>3, <3>4
    <2> QED
      BY ZenonT(60), <1>m, <2>0, <2>1, <2>2
  <1>3. Closing' \cap Ids(pool') = {}
    <2>1. Closing \cap Ids(pool') = {}
      BY ZenonT(60), <1>a, <1>h, <1>m
    <2>2. ASSUME EvolveRequests, NEW r \in CollectTerminal(pending) PROVE pending[r].session_id \notin Ids(pool')
      <3>1. /\ pool' = pool /\ \A id \in Ids(pool) : CloseReason(id) = "none"
        BY ZenonT(60), <2>2 DEF EvolveRequests
      <3>2. ASSUME NEW id \in Errored(pool) PROVE FALSE
        <4>1. id \in Ids(pool) /\ id \in changed_sessions /\ pool.sessions[id].state = "Errored"
          BY ZenonT(60) DEF Reported, Errored
        <4> QED
          BY ZenonT(60), <3>1, <4>1 DEF CloseReason
      <3> QED
        BY ZenonT(60), <2>2, <3>1, <3>2 DEF FailedLost, CollectTerminal, TerminalStates
    <2> QED
      BY ZenonT(60), <1>e, <1>f, <2>1, <2>2
  <1>4. Gone' \cap L = {}
    BY ZenonT(60), <1>c, <1>m DEF Gone
  <1>5. phase' \notin {"evolve", "dispatch"} => Closing' = {}
    BY ZenonT(60), <1>f, <1>m
  <1>6. FailedLost'
    <2> SUFFICES ASSUME NEW r \in DOMAIN pending', pending'[r].state \in {"Failed", "Cancelled"}
                 PROVE  /\ pending'[r].state # "Cancelled"
                        /\ pending'[r].session_id \in Ids(pool') => pending'[r].session_id \in Errored(pool')
      BY ZenonT(60) DEF FailedLost
    <2>1. /\ r \in DOMAIN pending /\ pending'[r].session_id = pending[r].session_id
          /\ \/ pending'[r].state = pending[r].state
             \/ /\ pending'[r].state = "Failed" /\ pending[r].session_id = Head(batch).session
                /\ HandleTaskFailed \/ HandleDisconnected
      BY ZenonT(60), TickFails
    <2>2. CASE pending'[r].state = pending[r].state
      <3>1. pending[r].session_id < next_sid
        BY ZenonT(60), <2>1 DEF Lives, RequestsLive
      <3>2. pending[r].session_id # next_sid
        BY SMT, SMTT(60), <3>1 DEF RestOK
      <3> QED
        BY ZenonT(60), <1>a, <1>b, <2>1, <2>2, <3>2 DEF FailedLost
    <2>3. CASE pending'[r].state = "Failed" /\ pending[r].session_id = Head(batch).session
               /\ (HandleTaskFailed \/ HandleDisconnected)
      <3>1. pending[r].session_id \notin Ids(pool') \/ pending[r].session_id \in Errored(pool')
        BY ZenonT(60), <1>e, <1>h, <2>3
      <3> QED
        BY ZenonT(60), <2>1, <2>3, <3>1
    <2> QED
      BY ZenonT(60), <2>1, <2>2, <2>3
  <1> QED
    BY ZenonT(60), <1>1, <1>2, <1>3, <1>4, <1>5, <1>6, <1>f DEF MirroredIn
=============================================================================
