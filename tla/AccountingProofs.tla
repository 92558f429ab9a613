-------------------------- MODULE AccountingProofs --------------------------
(***************************************************************************)
(* What the heartbeat thread takes on and what it gives back.  Every step  *)
(* of the iteration is one of a few flows through the queues: it takes a   *)
(* request, answers one, or moves or drops messages.  From these follow    *)
(* the balance of the inflight counter against the work in hand, the       *)
(* bound on the final answers a request is still owed, and the link        *)
(* between a session and the request it works for.                         *)
(***************************************************************************)
EXTENDS HeartbeatProofs

-----------------------------------------------------------------------------
(* The types of the queues, and what works for whom, are kept.             *)

(* Local answers stay in request_channel and in the batch, local jobs in   *)
(* the ChangeSet, and all of them belong to local requests.                *)
LEMMA QueuesKept ==
  ASSUME RestOK, QueuesOK, Tick \/ RunLocalJob \/ EndIteration
  PROVE  QueuesOK'
  <1> DEFINE Both == RequestSide \cup WsSide
  <1>a. LocalRids' = LocalRids /\ RequestSide' = RequestSide /\ WsSide' = WsSide
    BY FlowFixed DEF WsSide
  <1>b. /\ request_channel \in Seq(RequestSide) /\ ws_event_channel \in Seq(WsSide)
        /\ batch \in Seq(Both) /\ Jobs \in Seq(LocalRids)
        /\ phase \notin {"drain_ws", "handle"} => batch = <<>>
    BY DEF QueuesOK, Jobs
  <1>c. Seq(RequestSide) \subseteq Seq(Both) /\ Seq(WsSide) \subseteq Seq(Both)
    BY SMT, SMTT(60)
  <1> SUFFICES /\ phase' \notin {"drain_ws", "handle"} => batch' = <<>>
               /\ request_channel' \in Seq(RequestSide) /\ ws_event_channel' \in Seq(WsSide)
               /\ batch' \in Seq(Both) /\ Jobs' \in Seq(LocalRids)
    BY ZenonT(60), <1>a DEF QueuesOK, Jobs
  <1>d. ASSUME NEW type, Handling(type)
        PROVE  /\ phase' = "handle" /\ batch' \in Seq(Both)
               /\ request_channel' = request_channel /\ ws_event_channel' = ws_event_channel
               /\ Head(batch) \in Both /\ Head(batch).type = type
    <2>1. batch # <<>> /\ batch' = Tail(batch)
      BY <1>d DEF Handling
    <2>2. Head(batch) \in Both /\ Tail(batch) \in Seq(Both)
      BY <1>b, <2>1
    <2> QED
      BY <1>d, <2>1, <2>2 DEF Handling, channels
  <1> HIDE DEF Both
  <1>1. CASE DrainRequests
    <2>1. Jobs' = Jobs
      BY <1>1 DEF DrainRequests, Jobs
    <2> QED
      BY SMT, SMTT(60), <1>1, <1>b, <1>c, <2>1 DEF DrainRequests
  <1>2. CASE DrainWsEvents
    <2>1. Jobs' = Jobs
      BY <1>2 DEF DrainWsEvents, Jobs
    <2>2. batch \o ws_event_channel \in Seq(Both)
      BY <1>b, <1>c
    <2> QED
      BY SMT, SMTT(60), <1>2, <1>b, <2>1, <2>2 DEF DrainWsEvents
  <1>3. CASE Discards
    BY ZenonT(60), <1>3, <1>b, <1>d DEF Discards
  <1>5. CASE \E r \in Rids : Takes(r)
    <2>1. PICK r \in Rids : Takes(r)
      BY <1>5
    <2>2. Jobs' \in Seq(LocalRids)
      BY <1>b, <2>1 DEF Takes
    <2> QED
      BY ZenonT(60), <1>b, <1>d, <2>1, <2>2 DEF Takes
  <1>6. CASE \E w : Answers(w)
    <2>1. PICK w : Answers(w)
      BY <1>6
    <2> QED
      BY <1>b, <1>d, <2>1 DEF Answers
  <1>7. CASE \E w : Emits(w)
    <2>1. PICK w : Emits(w)
      BY <1>7
    <2> QED
      BY ZenonT(60), <1>b, <2>1 DEF Emits, channels
  <1>8. CASE Pauses \/ Drops
    BY ZenonT(60), <1>b, <1>8 DEF Pauses, Drops, channels
  <1>9. CASE RunLocalJob
    <2>1. Head(Jobs) \in LocalRids /\ Tail(Jobs) \in Seq(LocalRids)
      BY <1>9, <1>b DEF RunLocalJob, Jobs
    <2>2. Jobs' = Tail(Jobs)
      BY ZenonT(60), <1>9 DEF RunLocalJob, Jobs, RestOK, ChangeSets
    <2>3. /\ LocalSynthCompleteMsg(Head(Jobs)) \in RequestSide
          /\ LocalSynthFailedMsg(Head(Jobs)) \in RequestSide
      BY <2>1 DEF LocalSynthCompleteMsg, LocalSynthFailedMsg, RequestSide
    <2>4. PICK answer \in RequestSide : request_channel' = Append(request_channel, answer)
      BY <1>9, <2>3 DEF RunLocalJob, Jobs
    <2> QED
      BY SMT, SMTT(60), <1>9, <1>b, <2>1, <2>2, <2>4 DEF RunLocalJob
  <1>10. CASE EndIteration
    <2>1. Jobs' = <<>>
      BY ZenonT(60), <1>10 DEF EndIteration, EmptyChangeSet, Jobs
    <2> QED
      BY SMT, SMTT(60), <1>10, <1>b, <2>1 DEF EndIteration, channels
  <1> QED
    BY ZenonT(60), <1>1, <1>2, <1>3, <1>5, <1>6, <1>7, <1>8, <1>9, <1>10, TickFlow

(* What handle_response and the rest of the tick do to the store leaves    *)
(* local requests without audio.                                           *)
LEMMA FinalsKept ==
  ASSUME RestOK, PoolValue(pool, Rids \ LocalRids), Tick,
         \A r \in DOMAIN pending : pending[r].final_received => r \notin LocalRids
  PROVE  \A r \in DOMAIN pending' : pending'[r].final_received => r \notin LocalRids
  <1>a. pending \in [DOMAIN pending -> PendingRequests(Audio)] /\ DOMAIN pending \subseteq Rids
    BY DEF RestOK
  <1>b. ASSUME NEW S, NEW x, pending' = SetPendingState(pending, S, x)
        PROVE  \A r \in DOMAIN pending' : pending'[r].final_received => r \notin LocalRids
    <2>1. DOMAIN pending' = DOMAIN pending
      BY <1>b DEF SetPendingState
    <2>2. \A r \in DOMAIN pending : pending'[r].final_received = pending[r].final_received
      BY SMT, SMTT(60), <1>a, <1>b, SetStateFields
    <2> QED
      BY ZenonT(60), <2>1, <2>2
  <1>c. ASSUME NEW r, NEW sid, NEW x, pending' = PendingAdd(pending, r, PendingRequest(sid, x))
        PROVE  \A q \in DOMAIN pending' : pending'[q].final_received => q \notin LocalRids
    <2>1. PendingRequest(sid, x).final_received = FALSE
      BY DEF PendingRequest
    <2>2. /\ DOMAIN pending' = DOMAIN pending \cup {r} /\ pending'[r] = PendingRequest(sid, x)
          /\ \A q \in DOMAIN pending : q # r => pending'[q] = pending[q]
      BY <1>c DEF PendingAdd
    <2> QED
      BY ZenonT(60), <2>1, <2>2
  <1>d. ASSUME NEW S, pending' = PendingRemove(pending, S)
        PROVE  \A q \in DOMAIN pending' : pending'[q].final_received => q \notin LocalRids
    <2>1. DOMAIN pending' = DOMAIN pending \ S /\ \A q \in DOMAIN pending \ S : pending'[q] = pending[q]
      BY <1>d DEF PendingRemove
    <2> QED
      BY ZenonT(60), <2>1
  <1>1. CASE \/ DrainRequests \/ DrainWsEvents \/ RequestDenied \/ RequestNoSession
             \/ HandleConnected \/ HandleTaskStarted \/ HandleTaskFinished
             \/ BatchHandled \/ AllEmitted \/ \E id \in Ids(pool) : EvolveCloses(id)
    <2>1. pending' = pending
      BY <1>1 DEF DrainRequests, DrainWsEvents, RequestDenied, RequestNoSession, HandleConnected,
                  HandleTaskStarted, HandleTaskFinished, BatchHandled, AllEmitted, EvolveCloses, board
    <2> QED
      BY ZenonT(60), <2>1
  <1>2. CASE RequestLocal
    BY ZenonT(60), <1>2, <1>b, <1>c DEF RequestLocal
  <1>3. CASE RequestReusesSession
    BY ZenonT(60), <1>3, <1>c DEF RequestReusesSession, BindTo
  <1>4. CASE RequestCreatesSession
    BY ZenonT(60), <1>4, <1>c DEF RequestCreatesSession, BindTo
  <1>5. CASE HandleLocalComplete \/ HandleLocalFailed
    BY ZenonT(60), <1>5, <1>d DEF HandleLocalComplete, HandleLocalFailed, LocalDone
  <1>6. CASE HandleCancel
    BY ZenonT(60), <1>6, <1>b DEF HandleCancel
  <1>7. CASE HandleTaskFailed \/ HandleDisconnected
    <2>1. PICK S : pending' = SetPendingState(pending, S, "Failed")
      BY <1>7 DEF HandleTaskFailed, HandleDisconnected
    <2> QED
      BY ZenonT(60), <1>b, <2>1
  <1>8. CASE HandleAudioChunk
    <2> DEFINE m == Head(batch)
               rid == CurrentRequest(pool, m.session)
    <2>1. pending' = AppendChunk(pending, rid, m.audio, m.is_final)
      BY <1>8 DEF HandleAudioChunk
    <2>2. rid \notin LocalRids
      <3>1. CASE m.session \in Ids(pool)
        <4>a. pool.sessions \in [Ids(pool) -> SessionRecords(Rids \ LocalRids)]
          BY ZenonT(60) DEF PoolValue
        <4>1. pool.sessions[m.session] \in SessionRecords(Rids \ LocalRids)
          BY ZenonT(60), <3>1, <4>a
        <4> QED
          BY <3>1, <4>1 DEF CurrentRequest, SessionRecords
      <3>2. CASE m.session \notin Ids(pool)
        BY <3>2, HeartbeatAssumption DEF CurrentRequest, LocalRids
      <3> QED
        BY ZenonT(60), <3>1, <3>2
    <2> HIDE DEF rid
    <2>3. DOMAIN pending' = DOMAIN pending /\ \A x \in DOMAIN pending : x # rid => pending'[x] = pending[x]
      BY <1>a, <2>1, AppendFields
    <2> QED
      BY ZenonT(60), <2>2, <2>3
  <1>9. CASE \E r \in Rids : EmitCompleted(r)
    <2>1. PICK r \in Rids : EmitCompleted(r)
      BY <1>9
    <2> QED
      BY ZenonT(60), <2>1, <1>d DEF EmitCompleted
  <1>10. CASE EvolveRequests
    BY ZenonT(60), <1>10, <1>d DEF EvolveRequests
  <1> QED
    BY ZenonT(60), <1>1, <1>2, <1>3, <1>4, <1>5, <1>6, <1>7, <1>8, <1>9, <1>10 DEF Tick

(* Sessions are bound to upstream requests only.                           *)
LEMMA UpstreamPoolKept ==
  ASSUME RestOK, PoolInv, PoolValue(pool, Rids \ LocalRids), Tick
  PROVE  PoolValue(pool', Rids \ LocalRids)
  <1> DEFINE U == Rids \ LocalRids
  <1>a. /\ PoolValue(pool, U) /\ PoolOK(pool) /\ now \in Nat
        /\ \A x \in {"Ready", "Streaming", "Draining", "Errored"} : x \in SessionStates
        /\ next_sid \in Nat /\ next_sid \notin Ids(pool)
    BY SMT, SMTT(60) DEF PoolInv, RestOK, SessionStates
  <1>b. ASSUME Handling("TtsRequest"), ~ShouldUseLocal(Head(batch).rid)
        PROVE  Head(batch).rid \in U
    BY SMT, SMTT(60), <1>b, HandlingTypes, MessageFields DEF LocalRids
  <1> HIDE DEF U
  <1>1. CASE \/ DrainRequests \/ DrainWsEvents \/ RequestDenied \/ RequestNoSession \/ RequestLocal
             \/ HandleCancel \/ HandleTaskStarted \/ HandleAudioChunk \/ HandleTaskFinished
             \/ BatchHandled \/ AllEmitted \/ EvolveRequests
    <2>1. pool' = pool
      BY <1>1 DEF DrainRequests, DrainWsEvents, RequestDenied, RequestNoSession, RequestLocal,
                  HandleCancel, HandleTaskStarted, HandleAudioChunk, HandleTaskFinished,
                  BatchHandled, AllEmitted, EvolveRequests, board
    <2> QED
      BY <1>a, <2>1 DEF U
  <1>2. CASE HandleLocalComplete \/ HandleLocalFailed
    <2>1. pool' = pool
      BY ZenonT(60), <1>2 DEF HandleLocalComplete, HandleLocalFailed, LocalDone
    <2> QED
      BY <1>a, <2>1 DEF U
  <1>3. CASE RequestReusesSession
    <2> DEFINE r   == Head(batch).rid
               sid == FindIdleLeastRecentlyUsed(pool)
               p   == Touch(pool, sid, "Streaming", now)
    <2>1. pool' = SetCurrentRequest(p, sid, r)
      BY <1>3 DEF RequestReusesSession, BindTo, MarkActive
    <2>2. r \in U
      BY ZenonT(60), <1>3, <1>b DEF RequestReusesSession
    <2> HIDE DEF r, sid
    <2>3. PoolValue(p, U) /\ PoolOK(p)
      BY <1>a, TouchKeepsPool
    <2> HIDE DEF p
    <2> QED
      BY ZenonT(60), <2>1, <2>2, <2>3, SetRequestKeepsPool DEF U
  <1>4. CASE RequestCreatesSession
    <2> DEFINE r == Head(batch).rid
    <2>1. /\ pool' = SetCurrentRequest(Add(pool, next_sid, SessionRecord(next_sid)), next_sid, r)
          /\ ~PoolFull(pool)
      BY ZenonT(60), <1>4 DEF RequestCreatesSession, BindTo
    <2>2. r \in U
      BY <1>4, <1>b DEF RequestCreatesSession
    <2> HIDE DEF r
    <2> QED
      BY ZenonT(60), <1>a, <2>1, <2>2, BindNewKeepsPool DEF U
  <1>5. CASE HandleConnected
    <2>1. \E id : pool' = Touch(pool, id, "Ready", now)
      BY <1>5 DEF HandleConnected, MarkReady
    <2> QED
      BY SMT, SMTT(60), <1>a, <2>1, TouchKeepsPool DEF U
  <1>6. CASE HandleTaskFailed \/ (\E r \in Rids : EmitCompleted(r))
    <2>1. \E id : \E x \in {"Draining", "Errored"} : pool' = SetSessionState(pool, id, x)
      BY ZenonT(60), <1>6 DEF HandleTaskFailed, MarkErrored, EmitCompleted, MarkDraining
    <2> QED
      BY SMT, SMTT(60), <1>a, <2>1, SetStateKeepsPool DEF U
  <1>7. CASE HandleDisconnected \/ (\E id \in Ids(pool) : EvolveCloses(id))
    <2>1. \E id : pool' = MarkClosed(pool, id)
      BY <1>7 DEF HandleDisconnected, EvolveCloses
    <2> QED
      BY SMT, SMTT(60), <1>a, <2>1, CloseKeepsPool DEF U
  <1> QED
    BY ZenonT(60), <1>1, <1>2, <1>3, <1>4, <1>5, <1>6, <1>7 DEF Tick

(* The heartbeat thread keeps local and upstream work apart.               *)
LEMMA WorkKept ==
  ASSUME RestOK, PoolInv, WorkOK, Tick \/ RunLocalJob \/ EndIteration
  PROVE  WorkOK'
  <1>1. LocalRids' = LocalRids /\ QueuesOK'
    BY FlowFixed, QueuesKept DEF WorkOK
  <1>2. /\ PoolValue(pool', Rids \ LocalRids)
        /\ \A r \in DOMAIN pending' : pending'[r].final_received => r \notin LocalRids
    <2>1. CASE Tick
      BY ZenonT(60), <2>1, FinalsKept, UpstreamPoolKept DEF WorkOK, UpstreamOK
    <2>2. CASE RunLocalJob \/ EndIteration
      <3>1. pool' = pool /\ pending' = pending
        BY <2>2 DEF RunLocalJob, EndIteration, board
      <3> QED
        BY <3>1 DEF WorkOK, UpstreamOK
    <2> QED
      BY <2>1, <2>2
  <1> QED
    BY ZenonT(60), <1>1, <1>2 DEF WorkOK, UpstreamOK

-----------------------------------------------------------------------------
(* Counting the members of a queue.                                        *)

\* The number of places of s that hold an element of S.
Count(s, S) == Cardinality({i \in DOMAIN s : s[i] \in S})

(* Such a number is at most the length.                                    *)
LEMMA CountType ==
  ASSUME NEW T, NEW s \in Seq(T), NEW S
  PROVE  /\ IsFiniteSet({i \in DOMAIN s : s[i] \in S})
         /\ Count(s, S) \in Nat
         /\ Count(s, S) = 0 <=> \A i \in DOMAIN s : s[i] \notin S
  <1> DEFINE D == {i \in DOMAIN s : s[i] \in S}
  <1>1. DOMAIN s = 1 .. Len(s) /\ Len(s) \in Nat
    OBVIOUS
  <1>2. IsFiniteSet(DOMAIN s)
    BY SMT, SMTT(60), <1>1, FS_Interval
  <1>3. IsFiniteSet(D)
    BY ZenonT(60), <1>2, FS_Subset
  <1>4. Cardinality(D) \in Nat /\ (Cardinality(D) = 0 <=> D = {})
    BY ZenonT(60), <1>3, FS_CardinalityType, FS_EmptySet
  <1> QED
    BY ZenonT(60), <1>3, <1>4 DEF Count

(* The empty queue, and a queue that grows at its end.                     *)
LEMMA CountAppend ==
  ASSUME NEW T, NEW s \in Seq(T), NEW e \in T, NEW S
  PROVE  /\ Count(Append(s, e), S) = Count(s, S) + (IF e \in S THEN 1 ELSE 0)
         /\ Count(<<>>, S) = 0
  <1> DEFINE D == {i \in DOMAIN s : s[i] \in S}
             t == Append(s, e)
             E == {i \in DOMAIN t : t[i] \in S}
             n == Len(s) + 1
  <1>1. /\ t \in Seq(T) /\ DOMAIN t = 1 .. n /\ t[n] = e
        /\ \A i \in 1 .. Len(s) : t[i] = s[i]
        /\ DOMAIN s = 1 .. Len(s) /\ Len(s) \in Nat
    OBVIOUS
  <1>2. IsFiniteSet(D) /\ Count(s, S) \in Nat /\ Count(s, S) = Cardinality(D)
    BY ZenonT(60), CountType DEF Count
  <1>3. n \notin D
    BY SMT, SMTT(60), <1>1
  <1>4. Count(t, S) = Cardinality(E)
    BY DEF Count
  <1>5. Count(<<>>, S) = 0
    <2>1. <<>> \in Seq(T) /\ DOMAIN <<>> = {}
      OBVIOUS
    <2> QED
      BY ZenonT(60), <2>1, CountType
  <1> HIDE DEF t
  <1>6. CASE e \in S
    <2>1. E = D \cup {n}
      BY SMT, SMTT(60), <1>1, <1>6
    <2>2. Cardinality(E) = Cardinality(D) + 1
      BY ZenonT(60), <1>2, <1>3, <2>1, FS_AddElement
    <2>3. Count(t, S) = Count(s, S) + 1
      BY ZenonT(60), <1>2, <1>4, <2>2
    <2> QED
      BY ZenonT(60), <1>5, <1>6, <2>3 DEF t
  <1>7. CASE e \notin S
    <2>1. E = D
      BY SMT, SMTT(60), <1>1, <1>7
    <2>a. Count(t, S) = Count(s, S)
      BY ZenonT(60), <1>2, <1>4, <2>1
    <2>2. Count(t, S) = Count(s, S) + 0
      BY SMT, SMTT(60), <1>2, <2>a
    <2> QED
      BY ZenonT(60), <1>5, <1>7, <2>2 DEF t
  <1> QED
    BY <1>6, <1>7

(* A queue that loses its first element.                                   *)
LEMMA CountTail ==
  ASSUME NEW T, NEW s \in Seq(T), s # <<>>, NEW S
  PROVE  Count(s, S) = Count(Tail(s), S) + (IF Head(s) \in S THEN 1 ELSE 0)
  <1> DEFINE D == {i \in DOMAIN s : s[i] \in S}
             t == Tail(s)
             E == {i \in DOMAIN t : t[i] \in S}
             F == D \ {1}
             f == [i \in E |-> i + 1]
  <1>1. /\ t \in Seq(T) /\ DOMAIN t = 1 .. Len(s) - 1
        /\ \A i \in 1 .. Len(s) - 1 : t[i] = s[i + 1]
        /\ DOMAIN s = 1 .. Len(s) /\ Len(s) \in Nat \ {0} /\ Head(s) = s[1]
    OBVIOUS
  <1>2. IsFiniteSet(D) /\ Count(s, S) \in Nat /\ Count(s, S) = Cardinality(D)
    BY ZenonT(60), CountType DEF Count
  <1>3. IsFiniteSet(E) /\ Count(t, S) \in Nat /\ Count(t, S) = Cardinality(E)
    BY ZenonT(60), <1>1, CountType DEF Count
  <1> HIDE DEF t
  <1>4. \A i \in E : i \in Int /\ i + 1 \in F
    BY SMT, SMTT(60), <1>1
  <1>5. \A j \in F : j - 1 \in E /\ j = (j - 1) + 1
    BY SMT, SMTT(60), <1>1
  <1>6. \A i \in E, j \in E : i + 1 = j + 1 => i = j
    BY SMT, SMTT(60), <1>4
  <1> HIDE DEF E, F
  <1>7. f \in Injection(E, F)
    BY ZenonT(60), <1>4, <1>6 DEF Injection, IsInjective
  <1>8. f \in Surjection(E, F)
    BY ZenonT(60), <1>4, <1>5 DEF Surjection
  <1>9. ExistsBijection(E, F)
    BY ZenonT(60), <1>7, <1>8 DEF ExistsBijection, Bijection
  <1>10. Cardinality(F) = Cardinality(E)
    BY ZenonT(60), <1>3, <1>9, FS_Bijection
  <1>11. Cardinality(F) = IF 1 \in D THEN Cardinality(D) - 1 ELSE Cardinality(D)
    BY ZenonT(60), <1>2, FS_RemoveElement DEF F
  <1>12. 1 \in D <=> Head(s) \in S
    BY SMT, SMTT(60), <1>1
  <1> HIDE DEF D
  <1> QED
    BY SMT, SMTT(60), <1>2, <1>3, <1>10, <1>11, <1>12 DEF t

(* Appending a queue that holds nothing of S.                              *)
LEMMA CountConcat ==
  ASSUME NEW T, NEW s \in Seq(T), NEW t \in Seq(T), NEW S, \A i \in DOMAIN t : t[i] \notin S
  PROVE  Count(s \o t, S) = Count(s, S)
  <1> DEFINE u == s \o t
  <1>1. /\ DOMAIN u = 1 .. Len(s) + Len(t)
        /\ \A i \in 1 .. Len(s) + Len(t) : u[i] = IF i <= Len(s) THEN s[i] ELSE t[i - Len(s)]
        /\ DOMAIN s = 1 .. Len(s) /\ DOMAIN t = 1 .. Len(t) /\ Len(s) \in Nat /\ Len(t) \in Nat
    OBVIOUS
  <1> HIDE DEF u
  <1>2. \A i \in 1 .. Len(s) + Len(t) : ~(i <= Len(s)) => u[i] \notin S
    <2> SUFFICES ASSUME NEW i \in 1 .. Len(s) + Len(t), ~(i <= Len(s)) PROVE u[i] \notin S
      OBVIOUS
    <2>1. i - Len(s) \in DOMAIN t /\ u[i] = t[i - Len(s)]
      BY SMT, SMTT(60), <1>1
    <2> QED
      BY <2>1
  <1>3. {i \in DOMAIN u : u[i] \in S} = {i \in DOMAIN s : s[i] \in S}
    BY SMT, SMTT(60), <1>1, <1>2
  <1> QED
    BY ZenonT(60), <1>3 DEF Count, u

(* An empty sequence holds nothing.                                        *)
LEMMA CountEmpty == \A S : Count(<<>>, S) = 0
  <1>1. \A S : {i \in DOMAIN <<>> : <<>>[i] \in S} = {}
    OBVIOUS
  <1> QED
    BY ZenonT(60), <1>1, FS_EmptySet DEF Count

\* Messages of S the heartbeat has not handled yet.
Queued(S) == Count(request_channel, S) + Count(batch, S)

(* Draining keeps the messages, a handler takes one, a sender adds one.    *)
LEMMA QueuedCounts ==
  ASSUME RestOK, QueuesOK, NEW S, \A m \in S : m.type # "TtsResponse"
  PROVE  /\ Queued(S) \in Nat
         /\ DrainRequests \/ DrainWsEvents => Queued(S)' = Queued(S)
         /\ \A type : Handling(type) =>
              Queued(S) = Queued(S)' + (IF Head(batch) \in S THEN 1 ELSE 0) /\ Queued(S)' \in Nat
         /\ UNCHANGED <<channels, batch>> => Queued(S)' = Queued(S)
         /\ \A m \in Messages :
              request_channel' = Append(request_channel, m) /\ batch' = batch
              => Queued(S)' = Queued(S) + (IF m \in S THEN 1 ELSE 0)
  <1>a. request_channel \in Seq(Messages) /\ batch \in Seq(Messages) /\ ws_event_channel \in Seq(Messages)
    BY DEF RestOK
  <1>b. Count(request_channel, S) \in Nat /\ Count(batch, S) \in Nat
    BY ZenonT(60), <1>a, CountType
  <1>1. Queued(S) \in Nat
    BY <1>b DEF Queued
  <1>2. ASSUME DrainRequests PROVE Queued(S)' = Queued(S)
    <2>1. batch = <<>> /\ batch' = request_channel /\ request_channel' = <<>>
      BY <1>2 DEF DrainRequests, QueuesOK
    <2>2. Count(<<>>, S) = 0
      BY ZenonT(60), CountEmpty
    <2>3. Queued(S)' = Count(<<>>, S) + Count(request_channel, S)
      BY ZenonT(60), <2>1 DEF Queued
    <2>4. Queued(S) = Count(request_channel, S) + Count(<<>>, S)
      BY ZenonT(60), <2>1 DEF Queued
    <2> QED
      BY SMT, SMTT(60), <1>b, <2>2, <2>3, <2>4
  <1>3. ASSUME DrainWsEvents PROVE Queued(S)' = Queued(S)
    <2>1. batch' = batch \o ws_event_channel /\ request_channel' = request_channel
      BY <1>3 DEF DrainWsEvents
    <2>2. \A i \in DOMAIN ws_event_channel : ws_event_channel[i] \in WsSide
      BY DEF QueuesOK
    <2>3. \A m \in WsSide : m.type = "TtsResponse"
      BY DEF WsSide
    <2>4. \A i \in DOMAIN ws_event_channel : ws_event_channel[i] \notin S
      BY ZenonT(60), <2>2, <2>3
    <2>5. Count(batch \o ws_event_channel, S) = Count(batch, S)
      BY ZenonT(60), <1>a, <2>4, CountConcat
    <2>6. Queued(S)' = Count(request_channel, S) + Count(batch \o ws_event_channel, S)
      BY ZenonT(60), <2>1 DEF Queued
    <2> QED
      BY <2>5, <2>6 DEF Queued
  <1>4. ASSUME NEW type, Handling(type)
        PROVE  Queued(S) = Queued(S)' + (IF Head(batch) \in S THEN 1 ELSE 0) /\ Queued(S)' \in Nat
    <2>1. batch # <<>> /\ batch' = Tail(batch) /\ request_channel' = request_channel
      BY <1>4 DEF Handling, channels
    <2>2. Count(batch, S) = Count(Tail(batch), S) + (IF Head(batch) \in S THEN 1 ELSE 0)
      BY ZenonT(60), <1>a, <2>1, CountTail
    <2>a. Tail(batch) \in Seq(Messages)
      BY <1>a, <2>1
    <2>3. Count(Tail(batch), S) \in Nat
      BY ZenonT(60), <2>a, CountType
    <2>4. Queued(S)' = Count(request_channel, S) + Count(Tail(batch), S)
      BY ZenonT(60), <2>1 DEF Queued
    <2> QED
      BY SMT, SMTT(60), <1>b, <2>2, <2>3, <2>4 DEF Queued
  <1>5. ASSUME UNCHANGED <<channels, batch>> PROVE Queued(S)' = Queued(S)
    BY ZenonT(60), <1>5 DEF channels, Queued
  <1>6. ASSUME NEW m \in Messages, request_channel' = Append(request_channel, m), batch' = batch
        PROVE  Queued(S)' = Queued(S) + (IF m \in S THEN 1 ELSE 0)
    <2>1. Count(Append(request_channel, m), S) = Count(request_channel, S) + (IF m \in S THEN 1 ELSE 0)
      BY ZenonT(60), <1>a, CountAppend
    <2>2. Queued(S)' = Count(Append(request_channel, m), S) + Count(batch, S)
      BY ZenonT(60), <1>6 DEF Queued
    <2> QED
      BY SMT, SMTT(60), <1>b, <2>1, <2>2 DEF Queued
  <1> QED
    BY ZenonT(60), <1>1, <1>2, <1>3, <1>4, <1>5, <1>6

-----------------------------------------------------------------------------
(* The work in hand.                                                       *)

\* Upstream requests in the store.
Waiting == {r \in DOMAIN pending : ~ShouldUseLocal(r)}

AnswerMsgs == {m \in Messages : m.type \in {"LocalComplete", "LocalFailed"}}

Load == Len(Jobs) + Queued(AnswerMsgs) + Cardinality(Waiting)

(* Waiting as a finite set.                                                *)
LEMMA WaitingSet ==
  ASSUME RestOK
  PROVE  /\ Waiting = DOMAIN pending \ LocalRids
         /\ IsFiniteSet(Waiting) /\ Cardinality(Waiting) \in Nat
  <1>1. Waiting = DOMAIN pending \ LocalRids /\ Waiting \subseteq Rids
    BY DEF RestOK, Waiting, LocalRids
  <1>2. IsFiniteSet(Waiting)
    BY ZenonT(60), <1>1, FS_Subset, HeartbeatAssumption
  <1> QED
    BY ZenonT(60), <1>1, <1>2, FS_CardinalityType

(* The counter and the work move together: a request that is taken on adds *)
(* a unit to both, unless it replaces a record of its own; an answer takes *)
(* one from both; and terminal requests leave without their unit.          *)
LEMMA TickLoad ==
  ASSUME RestOK, RestOK', WorkOK, Tick \/ RunLocalJob \/ EndIteration
  PROVE  /\ Load \in Nat
         /\ \/ inflight' = inflight /\ Load' = Load
            \/ inflight' = inflight /\ Load' <= Load /\ CollectTerminal(pending) # {}
            \/ Admit /\ IncInflight /\ Load' = Load + 1
            \/ /\ Admit /\ IncInflight /\ Load' = Load
               /\ Handling("TtsRequest") /\ Head(batch).rid \in Waiting
            \/ DecInflight /\ Load >= 1 /\ Load' = Load - 1
  <1> DEFINE q == Queued(AnswerMsgs)
             c == Cardinality(Waiting)
  <1>a. /\ Waiting = DOMAIN pending \ LocalRids /\ IsFiniteSet(Waiting) /\ c \in Nat
        /\ Waiting' = DOMAIN pending' \ LocalRids /\ IsFiniteSet(Waiting') /\ c' \in Nat
    <2>1. Waiting' = DOMAIN pending' \ LocalRids' /\ Waiting' \subseteq Rids
      BY ZenonT(60) DEF RestOK, Waiting, LocalRids
    <2>2. IsFiniteSet(Waiting')
      BY ZenonT(60), <2>1, FS_Subset, HeartbeatAssumption
    <2>3. Cardinality(Waiting') \in Nat
      BY ZenonT(60), <2>2, FS_CardinalityType
    <2> QED
      BY ZenonT(60), <2>1, <2>2, <2>3, WaitingSet, FlowFixed
  <1>b. QueuesOK /\ \A m \in AnswerMsgs : m.type # "TtsResponse"
    BY DEF WorkOK, AnswerMsgs
  <1>c. /\ q \in Nat
        /\ DrainRequests \/ DrainWsEvents => q' = q
        /\ \A type : Handling(type) =>
             q = q' + (IF Head(batch) \in AnswerMsgs THEN 1 ELSE 0) /\ q' \in Nat
        /\ UNCHANGED <<channels, batch>> => q' = q
        /\ \A m \in Messages :
             request_channel' = Append(request_channel, m) /\ batch' = batch
             => q' = q + (IF m \in AnswerMsgs THEN 1 ELSE 0)
    BY ZenonT(60), <1>b, QueuedCounts
  <1>d. Jobs \in Seq(LocalRids) /\ Len(Jobs) \in Nat
    BY <1>b DEF QueuesOK, Jobs
  <1>e. Load = Len(Jobs) + q + c /\ Load' = Len(Jobs') + q' + c'
    BY DEF Load
  <1> HIDE DEF q, c
  <1>f. Load \in Nat
    <2>1. q \in Nat /\ c \in Nat /\ Len(Jobs) \in Nat
      BY ZenonT(60), <1>a, <1>c, <1>d
    <2> QED
      BY SMT, SMTT(60), <1>e, <2>1
  <1>g. ASSUME NEW type, Handling(type)
        PROVE  /\ Head(batch) \in AnswerMsgs <=> type \in {"LocalComplete", "LocalFailed"}
               /\ type \in {"LocalComplete", "LocalFailed"} => Head(batch).rid \in LocalRids
    <2>1. Head(batch) \in Messages /\ Head(batch).type = type /\ Head(batch) \in RequestSide \cup WsSide
      BY ZenonT(60), <1>b, <1>g, HandlingTypes, HandlingQueues
    <2>2. Head(batch) \in AnswerMsgs <=> type \in {"LocalComplete", "LocalFailed"}
      BY <2>1 DEF AnswerMsgs
    <2>3. \A m \in RequestSide \cup WsSide :
            m.type \in {"LocalComplete", "LocalFailed"} => m.rid \in LocalRids
      BY DEF RequestSide, WsSide
    <2> QED
      BY ZenonT(60), <2>1, <2>2, <2>3
  <1>h. ASSUME Waiting' = Waiting PROVE c' = c
    BY ZenonT(60), <1>h DEF c
  <1>1. CASE DrainRequests \/ DrainWsEvents
    <2>1. Jobs' = Jobs /\ inflight' = inflight /\ DOMAIN pending' = DOMAIN pending
      BY ZenonT(60), <1>1 DEF DrainRequests, DrainWsEvents, board, Jobs
    <2> QED
      BY ZenonT(60), <1>1, <1>a, <1>c, <1>d, <1>e, <1>f, <1>h, <2>1
  <1>2. CASE Discards
    <2>1. PICK type \in {"TtsRequest", "Cancel", "TtsResponse"} : Handling(type)
      BY <1>2 DEF Discards
    <2>2. q' = q
      BY SMT, SMTT(60), <1>c, <1>g, <2>1
    <2> QED
      BY ZenonT(60), <1>2, <1>a, <1>d, <1>e, <1>f, <1>h, <2>2 DEF Discards
  <1>3. CASE \E r \in Rids : Takes(r)
    <2>1. PICK r \in Rids : Takes(r)
      BY ZenonT(60), <1>3
    <2>2. q' = q /\ Handling("TtsRequest") /\ Admit /\ IncInflight /\ r = Head(batch).rid
      BY SMT, SMTT(60), <1>c, <1>g, <2>1 DEF Takes
    <2>3. CASE r \in LocalRids
      <3>1. Len(Jobs') = Len(Jobs) + 1 /\ Waiting' = Waiting
        BY SMT, SMTT(60), <1>a, <1>d, <2>1, <2>3 DEF Takes
      <3> QED
        BY SMT, SMTT(60), <1>a, <1>c, <1>d, <1>e, <1>f, <1>h, <2>2, <3>1
    <2>4. CASE r \notin LocalRids /\ r \in DOMAIN pending
      <3>1. Jobs' = Jobs /\ Waiting' = Waiting /\ r \in Waiting
        BY ZenonT(60), <1>a, <1>d, <2>1, <2>4 DEF Takes
      <3> QED
        BY ZenonT(60), <1>a, <1>c, <1>d, <1>e, <1>f, <1>h, <2>2, <3>1
    <2>5. CASE r \notin LocalRids /\ r \notin DOMAIN pending
      <3>1. Jobs' = Jobs /\ Waiting' = Waiting \cup {r} /\ r \notin Waiting
        BY ZenonT(60), <1>a, <1>d, <2>1, <2>5 DEF Takes
      <3>2. c' = c + 1
        BY ZenonT(60), <1>a, <3>1, FS_AddElement DEF c
      <3> QED
        BY SMT, SMTT(60), <1>a, <1>c, <1>d, <1>e, <1>f, <2>2, <3>1, <3>2
    <2> QED
      BY ZenonT(60), <2>3, <2>4, <2>5
  <1>4. CASE \E w : Answers(w)
    <2>1. PICK w : Answers(w)
      BY ZenonT(60), <1>4
    <2>2. q = q' + 1 /\ q' \in Nat /\ w.rid \in LocalRids
      BY ZenonT(60), <1>c, <1>g, <2>1 DEF Answers
    <2>3. Jobs' = Jobs /\ Waiting' = Waiting /\ DecInflight
      BY ZenonT(60), <1>a, <2>1, <2>2 DEF Answers
    <2>4. c' = c /\ Len(Jobs') = Len(Jobs)
      BY ZenonT(60), <1>h, <2>3
    <2>5. Load >= 1 /\ Load' = Load - 1
      <3>1. c \in Nat /\ Len(Jobs) \in Nat
        BY <1>a, <1>d
      <3> QED
        BY SMT, SMTT(60), <1>e, <2>2, <2>4, <3>1
    <2> QED
      BY ZenonT(60), <1>f, <2>3, <2>5
  <1>5. CASE \E w : Emits(w)
    <2>1. PICK w : Emits(w)
      BY <1>5
    <2>2. w.rid \notin LocalRids
      BY ZenonT(60), <2>1 DEF Emits, WorkOK, UpstreamOK
    <2>3. Jobs' = Jobs /\ w.rid \in Waiting /\ Waiting' = Waiting \ {w.rid} /\ DecInflight
      BY ZenonT(60), <1>a, <2>1, <2>2 DEF Emits
    <2>4. q' = q
      BY ZenonT(60), <1>c, <2>1 DEF Emits
    <2>5. c' = c - 1
      BY ZenonT(60), <1>a, <2>3, FS_RemoveElement DEF c
    <2> QED
      BY SMT, SMTT(60), <1>a, <1>c, <1>d, <1>e, <1>f, <2>3, <2>4, <2>5
  <1>6. CASE Pauses
    BY ZenonT(60), <1>6, <1>a, <1>c, <1>d, <1>e, <1>f, <1>h DEF Pauses
  <1>7. CASE Drops
    <2>1. q' = q /\ Jobs' = Jobs /\ inflight' = inflight
      BY ZenonT(60), <1>7, <1>c DEF Drops
    <2>2. CASE CollectTerminal(pending) = {}
      BY ZenonT(60), <1>7, <1>a, <1>c, <1>d, <1>e, <1>f, <1>h, <2>1, <2>2 DEF Drops
    <2>3. CASE CollectTerminal(pending) # {}
      <3>1. Waiting' \subseteq Waiting
        BY ZenonT(60), <1>7, <1>a DEF Drops
      <3>2. c' <= c
        BY ZenonT(60), <1>a, <3>1, FS_Subset DEF c
      <3>3. q \in Nat /\ c \in Nat /\ c' \in Nat /\ Len(Jobs) \in Nat
        BY ZenonT(60), <1>a, <1>c, <1>d
      <3>4. Load' <= Load
        BY SMT, SMTT(60), <1>e, <2>1, <3>2, <3>3
      <3> QED
        BY ZenonT(60), <1>f, <2>1, <2>3, <3>4
    <2> QED
      BY ZenonT(60), <2>2, <2>3
  <1>8. CASE RunLocalJob
    <2>1. Jobs # <<>> /\ UNCHANGED <<pending, inflight, batch>>
      BY <1>8 DEF RunLocalJob, Jobs, board
    <2>2. Jobs' = Tail(Jobs)
      BY ZenonT(60), <1>8 DEF RunLocalJob, Jobs, RestOK, ChangeSets
    <2>3. Len(Jobs') = Len(Jobs) - 1 /\ Head(Jobs) \in Rids
      BY SMT, SMTT(60), <1>d, <2>1, <2>2 DEF LocalRids
    <2>4. /\ LocalSynthCompleteMsg(Head(Jobs)) \in AnswerMsgs
          /\ LocalSynthFailedMsg(Head(Jobs)) \in AnswerMsgs
      BY ZenonT(60), <2>3 DEF AnswerMsgs, Messages, LocalSynthCompleteMsg, LocalSynthFailedMsg
    <2>5. PICK m \in AnswerMsgs : request_channel' = Append(request_channel, m)
      BY ZenonT(60), <1>8, <2>4 DEF RunLocalJob, Jobs
    <2>6. q' = q + 1
      BY ZenonT(60), <1>c, <2>1, <2>5 DEF AnswerMsgs
    <2>7. Waiting' = Waiting
      BY ZenonT(60), <1>a, <2>1
    <2> QED
      BY SMT, SMTT(60), <1>a, <1>c, <1>d, <1>e, <1>f, <1>h, <2>1, <2>3, <2>6, <2>7
  <1>9. CASE EndIteration
    <2>1. Jobs' = Jobs /\ UNCHANGED <<pending, inflight, channels, batch>>
      BY ZenonT(60), <1>9 DEF EndIteration, EmptyChangeSet, Jobs, board
    <2>2. q' = q /\ Waiting' = Waiting
      BY ZenonT(60), <1>a, <1>c, <2>1
    <2> QED
      BY ZenonT(60), <1>a, <1>c, <1>d, <1>e, <1>f, <1>h, <2>1, <2>2
  <1> QED
    BY ZenonT(60), <1>f, <1>1, <1>2, <1>3, <1>4, <1>5, <1>6, <1>7, <1>8, <1>9, TickFlow

\* The messages that may still lead to a final write for r.
TokensOf(r) == {TtsRequestMsg(r), LocalSynthCompleteMsg(r), LocalSynthFailedMsg(r)}

FinalsTo(r) == {w \in ClientWrites : w.rid = r /\ w.is_final}

\* Final writes that r may still get: one per token in the queues, per job,
\* per record in the store and per write in the ChangeSet.
Owed(r) ==
  Queued(TokensOf(r)) + Count(Jobs, {r}) + Count(Writes, FinalsTo(r))
  + (IF r \in Waiting THEN 1 ELSE 0)

(* The parts of Owed.                                                      *)
LEMMA OwedParts ==
  ASSUME RestOK, QueuesOK, NEW r \in Rids
  PROVE  /\ Queued(TokensOf(r)) \in Nat /\ Count(Jobs, {r}) \in Nat
         /\ Count(Writes, FinalsTo(r)) \in Nat /\ Owed(r) \in Nat
         /\ \A m \in TokensOf(r) : m.type # "TtsResponse"
  <1>1. \A m \in TokensOf(r) : m.type # "TtsResponse"
    BY DEF TokensOf, TtsRequestMsg, LocalSynthCompleteMsg, LocalSynthFailedMsg
  <1>2. Queued(TokensOf(r)) \in Nat
    BY ZenonT(60), <1>1, QueuedCounts
  <1>3. Jobs \in Seq(Rids) /\ Writes \in Seq(ClientWrites)
    BY DEF RestOK, ChangeSets, Jobs, Writes
  <1>4. Count(Jobs, {r}) \in Nat /\ Count(Writes, FinalsTo(r)) \in Nat
    BY ZenonT(60), <1>3, CountType
  <1> QED
    BY SMT, SMTT(60), <1>1, <1>2, <1>4 DEF Owed

(* No step of the heartbeat thread owes a request more than before: a      *)
(* request message becomes one job or one record, a job one answer, an     *)
(* answer or a record one write.                                           *)
LEMMA TickOwes ==
  ASSUME RestOK, RestOK', WorkOK, Tick \/ RunLocalJob \/ EndIteration, NEW r \in Rids
  PROVE  Owed(r)' <= Owed(r)
  <1> DEFINE q == Queued(TokensOf(r))
             j == Count(Jobs, {r})
             f == Count(Writes, FinalsTo(r))
             d == IF r \in Waiting THEN 1 ELSE 0
             q2 == Queued(TokensOf(r))'
             j2 == Count(Jobs, {r})'
             f2 == Count(Writes, FinalsTo(r))'
             d2 == IF r \in Waiting' THEN 1 ELSE 0
  <1>a. QueuesOK /\ \A m \in TokensOf(r) : m.type # "TtsResponse"
    BY ZenonT(60), OwedParts DEF WorkOK
  <1>b. q \in Nat /\ j \in Nat /\ f \in Nat
    BY ZenonT(60), <1>a, OwedParts
  <1>c. /\ DrainRequests \/ DrainWsEvents => q2 = q
        /\ \A type : Handling(type) =>
             q = q2 + (IF Head(batch) \in TokensOf(r) THEN 1 ELSE 0) /\ q2 \in Nat
        /\ UNCHANGED <<channels, batch>> => q2 = q
        /\ \A m \in Messages :
             request_channel' = Append(request_channel, m) /\ batch' = batch
             => q2 = q + (IF m \in TokensOf(r) THEN 1 ELSE 0)
    BY ZenonT(60), <1>a, QueuedCounts
  <1>d. Jobs \in Seq(Rids) /\ Writes \in Seq(ClientWrites)
    BY DEF RestOK, ChangeSets, Jobs, Writes
  <1>e. LocalRids' = LocalRids
    BY FlowFixed
  <1>f. r \in Waiting <=> r \in DOMAIN pending /\ r \notin LocalRids
    BY ZenonT(60), WaitingSet
  <1>g. r \in Waiting' <=> r \in DOMAIN pending' /\ r \notin LocalRids
    BY ZenonT(60), <1>e DEF Waiting, LocalRids
  <1>h. Owed(r) = q + j + f + d /\ Owed(r)' = q2 + j2 + f2 + d2
    BY DEF Owed
  <1>i. /\ Jobs' = Jobs => j2 = j
        /\ Writes' = Writes => f2 = f
        /\ \A w \in ClientWrites : Writes' = Append(Writes, w) =>
             f2 = f + (IF w \in FinalsTo(r) THEN 1 ELSE 0)
        /\ \A x \in Rids : Jobs' = Append(Jobs, x) => j2 = j + (IF x \in {r} THEN 1 ELSE 0)
    <2>1. (Jobs' = Jobs => j2 = j) /\ (Writes' = Writes => f2 = f)
      BY ZenonT(60)
    <2>2. ASSUME NEW w \in ClientWrites, Writes' = Append(Writes, w)
          PROVE  f2 = f + (IF w \in FinalsTo(r) THEN 1 ELSE 0)
      BY ZenonT(60), <1>d, <2>2, CountAppend
    <2>3. ASSUME NEW x \in Rids, Jobs' = Append(Jobs, x)
          PROVE  j2 = j + (IF x \in {r} THEN 1 ELSE 0)
      BY ZenonT(60), <1>d, <2>3, CountAppend
    <2> QED
      BY ZenonT(60), <2>1, <2>2, <2>3
  <1>j. d \in {0, 1} /\ d2 \in {0, 1} /\ (d = 1 <=> r \in Waiting) /\ (d2 = 1 <=> r \in Waiting')
    OBVIOUS
  <1>l. d \in Nat /\ d2 \in Nat
    OBVIOUS
  <1>k. ASSUME NEW type, Handling(type), type # "TtsResponse", type # "Cancel"
        PROVE  /\ Head(batch).rid \in Rids
               /\ Head(batch) \in TokensOf(r) <=> Head(batch).rid = r
               /\ type \in {"LocalComplete", "LocalFailed"} => Head(batch).rid \in LocalRids
    <2>1. Head(batch) \in Messages /\ Head(batch).type = type /\ Head(batch) \in RequestSide \cup WsSide
      BY <1>a, <1>k, HandlingTypes, HandlingQueues
    <2>2. Head(batch) \in [type : {"TtsRequest", "LocalComplete", "LocalFailed"}, rid : Rids]
      BY ZenonT(60), <2>1, <1>k DEF Messages
    <2>3. \A m \in [type : {"TtsRequest", "LocalComplete", "LocalFailed"}, rid : Rids] :
            m \in TokensOf(r) <=> m.rid = r
      BY DEF TokensOf, TtsRequestMsg, LocalSynthCompleteMsg, LocalSynthFailedMsg
    <2>4. \A m \in RequestSide \cup WsSide :
            m.type \in {"LocalComplete", "LocalFailed"} => m.rid \in LocalRids
      BY DEF RequestSide, WsSide
    <2> QED
      BY ZenonT(60), <2>1, <2>2, <2>3, <2>4
  <1> HIDE DEF q, j, f, d, q2, j2, f2, d2
  <1>1. CASE DrainRequests \/ DrainWsEvents
    <2>1. Jobs' = Jobs /\ Writes' = Writes /\ DOMAIN pending' = DOMAIN pending
      BY ZenonT(60), <1>1 DEF DrainRequests, DrainWsEvents, board, Jobs, Writes
    <2>2. q2 = q /\ j2 = j /\ f2 = f /\ d2 = d
      BY ZenonT(60), <1>1, <1>c, <1>f, <1>g, <1>i, <1>j, <2>1
    <2> QED
      BY SMT, SMTT(60), <1>b, <1>h, <1>j, <2>2
  <1>2. CASE Discards
    <2>1. q2 <= q /\ q2 \in Nat
      BY SMT, SMTT(60), <1>2, <1>c DEF Discards
    <2>2. j2 = j /\ f2 = f /\ d2 = d
      BY ZenonT(60), <1>2, <1>f, <1>g, <1>i, <1>j DEF Discards
    <2> QED
      BY SMT, SMTT(60), <1>b, <1>h, <1>l, <2>1, <2>2
  <1>3. CASE \E x \in Rids : Takes(x)
    <2>1. PICK x \in Rids : Takes(x)
      BY <1>3
    <2>2. /\ Handling("TtsRequest") /\ x = Head(batch).rid /\ Writes' = Writes
          /\ Jobs' = (IF x \in LocalRids THEN Append(Jobs, x) ELSE Jobs)
          /\ DOMAIN pending' = DOMAIN pending \cup {x}
      BY ZenonT(60), <2>1 DEF Takes
    <2>3. q = q2 + (IF x = r THEN 1 ELSE 0) /\ q2 \in Nat /\ f2 = f
      BY ZenonT(60), <1>c, <1>i, <1>k, <2>2
    <2>4. CASE x # r
      <3>1. j2 = j
        BY SMT, SMTT(60), <1>b, <1>i, <2>2, <2>4
      <3>2. d2 = d
        BY SMT, SMTT(60), <1>f, <1>g, <1>j, <2>2, <2>4
      <3>3. q2 = q
        BY SMT, SMTT(60), <1>b, <2>3, <2>4
      <3> QED
        BY SMT, SMTT(60), <1>b, <1>h, <1>l, <2>3, <3>1, <3>2, <3>3
    <2>5. CASE x = r /\ r \in LocalRids
      <3>1. j2 = j + 1 /\ d2 = 0
        BY ZenonT(60), <1>f, <1>g, <1>i, <1>j, <2>2, <2>5
      <3>2. q = q2 + 1 /\ q2 \in Nat /\ f2 = f
        BY <2>3, <2>5
      <3> QED
        BY SMT, SMTT(60), <1>b, <1>h, <1>l, <3>1, <3>2
    <2>6. CASE x = r /\ r \notin LocalRids
      <3>1. j2 = j /\ d2 <= 1
        BY SMT, SMTT(60), <1>i, <1>j, <2>2, <2>6
      <3>2. q = q2 + 1 /\ q2 \in Nat /\ f2 = f
        BY ZenonT(60), <2>3, <2>6
      <3> QED
        BY SMT, SMTT(60), <1>b, <1>h, <1>l, <3>1, <3>2
    <2> QED
      BY ZenonT(60), <2>4, <2>5, <2>6
  <1>4. CASE \E w : Answers(w)
    <2>1. PICK w : Answers(w)
      BY <1>4
    <2>2. PICK type \in {"LocalComplete", "LocalFailed"} : Handling(type)
      BY <2>1 DEF Answers
    <2>3. /\ w \in ClientWrites /\ w.rid = Head(batch).rid /\ Jobs' = Jobs
          /\ Writes' = Append(Writes, w) /\ DOMAIN pending' = DOMAIN pending \ {w.rid}
      BY ZenonT(60), <2>1 DEF Answers
    <2>4. q = q2 + (IF w.rid = r THEN 1 ELSE 0) /\ q2 \in Nat /\ w.rid \in LocalRids
      BY ZenonT(60), <1>c, <1>k, <2>2, <2>3
    <2>5. j2 = j /\ d2 = d
      BY ZenonT(60), <1>f, <1>g, <1>i, <1>j, <2>3, <2>4
    <2>6. f2 = f \/ (f2 = f + 1 /\ w.rid = r)
      <3>1. w \in FinalsTo(r) => w.rid = r
        BY DEF FinalsTo
      <3> QED
        BY SMT, SMTT(60), <1>b, <1>i, <2>3, <3>1
    <2> QED
      BY SMT, SMTT(60), <1>b, <1>h, <1>j, <2>4, <2>5, <2>6
  <1>5. CASE \E w : Emits(w)
    <2>1. PICK w : Emits(w)
      BY <1>5
    <2>2. /\ w \in ClientWrites /\ w.rid \in DOMAIN pending /\ Jobs' = Jobs
          /\ Writes' = Append(Writes, w) /\ DOMAIN pending' = DOMAIN pending \ {w.rid}
          /\ w.rid \notin LocalRids
      BY ZenonT(60), <2>1 DEF Emits, WorkOK, UpstreamOK
    <2>3. q2 = q /\ j2 = j
      BY ZenonT(60), <1>c, <1>i, <2>1, <2>2 DEF Emits
    <2>4. CASE w.rid = r
      <3>1. d = 1 /\ d2 = 0
        BY ZenonT(60), <1>f, <1>g, <1>j, <2>2, <2>4
      <3>2. f2 = f \/ f2 = f + 1
        BY SMT, SMTT(60), <1>b, <1>i, <2>2
      <3> QED
        BY SMT, SMTT(60), <1>b, <1>h, <2>3, <3>1, <3>2
    <2>5. CASE w.rid # r
      <3>1. d2 = d
        BY SMT, SMTT(60), <1>f, <1>g, <1>j, <2>2, <2>5
      <3>2. w \notin FinalsTo(r)
        BY ZenonT(60), <2>5 DEF FinalsTo
      <3>3. f2 = f
        BY SMT, SMTT(60), <1>b, <1>i, <2>2, <3>2
      <3> QED
        BY SMT, SMTT(60), <1>b, <1>h, <1>j, <2>3, <3>1, <3>3
    <2> QED
      BY ZenonT(60), <2>4, <2>5
  <1>6. CASE Pauses \/ Drops
    <2>1. /\ DOMAIN pending' \subseteq DOMAIN pending /\ Jobs' = Jobs /\ Writes' = Writes
          /\ UNCHANGED <<channels, batch>>
      BY ZenonT(60), <1>6 DEF Pauses, Drops
    <2>2. q2 = q /\ j2 = j /\ f2 = f
      BY ZenonT(60), <1>c, <1>i, <2>1
    <2>3. d2 <= d
      BY SMT, SMTT(60), <1>f, <1>g, <1>j, <2>1
    <2> QED
      BY SMT, SMTT(60), <1>b, <1>h, <1>l, <2>2, <2>3
  <1>7. CASE RunLocalJob
    <2>1. Jobs # <<>> /\ UNCHANGED <<pending, batch>>
      BY <1>7 DEF RunLocalJob, Jobs, board
    <2>2. Jobs' = Tail(Jobs) /\ Writes' = Writes
      BY ZenonT(60), <1>7 DEF RunLocalJob, Jobs, Writes, RestOK, ChangeSets
    <2> DEFINE h == Head(Jobs)
    <2>3. h \in Rids
      BY SMT, SMTT(60), <1>d, <2>1
    <2>4. /\ LocalSynthCompleteMsg(h) \in Messages /\ LocalSynthFailedMsg(h) \in Messages
          /\ LocalSynthCompleteMsg(h) \in TokensOf(r) <=> h = r
          /\ LocalSynthFailedMsg(h) \in TokensOf(r) <=> h = r
      BY <2>3 DEF Messages, TokensOf, TtsRequestMsg, LocalSynthCompleteMsg, LocalSynthFailedMsg
    <2>5. PICK m \in Messages : /\ request_channel' = Append(request_channel, m)
                                /\ m \in TokensOf(r) <=> h = r
      BY <1>7, <2>4 DEF RunLocalJob, Jobs
    <2>6. j = j2 + (IF h \in {r} THEN 1 ELSE 0)
      BY ZenonT(60), <1>d, <2>1, <2>2, CountTail DEF j, j2
    <2>a. Tail(Jobs) \in Seq(Rids)
      BY <1>d, <2>1
    <2>b. j2 \in Nat
      BY ZenonT(60), <2>2, <2>a, CountType DEF j2
    <2> HIDE DEF h
    <2>7. q2 = q + (IF h = r THEN 1 ELSE 0)
      BY ZenonT(60), <1>c, <2>1, <2>5
    <2>8. f2 = f /\ d2 = d
      BY ZenonT(60), <1>f, <1>g, <1>i, <1>j, <2>1, <2>2
    <2> QED
      BY SMT, SMTT(60), <1>b, <1>h, <1>l, <2>6, <2>7, <2>8, <2>b
  <1>8. CASE EndIteration
    <2>1. Jobs = <<>> /\ Jobs' = <<>> /\ Writes' = <<>> /\ UNCHANGED <<pending, channels, batch>>
      BY ZenonT(60), <1>8 DEF EndIteration, EmptyChangeSet, Jobs, Writes, board
    <2>2. q2 = q /\ j2 = j /\ d2 = d
      BY ZenonT(60), <1>c, <1>f, <1>g, <1>i, <1>j, <2>1
    <2>3. f2 = 0
      BY ZenonT(60), <2>1, CountEmpty DEF f2
    <2> QED
      BY SMT, SMTT(60), <1>b, <1>h, <1>l, <2>2, <2>3
  <1> QED
    BY ZenonT(60), <1>1, <1>2, <1>3, <1>4, <1>5, <1>6, <1>7, <1>8, TickFlow

(* LocalOutstanding and the store, as InflightWithin and InflightExact add *)
(* them up, are the load.                                                  *)
LEMMA LoadIs ==
  ASSUME RestOK
  PROVE  LocalOutstanding + Cardinality({r \in DOMAIN pending : ~ShouldUseLocal(r)}) = Load
  <1>1. ASSUME NEW q \in Seq(Messages)
        PROVE  Cardinality({i \in DOMAIN q : q[i].type \in {"LocalComplete", "LocalFailed"}})
               = Count(q, AnswerMsgs)
    <2>1. \A i \in DOMAIN q : q[i] \in Messages
      OBVIOUS
    <2>2. {i \in DOMAIN q : q[i].type \in {"LocalComplete", "LocalFailed"}}
          = {i \in DOMAIN q : q[i] \in AnswerMsgs}
      BY <2>1 DEF AnswerMsgs
    <2> QED
      BY ZenonT(60), <2>2 DEF Count
  <1>2. request_channel \in Seq(Messages) /\ batch \in Seq(Messages) /\ Jobs \in Seq(Rids)
    BY DEF RestOK, ChangeSets, Jobs
  <1>3. Count(request_channel, AnswerMsgs) \in Nat /\ Count(batch, AnswerMsgs) \in Nat
    BY ZenonT(60), <1>2, CountType
  <1>4. LocalOutstanding = Len(Jobs) + Count(request_channel, AnswerMsgs) + Count(batch, AnswerMsgs)
    BY ZenonT(60), <1>1, <1>2 DEF LocalOutstanding, Quantify, Jobs
  <1>5. Len(Jobs) \in Nat /\ Cardinality(Waiting) \in Nat
    BY <1>2, WaitingSet
  <1> QED
    BY <1>3, <1>4, <1>5 DEF Load, Queued, Waiting

(* The load is a number.                                                   *)
LEMMA LoadType ==
  ASSUME RestOK, WorkOK
  PROVE  Load \in Nat
  <1>1. Jobs \in Seq(Rids)
    BY DEF RestOK, ChangeSets, Jobs
  <1>2. \A m \in AnswerMsgs : m.type # "TtsResponse"
    BY DEF AnswerMsgs
  <1>3. Queued(AnswerMsgs) \in Nat
    BY ZenonT(60), <1>2, QueuedCounts DEF WorkOK
  <1>4. Len(Jobs) \in Nat /\ Cardinality(Waiting) \in Nat
    BY <1>1, WaitingSet
  <1> QED
    BY <1>3, <1>4 DEF Load

(* A number below the modulus is its own remainder.                        *)
LEMMA ModSmall == \A x \in 0 .. Modulus - 1 : x % Modulus = x
  BY SMT, SMTT(60), HeartbeatAssumption

(* At the start there is no work.                                          *)
LEMMA InitWork ==
  ASSUME HbInit
  PROVE  WorkOK /\ Load = 0 /\ \A r \in Rids : Owed(r) = 0
  <1>1. /\ request_channel = <<>> /\ ws_event_channel = <<>> /\ batch = <<>>
        /\ Jobs = <<>> /\ Writes = <<>> /\ DOMAIN pending = {} /\ Waiting = {}
    BY DEF HbInit, EmptyChangeSet, EmptyStore, Jobs, Writes, Waiting
  <1>2. QueuesOK
    BY SMT, SMTT(60), <1>1 DEF QueuesOK, Jobs
  <1>3. UpstreamOK
    <2>1. Ids(pool) = {}
      BY DEF HbInit, EmptyPool, Ids
    <2>2. IsFiniteSet(Ids(pool))
      BY ZenonT(60), <2>1, FS_EmptySet
    <2>3. pool \in [sessions : [Ids(pool) -> SessionRecords(Rids \ LocalRids)], lru : Seq(Nat)]
      BY DEF HbInit, EmptyPool, Ids
    <2> QED
      BY ZenonT(60), <1>1, <2>1, <2>2, <2>3 DEF UpstreamOK, PoolValue
  <1>4. \A S : Queued(S) = 0
    <2>1. \A S : Queued(S) = Count(<<>>, S) + Count(<<>>, S)
      BY ZenonT(60), <1>1 DEF Queued
    <2> QED
      BY <2>1, CountEmpty
  <1>5. Load = 0
    <2>1. Cardinality(Waiting) = 0 /\ Len(Jobs) = 0
      BY <1>1, FS_EmptySet
    <2>2. Queued(AnswerMsgs) = 0
      BY ZenonT(60), <1>4
    <2> QED
      BY <2>1, <2>2 DEF Load
  <1>6. ASSUME NEW r \in Rids PROVE Owed(r) = 0
    <2>1. Count(Jobs, {r}) = 0 /\ Count(Writes, FinalsTo(r)) = 0 /\ r \notin Waiting
      BY ZenonT(60), <1>1, CountEmpty
    <2>2. Queued(TokensOf(r)) = 0
      BY ZenonT(60), <1>4
    <2> QED
      BY <2>1, <2>2 DEF Owed
  <1> QED
    BY ZenonT(60), <1>2, <1>3, <1>5, <1>6 DEF WorkOK

(* A client's message adds to what is owed, and nothing else.              *)
LEMMA SendWork ==
  ASSUME RestOK, WorkOK, NEW x \in Rids, NEW m \in {TtsRequestMsg(x), CancelRequestMsg(x)},
         request_channel' = Append(request_channel, m),
         UNCHANGED <<phase, ws_event_channel, batch, cs, pool, pending, backend>>
  PROVE  /\ WorkOK' /\ Load' = Load
         /\ \A r \in Rids : Owed(r)' = Owed(r) + (IF m = TtsRequestMsg(r) THEN 1 ELSE 0)
  <1>a. QueuesOK /\ UpstreamOK
    BY DEF WorkOK
  <1>b. LocalRids' = LocalRids /\ RequestSide' = RequestSide /\ WsSide' = WsSide
    BY LocalRidsFixed DEF WsSide
  <1>c. m \in RequestSide /\ m \in Messages /\ m.type \in {"TtsRequest", "Cancel"} /\ m.rid = x
    BY DEF RequestSide, Messages, TtsRequestMsg, CancelRequestMsg
  <1>d. Jobs' = Jobs /\ Writes' = Writes /\ Waiting' = Waiting
    BY DEF Jobs, Writes, Waiting, ShouldUseLocal
  <1>1. QueuesOK'
    <2>1. Append(request_channel, m) \in Seq(RequestSide)
      BY <1>a, <1>c DEF QueuesOK
    <2> QED
      BY ZenonT(60), <1>a, <1>b, <2>1 DEF QueuesOK
  <1>2. UpstreamOK'
    BY ZenonT(60), <1>a, <1>b DEF UpstreamOK
  <1>3. Load' = Load
    <2>1. m \notin AnswerMsgs /\ \A a \in AnswerMsgs : a.type # "TtsResponse"
      BY <1>c DEF AnswerMsgs
    <2>2. /\ Queued(AnswerMsgs)' = Queued(AnswerMsgs) + (IF m \in AnswerMsgs THEN 1 ELSE 0)
          /\ Queued(AnswerMsgs) \in Nat
      BY ZenonT(60), <1>a, <1>c, <2>1, QueuedCounts
    <2>3. Queued(AnswerMsgs)' = Queued(AnswerMsgs)
      BY SMT, SMTT(60), <2>1, <2>2
    <2> QED
      BY ZenonT(60), <1>d, <2>3 DEF Load
  <1>4. ASSUME NEW r \in Rids
        PROVE  Owed(r)' = Owed(r) + (IF m = TtsRequestMsg(r) THEN 1 ELSE 0)
    <2> DEFINE q  == Queued(TokensOf(r))
               q2 == Queued(TokensOf(r))'
               o  == Count(Jobs, {r})
               f  == Count(Writes, FinalsTo(r))
               d  == IF r \in Waiting THEN 1 ELSE 0
    <2>1. /\ q \in Nat /\ o \in Nat /\ f \in Nat
          /\ \A a \in TokensOf(r) : a.type # "TtsResponse"
      BY ZenonT(60), <1>a, OwedParts
    <2>2. q2 = q + (IF m \in TokensOf(r) THEN 1 ELSE 0)
      BY ZenonT(60), <1>a, <1>c, <2>1, QueuedCounts
    <2>3. m \in TokensOf(r) <=> m = TtsRequestMsg(r)
      BY <1>c DEF TokensOf, TtsRequestMsg, LocalSynthCompleteMsg, LocalSynthFailedMsg
    <2>4. Owed(r) = q + o + f + d /\ Owed(r)' = q2 + o + f + d
      BY ZenonT(60), <1>d DEF Owed
    <2>5. d \in Nat
      BY ZenonT(60)
    <2> HIDE DEF q, q2, o, f, d
    <2> QED
      BY SMT, SMTT(60), <2>1, <2>2, <2>3, <2>4, <2>5
  <1> QED
    BY ZenonT(60), <1>1, <1>2, <1>3, <1>4 DEF WorkOK

(* A step that is not the heartbeat's and sends no request: it may send    *)
(* upstream events, take writes out of the ChangeSet and change the state  *)
(* of a record.                                                            *)
LEMMA KeepWork ==
  ASSUME RestOK, WorkOK,
         UNCHANGED <<request_channel, batch, pool, backend, Jobs>>,
         ws_event_channel' \in Seq(WsSide),
         phase' = phase \/ batch = <<>>,
         DOMAIN pending' = DOMAIN pending,
         \A r \in DOMAIN pending : pending'[r].final_received = pending[r].final_received
  PROVE  /\ WorkOK' /\ Load' = Load
         /\ \A r \in Rids : Writes' = Writes => Owed(r)' = Owed(r)
         /\ \A r \in Rids : Count(Writes', FinalsTo(r)) \in Nat =>
              Owed(r)' + Count(Writes, FinalsTo(r)) = Owed(r) + Count(Writes', FinalsTo(r))
  <1>a. QueuesOK /\ UpstreamOK
    BY DEF WorkOK
  <1>b. LocalRids' = LocalRids /\ RequestSide' = RequestSide /\ WsSide' = WsSide
    BY LocalRidsFixed DEF WsSide
  <1>c. Waiting' = Waiting
    BY DEF Waiting, ShouldUseLocal
  <1>1. QueuesOK'
    BY ZenonT(60), <1>a, <1>b DEF QueuesOK, Jobs
  <1>2. UpstreamOK'
    BY ZenonT(60), <1>a, <1>b DEF UpstreamOK
  <1>3. \A S : Queued(S)' = Queued(S)
    BY ZenonT(60) DEF Queued
  <1>4. Load' = Load
    BY ZenonT(60), <1>c, <1>3 DEF Load
  <1>5. \A r \in Rids : Writes' = Writes => Owed(r)' = Owed(r)
    BY ZenonT(60), <1>c, <1>3 DEF Owed
  <1>6. ASSUME NEW r \in Rids, Count(Writes', FinalsTo(r)) \in Nat
        PROVE  Owed(r)' + Count(Writes, FinalsTo(r)) = Owed(r) + Count(Writes', FinalsTo(r))
    <2> DEFINE q  == Queued(TokensOf(r))
               o  == Count(Jobs, {r})
               f  == Count(Writes, FinalsTo(r))
               f2 == Count(Writes', FinalsTo(r))
               d  == IF r \in Waiting THEN 1 ELSE 0
    <2>1. q \in Nat /\ o \in Nat /\ f \in Nat /\ f2 \in Nat
      BY ZenonT(60), <1>a, <1>6, OwedParts
    <2>2. Owed(r) = q + o + f + d /\ Owed(r)' = q + o + f2 + d
      BY ZenonT(60), <1>c, <1>3 DEF Owed
    <2>3. d \in Nat
      OBVIOUS
    <2> HIDE DEF q, o, f, f2, d
    <2> QED
      BY <2>1, <2>2, <2>3 DEF f, f2
  <1> QED
    BY ZenonT(60), <1>1, <1>2, <1>4, <1>5, <1>6 DEF WorkOK

(* Load and Owed after a step.                                             *)
LEMMA WorkTypesNext ==
  RestOK' /\ WorkOK' => (Load \in Nat)' /\ (\A r \in Rids : Owed(r) \in Nat)'
  <1>1. RestOK /\ WorkOK => Load \in Nat /\ \A r \in Rids : Owed(r) \in Nat
    BY ZenonT(60), LoadType, OwedParts DEF WorkOK
  <1> QED
    BY <1>1, PTL

-----------------------------------------------------------------------------
(* A session and the request it works for.                                 *)

(* What handle_request does to the pool when it binds a request.           *)
LEMMA BindsFields ==
  ASSUME RestOK, PoolInv, Binds
  PROVE  /\ Handling("TtsRequest") /\ ~ShouldUseLocal(Head(batch).rid) /\ Admit /\ IncInflight
         /\ \E sid \in Nat :
              LET r == Head(batch).rid IN
              /\ \/ sid = FindIdleLeastRecentlyUsed(pool) /\ sid \in Ids(pool) /\ Ids(pool') = Ids(pool)
                 \/ sid = next_sid /\ Ids(pool') = Ids(pool) \cup {sid} /\ sid \notin Ids(pool)
              /\ pending' = PendingAdd(pending, r, PendingRequest(sid, "AwaitingSession"))
              /\ pool'.sessions[sid].current_request_id = r
              /\ \A s \in Ids(pool) \ {sid} :
                   /\ pool'.sessions[s].current_request_id = pool.sessions[s].current_request_id
                   /\ pool'.sessions[s].state = pool.sessions[s].state
                   /\ pool'.sessions[s].last_active_at = pool.sessions[s].last_active_at
  <1> DEFINE r == Head(batch).rid
  <1>a. Handling("TtsRequest") /\ ~ShouldUseLocal(r) /\ Admit /\ IncInflight
    BY DEF Binds, RequestReusesSession, RequestCreatesSession, BindTo
  <1>b. /\ PoolValue(pool, Rids) /\ PoolOK(pool) /\ now \in Nat /\ "Streaming" \in SessionStates
        /\ next_sid \in Nat /\ next_sid \notin Ids(pool)
    BY SMT, SMTT(60) DEF PoolInv, RestOK, SessionStates
  <1>1. CASE RequestReusesSession
    <2> DEFINE sid == FindIdleLeastRecentlyUsed(pool)
               p   == Touch(pool, sid, "Streaming", now)
    <2>1. /\ pool' = SetCurrentRequest(p, sid, r) /\ sid # NoSession
          /\ pending' = PendingAdd(pending, r, PendingRequest(sid, "AwaitingSession"))
      BY ZenonT(60), <1>1 DEF RequestReusesSession, BindTo, MarkActive
    <2>2. sid \in Ids(pool)
      BY ZenonT(60), <1>b, <2>1, FindIdleFinds
    <2>3. sid \in Nat
      BY <1>b, <2>2 DEF PoolValue
    <2>a. sid = FindIdleLeastRecentlyUsed(pool)
      OBVIOUS
    <2> HIDE DEF sid, r
    <2>4. PoolValue(p, Rids)
      BY ZenonT(60), <1>b, TouchKeepsPool
    <2>5. /\ Ids(p) = Ids(pool)
          /\ \A s \in Ids(pool) :
               /\ p.sessions[s].current_request_id = pool.sessions[s].current_request_id
               /\ p.sessions[s].state = IF s = sid THEN "Streaming" ELSE pool.sessions[s].state
               /\ p.sessions[s].last_active_at = IF s = sid THEN now ELSE pool.sessions[s].last_active_at
      BY SMT, SMTT(60), <1>b, TouchFields
    <2> HIDE DEF p
    <2>6. /\ Ids(pool') = Ids(p)
          /\ \A s \in Ids(p) :
               /\ pool'.sessions[s].current_request_id =
                    IF s = sid THEN r ELSE p.sessions[s].current_request_id
               /\ pool'.sessions[s].state = p.sessions[s].state
               /\ pool'.sessions[s].last_active_at = p.sessions[s].last_active_at
      BY <2>1, <2>4, SetRequestFields
    <2>7. pool'.sessions[sid].current_request_id = r /\ Ids(pool') = Ids(pool)
      BY ZenonT(60), <2>2, <2>5, <2>6
    <2>8. \A s \in Ids(pool) \ {sid} :
            /\ pool'.sessions[s].current_request_id = pool.sessions[s].current_request_id
            /\ pool'.sessions[s].state = pool.sessions[s].state
            /\ pool'.sessions[s].last_active_at = pool.sessions[s].last_active_at
      BY ZenonT(60), <2>5, <2>6
    <2> QED
      BY ZenonT(60), <1>a, <2>1, <2>2, <2>3, <2>7, <2>8, <2>a DEF r
  <1>2. CASE RequestCreatesSession
    <2> DEFINE sid == next_sid
               a   == Add(pool, sid, SessionRecord(sid))
    <2>1. /\ pool' = SetCurrentRequest(a, sid, r)
          /\ pending' = PendingAdd(pending, r, PendingRequest(sid, "AwaitingSession"))
      BY <1>2 DEF RequestCreatesSession, BindTo
    <2>2. Ids(a) = Ids(pool) \cup {sid}
      BY ZenonT(60) DEF Add, Ids
    <2>a. \A s \in Ids(pool) : a.sessions[s] = pool.sessions[s]
      BY ZenonT(60), <1>b DEF Add, Ids
    <2>3. a.sessions[sid] = SessionRecord(sid) /\ a = [sessions |-> a.sessions, lru |-> a.lru]
      BY DEF Add
    <2>4. pool'.sessions = [a.sessions EXCEPT ![sid].current_request_id = r]
      BY ZenonT(60), <2>1, <2>2, <2>3 DEF SetCurrentRequest, Ids
    <2> HIDE DEF a, sid, r
    <2>5. DOMAIN a.sessions = Ids(pool) \cup {sid}
      BY <2>2 DEF Ids
    <2>6. Ids(pool') = Ids(pool) \cup {sid}
      BY ZenonT(60), <2>4, <2>5 DEF Ids
    <2>7. \A s \in Ids(pool) \ {sid} : pool'.sessions[s] = pool.sessions[s]
      BY ZenonT(60), <2>4, <2>5, <2>a
    <2>8. pool'.sessions[sid].current_request_id = r
      <3>1. DOMAIN SessionRecord(sid) = {"state", "created_at", "last_active_at", "current_request_id"}
        BY DEF SessionRecord
      <3>2. pool'.sessions[sid] = [a.sessions[sid] EXCEPT !.current_request_id = r]
        BY ZenonT(60), <2>4, <2>5
      <3> QED
        BY ZenonT(60), <2>3, <3>1, <3>2
    <2>9. sid \in Nat /\ sid \notin Ids(pool) /\ sid = next_sid
      BY <1>b DEF sid
    <2> QED
      BY ZenonT(60), <1>a, <2>1, <2>6, <2>7, <2>8, <2>9 DEF r
  <1> QED
    BY ZenonT(60), <1>1, <1>2 DEF Binds

(* The heartbeat thread puts no message of an upstream request in a queue. *)
LEMMA QueuedZero ==
  ASSUME RestOK, QueuesOK, Tick \/ RunLocalJob \/ EndIteration,
         NEW r \in Rids \ LocalRids, Queued(TokensOf(r)) = 0
  PROVE  Queued(TokensOf(r))' = 0
  <1> DEFINE q  == Queued(TokensOf(r))
             q2 == Queued(TokensOf(r))'
  <1>a. \A m \in TokensOf(r) : m.type # "TtsResponse"
    BY ZenonT(60), OwedParts
  <1>b. /\ DrainRequests \/ DrainWsEvents => q2 = q
        /\ \A type : Handling(type) =>
             q = q2 + (IF Head(batch) \in TokensOf(r) THEN 1 ELSE 0) /\ q2 \in Nat
        /\ UNCHANGED <<channels, batch>> => q2 = q
        /\ \A m \in Messages :
             request_channel' = Append(request_channel, m) /\ batch' = batch
             => q2 = q + (IF m \in TokensOf(r) THEN 1 ELSE 0)
    BY ZenonT(60), <1>a, QueuedCounts
  <1>c. q = 0
    OBVIOUS
  <1> SUFFICES q2 = 0
    OBVIOUS
  <1> HIDE DEF q, q2
  <1>d. ASSUME NEW type, Handling(type) PROVE q2 = 0
    <2>1. q = q2 + (IF Head(batch) \in TokensOf(r) THEN 1 ELSE 0) /\ q2 \in Nat
      BY ZenonT(60), <1>b, <1>d
    <2> QED
      BY <1>c, <2>1
  <1>1. CASE DrainRequests \/ DrainWsEvents
    BY <1>b, <1>c, <1>1
  <1>2. CASE Discards \/ (\E x \in Rids : Takes(x)) \/ (\E w : Answers(w))
    BY ZenonT(60), <1>d, <1>2 DEF Discards, Takes, Answers
  <1>3. CASE (\E w : Emits(w)) \/ Pauses \/ Drops \/ EndIteration
    <2>1. UNCHANGED <<channels, batch>>
      BY ZenonT(60), <1>3 DEF Emits, Pauses, Drops, EndIteration
    <2> QED
      BY <1>b, <1>c, <2>1
  <1>4. CASE RunLocalJob
    <2>1. Jobs # <<>> /\ Jobs \in Seq(LocalRids) /\ batch' = batch
      BY <1>4 DEF RunLocalJob, QueuesOK, Jobs
    <2> DEFINE h == Head(Jobs)
    <2>2. h \in LocalRids /\ h \in Rids /\ h # r
      BY SMT, SMTT(60), <2>1 DEF LocalRids
    <2>3. /\ LocalSynthCompleteMsg(h) \in Messages /\ LocalSynthFailedMsg(h) \in Messages
          /\ LocalSynthCompleteMsg(h) \notin TokensOf(r)
          /\ LocalSynthFailedMsg(h) \notin TokensOf(r)
      BY <2>2 DEF Messages, TokensOf, TtsRequestMsg, LocalSynthCompleteMsg, LocalSynthFailedMsg
    <2>4. PICK m \in Messages : /\ request_channel' = Append(request_channel, m)
                                /\ m \notin TokensOf(r)
      BY ZenonT(60), <1>4, <2>3 DEF RunLocalJob, Jobs
    <2> QED
      BY SMT, SMTT(60), <1>b, <1>c, <2>1, <2>4
  <1> QED
    BY ZenonT(60), <1>1, <1>2, <1>3, <1>4, TickFlow

(* Apart from a bind, an upstream request keeps its record's session.      *)
LEMMA SessionIdsKept ==
  ASSUME RestOK, Tick, ~Binds
  PROVE  \A r \in DOMAIN pending' \ LocalRids :
           r \in DOMAIN pending /\ pending'[r].session_id = pending[r].session_id
  <1> DEFINE Goal == \A r \in DOMAIN pending' \ LocalRids :
                       r \in DOMAIN pending /\ pending'[r].session_id = pending[r].session_id
  <1>a. pending \in [DOMAIN pending -> PendingRequests(Audio)] /\ DOMAIN pending \subseteq Rids
    BY DEF RestOK
  <1>b. ASSUME NEW S, NEW x, pending' = SetPendingState(pending, S, x) PROVE Goal
    BY <1>a, <1>b, SetStateFields
  <1>d. ASSUME NEW S, pending' = PendingRemove(pending, S) PROVE Goal
    <2>1. DOMAIN pending' = DOMAIN pending \ S /\ \A q \in DOMAIN pending \ S : pending'[q] = pending[q]
      BY <1>d DEF PendingRemove
    <2> QED
      BY ZenonT(60), <2>1
  <1>1. CASE \/ DrainRequests \/ DrainWsEvents \/ RequestDenied \/ RequestNoSession
             \/ HandleConnected \/ HandleTaskStarted \/ HandleTaskFinished
             \/ BatchHandled \/ AllEmitted \/ \E id \in Ids(pool) : EvolveCloses(id)
    <2>1. pending' = pending
      BY ZenonT(60), <1>1 DEF DrainRequests, DrainWsEvents, RequestDenied, RequestNoSession, HandleConnected,
                  HandleTaskStarted, HandleTaskFinished, BatchHandled, AllEmitted, EvolveCloses, board
    <2> QED
      BY ZenonT(60), <2>1
  <1>2. CASE RequestLocal
    <2> DEFINE r == Head(batch).rid
    <2>1. r \in LocalRids
      BY SMT, SMTT(60), <1>2, HandlingTypes, MessageFields DEF RequestLocal, LocalRids
    <2>2. \/ pending' = SetPendingState(pending, {r}, "Streaming")
          \/ pending' = PendingAdd(pending, r, PendingRequest(NoSession, "Streaming"))
      BY <1>2 DEF RequestLocal
    <2> HIDE DEF r
    <2>3. CASE pending' = SetPendingState(pending, {r}, "Streaming")
      BY ZenonT(60), <2>3, <1>b
    <2>4. CASE pending' = PendingAdd(pending, r, PendingRequest(NoSession, "Streaming"))
      <3>1. /\ DOMAIN pending' = DOMAIN pending \cup {r}
            /\ \A q \in DOMAIN pending : q # r => pending'[q] = pending[q]
        BY <2>4 DEF PendingAdd
      <3> QED
        BY ZenonT(60), <2>1, <3>1
    <2> QED
      BY ZenonT(60), <2>2, <2>3, <2>4
  <1>5. CASE HandleLocalComplete \/ HandleLocalFailed
    BY ZenonT(60), <1>5, <1>d DEF HandleLocalComplete, HandleLocalFailed, LocalDone
  <1>6. CASE HandleCancel
    BY ZenonT(60), <1>6, <1>b DEF HandleCancel
  <1>7. CASE HandleTaskFailed \/ HandleDisconnected
    <2>1. PICK S : pending' = SetPendingState(pending, S, "Failed")
      BY <1>7 DEF HandleTaskFailed, HandleDisconnected
    <2> QED
      BY ZenonT(60), <1>b, <2>1
  <1>8. CASE HandleAudioChunk
    <2>1. \E r, a, f : pending' = AppendChunk(pending, r, a, f)
      BY <1>8 DEF HandleAudioChunk
    <2> QED
      BY SMT, SMTT(60), <1>a, <2>1, AppendFields
  <1>9. CASE \E r \in Rids : EmitCompleted(r)
    <2>1. PICK r \in Rids : EmitCompleted(r)
      BY <1>9
    <2> QED
      BY ZenonT(60), <2>1, <1>d DEF EmitCompleted
  <1>10. CASE EvolveRequests
    BY ZenonT(60), <1>10, <1>d DEF EvolveRequests
  <1> QED
    BY ZenonT(60), <1>1, <1>2, <1>5, <1>6, <1>7, <1>8, <1>9, <1>10 DEF Tick, Binds

(* Apart from a bind, a session keeps the request it works for.            *)
LEMMA SessionRequestsKept ==
  ASSUME RestOK, PoolInv, Tick, ~Binds
  PROVE  \A s \in Ids(pool') :
           /\ s \in Ids(pool)
           /\ pool'.sessions[s].current_request_id = pool.sessions[s].current_request_id
  <1>a. PoolValue(pool, Rids)
    BY DEF PoolInv
  <1>1. CASE \/ DrainRequests \/ DrainWsEvents \/ RequestDenied \/ RequestNoSession \/ RequestLocal
             \/ HandleCancel \/ HandleTaskStarted \/ HandleAudioChunk \/ HandleTaskFinished
             \/ BatchHandled \/ AllEmitted \/ EvolveRequests
    <2>1. pool' = pool
      BY ZenonT(60), <1>1 DEF DrainRequests, DrainWsEvents, RequestDenied, RequestNoSession, RequestLocal,
                  HandleCancel, HandleTaskStarted, HandleAudioChunk, HandleTaskFinished,
                  BatchHandled, AllEmitted, EvolveRequests, board
    <2> QED
      BY ZenonT(60), <2>1
  <1>2. CASE HandleLocalComplete \/ HandleLocalFailed
    <2>1. pool' = pool
      BY ZenonT(60), <1>2 DEF HandleLocalComplete, HandleLocalFailed, LocalDone
    <2> QED
      BY ZenonT(60), <2>1
  <1>5. CASE HandleConnected
    <2>1. \E id : pool' = Touch(pool, id, "Ready", now)
      BY ZenonT(60), <1>5 DEF HandleConnected, MarkReady
    <2> QED
      BY SMT, SMTT(60), <1>a, <2>1, TouchFields
  <1>6. CASE HandleTaskFailed \/ (\E r \in Rids : EmitCompleted(r))
    <2>1. PICK id, x : pool' = SetSessionState(pool, id, x)
      BY ZenonT(60), <1>6 DEF HandleTaskFailed, MarkErrored, EmitCompleted, MarkDraining
    <2>2. /\ Ids(pool') = Ids(pool)
          /\ \A s \in Ids(pool) :
               pool'.sessions[s].current_request_id = pool.sessions[s].current_request_id
      BY SMT, SMTT(60), <1>a, <2>1, SetSessionFields
    <2> QED
      BY ZenonT(60), <2>2
  <1>7. CASE HandleDisconnected \/ (\E id \in Ids(pool) : EvolveCloses(id))
    <2>1. PICK id : pool' = MarkClosed(pool, id)
      BY <1>7 DEF HandleDisconnected, EvolveCloses
    <2>2. /\ Ids(pool') = Ids(pool) \ {id}
          /\ \A s \in Ids(pool) \ {id} : pool'.sessions[s] = pool.sessions[s]
      BY <2>1, CloseFields
    <2> QED
      BY ZenonT(60), <2>2
  <1> QED
    BY ZenonT(60), <1>1, <1>2, <1>5, <1>6, <1>7 DEF Tick, Binds

\* A pooled session that works for a stream request: the request has no
\* message left to be handled, and its record, if any, names the session.
Backlinked ==
  \A s \in Ids(pool) :
    LET r == pool.sessions[s].current_request_id IN
    r \in StreamRids =>
      Queued(TokensOf(r)) = 0 /\ (r \in DOMAIN pending => pending[r].session_id = s)

BoundRids == {pool.sessions[s].current_request_id : s \in Ids(pool)}

(* A request message of a stream request is handled once, so the session   *)
(* it is bound to is the only one that works for it.                       *)
LEMMA TickBinds ==
  ASSUME RestOK, PoolInv, WorkOK, Backlinked, \A r \in StreamRids : Owed(r) <= 1,
         Tick \/ RunLocalJob \/ EndIteration
  PROVE  Backlinked' /\ BoundRids' \subseteq BoundRids \cup {r \in Rids : Owed(r) >= 1}
  <1>a. /\ \A s \in Ids(pool) : pool.sessions[s].current_request_id \in Rids \ LocalRids
        /\ QueuesOK
    <2>1. pool.sessions \in [Ids(pool) -> SessionRecords(Rids \ LocalRids)]
      BY ZenonT(60) DEF WorkOK, UpstreamOK, PoolValue
    <2> QED
      BY <2>1 DEF SessionRecords, WorkOK
  <1>1. CASE ~Binds
    <2>1. \A s \in Ids(pool') :
           /\ s \in Ids(pool)
           /\ pool'.sessions[s].current_request_id = pool.sessions[s].current_request_id
      <3>1. CASE Tick
        BY ZenonT(60), <1>1, <3>1, SessionRequestsKept
      <3>2. CASE RunLocalJob \/ EndIteration
        BY <3>2 DEF RunLocalJob, EndIteration, board
      <3> QED
        BY ZenonT(60), <3>1, <3>2
    <2>2. \A r \in DOMAIN pending' \ LocalRids :
           r \in DOMAIN pending /\ pending'[r].session_id = pending[r].session_id
      <3>1. CASE Tick
        BY ZenonT(60), <1>1, <3>1, SessionIdsKept
      <3>2. CASE RunLocalJob \/ EndIteration
        BY ZenonT(60), <3>2 DEF RunLocalJob, EndIteration, board
      <3> QED
        BY ZenonT(60), <3>1, <3>2
    <2>3. \A r \in Rids \ LocalRids : Queued(TokensOf(r)) = 0 => Queued(TokensOf(r))' = 0
      BY <1>a, QueuedZero
    <2>4. Backlinked'
      BY ZenonT(60), <1>a, <2>1, <2>2, <2>3 DEF Backlinked
    <2>5. BoundRids' \subseteq BoundRids
      BY ZenonT(60), <2>1 DEF BoundRids
    <2> QED
      BY ZenonT(60), <2>4, <2>5
  <1>2. CASE Binds
    <2>2. Handling("TtsRequest") /\ Head(batch).rid \in Rids
      BY SMT, SMTT(60), <1>2, BindsFields, HandlingTypes, MessageFields
    <2>r. PICK r \in Rids : r = Head(batch).rid
      BY <2>2
    <2>1. PICK sid \in Nat :
            /\ sid \in Ids(pool') /\ Ids(pool') \subseteq Ids(pool) \cup {sid}
            /\ pending' = PendingAdd(pending, r, PendingRequest(sid, "AwaitingSession"))
            /\ pool'.sessions[sid].current_request_id = r
            /\ \A s \in Ids(pool) \ {sid} :
                 pool'.sessions[s].current_request_id = pool.sessions[s].current_request_id
      BY <1>2, <2>r, BindsFields
    <2>3. Head(batch) = TtsRequestMsg(r)
      <3>1. Head(batch) \in Messages /\ Head(batch).type = "TtsRequest"
        BY <2>2, HandlingTypes
      <3> QED
        BY <2>r, <3>1 DEF Messages, TtsRequestMsg
    <2>4. Head(batch) \in TokensOf(r)
      BY <2>3 DEF TokensOf
    <2> DEFINE q  == Queued(TokensOf(r))
               q2 == Queued(TokensOf(r))'
    <2>5. q \in Nat /\ q2 \in Nat /\ q = q2 + 1
      <3>1. \A m \in TokensOf(r) : m.type # "TtsResponse"
        BY ZenonT(60), <1>a, <2>2, OwedParts
      <3>2. /\ q \in Nat
            /\ \A type : Handling(type) =>
                 q = q2 + (IF Head(batch) \in TokensOf(r) THEN 1 ELSE 0) /\ q2 \in Nat
        BY ZenonT(60), <1>a, <3>1, QueuedCounts
      <3> HIDE DEF q, q2
      <3> QED
        BY ZenonT(60), <2>2, <2>4, <3>2
    <2>6. q <= Owed(r) /\ Owed(r) \in Nat
      <3> DEFINE o == Count(Jobs, {r})
                 f == Count(Writes, FinalsTo(r))
                 d == IF r \in Waiting THEN 1 ELSE 0
      <3>1. q \in Nat /\ o \in Nat /\ f \in Nat /\ Owed(r) \in Nat
        BY ZenonT(60), <1>a, <2>2, OwedParts
      <3>2. Owed(r) = q + o + f + d /\ d \in Nat
        BY DEF Owed
      <3> HIDE DEF q, o, f, d
      <3> QED
        BY SMT, SMTT(60), <3>1, <3>2
    <2>7. Owed(r) >= 1
      <3> HIDE DEF q, q2
      <3> QED
        BY SMT, SMTT(60), <2>5, <2>6
    <2>8. r \in StreamRids => q2 = 0
      <3>1. r \in StreamRids => Owed(r) <= 1
        BY ZenonT(60)
      <3> HIDE DEF q, q2
      <3> QED
        BY SMT, SMTT(60), <2>5, <2>6, <3>1
    <2>9. \A s \in Ids(pool) : pool.sessions[s].current_request_id = r => r \notin StreamRids
      <3>1. q # 0
        BY SMT, SMTT(60), <2>5
      <3> QED
        BY ZenonT(60), <3>1 DEF Backlinked
    <2>10. \A x \in Rids \ LocalRids : Queued(TokensOf(x)) = 0 => Queued(TokensOf(x))' = 0
      BY ZenonT(60), <1>a, QueuedZero
    <2>11. /\ DOMAIN pending' = DOMAIN pending \cup {r}
           /\ pending'[r].session_id = sid
           /\ \A x \in DOMAIN pending : x # r => pending'[x] = pending[x]
      BY ZenonT(60), <2>1 DEF PendingAdd, PendingRequest
    <2>12. Backlinked'
      <3> SUFFICES ASSUME NEW s \in Ids(pool'), NEW x \in StreamRids,
                          pool'.sessions[s].current_request_id = x
                   PROVE  /\ Queued(TokensOf(x))' = 0
                          /\ x \in DOMAIN pending' => pending'[x].session_id = s
        BY ZenonT(60) DEF Backlinked
      <3>1. CASE s = sid
        BY ZenonT(60), <3>1, <2>1, <2>8, <2>11
      <3>2. CASE s # sid
        <4>1. s \in Ids(pool) /\ pool.sessions[s].current_request_id = x
          BY ZenonT(60), <3>2, <2>1
        <4>2. x # r /\ x \in Rids \ LocalRids
          BY ZenonT(60), <1>a, <4>1, <2>9
        <4>3. Queued(TokensOf(x)) = 0 /\ (x \in DOMAIN pending => pending[x].session_id = s)
          BY ZenonT(60), <4>1, <4>2 DEF Backlinked
        <4>4. Queued(TokensOf(x))' = 0
          BY ZenonT(60), <2>10, <4>2, <4>3
        <4>5. x \in DOMAIN pending' => pending'[x].session_id = s
          BY ZenonT(60), <2>11, <4>2, <4>3
        <4> QED
          BY ZenonT(60), <4>4, <4>5
      <3> QED
        BY ZenonT(60), <3>1, <3>2
    <2>13. BoundRids' \subseteq BoundRids \cup {r}
      BY ZenonT(60), <2>1 DEF BoundRids
    <2> QED
      BY ZenonT(60), <2>2, <2>7, <2>12, <2>13
  <1> QED
    BY ZenonT(60), <1>1, <1>2
=============================================================================
