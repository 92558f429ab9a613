--------------------------- MODULE PipelineProofs ---------------------------
(***************************************************************************)
(* What the pipeline of UpstreamPipeline owes its clients, and how its     *)
(* sessions live, for every number of requests, pool size, timeout and     *)
(* watermark.                                                              *)
(***************************************************************************)
EXTENDS SessionProofs, AccountingProofs

-----------------------------------------------------------------------------
(* The pool and the links, while nobody cancels.                           *)

Wanted == {m \in Messages : m.type # "Cancel"}
NoCancels == request_channel \in Seq(Wanted) /\ batch \in Seq(Wanted)

(* Without a client that cancels, nothing in the queues does.              *)
LEMMA NextUncancelled ==
  ASSUME IInv, QueuesOK, NoCancels, CancelRids = {}, [Next]_vars
  PROVE  NoCancels' /\ ~HandleCancel
  <1>a. RestOK /\ PipeOK /\ WsSide \subseteq Wanted
    BY ZenonT(60), IInvParts DEF WsSide, Wanted, Messages
  <1>b. request_channel \in Seq(Wanted) /\ batch \in Seq(Wanted) /\ ws_event_channel \in Seq(WsSide)
    BY DEF NoCancels, QueuesOK
  <1>c. ws_event_channel \in Seq(Wanted) /\ <<>> \in Seq(Wanted)
    BY SMT, SMTT(60), <1>a, <1>b
  <1>d. \A type : Handling(type) => /\ batch # <<>> /\ Head(batch) \in Wanted /\ Head(batch).type = type
                                   /\ batch' = Tail(batch) /\ request_channel' = request_channel
    BY SMT, SMTT(60), <1>b DEF Handling, channels
  <1>0. ~HandleCancel
    BY ZenonT(60), <1>d DEF HandleCancel, Wanted
  <1>1. CASE Tick
    <2>1. CASE DrainRequests
      BY ZenonT(60), <1>0, <1>b, <1>c, <2>1 DEF DrainRequests, NoCancels
    <2>2. CASE DrainWsEvents
      BY SMT, SMTT(60), <1>0, <1>b, <1>c, <2>2 DEF DrainWsEvents, NoCancels
    <2>3. CASE \E type : Handling(type)
      <3>1. batch # <<>> /\ batch' = Tail(batch) /\ request_channel' = request_channel
        BY ZenonT(60), <1>d, <2>3
      <3> QED
        BY SMT, SMTT(60), <1>0, <1>b, <3>1 DEF NoCancels
    <2>4. CASE UNCHANGED <<batch, request_channel>>
      BY ZenonT(60), <1>0, <1>b, <2>4 DEF NoCancels
    <2>5. ASSUME Discards \/ (\E r \in Rids : Takes(r)) \/ (\E w : Answers(w)) PROVE \E type : Handling(type)
      BY ZenonT(60), <2>5 DEF Discards, Takes, Answers
    <2>6. ASSUME (\E w : Emits(w)) \/ Pauses \/ Drops PROVE UNCHANGED <<batch, request_channel>>
      BY ZenonT(60), <2>6 DEF Emits, Pauses, Drops, channels
    <2> QED
      BY ZenonT(60), <1>1, <1>0, <1>a, <2>1, <2>2, <2>3, <2>4, <2>5, <2>6, TickFlow
  <1>2. CASE RunLocalJob
    <2>1. Head(cs.local_jobs) \in Rids
      BY SMT, SMTT(60), <1>2, <1>a DEF RunLocalJob, RestOK, ChangeSets
    <2>2. PICK m : /\ m \in {LocalSynthCompleteMsg(Head(cs.local_jobs)), LocalSynthFailedMsg(Head(cs.local_jobs))}
                   /\ request_channel' = Append(request_channel, m)
      BY ZenonT(60), <1>2 DEF RunLocalJob
    <2>3. m \in Wanted /\ batch' = batch
      BY SMT, SMTT(60), <1>2, <2>1, <2>2 DEF RunLocalJob, LocalSynthCompleteMsg, LocalSynthFailedMsg, Wanted, Messages
    <2> QED
      BY SMT, SMTT(60), <1>0, <1>b, <2>2, <2>3 DEF NoCancels
  <1>3. ASSUME NEW r \in Rids, Submit(r) PROVE NoCancels'
    <2>1. TtsRequestMsg(r) \in Wanted
      BY ZenonT(60) DEF TtsRequestMsg, Wanted, Messages
    <2> QED
      BY SMT, SMTT(60), <1>3, <1>b, <2>1 DEF Submit, NoCancels
  <1>4. CASE \/ EndIteration \/ SendFrame \/ ExecuteChangeSet \/ AdvanceClock \/ UNCHANGED vars
             \/ \E r \in Rids : HarnessBind(r)
    <2>1. UNCHANGED <<batch, request_channel>>
      BY ZenonT(60), <1>4 DEF EndIteration, SendFrame, ExecuteChangeSet, AdvanceClock, HarnessBind, vars, hbVars, channels
    <2> QED
      BY ZenonT(60), <1>0, <1>b, <2>1 DEF NoCancels
  <1>5. ASSUME NEW r \in Rids, Cancel(r) PROVE FALSE
    BY ZenonT(60), <1>5 DEF Cancel
  <1>6. ASSUME NEW s \in DOMAIN link,
               \/ Connects(s) \/ StartsTask(s) \/ Speaks(s) \/ FinishesTask(s)
               \/ FailsTask(s) \/ Disconnects(s)
        PROVE  NoCancels'
    <2>1. UNCHANGED <<batch, request_channel>>
      BY ZenonT(60), <1>6, <1>a, LinkReports DEF Reports, OnLink
    <2> QED
      BY ZenonT(60), <1>b, <2>1 DEF NoCancels
  <1> QED
    BY ZenonT(60), <1>0, <1>1, <1>2, <1>3, <1>4, <1>5, <1>6 DEF Next, HeartbeatStep

\* Links that have not failed.
Sound == {s \in DOMAIN link : link[s].stage # "failed"}

Mirrored == MirroredIn(Sound, DOMAIN link) /\ FailedLost

(* The inductive step.                                                     *)
LEMMA NextMirrored ==
  ASSUME IInv, QueuesOK, Reported, Wired, Alive, Mirrored, ~HandleCancel, [Next]_vars
  PROVE  Mirrored'
  <1>a. RestOK /\ PoolInv /\ PipeOK /\ cs \in ChangeSets
    BY ZenonT(60), IInvParts DEF RestOK
  <1>m. /\ Ids(pool) \subseteq Starting \cup Sound \cup Ended \cup Errored(pool)
        /\ DOMAIN link \cup Starting \subseteq Ids(pool) \cup Closing
        /\ Closing \cap Ids(pool) = {}
        /\ Gone \cap DOMAIN link = {}
        /\ phase \notin {"evolve", "dispatch"} => Closing = {}
        /\ phase \in {"jobs", "idle"} => Frames = <<>>
    BY ZenonT(60) DEF Mirrored, MirroredIn
  <1>b. ASSUME UNCHANGED <<pending, pool>> PROVE FailedLost'
    BY ZenonT(60), <1>b DEF Mirrored, FailedLost
  <1>c. ASSUME UNCHANGED <<batch, ws_event_channel>> PROVE Ended' = Ended /\ Gone' = Gone
    BY ZenonT(60), <1>c DEF Ended, Gone, Said, Events
  <1>d. ASSUME UNCHANGED <<batch, ws_event_channel, pool, link>>, FailedLost',
               \/ phase' = phase /\ Closing' = Closing /\ Frames' = Frames
               \/ /\ phase' \in {"jobs", "idle"} /\ Closing' = {} /\ Frames' = <<>>
                  /\ Closing = {} /\ Frames = <<>>
        PROVE  Mirrored'
    <2>1. Starting' = Starting /\ Closing' = Closing
      <3>1. Frames' = Frames /\ Closing' = Closing
        BY ZenonT(60), <1>d
      <3> QED
        BY ZenonT(60), <3>1 DEF Starting
    <2>2. Ended' = Ended /\ Gone' = Gone /\ Sound' = Sound /\ DOMAIN link' = DOMAIN link /\ Ids(pool') = Ids(pool)
          /\ Errored(pool') = Errored(pool)
      BY ZenonT(60), <1>c, <1>d DEF Sound
    <2>3. /\ phase' \notin {"evolve", "dispatch"} => Closing' = {}
          /\ phase' \in {"jobs", "idle"} => Frames' = <<>>
      BY ZenonT(60), <1>d, <1>m
    <2> QED
      BY ZenonT(60), <1>d, <1>m, <2>1, <2>2, <2>3 DEF Mirrored, MirroredIn
  <1>1. CASE Tick /\ UNCHANGED pipeVars
    <2>1. PICK D, L, S : D = Dials /\ L = DOMAIN link /\ S = Sound
      BY ZenonT(60)
    <2>2. DOMAIN link' = L /\ Sound' = S
      BY ZenonT(60), <1>1, <2>1 DEF pipeVars, Sound
    <2>3. WiredTo(D, L) /\ Lives(D, L) /\ MirroredIn(S, L) /\ FailedLost
      BY ZenonT(60), <2>1 DEF Wired, Alive, Mirrored
    <2>4. MirroredIn(S, L)' /\ FailedLost'
      BY ZenonT(60), <1>1, <1>a, <2>3, TickMirrors
    <2> QED
      BY ZenonT(60), <2>2, <2>4 DEF Mirrored, MirroredIn
  <1>2. CASE (RunLocalJob \/ EndIteration) /\ UNCHANGED pipeVars
    <2>0. UNCHANGED <<batch, ws_event_channel, pool, link, pending>> /\ phase = "jobs" /\ phase' \in {"jobs", "idle"}
      BY ZenonT(60), <1>2 DEF RunLocalJob, EndIteration, pipeVars, channels, board
    <2>1. CASE RunLocalJob
      <3>1. Frames' = Frames /\ cs'.close_sessions = cs.close_sessions
        BY ZenonT(60), <1>a, <2>1 DEF RunLocalJob, ChangeSets, Frames
      <3>2. Closing' = Closing
        BY ZenonT(60), <3>1 DEF Closing
      <3> QED
        BY ZenonT(60), <1>b, <1>d, <1>m, <2>0, <3>1, <3>2
    <2>2. CASE EndIteration
      <3>1. Frames' = <<>> /\ cs'.close_sessions = {}
        BY ZenonT(60), <2>2 DEF EndIteration, EmptyChangeSet, Frames
      <3>2. Closing' = {}
        BY ZenonT(60), <3>1 DEF Closing
      <3>3. Closing = {} /\ Frames = <<>>
        BY ZenonT(60), <1>m, <2>0
      <3> QED
        BY ZenonT(60), <1>b, <1>d, <2>0, <3>1, <3>2, <3>3
    <2> QED
      BY ZenonT(60), <1>2, <2>1, <2>2
  <1>3. CASE SendFrame
    <2>1. /\ UNCHANGED <<Events, next_sid, pool, pending, phase>>
          /\ Starting' \cup DOMAIN link' = Starting \cup DOMAIN link
          /\ DOMAIN link \subseteq DOMAIN link' /\ \A s \in DOMAIN link : link'[s].stage = link[s].stage
          /\ \A s \in DOMAIN link' \ DOMAIN link : link'[s].stage = "dialing"
      BY ZenonT(60), <1>3, <1>a, SendLinks
    <2>2. Said' = Said /\ phase = "dispatch" /\ phase' = "dispatch"
      BY ZenonT(60), <1>3, <2>1 DEF Said, SendFrame
    <2>3. Ended' = Ended /\ Gone' = Gone
      BY ZenonT(60), <2>2 DEF Ended, Gone
    <2>4. Closing' = Closing
      <3>1. cs'.close_sessions = cs.close_sessions
        BY ZenonT(60), <1>a, <1>3 DEF SendFrame, ChangeSets
      <3> QED
        BY ZenonT(60), <3>1 DEF Closing
    <2>5. Sound \subseteq Sound' /\ Starting \subseteq Starting' \cup Sound'
      BY ZenonT(60), <2>1 DEF Sound, Wired, WiredTo
    <2>6. \A s \in DOMAIN link' \ DOMAIN link : s \in Starting
      BY ZenonT(60), <2>1
    <2>7. Gone \cap DOMAIN link' = {}
      <3>1. Gone \subseteq Spoken
        BY ZenonT(60) DEF Gone, Spoken
      <3> QED
        BY ZenonT(60), <1>m, <2>6, <3>1 DEF Wired, WiredTo
    <2>8. Ids(pool') = Ids(pool) /\ Errored(pool') = Errored(pool)
      BY ZenonT(60), <2>1
    <2>9. MirroredIn(Sound, DOMAIN link)'
      BY ZenonT(60), <1>m, <2>1, <2>2, <2>3, <2>4, <2>5, <2>7, <2>8 DEF MirroredIn
    <2> QED
      BY ZenonT(60), <1>b, <2>1, <2>9 DEF Mirrored
  <1>4. CASE ExecuteChangeSet
    <2>1. /\ UNCHANGED <<batch, ws_event_channel, pool, pending>> /\ Frames = <<>> /\ Frames' = <<>>
          /\ cs'.close_sessions = {} /\ phase' = "jobs"
          /\ DOMAIN link' = DOMAIN link \ Closing /\ \A s \in DOMAIN link' : link'[s] = link[s]
      BY ZenonT(60), <1>4 DEF ExecuteChangeSet, CloseLinks, EmptyChangeSet, Frames, channels, board, Closing
    <2>2. Starting' = {} /\ Starting = {} /\ Closing' = {}
      <3>1. Range(<<>>) = {}
        BY DEF Range
      <3> QED
        BY ZenonT(60), <2>1, <3>1 DEF Starting, Closing
    <2>3. Ended' = Ended /\ Gone' = Gone
      BY ZenonT(60), <1>c, <2>1
    <2>4. Sound \ Closing \subseteq Sound'
      BY ZenonT(60), <2>1 DEF Sound
    <2>5. Ids(pool') = Ids(pool) /\ Errored(pool') = Errored(pool)
      BY ZenonT(60), <2>1
    <2>6. /\ Ids(pool') \subseteq Starting' \cup Sound' \cup Ended' \cup Errored(pool')
          /\ DOMAIN link' \cup Starting' \subseteq Ids(pool') \cup Closing'
          /\ Closing' \cap Ids(pool') = {} /\ Gone' \cap DOMAIN link' = {}
      BY ZenonT(60), <1>m, <2>1, <2>2, <2>3, <2>4, <2>5
    <2> QED
      BY ZenonT(60), <1>b, <2>1, <2>2, <2>6 DEF Mirrored, MirroredIn
  <1>5. CASE AdvanceClock \/ (\E r \in Rids : Submit(r) \/ Cancel(r)) \/ UNCHANGED vars
    <2>1. UNCHANGED <<batch, ws_event_channel, phase, link, cs, pool, pending>>
      BY ZenonT(60), <1>5 DEF AdvanceClock, Submit, Cancel, vars, hbVars, pipeVars, board, channels
    <2>2. Closing' = Closing /\ Frames' = Frames
      BY ZenonT(60), <2>1 DEF Closing, Frames
    <2> QED
      BY ZenonT(60), <1>b, <1>d, <2>1, <2>2
  <1>6. ASSUME NEW x \in Rids, HarnessBind(x) PROVE Mirrored'
    <2>1. UNCHANGED <<batch, ws_event_channel, phase, link, cs, pool>>
      BY ZenonT(60), <1>6 DEF HarnessBind, pipeVars, channels
    <2>2. Closing' = Closing /\ Frames' = Frames
      BY ZenonT(60), <2>1 DEF Closing, Frames
    <2>3. pending[x] \in PendingRequests(Audio) /\ x \in DOMAIN pending
      BY ZenonT(60), <1>6, <1>a DEF HarnessBind, RestOK
    <2>4. pending' = [pending EXCEPT ![x] = [pending[x] EXCEPT !.state = "Streaming"]]
      BY ZenonT(60), <1>6, <2>3 DEF HarnessBind, BindSession, PendingRequests
    <2>5. [pending[x] EXCEPT !.state = "Streaming"].state = "Streaming"
      BY ZenonT(60), <2>3 DEF PendingRequests
    <2>6. /\ DOMAIN pending' = DOMAIN pending /\ pending'[x].state = "Streaming"
          /\ \A r \in DOMAIN pending : r # x => pending'[r] = pending[r]
      BY ZenonT(60), <2>3, <2>4, <2>5
    <2>7. FailedLost'
      BY ZenonT(60), <2>1, <2>6 DEF Mirrored, FailedLost
    <2> QED
      BY ZenonT(60), <1>d, <2>1, <2>2, <2>7
  <1>7. ASSUME NEW s \in DOMAIN link,
               \/ Connects(s) \/ StartsTask(s) \/ Speaks(s) \/ FinishesTask(s)
               \/ FailsTask(s) \/ Disconnects(s)
        PROVE  Mirrored'
    <2>1. PICK m : Reports(s, m)
      BY <1>7, <1>a, LinkReports
    <2>2. UNCHANGED <<cs, pool, pending, phase>> /\ m.session = s
      BY ZenonT(60), <2>1 DEF Reports, OnLink, board
    <2>3. /\ DOMAIN link' \subseteq DOMAIN link /\ \A x \in DOMAIN link \ {s} : x \in DOMAIN link' /\ link'[x] = link[x]
          /\ m.kind = "Disconnected" => s \notin DOMAIN link'
          /\ m.kind \in {"TaskFailed", "Disconnected"} \/ (s \in DOMAIN link' /\ link'[s].stage # "failed")
          /\ m.kind = "Connected" => link[s].stage = "dialing"
      BY ZenonT(60), <2>1 DEF Reports
    <2>4. m.kind = "Connected" => s \notin Spoken
      BY ZenonT(60), <2>3 DEF Wired, WiredTo, Dials
    <2>5. Said' = Said \cup {m}
      BY ZenonT(60), <1>a, <2>1, <2>4, ReportSays DEF Wired, WiredTo
    <2>6. Starting' = Starting /\ Closing' = Closing /\ Frames' = Frames
      BY ZenonT(60), <2>2 DEF Starting, Frames, Closing
    <2>7. /\ Ended \subseteq Ended' /\ (m.kind \in {"TaskFailed", "Disconnected"} => s \in Ended')
          /\ Gone' = Gone \cup (IF m.kind = "Disconnected" THEN {s} ELSE {})
      BY ZenonT(60), <2>2, <2>5 DEF Ended, Gone
    <2>8. Sound \ {s} \subseteq Sound' /\ s \in Sound' \cup Ended'
      BY ZenonT(60), <2>3, <2>7 DEF Sound
    <2>9. Gone' \cap DOMAIN link' = {}
      BY ZenonT(60), <1>m, <2>3, <2>7
    <2>10. Ids(pool') = Ids(pool) /\ Errored(pool') = Errored(pool)
      BY ZenonT(60), <2>2
    <2>11. MirroredIn(Sound, DOMAIN link)'
      BY ZenonT(60), <1>m, <2>2, <2>3, <2>6, <2>7, <2>8, <2>9, <2>10 DEF MirroredIn
    <2> QED
      BY ZenonT(60), <1>b, <2>2, <2>11 DEF Mirrored
  <1> QED
    BY ZenonT(60), <1>1, <1>2, <1>3, <1>4, <1>5, <1>6, <1>7 DEF Next, HeartbeatStep

(* Between two ticks nothing is under way.                                 *)
LEMMA MirroredSettles ==
  ASSUME IInv, QueuesOK, Reported, Mirrored
  PROVE  PoolMirrorsLinks
  <1> SUFFICES ASSUME phase = "idle"
               PROVE  /\ \A s \in Ids(pool) :
                           \/ s \in DOMAIN link /\ link[s].stage # "failed"
                           \/ \E m \in Range(ws_event_channel) :
                                m.session = s /\ m.kind \in {"TaskFailed", "Disconnected"}
                      /\ DOMAIN link \subseteq Ids(pool)
    BY ZenonT(60) DEF PoolMirrorsLinks
  <1>1. Starting = {} /\ Closing = {} /\ batch = <<>>
    <2>1. Range(<<>>) = {}
      BY DEF Range
    <2> QED
      BY ZenonT(60), <2>1 DEF Mirrored, MirroredIn, Starting, QueuesOK
  <1>2. Errored(pool) = {}
    BY ZenonT(60) DEF Reported, Quiet, Errored
  <1>3. Said \subseteq Range(ws_event_channel)
    <2>1. ws_event_channel \in Seq(WsSide)
      BY DEF QueuesOK
    <2>2. Events = ws_event_channel
      BY SMT, SMTT(60), <1>1, <2>1 DEF Events
    <2> QED
      BY ZenonT(60), <2>2 DEF Said
  <1> QED
    BY ZenonT(60), <1>1, <1>2, <1>3 DEF Mirrored, MirroredIn, Sound, Ended

-----------------------------------------------------------------------------
(* Every unit of inflight and every final write is accounted for.          *)

\* The counter covers the load; what a request has got and may still get is
\* no more than what its client has sent.
Booked ==
  /\ WorkOK
  /\ Load <= inflight /\ inflight <= HighWatermark
  /\ \A r \in Rids : Owed(r) + finals[r] <= sent[r]
  /\ \A r \in StreamRids : sent[r] <= 1

(* The final writes of the ChangeSet, counted both ways.                   *)
LEMMA FinalWritesAre ==
  ASSUME RestOK, NEW r \in Rids
  PROVE  FinalWrites(r) = Count(Writes, FinalsTo(r)) /\ FinalWrites(r) \in Nat
  <1>1. Writes \in Seq(ClientWrites)
    BY DEF RestOK, ChangeSets, Writes
  <1>2. {i \in DOMAIN Writes : Writes[i].rid = r /\ Writes[i].is_final}
        = {i \in DOMAIN Writes : Writes[i] \in FinalsTo(r)}
    BY SMT, SMTT(60), <1>1 DEF FinalsTo
  <1>3. FinalWrites(r) = Count(Writes, FinalsTo(r))
    BY ZenonT(60), <1>2 DEF FinalWrites, Quantify, Count, Writes
  <1> QED
    BY ZenonT(60), <1>1, <1>3, CountType

(* The books at the start.                                                 *)
LEMMA InitBooked == Init => Booked
  <1> SUFFICES ASSUME Init PROVE Booked
    OBVIOUS
  <1>1. WorkOK /\ Load = 0 /\ \A r \in Rids : Owed(r) = 0
    BY ZenonT(60), InitWork DEF Init
  <1>2. inflight = 0 /\ 0 <= HighWatermark
    BY SMT, SMTT(60), HeartbeatAssumption DEF Init, HbInit
  <1> QED
    BY SMT, SMTT(60), <1>1, <1>2 DEF Init, Booked, Rids

(* The tick and the local jobs.                                            *)
LEMMA HeartbeatBooked ==
  ASSUME RestOK, RestOK', PoolInv, PipeOK, Booked, HeartbeatStep
  PROVE  Booked'
  <1>a. Tick \/ RunLocalJob \/ EndIteration
    BY DEF HeartbeatStep
  <1>b. sent' = sent /\ finals' = finals
    BY DEF HeartbeatStep, pipeVars
  <1>c. WorkOK /\ Load <= inflight /\ inflight <= HighWatermark
    BY DEF Booked
  <1>d. inflight \in Nat /\ HighWatermark \in Nat /\ Modulus \in Nat /\ HighWatermark < Modulus
    BY SMT, SMTT(60), HeartbeatAssumption DEF RestOK
  <1>1. WorkOK'
    BY ZenonT(60), <1>a, <1>c, WorkKept
  <1>2. Load' <= inflight' /\ inflight' <= HighWatermark
    <2> DEFINE l  == Load
               l2 == Load'
    <2>1. /\ l \in Nat
          /\ \/ inflight' = inflight /\ l2 = l
             \/ inflight' = inflight /\ l2 <= l
             \/ Admit /\ IncInflight /\ l2 = l + 1
             \/ Admit /\ IncInflight /\ l2 = l
             \/ DecInflight /\ l >= 1 /\ l2 = l - 1
      BY ZenonT(60), <1>a, <1>c, TickLoad
    <2>2. l2 \in Int
      <3>1. Load' \in Nat
        BY ZenonT(60), <1>1, WorkTypesNext
      <3> QED
        BY SMT, SMTT(60), <3>1
    <2>3. l <= inflight
      BY ZenonT(60), <1>c
    <2> HIDE DEF l, l2
    <2>4. CASE inflight' = inflight /\ l2 <= l
      BY SMT, SMTT(60), <1>c, <1>d, <2>1, <2>2, <2>3, <2>4 DEF l2
    <2>5. CASE Admit /\ IncInflight /\ l2 \in {l, l + 1}
      <3>1. inflight + 1 \in 0 .. Modulus - 1 /\ inflight + 1 <= HighWatermark
        BY SMT, SMTT(60), <1>d, <2>5 DEF Admit
      <3>2. inflight' = inflight + 1
        BY ZenonT(60), <2>5, <3>1, ModSmall DEF IncInflight
      <3> QED
        BY SMT, SMTT(60), <1>d, <2>1, <2>2, <2>3, <2>5, <3>1, <3>2 DEF l2
    <2>6. CASE DecInflight /\ l >= 1 /\ l2 = l - 1
      <3>1. inflight - 1 \in 0 .. Modulus - 1
        BY SMT, SMTT(60), <1>c, <1>d, <2>1, <2>3, <2>6
      <3>2. inflight' = inflight - 1
        BY ZenonT(60), <2>6, <3>1, ModSmall DEF DecInflight
      <3> QED
        BY SMT, SMTT(60), <1>c, <1>d, <2>1, <2>2, <2>3, <2>6, <3>2 DEF l2
    <2> QED
      BY SMT, SMTT(60), <2>1, <2>4, <2>5, <2>6
  <1>3. ASSUME NEW r \in Rids PROVE Owed(r)' + finals'[r] <= sent'[r]
    <2> DEFINE o  == Owed(r)
               o2 == Owed(r)'
    <2>1. o2 <= o
      BY ZenonT(60), <1>a, <1>c, TickOwes
    <2>2. o + finals[r] <= sent[r]
      BY DEF Booked
    <2>3. finals[r] \in Nat /\ sent[r] \in Nat
      BY DEF PipeOK
    <2>4. o \in Nat /\ o2 \in Nat
      <3>1. o \in Nat
        BY ZenonT(60), <1>c, OwedParts DEF WorkOK
      <3>3. Owed(r)' \in Nat
        BY ZenonT(60), <1>1, WorkTypesNext
      <3> QED
        BY ZenonT(60), <3>1, <3>3
    <2> HIDE DEF o, o2
    <2>5. o2 + finals[r] <= sent[r]
      BY SMT, SMTT(60), <2>1, <2>2, <2>3, <2>4
    <2> QED
      BY ZenonT(60), <1>b, <2>5 DEF o2
  <1>4. \A r \in StreamRids : sent'[r] <= 1
    BY ZenonT(60), <1>b DEF Booked
  <1> QED
    BY ZenonT(60), <1>1, <1>2, <1>3, <1>4 DEF Booked

(* Steps that touch neither requests nor the counter.                      *)
LEMMA BesideBooked ==
  ASSUME RestOK, PipeOK, Booked,
         UNCHANGED <<request_channel, batch, pool, backend, inflight, Jobs, Writes, sent, finals>>,
         ws_event_channel' \in Seq(WsSide),
         phase' = phase \/ batch = <<>>,
         DOMAIN pending' = DOMAIN pending,
         \A r \in DOMAIN pending : pending'[r].final_received = pending[r].final_received
  PROVE  Booked'
  <1>1. WorkOK' /\ Load' = Load /\ \A r \in Rids : Owed(r)' = Owed(r)
    BY ZenonT(60), KeepWork DEF Booked
  <1>2. Load' <= inflight' /\ inflight' <= HighWatermark
    BY ZenonT(60), <1>1 DEF Booked
  <1>3. \A r \in Rids : Owed(r)' + finals'[r] <= sent'[r]
    BY ZenonT(60), <1>1 DEF Booked
  <1>4. \A r \in StreamRids : sent'[r] <= 1
    BY ZenonT(60) DEF Booked
  <1> QED
    BY ZenonT(60), <1>1, <1>2, <1>3, <1>4 DEF Booked

(* Execution of the ChangeSet: what it writes to the clients is no longer  *)
(* owed.                                                                   *)
LEMMA ExecuteBooked ==
  ASSUME RestOK, RestOK', PipeOK, Booked, SendFrame \/ ExecuteChangeSet
  PROVE  Booked'
  <1>a. WorkOK /\ ws_event_channel \in Seq(WsSide) /\ cs \in ChangeSets
    BY DEF Booked, WorkOK, QueuesOK, RestOK
  <1>1. CASE SendFrame
    <2>1. Jobs' = Jobs /\ Writes' = Writes
      BY ZenonT(60), <1>1, <1>a DEF SendFrame, ChangeSets, Jobs, Writes
    <2>2. /\ UNCHANGED <<phase, request_channel, batch, pool, pending, backend, inflight, sent, finals>>
          /\ ws_event_channel' \in Seq(WsSide)
      BY ZenonT(60), <1>1, <1>a DEF SendFrame, channels, board
    <2> QED
      BY ZenonT(60), <2>1, <2>2, BesideBooked
  <1>2. CASE ExecuteChangeSet
    <2>1. Jobs' = Jobs /\ Writes' = <<>>
      BY ZenonT(60), <1>2 DEF ExecuteChangeSet, EmptyChangeSet, Jobs, Writes
    <2>2. /\ UNCHANGED <<request_channel, batch, pool, pending, backend, inflight, sent>>
          /\ ws_event_channel' \in Seq(WsSide)
          /\ finals' = [r \in Rids |-> finals[r] + FinalWrites(r)]
      BY ZenonT(60), <1>2, <1>a DEF ExecuteChangeSet, channels, board
    <2>3. batch = <<>>
      BY ZenonT(60), <1>2, <1>a DEF ExecuteChangeSet, WorkOK, QueuesOK
    <2>4. \A r \in Rids : Count(Writes', FinalsTo(r)) = 0
      BY ZenonT(60), <2>1, CountEmpty
    <2>5. /\ WorkOK' /\ Load' = Load
          /\ \A r \in Rids : Count(Writes', FinalsTo(r)) \in Nat =>
               Owed(r)' + Count(Writes, FinalsTo(r)) = Owed(r) + Count(Writes', FinalsTo(r))
      BY ZenonT(60), <1>a, <2>1, <2>2, <2>3, KeepWork
    <2>6. ASSUME NEW r \in Rids PROVE Owed(r)' + finals'[r] <= sent'[r]
      <3> DEFINE o  == Owed(r)
                 o2 == Owed(r)'
                 f  == FinalWrites(r)
      <3>1. f = Count(Writes, FinalsTo(r)) /\ f \in Nat
        BY ZenonT(60), FinalWritesAre
      <3>a. Count(Writes', FinalsTo(r)) = 0 /\ Count(Writes', FinalsTo(r)) \in Nat
        BY SMT, SMTT(60), <2>4
      <3>b. o2 + Count(Writes, FinalsTo(r)) = o + Count(Writes', FinalsTo(r))
        BY ZenonT(60), <2>5, <3>a
      <3>2. o2 + f = o + 0
        BY ZenonT(60), <3>1, <3>a, <3>b
      <3>3. o + finals[r] <= sent[r]
        BY ZenonT(60) DEF Booked
      <3>4. finals[r] \in Nat /\ sent[r] \in Nat /\ finals'[r] = finals[r] + f
        BY ZenonT(60), <2>2 DEF PipeOK
      <3>5. o \in Nat
        BY ZenonT(60), <1>a, OwedParts DEF WorkOK
      <3>6. o2 \in Nat
        BY ZenonT(60), <2>5, WorkTypesNext
      <3> QED
        BY SMT, SMTT(60), <2>2, <3>1, <3>2, <3>3, <3>4, <3>5, <3>6
    <2>7. Load' <= inflight' /\ inflight' <= HighWatermark
      BY ZenonT(60), <2>2, <2>5 DEF Booked
    <2>8. \A r \in StreamRids : sent'[r] <= 1
      BY ZenonT(60), <2>2 DEF Booked
    <2> QED
      BY ZenonT(60), <2>5, <2>6, <2>7, <2>8 DEF Booked
  <1> QED
    BY ZenonT(60), <1>1, <1>2

(* Requests, cancellations, the harness and the clock.                     *)
LEMMA SenderBooked ==
  ASSUME RestOK, PipeOK, Booked,
         AdvanceClock \/ \E r \in Rids : Submit(r) \/ Cancel(r) \/ HarnessBind(r)
  PROVE  Booked'
  <1>a. WorkOK /\ ws_event_channel \in Seq(WsSide)
    BY DEF Booked, WorkOK, QueuesOK
  <1>1. CASE AdvanceClock
    <2>1. /\ UNCHANGED <<phase, request_channel, batch, pool, pending, backend, inflight, sent, finals>>
          /\ UNCHANGED <<Jobs, Writes>> /\ ws_event_channel' \in Seq(WsSide)
      BY ZenonT(60), <1>1, <1>a DEF AdvanceClock, channels, board, pipeVars, Jobs, Writes
    <2> QED
      BY ZenonT(60), <2>1, BesideBooked
  <1>2. ASSUME NEW x \in Rids, Submit(x) PROVE Booked'
    <2> DEFINE m == TtsRequestMsg(x)
    <2>1. /\ request_channel' = Append(request_channel, m)
          /\ UNCHANGED <<phase, ws_event_channel, batch, cs, pool, pending, backend, inflight, finals>>
          /\ sent' = [sent EXCEPT ![x] = @ + 1]
          /\ x \in StreamRids => sent[x] < 1
      BY ZenonT(60), <1>2 DEF Submit, board
    <2>2. /\ WorkOK' /\ Load' = Load
          /\ \A r \in Rids : Owed(r)' = Owed(r) + (IF m = TtsRequestMsg(r) THEN 1 ELSE 0)
      BY ZenonT(60), <1>a, <2>1, SendWork
    <2>3. ASSUME NEW r \in Rids PROVE Owed(r)' + finals'[r] <= sent'[r]
      <3> DEFINE o  == Owed(r)
                 o2 == Owed(r)'
      <3>1. o + finals[r] <= sent[r]
        BY ZenonT(60) DEF Booked
      <3>2. finals[r] \in Nat /\ sent[r] \in Nat /\ sent \in [Rids -> Nat]
        BY DEF PipeOK
      <3>3. o \in Nat
        BY ZenonT(60), <1>a, OwedParts DEF WorkOK
      <3>4. m = TtsRequestMsg(r) <=> r = x
        BY ZenonT(60) DEF TtsRequestMsg
      <3>5. o2 = o + (IF r = x THEN 1 ELSE 0)
        BY ZenonT(60), <2>2, <3>4
      <3> HIDE DEF o, o2
      <3>6. sent'[r] = sent[r] + (IF r = x THEN 1 ELSE 0)
        BY SMT, SMTT(60), <2>1, <3>2
      <3>7. o2 + finals[r] <= sent'[r]
        BY SMT, SMTT(60), <3>1, <3>2, <3>3, <3>5, <3>6
      <3> QED
        BY ZenonT(60), <2>1, <3>7 DEF o2
    <2>4. \A r \in StreamRids : sent'[r] <= 1
      <3>1. \A r \in Rids : sent[r] \in Nat
        BY ZenonT(60) DEF PipeOK
      <3>2. \A r \in StreamRids : sent[r] <= 1 /\ r \in Rids
        BY DEF Booked, Rids
      <3> QED
        BY SMT, SMTT(60), <2>1, <3>1, <3>2 DEF PipeOK
    <2>5. Load' <= inflight' /\ inflight' <= HighWatermark
      BY ZenonT(60), <2>1, <2>2 DEF Booked
    <2> QED
      BY ZenonT(60), <2>2, <2>3, <2>4, <2>5 DEF Booked
  <1>3. ASSUME NEW x \in Rids, Cancel(x) PROVE Booked'
    <2> DEFINE m == CancelRequestMsg(x)
    <2>1. /\ request_channel' = Append(request_channel, m)
          /\ UNCHANGED <<phase, ws_event_channel, batch, cs, pool, pending, backend, inflight,
                         sent, finals>>
      BY ZenonT(60), <1>3 DEF Cancel, board
    <2>2. /\ WorkOK' /\ Load' = Load
          /\ \A r \in Rids : Owed(r)' = Owed(r) + (IF m = TtsRequestMsg(r) THEN 1 ELSE 0)
      BY ZenonT(60), <1>a, <2>1, SendWork
    <2>3. \A r \in Rids : m # TtsRequestMsg(r)
      BY ZenonT(60) DEF CancelRequestMsg, TtsRequestMsg
    <2>4. \A r \in Rids : Owed(r) \in Nat
      BY ZenonT(60), <1>a, OwedParts DEF WorkOK
    <2>5. \A r \in Rids : Owed(r)' = Owed(r)
      BY SMT, SMTT(60), <2>2, <2>3, <2>4
    <2> QED
      BY ZenonT(60), <2>1, <2>2, <2>5 DEF Booked
  <1>4. ASSUME NEW x \in Rids, HarnessBind(x) PROVE Booked'
    <2>1. pending \in [DOMAIN pending -> PendingRequests(Audio)] /\ x \in DOMAIN pending
      BY ZenonT(60), <1>4 DEF HarnessBind, RestOK
    <2>2. pending' = [pending EXCEPT ![x] = [pending[x] EXCEPT !.state = "Streaming"]]
      BY ZenonT(60), <1>4, <2>1 DEF HarnessBind, BindSession, PendingRequests
    <2>3. pending[x] \in PendingRequests(Audio)
      BY <2>1
    <2>4. [pending[x] EXCEPT !.state = "Streaming"].final_received = pending[x].final_received
      BY ZenonT(60), <2>3 DEF PendingRequests
    <2>5. /\ DOMAIN pending' = DOMAIN pending
          /\ \A r \in DOMAIN pending : pending'[r].final_received = pending[r].final_received
      BY ZenonT(60), <2>2, <2>4
    <2>6. /\ UNCHANGED <<phase, request_channel, batch, pool, backend, inflight, sent, finals>>
          /\ UNCHANGED <<Jobs, Writes>> /\ ws_event_channel' \in Seq(WsSide)
      BY ZenonT(60), <1>4, <1>a DEF HarnessBind, channels, pipeVars, Jobs, Writes
    <2> QED
      BY ZenonT(60), <2>5, <2>6, BesideBooked
  <1> QED
    BY ZenonT(60), <1>1, <1>2, <1>3, <1>4

(* The far ends of the WebSockets.                                         *)
LEMMA LinkBooked ==
  ASSUME RestOK, PipeOK, Booked, NEW s \in DOMAIN link,
         \/ Connects(s) \/ StartsTask(s) \/ Speaks(s) \/ FinishesTask(s)
         \/ FailsTask(s) \/ Disconnects(s)
  PROVE  Booked'
  <1>1. OnLink
    BY ZenonT(60) DEF Connects, StartsTask, Speaks, FinishesTask, FailsTask, Disconnects, Advance
  <1>2. \E kind \in WsEventKinds, audio \in Audio, f \in BOOLEAN : Event(s, kind, audio, f)
    <2>1. \A kind \in WsEventKinds : Event(s, kind, NoRequest, FALSE) =>
            \E k \in WsEventKinds, audio \in Audio, f \in BOOLEAN : Event(s, k, audio, f)
      BY ZenonT(60) DEF Audio
    <2>2. CASE Connects(s) \/ StartsTask(s) \/ FinishesTask(s) \/ FailsTask(s) \/ Disconnects(s)
      BY ZenonT(60), <2>1, <2>2 DEF Connects, StartsTask, FinishesTask, FailsTask, Disconnects, Advance,
                        WsEventKinds
    <2>3. CASE Speaks(s)
      <3> DEFINE l    == link[s]
                 last == l.chunks + 1 = MaxAudio
      <3>1. Event(s, "AudioChunk", Head(l.todo), last) /\ l.todo # <<>>
        BY ZenonT(60), <2>3 DEF Speaks
      <3>2. l \in [stage : Stages, todo : Seq(Rids), chunks : Nat]
        BY ZenonT(60) DEF PipeOK
      <3>3. Head(l.todo) \in Audio /\ last \in BOOLEAN /\ "AudioChunk" \in WsEventKinds
        BY SMT, SMTT(60), <3>1, <3>2 DEF Audio, WsEventKinds
      <3> HIDE DEF l, last
      <3> QED
        BY ZenonT(60), <3>1, <3>3
    <2> QED
      BY ZenonT(60), <2>2, <2>3
  <1>3. ws_event_channel' \in Seq(WsSide)
    <2>1. PICK kind \in WsEventKinds, audio \in Audio, f \in BOOLEAN : Event(s, kind, audio, f)
      BY ZenonT(60), <1>2
    <2>2. s \in Nat
      BY ZenonT(60) DEF PipeOK
    <2>3. TtsResponseMsg(s, kind, audio, f) \in WsSide
      BY ZenonT(60), <2>2 DEF TtsResponseMsg, WsSide
    <2>4. ws_event_channel \in Seq(WsSide)
      BY ZenonT(60) DEF Booked, WorkOK, QueuesOK
    <2> QED
      BY SMT, SMTT(60), <2>1, <2>3, <2>4 DEF Event
  <1>4. /\ UNCHANGED <<phase, request_channel, batch, pool, pending, backend, inflight, sent, finals>>
        /\ UNCHANGED <<Jobs, Writes>>
    BY ZenonT(60), <1>1 DEF OnLink, board, Jobs, Writes
  <1> QED
    BY ZenonT(60), <1>3, <1>4, BesideBooked

(* The inductive step.                                                     *)
LEMMA NextBooked == IInv /\ Booked /\ [Next]_vars => Booked'
  <1> SUFFICES ASSUME IInv, Booked, [Next]_vars PROVE Booked'
    BY ZenonT(60)
  <1>a. RestOK /\ PoolInv /\ PipeOK /\ HbInv
    BY ZenonT(60), IInvParts, HbInvParts
  <1>1. CASE HeartbeatStep
    <2>1. HbInv'
      BY ZenonT(60), <1>1, <1>a, HeartbeatKeepsInv DEF HeartbeatStep
    <2>2. RestOK'
      BY ZenonT(60), <2>1, HbInvPartsNext
    <2> QED
      BY ZenonT(60), <1>1, <1>a, <2>2, HeartbeatBooked
  <1>2. CASE SendFrame \/ ExecuteChangeSet
    <2>1. RestOK'
      BY ZenonT(60), <1>2, <1>a, ExecuteKeepsIInv
    <2> QED
      BY ZenonT(60), <1>2, <1>a, <2>1, ExecuteBooked
  <1>3. CASE AdvanceClock \/ \E r \in Rids : Submit(r) \/ Cancel(r) \/ HarnessBind(r)
    BY ZenonT(60), <1>3, <1>a, SenderBooked
  <1>4. CASE \E s \in DOMAIN link :
               \/ Connects(s) \/ StartsTask(s) \/ Speaks(s) \/ FinishesTask(s)
               \/ FailsTask(s) \/ Disconnects(s)
    BY ZenonT(60), <1>4, <1>a, LinkBooked
  <1>5. CASE UNCHANGED vars
    <2>1. /\ UNCHANGED <<phase, request_channel, batch, pool, pending, backend, inflight, sent, finals>>
          /\ UNCHANGED <<ws_event_channel, cs>>
      BY ZenonT(60), <1>5 DEF vars, hbVars, pipeVars, board, channels
    <2>2. UNCHANGED <<Jobs, Writes>> /\ ws_event_channel' \in Seq(WsSide)
      BY ZenonT(60), <2>1 DEF Jobs, Writes, Booked, WorkOK, QueuesOK
    <2> QED
      BY ZenonT(60), <1>a, <2>1, <2>2, BesideBooked
  <1> QED
    BY ZenonT(60), <1>1, <1>2, <1>3, <1>4, <1>5 DEF Next

(* The books hold in every state.                                          *)
LEMMA PipelineBooked == Spec => [](IInv /\ Booked)
  <1>1. Init => IInv /\ Booked
    BY ZenonT(60), InitIInv, InitBooked
  <1>2. IInv /\ Booked /\ [Next]_vars => (IInv /\ Booked)'
    BY ZenonT(60), NextIInv, NextBooked
  <1> QED
    BY <1>1, <1>2, PTL DEF Spec

(* BackpressureController: inflight never passes the high watermark, never *)
(* wraps below zero, and every upstream request in the store and every     *)
(* local job that is queued or answered holds a unit of it.                *)
THEOREM PipelineInflight == Spec => []InflightWithin
  <1>1. IInv /\ Booked => InflightWithin
    <2> SUFFICES ASSUME IInv, Booked PROVE InflightWithin
      OBVIOUS
    <2>1. RestOK
      BY ZenonT(60), IInvParts
    <2>2. LocalOutstanding + Cardinality({r \in DOMAIN pending : ~ShouldUseLocal(r)}) = Load
      BY ZenonT(60), <2>1, LoadIs
    <2>3. Load \in Nat /\ inflight \in Nat
      BY SMT, SMTT(60), <2>1, LoadType, HeartbeatAssumption DEF Booked, RestOK
    <2> QED
      BY ZenonT(60), <2>2, <2>3 DEF Booked, InflightWithin
  <1> QED
    BY <1>1, PipelineBooked, PTL

(* emit_completed and the local answers: a SynthesizeStream request gets   *)
(* at most one final write, for every pool, watermark and number of        *)
(* requests, and whatever the upstream service repeats.                    *)
THEOREM PipelineFinalOnce == Spec => []FinalOnce
  <1>1. IInv /\ Booked => FinalOnce
    <2> SUFFICES ASSUME IInv, Booked, NEW r \in StreamRids PROVE finals[r] + FinalWrites(r) <= 1
      BY ZenonT(60) DEF FinalOnce
    <2>1. RestOK /\ PipeOK /\ r \in Rids /\ QueuesOK
      BY ZenonT(60), IInvParts DEF Rids, Booked, WorkOK
    <2> DEFINE q == Queued(TokensOf(r))
               o == Count(Jobs, {r})
               d == IF r \in Waiting THEN 1 ELSE 0
               f == FinalWrites(r)
    <2>2. f = Count(Writes, FinalsTo(r)) /\ f \in Nat
      BY ZenonT(60), <2>1, FinalWritesAre
    <2>3. q \in Nat /\ o \in Nat
      BY ZenonT(60), <2>1, OwedParts
    <2>4. Owed(r) = q + o + f + d
      BY ZenonT(60), <2>2 DEF Owed
    <2>5. d \in Nat
      BY ZenonT(60)
    <2>6. Owed(r) + finals[r] <= sent[r] /\ sent[r] <= 1 /\ sent[r] \in Nat /\ finals[r] \in Nat
      BY ZenonT(60), <2>1 DEF Booked, PipeOK
    <2> HIDE DEF q, o, d, f
    <2>7. finals[r] + f <= 1
      BY SMT, SMTT(60), <2>2, <2>3, <2>4, <2>5, <2>6
    <2> QED
      BY ZenonT(60), <2>7 DEF f
  <1> QED
    BY <1>1, PipelineBooked, PTL

-----------------------------------------------------------------------------
(* Sessions and the requests they work for.                                *)

\* Only requests whose one message was sent are bound to a session.
Linked ==
  /\ Backlinked
  /\ \A r \in StreamRids : r \in BoundRids => sent[r] = 1

(* Steps that leave queues, pool and session ids alone.                    *)
LEMMA BesideLinked ==
  ASSUME Linked, UNCHANGED <<request_channel, batch, pool, sent>>,
         DOMAIN pending' = DOMAIN pending,
         \A r \in DOMAIN pending : pending'[r].session_id = pending[r].session_id
  PROVE  Linked'
  <1>1. \A S : Queued(S)' = Queued(S)
    BY DEF Queued
  <1>2. Backlinked'
    BY ZenonT(60), <1>1 DEF Linked, Backlinked
  <1>3. BoundRids' = BoundRids
    BY DEF BoundRids
  <1> QED
    BY ZenonT(60), <1>2, <1>3 DEF Linked

(* The tick and the local jobs: a request that gets bound is owed, so its  *)
(* message was sent.                                                       *)
LEMMA HeartbeatLinked ==
  ASSUME RestOK, PoolInv, PipeOK, Booked, Linked, HeartbeatStep
  PROVE  Linked'
  <1>a. WorkOK /\ (Tick \/ RunLocalJob \/ EndIteration) /\ sent' = sent
    BY ZenonT(60) DEF HeartbeatStep, Booked, pipeVars
  <1>b. ASSUME NEW r \in StreamRids PROVE Owed(r) <= 1 /\ (Owed(r) >= 1 => sent[r] = 1)
    <2>1. r \in Rids
      BY ZenonT(60) DEF Rids
    <2>2. Owed(r) \in Nat
      BY ZenonT(60), <1>a, <2>1, OwedParts DEF WorkOK
    <2>3. finals[r] \in Nat /\ sent[r] \in Nat
      BY <2>1 DEF PipeOK
    <2>4. Owed(r) + finals[r] <= sent[r] /\ sent[r] <= 1
      BY ZenonT(60), <2>1 DEF Booked
    <2> QED
      BY SMT, SMTT(60), <2>2, <2>3, <2>4
  <1>1. Backlinked' /\ BoundRids' \subseteq BoundRids \cup {r \in Rids : Owed(r) >= 1}
    BY ZenonT(60), <1>a, <1>b, TickBinds DEF Linked
  <1>2. \A r \in StreamRids : r \in BoundRids' => sent[r] = 1
    BY ZenonT(60), <1>b, <1>1 DEF Linked
  <1> QED
    BY ZenonT(60), <1>a, <1>1, <1>2 DEF Linked

(* A client's message.                                                     *)
LEMMA SendLinked ==
  ASSUME RestOK, PipeOK, Booked, Linked, NEW x \in Rids, Submit(x) \/ Cancel(x)
  PROVE  Linked'
  <1>1. /\ UNCHANGED <<batch, pool, pending>>
        /\ \A r \in StreamRids : ~(r = x /\ Submit(x)) => sent'[r] = sent[r]
    BY ZenonT(60) DEF Submit, Cancel, board, PipeOK, Rids
  <1>2. PICK m \in Messages : /\ request_channel' = Append(request_channel, m)
                              /\ \A r \in Rids : m \in TokensOf(r) => r = x /\ Submit(x)
    <2>1. /\ TtsRequestMsg(x) \in Messages /\ CancelRequestMsg(x) \in Messages
          /\ \A r \in Rids : TtsRequestMsg(x) \in TokensOf(r) => r = x
          /\ \A r \in Rids : CancelRequestMsg(x) \notin TokensOf(r)
      BY ZenonT(60) DEF Messages, TokensOf, TtsRequestMsg, CancelRequestMsg, LocalSynthCompleteMsg,
             LocalSynthFailedMsg
    <2> QED
      BY ZenonT(60), <2>1 DEF Submit, Cancel
  <1>3. BoundRids' = BoundRids
    BY ZenonT(60), <1>1 DEF BoundRids
  <1>4. ASSUME NEW r \in StreamRids, r \in BoundRids
        PROVE  sent'[r] = 1 /\ ~(r = x /\ Submit(x))
    <2>1. sent[r] = 1 /\ r \in Rids /\ (r = x /\ Submit(x) => sent[r] < 1)
      BY ZenonT(60), <1>4 DEF Linked, Submit, Rids
    <2>2. ~(r = x /\ Submit(x))
      BY SMT, SMTT(60), <2>1
    <2>3. sent'[r] = sent[r]
      BY ZenonT(60), <1>1, <2>2
    <2> QED
      BY ZenonT(60), <2>1, <2>2, <2>3
  <1>5. ASSUME NEW s \in Ids(pool), NEW r \in StreamRids, pool.sessions[s].current_request_id = r
        PROVE  Queued(TokensOf(r))' = 0 /\ (r \in DOMAIN pending => pending[r].session_id = s)
    <2> DEFINE q  == Queued(TokensOf(r))
               q2 == Queued(TokensOf(r))'
    <2>1. q = 0 /\ (r \in DOMAIN pending => pending[r].session_id = s)
      BY ZenonT(60), <1>5 DEF Linked, Backlinked
    <2>2. r \in BoundRids /\ r \in Rids /\ QueuesOK
      BY ZenonT(60), <1>5 DEF BoundRids, Rids, Booked, WorkOK
    <2>3. m \notin TokensOf(r)
      BY ZenonT(60), <1>2, <1>4, <2>2
    <2>4. \A y \in TokensOf(r) : y.type # "TtsResponse"
      BY ZenonT(60), <2>2, OwedParts
    <2>5. \A y \in Messages : request_channel' = Append(request_channel, y) /\ batch' = batch
            => q2 = q + (IF y \in TokensOf(r) THEN 1 ELSE 0)
      BY ZenonT(60), <2>2, <2>4, QueuedCounts
    <2> HIDE DEF q, q2
    <2>6. q2 = 0
      BY SMT, SMTT(60), <1>1, <1>2, <2>1, <2>3, <2>5
    <2> QED
      BY ZenonT(60), <2>1, <2>6 DEF q2
  <1>6. Backlinked'
    BY ZenonT(60), <1>1, <1>5 DEF Backlinked
  <1> QED
    BY ZenonT(60), <1>3, <1>4, <1>6 DEF Linked

(* The inductive step.                                                     *)
LEMMA NextLinked == IInv /\ Booked /\ Linked /\ [Next]_vars => Linked'
  <1> SUFFICES ASSUME IInv, Booked, Linked, [Next]_vars PROVE Linked'
    BY ZenonT(60)
  <1>a. RestOK /\ PoolInv /\ PipeOK /\ HbInv
    BY ZenonT(60), IInvParts, HbInvParts
  <1>1. CASE HeartbeatStep
    BY ZenonT(60), <1>1, <1>a, HeartbeatLinked
  <1>2. CASE \/ SendFrame \/ ExecuteChangeSet \/ AdvanceClock \/ UNCHANGED vars
    <2>1. UNCHANGED <<request_channel, batch, pool, sent, pending>>
      BY ZenonT(60), <1>2 DEF SendFrame, ExecuteChangeSet, AdvanceClock, vars, hbVars, pipeVars, board, channels
    <2> QED
      BY ZenonT(60), <2>1, BesideLinked
  <1>3. CASE \E x \in Rids : Submit(x) \/ Cancel(x)
    BY ZenonT(60), <1>3, <1>a, SendLinked
  <1>4. ASSUME NEW x \in Rids, HarnessBind(x) PROVE Linked'
    <2>1. pending \in [DOMAIN pending -> PendingRequests(Audio)] /\ x \in DOMAIN pending
      BY ZenonT(60), <1>4, <1>a DEF HarnessBind, RestOK
    <2>2. pending' = [pending EXCEPT ![x] = [pending[x] EXCEPT !.state = "Streaming"]]
      BY ZenonT(60), <1>4, <2>1 DEF HarnessBind, BindSession, PendingRequests
    <2>3. pending[x] \in PendingRequests(Audio)
      BY ZenonT(60), <2>1
    <2>4. [pending[x] EXCEPT !.state = "Streaming"].session_id = pending[x].session_id
      BY ZenonT(60), <2>3 DEF PendingRequests
    <2>5. /\ DOMAIN pending' = DOMAIN pending
          /\ \A r \in DOMAIN pending : pending'[r].session_id = pending[r].session_id
      BY ZenonT(60), <2>2, <2>4
    <2>6. UNCHANGED <<request_channel, batch, pool, sent>>
      BY ZenonT(60), <1>4 DEF HarnessBind, channels, pipeVars
    <2> QED
      BY ZenonT(60), <2>5, <2>6, BesideLinked
  <1>5. CASE \E s \in DOMAIN link :
               \/ Connects(s) \/ StartsTask(s) \/ Speaks(s) \/ FinishesTask(s)
               \/ FailsTask(s) \/ Disconnects(s)
    <2>1. OnLink
      BY ZenonT(60), <1>5 DEF Connects, StartsTask, Speaks, FinishesTask, FailsTask, Disconnects, Advance
    <2>2. UNCHANGED <<request_channel, batch, pool, sent, pending>>
      BY ZenonT(60), <2>1 DEF OnLink, board
    <2> QED
      BY ZenonT(60), <2>2, BesideLinked
  <1> QED
    BY ZenonT(60), <1>1, <1>2, <1>3, <1>4, <1>5 DEF Next

(* handle_response finds the request of an audio chunk through the         *)
(* session and fails the requests of a session through their records: as   *)
(* long as a stream request is in the store, both ways lead to each other. *)
THEOREM PipelineBacklink == Spec => []SessionBacklink
  <1>1. Init => Linked
    BY SMT, SMTT(60) DEF Init, HbInit, Linked, Backlinked, BoundRids, EmptyPool, Ids
  <1>2. Linked => SessionBacklink
    BY ZenonT(60) DEF Linked, Backlinked, SessionBacklink
  <1> QED
    BY <1>1, <1>2, PipelineBooked, NextLinked, PTL DEF Spec

-----------------------------------------------------------------------------
(* The lives of the sessions.                                              *)

\* SynthesizeClient requests never take a session of the pool.  One that does
\* can take two, of which the one that still connects is set to Draining when
\* the request is emitted, and back to Ready by its Connected.
StreamsOnly == BidiRids = {} \/ (LocalReady /\ PreferLocal)

(* The invariant of the sessions' lives.                                   *)
LEMMA PipelineAlive ==
  StreamsOnly => (Spec => [](IInv /\ Booked /\ Linked /\ Wired /\ Alive))
  <1>1. Init => Linked
    BY DEF Init, HbInit, Linked, Backlinked, BoundRids, EmptyPool, Ids
  <1>2. StreamsOnly /\ Init => Wired /\ Alive
    <2> SUFFICES ASSUME StreamsOnly, Init PROVE Wired /\ Alive
      BY ZenonT(60)
    <2>1. Events = <<>> /\ Frames = <<>> /\ DOMAIN link = {} /\ Ids(pool) = {} /\ DOMAIN pending = {}
      BY SMT, SMTT(60) DEF Init, HbInit, Events, Frames, EmptyChangeSet, EmptyPool, EmptyStore, Ids
    <2>2. Range(<<>>) = {} /\ \A R : Apart(<<>>, R)
      BY DEF Range, Apart
    <2>3. Spoken = {} /\ Starting = {} /\ Dialing = {}
      BY ZenonT(60), <2>1, <2>2 DEF Said, Spoken, Starting, Dialing, Dials
    <2>4. Wired
      BY ZenonT(60), <2>1, <2>2, <2>3 DEF Wired, WiredTo, Dialing
    <2>5. \A r \in BidiRids : r \in Rids /\ backend[r] = "Auto" /\ LocalReady /\ PreferLocal
      BY ZenonT(60), HeartbeatAssumption DEF StreamsOnly, Init, HbInit, Rids
    <2>6. BidiRids \subseteq LocalRids
      BY ZenonT(60), <2>5 DEF LocalRids, ShouldUseLocal
    <2> QED
      BY ZenonT(60), <2>1, <2>4, <2>6 DEF Alive, Lives, SessionsLive, RequestsLive
  <1>3. Booked /\ Linked => QueuesOK /\ Named
    BY ZenonT(60) DEF Booked, WorkOK, Linked, Backlinked, Named
  <1> QED
    BY <1>1, <1>2, <1>3, PipelineBooked, NextLinked, NextWired, NextAlive, PTL DEF Spec

(* The session state machine: a session moves from Connecting through      *)
(* Ready and Streaming to Draining and never back, an errored one stays    *)
(* errored, and the id of a removed one never returns, in whatever order   *)
(* its events and the requests arrive, where only SynthesizeStream calls   *)
(* go upstream.                                                            *)
THEOREM PipelineSessionsAdvance == StreamsOnly => (Spec => SessionsOnlyAdvance)
  <1>1. IInv /\ Booked /\ Linked /\ Wired /\ Alive /\ [Next]_vars =>
          [\A s \in 1 .. next_sid - 1 :
             s \in Ids(pool') =>
               /\ s \in Ids(pool)
               /\ Rank(pool.sessions[s].state) <= Rank(pool'.sessions[s].state)]_vars
    <2> SUFFICES ASSUME IInv, Booked, Linked, Wired, Alive, [Next]_vars,
                        NEW s \in 1 .. next_sid - 1, s \in Ids(pool')
                 PROVE  /\ s \in Ids(pool)
                        /\ Rank(pool.sessions[s].state) <= Rank(pool'.sessions[s].state)
      BY ZenonT(60)
    <2>a. RestOK /\ PoolInv /\ PipeOK /\ QueuesOK
      BY ZenonT(60), IInvParts DEF Booked, WorkOK
    <2>b. s \in Ids(pool) => pool.sessions[s].state \in Living
      BY ZenonT(60) DEF Alive, Lives, SessionsLive
    <2>1. CASE Tick /\ UNCHANGED pipeVars
      <3>1. s # next_sid
        BY SMT, SMTT(60), <2>a DEF RestOK
      <3>2. s \in Ids(pool) /\ Advances(s)
        BY ZenonT(60), <2>1, <2>a, <3>1, TickAdvances DEF Wired, Alive
      <3> QED
        BY SMT, SMTT(60), <2>b, <3>2 DEF Advances, Forward, Living, Rank
    <2>2. CASE ~(Tick /\ UNCHANGED pipeVars)
      <3>1. pool' = pool
        BY ZenonT(60), <2>2, BesidePool
      <3> QED
        BY SMT, SMTT(60), <2>b, <3>1 DEF Living, Rank
    <2> QED
      BY ZenonT(60), <2>1, <2>2
  <1> QED
    BY <1>1, PipelineAlive, PTL DEF Spec, SessionsOnlyAdvance

(* find_idle_least_recently_used: whatever the order in which sessions are *)
(* reused, answer, fail and expire, the LRU list is sorted by the last     *)
(* activity of the sessions that have been active, so its scan from the    *)
(* back finds the one that has been idle longest; where only               *)
(* SynthesizeStream calls go upstream.                                     *)
THEOREM PipelineLruSorted == StreamsOnly => (Spec => []LruSorted)
  <1>1. Init => Sorted
    BY SMT, SMTT(60) DEF Init, HbInit, EmptyPool, Ids, Sorted, Aged, Apart
  <1>2. IInv /\ Booked /\ Linked /\ Wired /\ Alive /\ Sorted /\ [Next]_vars => Sorted'
    <2> SUFFICES ASSUME IInv, Booked, Linked, Wired, Alive, Sorted, [Next]_vars PROVE Sorted'
      BY ZenonT(60)
    <2>a. RestOK /\ PoolInv /\ QueuesOK
      BY ZenonT(60), IInvParts DEF Booked, WorkOK
    <2>1. CASE Tick /\ UNCHANGED pipeVars
      BY ZenonT(60), <2>1, <2>a, TickSorted DEF Wired, Alive
    <2>2. CASE ~(Tick /\ UNCHANGED pipeVars)
      <3>1. pool' = pool /\ (now' = now \/ now' = now + 1)
        BY ZenonT(60), <2>2, BesidePool
      <3>2. \A s \in Ids(pool) : pool.sessions[s].last_active_at \in Nat
        BY ZenonT(60), <2>a DEF PoolInv, PoolValue, SessionRecords
      <3>3. \A s \in Ids(pool) : pool.sessions[s].last_active_at <= now'
        BY SMT, SMTT(60), <2>a, <3>1, <3>2 DEF Sorted, Aged, RestOK
      <3> QED
        BY ZenonT(60), <3>1, <3>3 DEF Sorted, Aged
    <2> QED
      BY ZenonT(60), <2>1, <2>2
  <1>3. IInv /\ Sorted => LruSorted
    <2> SUFFICES ASSUME IInv, Sorted PROVE LruSorted
      OBVIOUS
    <2>1. PoolInv
      BY ZenonT(60), IInvParts
    <2> QED
      BY ZenonT(60), <2>1, LruApart DEF PoolInv, Sorted, LruSorted
  <1> QED
    BY <1>1, <1>2, <1>3, PipelineAlive, PTL DEF Spec

(* ChangeSet execution against the pool: as long as no client cancels and  *)
(* only SynthesizeStream calls go upstream, when a tick has ended every    *)
(* pooled session has a live link, or the event that its link failed is on *)
(* its way, and no link outlives its session, whatever connects, fails,    *)
(* drops and expires meanwhile.                                            *)
THEOREM PipelineMirror ==
  StreamsOnly /\ CancelRids = {} => (Spec => []PoolMirrorsLinks)
  <1> SUFFICES ASSUME StreamsOnly, CancelRids = {} PROVE Spec => []PoolMirrorsLinks
    OBVIOUS
  <1>1. Init => Reported /\ NoCancels /\ Mirrored
    <2> SUFFICES ASSUME Init PROVE Reported /\ NoCancels /\ Mirrored
      BY ZenonT(60)
    <2>1. /\ phase = "idle" /\ request_channel = <<>> /\ batch = <<>> /\ ws_event_channel = <<>>
          /\ cs.ws_frames = <<>> /\ cs.close_sessions = {} /\ changed_sessions = {}
          /\ DOMAIN link = {} /\ Ids(pool) = {} /\ DOMAIN pending = {}
      BY ZenonT(60) DEF Init, HbInit, EmptyChangeSet, EmptyPool, EmptyStore, Ids
    <2>2. Range(<<>>) = {} /\ <<>> \o <<>> = <<>> /\ <<>> \in Seq(Wanted)
      BY SMT, SMTT(60) DEF Range
    <2>3. Starting = {} /\ Gone = {} /\ Closing = {}
      BY ZenonT(60), <2>1, <2>2 DEF Starting, Frames, Gone, Said, Events, Closing
    <2>4. Reported /\ NoCancels
      BY ZenonT(60), <2>1, <2>2 DEF Reported, Errored, CollectTerminal, NoCancels
    <2> QED
      BY ZenonT(60), <2>1, <2>3, <2>4 DEF Mirrored, MirroredIn, FailedLost, Frames
  <1>2. Booked => QueuesOK
    BY ZenonT(60) DEF Booked, WorkOK
  <1>3. IInv /\ Booked /\ Wired /\ Alive /\ Reported /\ Mirrored => PoolMirrorsLinks
    BY ZenonT(60), <1>2, MirroredSettles
  <1>4. IInv /\ Booked /\ Wired /\ Alive /\ Reported /\ NoCancels /\ Mirrored /\ [Next]_vars
          => NoCancels' /\ Mirrored'
    BY ZenonT(60), <1>2, NextUncancelled, NextMirrored
  <1> QED
    BY <1>1, <1>3, <1>4, PipelineAlive, NextReports, PTL DEF Spec
=============================================================================
