---------------------------- MODULE EdgeProofs -----------------------------
(***************************************************************************)
(* The parts that stand around the heartbeat, each for every value of its  *)
(* constants.  The request parser refuses what is out of range and serves  *)
(* the rest as asked.                                                      *)
(* The event bus hands its events out in order, never lets all its workers *)
(* sleep over a queued event, and calls no listener for an event published *)
(* after its subscription ended.  The connection to the service writes     *)
(* what it took, in order, and only an end reported by libwebsockets makes *)
(* a thread join itself.  The backend a request names decides who serves   *)
(* it, and the resampler stays inside its input.                           *)
(***************************************************************************)
EXTENDS RequestParser, LocalEngine, LwsTransport, EventBus, TLAPS

-----------------------------------------------------------------------------
(* A product of integers.                                                  *)
LEMMA Products ==
  ASSUME NEW a \in Int, NEW b \in Int
  PROVE  a * b \in Int /\ a * b = b * a
  OBVIOUS

(* Sequences by their elements.                                            *)
LEMMA AppendItems ==
  ASSUME NEW S, NEW s \in Seq(S), NEW e \in S
  PROVE  /\ Append(s, e) \in Seq(S) /\ Len(Append(s, e)) = Len(s) + 1
         /\ \A k \in 1 .. Len(s) : Append(s, e)[k] = s[k]
         /\ Append(s, e)[Len(s) + 1] = e
  OBVIOUS

(* A part of a sequence.                                                   *)
LEMMA SubSeqItems ==
  ASSUME NEW S, NEW s \in Seq(S), NEW m \in 1 .. Len(s) + 1, NEW n \in m - 1 .. Len(s)
  PROVE  /\ SubSeq(s, m, n) \in Seq(S) /\ Len(SubSeq(s, m, n)) = n - m + 1
         /\ \A k \in 1 .. n - m + 1 : SubSeq(s, m, n)[k] = s[m + k - 1]
  OBVIOUS

(* Two sequences with the same elements.                                   *)
LEMMA SameItems ==
  ASSUME NEW S, NEW s \in Seq(S), NEW t \in Seq(S), Len(s) = Len(t),
         \A k \in 1 .. Len(s) : s[k] = t[k]
  PROVE  s = t
  OBVIOUS

(* The first element of a sequence as a sequence of one.                   *)
LEMMA FirstOfSeq ==
  ASSUME NEW S, NEW s \in Seq(S), s # <<>>
  PROVE  SubSeq(s, 1, 1) = <<Head(s)>>
<1> DEFINE one == SubSeq(s, 1, 1)
           head == <<Head(s)>>
<1>1. one \in Seq(S) /\ Len(one) = 1 /\ one[1] = s[1]
  <2>1. 1 \in 1 .. Len(s) + 1 /\ 1 \in 0 .. Len(s)  OBVIOUS
  <2> QED  BY <2>1, SubSeqItems
<1>2. Head(s) = s[1] /\ Head(s) \in S  OBVIOUS
<1>3. head \in Seq(S) /\ Len(head) = 1 /\ head[1] = Head(s)  BY <1>2
<1> HIDE DEF one, head
<1>4. \A i \in 1 .. Len(one) : one[i] = head[i]  BY <1>1, <1>2, <1>3
<1>5. one = head  BY <1>1, <1>3, <1>4, SameItems
<1> QED  BY <1>5 DEF one, head

-----------------------------------------------------------------------------
(* The request parser.                                                     *)

\* A request with what the client left open at its default.
Unary(p) ==
  [kind |-> "OpenStream",
   voice |-> IF p.voice = "unset" THEN "male-qn-qingse" ELSE p.voice,
   sample_rate |-> IF p.sample_rate = 0 THEN 16000 ELSE p.sample_rate,
   channel |-> IF p.channel = 0 THEN 1 ELSE p.channel,
   format |-> IF p.format = "unspecified" THEN "mp3" ELSE ToFormat(p.format),
   backend |-> ToBackend(p.backend)]

\* The fields of a request.
Fields(k, v, sr, ch, fmt, b) ==
  [kind |-> k, voice |-> v, sample_rate |-> sr, channel |-> ch, format |-> fmt, backend |-> b]

(* parse_unary: the fields left open keep their defaults.                  *)
LEMMA UnaryFields ==
  ASSUME NEW p
  PROVE  ParseUnary(p) = Unary(p)
  <1>1. PICK v, sr, ch, fmt, b :
          /\ v = (IF p.voice = "unset" THEN "male-qn-qingse" ELSE p.voice)
          /\ sr = (IF p.sample_rate = 0 THEN 16000 ELSE p.sample_rate)
          /\ ch = (IF p.channel = 0 THEN 1 ELSE p.channel)
          /\ fmt = (IF p.format = "unspecified" THEN "mp3" ELSE ToFormat(p.format))
          /\ b = ToBackend(p.backend)
    OBVIOUS
  <1>2. PICK r1 : r1 = ApplyVoice(p, DefaultRequest)
    OBVIOUS
  <1>3. r1 = Fields("StreamChunk", v, 16000, 1, "mp3", "auto")
    BY <1>1, <1>2 DEF ApplyVoice, DefaultRequest, Fields
  <1>4. ApplyAudio(p, r1) = [r1 EXCEPT !.sample_rate = sr, !.channel = ch, !.format = fmt]
    <2>1. r1.sample_rate = 16000 /\ r1.channel = 1 /\ r1.format = "mp3"
      BY <1>3 DEF Fields
    <2>2. /\ (IF p.sample_rate = 0 THEN r1.sample_rate ELSE p.sample_rate) = sr
          /\ (IF p.channel = 0 THEN r1.channel ELSE p.channel) = ch
          /\ (IF p.format = "unspecified" THEN r1.format ELSE ToFormat(p.format)) = fmt
      BY <1>1, <2>1
    <2>3. ApplyAudio(p, r1) =
            [r1 EXCEPT !.sample_rate = IF p.sample_rate = 0 THEN r1.sample_rate ELSE p.sample_rate,
                       !.channel = IF p.channel = 0 THEN r1.channel ELSE p.channel,
                       !.format = IF p.format = "unspecified" THEN r1.format ELSE ToFormat(p.format)]
      BY <1>3 DEF ApplyAudio, Fields
    <2> QED
      BY ZenonT(60), <2>2, <2>3
  <1>5. PICK r2 : r2 = [r1 EXCEPT !.sample_rate = sr, !.channel = ch, !.format = fmt]
    OBVIOUS
  <1>6. r2 = Fields("StreamChunk", v, sr, ch, fmt, "auto")
    <2>1. PICK a : a = [r1 EXCEPT !.sample_rate = sr]
      OBVIOUS
    <2>2. a = Fields("StreamChunk", v, sr, 1, "mp3", "auto")
      BY <1>3, <2>1 DEF Fields
    <2>3. PICK c : c = [a EXCEPT !.channel = ch]
      OBVIOUS
    <2>4. c = Fields("StreamChunk", v, sr, ch, "mp3", "auto")
      BY <2>2, <2>3 DEF Fields
    <2>5. [c EXCEPT !.format = fmt] = Fields("StreamChunk", v, sr, ch, fmt, "auto")
      BY <2>4 DEF Fields
    <2>6. r2 = [[[r1 EXCEPT !.sample_rate = sr] EXCEPT !.channel = ch] EXCEPT !.format = fmt]
      BY <1>5
    <2> QED
      BY ZenonT(60), <2>1, <2>3, <2>5, <2>6
  <1>7. PICK r3 : r3 = [r2 EXCEPT !.backend = b]
    OBVIOUS
  <1>8. r3 = Fields("StreamChunk", v, sr, ch, fmt, b)
    BY <1>6, <1>7 DEF Fields
  <1>9. [r3 EXCEPT !.kind = "OpenStream"] = Fields("OpenStream", v, sr, ch, fmt, b)
    BY <1>8 DEF Fields
  <1>10. ParseUnary(p) = [r3 EXCEPT !.kind = "OpenStream"]
    <2>1. ApplyAudio(p, ApplyVoice(p, DefaultRequest)) = r2
      BY ZenonT(60), <1>2, <1>4, <1>5
    <2>2. Settings(p, DefaultRequest) = r3
      BY <1>1, <1>7, <2>1 DEF Settings
    <2> QED
      BY ZenonT(60), <2>2 DEF ParseUnary
  <1>11. Unary(p) = Fields("OpenStream", v, sr, ch, fmt, b)
    BY <1>1 DEF Unary, Fields
  <1> QED
    BY <1>9, <1>10, <1>11

(* parse_unary and enforce_audio_invariants: what is out of range and      *)
(* nothing else is refused, and what gets through is what was asked for.   *)
LEMMA UnaryParsed ==
  ASSUME NEW p \in Protos
  PROVE  /\ AudioInvariants(ParseUnary(p)) <=> ~OutOfRange(p)
         /\ ParseUnary(p).kind = "OpenStream"
         /\ ~OutOfRange(p) => AsAsked(p, ParseUnary(p))
  <1>1. PICK r : r = ParseUnary(p)
    OBVIOUS
  <1>2. r = Unary(p)
    BY <1>1, UnaryFields
  <1>3. /\ p.sample_rate \in Nat /\ p.channel \in Nat /\ p.format \in Formats \cup {Unknown}
        /\ p.voice \in {"unset", "set"} /\ p.backend \in Backends \cup {Unknown}
    BY ZenonT(60), ParserAssumption DEF Protos
  <1>4. /\ r.sample_rate \in {8000, 16000} <=> p.sample_rate \in {0, 8000, 16000}
        /\ r.channel = 1 <=> p.channel \in {0, 1}
        /\ r.sample_rate = p.sample_rate \/ (p.sample_rate = 0 /\ r.sample_rate = 16000)
    BY SMT, SMTT(60), <1>2, <1>3 DEF Unary
  <1>5. r.format \in {"mp3", "pcm"} <=> p.format \in {"unspecified", "mp3", "pcm"}
    BY SMT, SMTT(60), <1>2, <1>3 DEF Unary, ToFormat, Formats, Unknown
  <1>6. AudioInvariants(r) <=> ~OutOfRange(p)
    BY <1>4, <1>5 DEF AudioInvariants, OutOfRange
  <1>7. /\ r.voice = p.voice \/ (p.voice = "unset" /\ r.voice = "male-qn-qingse")
        /\ r.backend = p.backend \/ (p.backend \in {"unspecified", Unknown} /\ r.backend = "auto")
        /\ r.kind = "OpenStream"
    BY SMT, SMTT(60), <1>2, <1>3 DEF Unary, ToBackend, Backends, Unknown
  <1>8. r.format = p.format \/ p.format \in {"unspecified", Unknown}
    BY SMT, SMTT(60), <1>2, <1>3 DEF Unary, ToFormat, Formats, Unknown
  <1>9. ~OutOfRange(p) => AsAsked(p, r)
    BY <1>4, <1>5, <1>7, <1>8 DEF OutOfRange, AsAsked, Unknown
  <1> QED
    BY <1>1, <1>6, <1>7, <1>9

\* The messages SynthesizeClient can send.
Chunks == {ParseChunk(body, EmptyProto, f) : body \in Bodies, f \in BOOLEAN}

(* parse_stream_chunk: only the first chunk opens, and a finish mark is    *)
(* one wherever it comes.                                                  *)
LEMMA ChunkParsed ==
  ASSUME NEW body \in Bodies, NEW f \in BOOLEAN
  PROVE  LET r == ParseChunk(body, EmptyProto, f)
         IN  /\ AudioInvariants(r)
             /\ r.kind = IF body = "finish" THEN "FinishStream"
                         ELSE IF f THEN "OpenStream" ELSE "StreamChunk"
  <1>1. PICK u : u = ParseUnary(EmptyProto)
    OBVIOUS
  <1>2. u = [kind |-> "OpenStream", voice |-> "male-qn-qingse", sample_rate |-> 16000,
             channel |-> 1, format |-> "mp3", backend |-> "auto"]
    BY SMT, SMTT(60), <1>1, UnaryFields DEF Unary, EmptyProto, ToBackend, Unknown
  <1>3. PICK r : r = ParseChunk(body, EmptyProto, f)
    OBVIOUS
  <1>4. CASE f
    <2>1. r = [u EXCEPT !.kind = IF body = "finish" THEN "FinishStream" ELSE @]
      BY ZenonT(60), <1>1, <1>3, <1>4 DEF ParseChunk
    <2>2. /\ AudioInvariants(r)
          /\ r.kind = IF body = "finish" THEN "FinishStream" ELSE "OpenStream"
      BY <1>2, <2>1 DEF AudioInvariants
    <2> QED
      BY <1>3, <1>4, <2>2
  <1>5. CASE ~f
    <2>1. r = [DefaultRequest EXCEPT !.kind = IF body = "finish" THEN "FinishStream" ELSE @]
      BY ZenonT(60), <1>3, <1>5 DEF ParseChunk
    <2>2. /\ AudioInvariants(r)
          /\ r.kind = IF body = "finish" THEN "FinishStream" ELSE "StreamChunk"
      BY <2>1 DEF AudioInvariants, DefaultRequest
    <2> QED
      BY <1>3, <1>5, <2>2
  <1> QED
    BY <1>4, <1>5

\* first says whether anything was read; a stream call has sent nothing before
\* it has read its request.
ParserOK ==
  /\ call \in {"SynthesizeStream", "SynthesizeClient"}
  /\ call = "SynthesizeStream" /\ inputs = <<>> => requests = <<>> /\ status = "open"
  /\ call = "SynthesizeClient" =>
       /\ requests \in Seq(Chunks) /\ inputs \in Seq(Bodies)
       /\ first \in BOOLEAN
       /\ first <=> inputs = <<>>
  /\ AsAskedOrRefused /\ StreamShape

(* Every step.                                                             *)
LEMMA ParserStep ==
  ASSUME ParserOK, [ParserNext]_parser_vars
  PROVE  ParserOK'
  <1>1. ASSUME NEW p \in Protos, SynthesizeStream(p)
        PROVE  ParserOK'
    <2>1. /\ call = "SynthesizeStream" /\ call' = "SynthesizeStream" /\ inputs' = <<p>>
          /\ requests = <<>> /\ status = "open" /\ SendOrRefuse(ParseUnary(p))
      BY <1>1 DEF SynthesizeStream, ParserOK
    <2>2. PICK r : r = ParseUnary(p)
      OBVIOUS
    <2>3. /\ AudioInvariants(r) <=> ~OutOfRange(p)
          /\ r.kind = "OpenStream" /\ (~OutOfRange(p) => AsAsked(p, r))
      BY <2>2, UnaryParsed
    <2>4. CASE ~OutOfRange(p)
      <3>1. requests' = <<r>> /\ status' = "open"
        BY <2>1, <2>2, <2>3, <2>4 DEF SendOrRefuse
      <3>2. inputs'[1] = p /\ inputs' # <<>> /\ requests'[1] = r /\ Len(requests') = 1
        BY <2>1, <3>1
      <3>3. AsAskedOrRefused'
        BY ZenonT(60), <2>3, <2>4, <3>1, <3>2 DEF AsAskedOrRefused
      <3>4. StreamShape'
        BY ZenonT(60), <2>1 DEF StreamShape
      <3> QED
        BY ZenonT(60), <2>1, <3>2, <3>3, <3>4 DEF ParserOK
    <2>5. CASE OutOfRange(p)
      <3>1. requests' = <<>> /\ status' = "INVALID_ARGUMENT"
        BY <2>1, <2>2, <2>3, <2>5 DEF SendOrRefuse
      <3>2. inputs'[1] = p /\ inputs' # <<>>
        BY <2>1
      <3>3. AsAskedOrRefused'
        BY ZenonT(60), <2>5, <3>1, <3>2 DEF AsAskedOrRefused
      <3>4. StreamShape'
        BY ZenonT(60), <2>1 DEF StreamShape
      <3> QED
        BY ZenonT(60), <2>1, <3>2, <3>3, <3>4 DEF ParserOK
    <2> QED
      BY <2>4, <2>5
  <1>2. ASSUME NEW body \in Bodies, ReadChunk(body)
        PROVE  ParserOK'
    <2>1. /\ call = "SynthesizeClient" /\ call' = "SynthesizeClient" /\ inputs' = Append(inputs, body)
          /\ status = "open" /\ SendOrRefuse(ParseChunk(body, EmptyProto, first))
      BY <1>2 DEF ReadChunk
    <2>2. /\ requests \in Seq(Chunks) /\ inputs \in Seq(Bodies) /\ first \in BOOLEAN
          /\ first <=> inputs = <<>>
          /\ StreamShape
      BY <2>1 DEF ParserOK
    <2>3. PICK r : r = ParseChunk(body, EmptyProto, first)
      OBVIOUS
    <2>4. /\ AudioInvariants(r)
          /\ r.kind = IF body = "finish" THEN "FinishStream"
                      ELSE IF first THEN "OpenStream" ELSE "StreamChunk"
      BY ZenonT(60), <2>2, <2>3, ChunkParsed
    <2>9. r \in Chunks
      BY <2>2, <2>3 DEF Chunks
    <2>5. requests' = Append(requests, r) /\ first' = FALSE /\ status' = "open"
      BY <2>1, <2>3, <2>4 DEF SendOrRefuse
    <2>6. /\ requests' \in Seq(Chunks) /\ inputs' \in Seq(Bodies) /\ Len(requests) = Len(inputs)
          /\ Len(requests') = Len(inputs') /\ Len(inputs') = Len(inputs) + 1
      BY SMT, SMTT(60), <2>1, <2>2, <2>5, <2>9 DEF StreamShape
    <2>7. ASSUME NEW i \in DOMAIN inputs'
          PROVE  requests'[i].kind = KindOf(i, inputs'[i])
      <3>1. CASE i \in 1 .. Len(inputs)
        <4>1. requests'[i] = requests[i] /\ inputs'[i] = inputs[i] /\ i \in DOMAIN inputs
          BY <2>1, <2>2, <2>5, <2>6, <3>1
        <4> QED
          BY ZenonT(60), <2>1, <2>2, <4>1 DEF StreamShape
      <3>2. CASE i = Len(inputs) + 1
        <4>1. requests'[i] = r /\ inputs'[i] = body /\ (first <=> i = 1)
          BY <2>1, <2>2, <2>5, <2>6, <3>2
        <4> QED
          BY <2>4, <4>1 DEF KindOf
      <3>3. i \in 1 .. Len(inputs) \/ i = Len(inputs) + 1
        BY <2>2, <2>6
      <3> QED
        BY <3>1, <3>2, <3>3
    <2>8. StreamShape'
      BY ZenonT(60), <2>5, <2>6, <2>7 DEF StreamShape
    <2>10. AsAskedOrRefused'
      BY <2>1 DEF AsAskedOrRefused
    <2>11. first' \in BOOLEAN /\ ~first' /\ inputs' # <<>>
      <3>1. inputs' # <<>>
        BY <2>2, <2>6
      <3> QED
        BY ZenonT(60), <2>5, <3>1
    <2> QED
      BY ZenonT(60), <2>1, <2>6, <2>8, <2>10, <2>11 DEF ParserOK
  <1>3. CASE ReadEnds
    <2>1. /\ call = "SynthesizeClient" /\ call' = call /\ first' = first /\ requests' = requests
          /\ inputs' = inputs /\ status' = "OK"
      BY <1>3 DEF ReadEnds
    <2>2. AsAskedOrRefused'
      BY <2>1 DEF AsAskedOrRefused
    <2>3. StreamShape'
      BY ZenonT(60), <2>1 DEF ParserOK, StreamShape
    <2> QED
      BY ZenonT(60), <2>1, <2>2, <2>3 DEF ParserOK
  <1>4. CASE UNCHANGED parser_vars
    <2>1. /\ call' = call /\ first' = first /\ requests' = requests
          /\ inputs' = inputs /\ status' = status
      BY <1>4 DEF parser_vars
    <2>2. AsAskedOrRefused'
      BY <2>1 DEF ParserOK, AsAskedOrRefused
    <2>3. StreamShape'
      BY ZenonT(60), <2>1 DEF ParserOK, StreamShape
    <2> QED
      BY ZenonT(60), <2>1, <2>2, <2>3 DEF ParserOK
  <1> QED
    BY ZenonT(60), <1>1, <1>2, <1>3, <1>4 DEF ParserNext

(* The invariant from which both theorems follow.                          *)
LEMMA ParserInvariant == ParserSpec => []ParserOK
  <1>1. ASSUME ParserInit
        PROVE  ParserOK
    BY <1>1 DEF ParserInit, ParserOK, AsAskedOrRefused, StreamShape
  <1> QED
    BY <1>1, ParserStep, PTL DEF ParserSpec

(* SynthesizeStream refuses what is out of range and nothing else, and     *)
(* serves the rest with the settings asked for, whatever the sample rates  *)
(* and channels clients ask for.                                           *)
THEOREM ParserAsAskedOrRefused == ParserSpec => []AsAskedOrRefused
  <1>1. ParserOK => AsAskedOrRefused
    BY DEF ParserOK
  <1> QED
    BY <1>1, ParserInvariant, PTL

(* SynthesizeClient sends one message for every chunk, of the kind its     *)
(* place and its content ask for, however long the stream.                 *)
THEOREM ParserStreamShape == ParserSpec => []StreamShape
  <1>1. ParserOK => StreamShape
    BY DEF ParserOK
  <1> QED
    BY <1>1, ParserInvariant, PTL

-----------------------------------------------------------------------------
(* The event bus.                                                          *)

(* A worker that is about to block saw an empty queue and, since it holds  *)
(* the mutex, nobody has pushed since.                                     *)
ParkingOverEmptyQueue == \A w \in Workers : wpc[w] = "parking" => queue = <<>>

IInv == TypeOK /\ ParkingOverEmptyQueue /\ NoSleepOnWork /\ Fifo

USE DEF inbox, control, workers, registry, history, WorkerOnly, GotoW, ControlGoto

-----------------------------------------------------------------------------
(* The initial state satisfies the invariant.                              *)
THEOREM InitIInv == Init => IInv
  <1> SUFFICES ASSUME Init PROVE IInv
    OBVIOUS
  <1>1. TypeOK
    <2>1. \A w \in Workers : mtx # w
      BY BusAssumption DEF Init
    <2>2. /\ wpc \in [Workers -> {"unborn"}]
          /\ task \in [Workers -> {NoEvent}]
          /\ snapshot \in [Workers -> SUBSET Listeners]
      BY DEF Init
    <2>3. queue \in Seq(Events) /\ pushed \in Seq(Events) /\ popped \in Seq(Events)
      BY DEF Init
    <2> QED
      BY ZenonT(60), <2>1, <2>2, <2>3 DEF Init, TypeOK
  <1>2. ParkingOverEmptyQueue /\ NoSleepOnWork
    BY DEF Init, ParkingOverEmptyQueue, NoSleepOnWork
  <1>3. Fifo
    BY DEF Init, Fifo
  <1> QED
    BY <1>1, <1>2, <1>3 DEF IInv

(* Every step keeps the types and the mutex discipline.                    *)
LEMMA NextTypeOK == TypeOK /\ [Next]_vars => TypeOK'
  <1> SUFFICES ASSUME TypeOK, [Next]_vars PROVE TypeOK'
    OBVIOUS
  <1> USE BusAssumption DEF TypeOK, Workers
  <1>1. ASSUME NEW e \in Events, Push(e) PROVE TypeOK'
    BY <1>1 DEF Push
  <1>2. ASSUME NEW e \in Events, Notify(e) PROVE TypeOK'
    BY ZenonT(60), <1>2 DEF Notify, Blocked
  <1>3. ASSUME NEW w \in Workers, WorkerStep(w) PROVE TypeOK'
    <2>1. CASE WorkerLoop(w)
      BY <2>1 DEF WorkerLoop
    <2>2. ASSUME NEW from \in {"try", "wait"}, Take(w, from) PROVE TypeOK'
      BY <2>2 DEF Take
    <2>3. CASE TryPopFails(w)
      BY ZenonT(60), <2>3 DEF TryPopFails
    <2>4. CASE WaitStopped(w)
      BY <2>4 DEF WaitStopped
    <2>5. CASE WaitNotReady(w)
      BY <2>5 DEF WaitNotReady
    <2>6. CASE Park(w)
      BY <2>6 DEF Park
    <2>7. CASE TakeSnapshot(w)
      BY <2>7 DEF TakeSnapshot
    <2>8. CASE CallListener(w)
      BY <2>8 DEF CallListener
    <2>9. CASE DispatchDone(w)
      BY <2>9 DEF DispatchDone
    <2> QED
      BY ZenonT(60), <1>3, <2>1, <2>2, <2>3, <2>4, <2>5, <2>6, <2>7, <2>8, <2>9 DEF WorkerStep
  <1>4. ASSUME NEW w \in Workers, SpuriousWakeup(w) PROVE TypeOK'
    BY <1>4 DEF SpuriousWakeup
  <1>5. ASSUME NEW l \in Listeners, Subscribe(l) PROVE TypeOK'
    BY <1>5 DEF Subscribe
  <1>6. ASSUME NEW l \in Listeners, Unsubscribe(l) PROVE TypeOK'
    BY <1>6 DEF Unsubscribe
  <1>7. CASE StartWorkers
    BY ZenonT(60), <1>7 DEF StartWorkers
  <1>8. CASE CloseInbox
    BY ZenonT(60), <1>8 DEF CloseInbox
  <1>9. CASE Controller
    <2>1. CASE NotifyAll
      BY <2>1 DEF NotifyAll
    <2>2. CASE RequestStop
      BY <2>2 DEF RequestStop
    <2>3. CASE Join
      BY <2>3 DEF Join
    <2>4. CASE StopReturns
      BY <2>4 DEF StopReturns
    <2> QED
      BY <1>9, <2>1, <2>2, <2>3, <2>4 DEF Controller
  <1>10. CASE UNCHANGED vars
    BY <1>10 DEF vars
  <1> QED
    BY ZenonT(60), <1>1, <1>2, <1>3, <1>4, <1>5, <1>6, <1>7, <1>8, <1>9, <1>10 DEF Next

-----------------------------------------------------------------------------
(* Moving the head of one sequence to the end of another keeps their       *)
(* concatenation.                                                          *)
LEMMA TakeKeepsConcat ==
  ASSUME NEW S, NEW s \in Seq(S), NEW t \in Seq(S), t # <<>>
  PROVE  Append(s, Head(t)) \o Tail(t) = s \o t
  <1> DEFINE u == Append(s, Head(t)) \o Tail(t)
             v == s \o t
  <1>1. Head(t) \in S /\ Tail(t) \in Seq(S) /\ Len(Tail(t)) = Len(t) - 1 /\ Len(t) \in Nat \ {0}
    OBVIOUS
  <1>2. u \in Seq(S) /\ v \in Seq(S)
    BY <1>1
  <1>3. Len(u) = Len(s) + Len(t) /\ Len(v) = Len(s) + Len(t)
    BY <1>1
  <1>4. \A i \in 1 .. Len(s) + Len(t) : u[i] = v[i]
    BY <1>1
  <1> HIDE DEF u, v
  <1>5. u = v
    BY <1>2, <1>3, <1>4
  <1> QED
    BY <1>5 DEF u, v

(* So does appending to both sides: a push, seen from the log.             *)
LEMMA AppendKeepsConcat ==
  ASSUME NEW S, NEW s \in Seq(S), NEW t \in Seq(S), NEW e \in S
  PROVE  s \o Append(t, e) = Append(s \o t, e)
  <1> DEFINE u == s \o Append(t, e)
             v == Append(s \o t, e)
  <1>1. u \in Seq(S) /\ v \in Seq(S)
    OBVIOUS
  <1>2. Len(u) = Len(s) + Len(t) + 1 /\ Len(v) = Len(s) + Len(t) + 1
    OBVIOUS
  <1>3. \A i \in 1 .. Len(s) + Len(t) + 1 : u[i] = v[i]
    OBVIOUS
  <1> HIDE DEF u, v
  <1>4. u = v
    BY <1>1, <1>2, <1>3
  <1> QED
    BY <1>4 DEF u, v

(* Every step keeps the events in order: only push and the two pops touch  *)
(* the queue.                                                              *)
LEMMA NextFifo == TypeOK /\ Fifo /\ [Next]_vars => Fifo'
  <1> SUFFICES ASSUME TypeOK, Fifo, [Next]_vars PROVE Fifo'
    OBVIOUS
  <1>1. ASSUME NEW e \in Events, Push(e) PROVE Fifo'
    <2>1. popped \o Append(queue, e) = Append(popped \o queue, e)
      BY AppendKeepsConcat DEF TypeOK
    <2> QED
      BY <1>1, <2>1 DEF Push, Fifo
  <1>2. ASSUME NEW w \in Workers, NEW from \in {"try", "wait"}, Take(w, from) PROVE Fifo'
    <2>1. Append(popped, Head(queue)) \o Tail(queue) = popped \o queue
      BY <1>2, TakeKeepsConcat DEF TypeOK, Take
    <2> QED
      BY <1>2, <2>1 DEF Take, Fifo
  <1>3. CASE UNCHANGED <<queue, pushed, popped>>
    BY <1>3 DEF Fifo
  <1> QED
    BY ZenonT(60), <1>1, <1>2, <1>3 DEF Next, vars, Notify, WorkerStep, SpuriousWakeup, Subscribe,
       Unsubscribe, StartWorkers, CloseInbox, Controller, NotifyAll, RequestStop, Join,
       StopReturns, WorkerLoop, TryPopFails, WaitStopped, WaitNotReady, Park,
       TakeSnapshot, CallListener, DispatchDone

(* No step puts the last awake worker to sleep over a queued event.  Only  *)
(* Park puts one to sleep, and it holds the mutex over an empty queue;     *)
(* only Push fills the queue, and it owes a notification; only Notify      *)
(* pays it, and it wakes a worker if one sleeps.                           *)
LEMMA NextNoSleep ==
  TypeOK /\ ParkingOverEmptyQueue /\ NoSleepOnWork /\ [Next]_vars
    => ParkingOverEmptyQueue' /\ NoSleepOnWork'
  <1> SUFFICES ASSUME TypeOK, ParkingOverEmptyQueue, NoSleepOnWork, [Next]_vars
               PROVE  ParkingOverEmptyQueue' /\ NoSleepOnWork'
    OBVIOUS
  <1> USE DEF ParkingOverEmptyQueue, NoSleepOnWork
  <1>w. 1 \in Workers
    BY BusAssumption DEF Workers
  <1>m. mtx = NoOne => \A w \in Workers : wpc[w] # "parking"
    BY BusAssumption DEF TypeOK
  <1>1. ASSUME NEW e \in Events, Push(e) PROVE ParkingOverEmptyQueue' /\ NoSleepOnWork'
    BY <1>1, <1>m DEF Push, TypeOK
  <1>2. ASSUME NEW e \in Events, Notify(e) PROVE ParkingOverEmptyQueue' /\ NoSleepOnWork'
    <2>1. CASE Blocked = {} /\ UNCHANGED wpc
      BY <1>2, <2>1, <1>w DEF Notify, Blocked
    <2>2. ASSUME NEW w \in Blocked, wpc' = [wpc EXCEPT ![w] = "wait"]
          PROVE  ParkingOverEmptyQueue' /\ NoSleepOnWork'
      BY <1>2, <2>2 DEF Notify, Blocked, TypeOK
    <2> QED
      BY <1>2, <2>1, <2>2 DEF Notify
  <1>3. ASSUME NEW w \in Workers, WorkerStep(w) PROVE ParkingOverEmptyQueue' /\ NoSleepOnWork'
    <2>1. ASSUME NEW from \in {"try", "wait"}, Take(w, from)
          PROVE  ParkingOverEmptyQueue' /\ NoSleepOnWork'
      BY <2>1, <1>m DEF Take, TypeOK
    <2>2. CASE WaitNotReady(w)
      BY <2>2 DEF WaitNotReady, TypeOK
    <2>3. CASE Park(w)
      BY <2>3 DEF Park, TypeOK
    <2>4. CASE WorkerLoop(w)
      BY <2>4 DEF WorkerLoop, TypeOK
    <2>5. CASE TryPopFails(w) \/ WaitStopped(w)
      BY <2>5 DEF TryPopFails, WaitStopped, TypeOK
    <2>6. CASE TakeSnapshot(w) \/ CallListener(w) \/ DispatchDone(w)
      BY <2>6 DEF TakeSnapshot, CallListener, DispatchDone, TypeOK
    <2> QED
      BY ZenonT(60), <1>3, <2>1, <2>2, <2>3, <2>4, <2>5, <2>6 DEF WorkerStep
  <1>4. ASSUME NEW w \in Workers, SpuriousWakeup(w)
        PROVE  ParkingOverEmptyQueue' /\ NoSleepOnWork'
    BY <1>4 DEF SpuriousWakeup, TypeOK
  <1>5. CASE StartWorkers \/ NotifyAll
    BY <1>5, <1>w DEF StartWorkers, NotifyAll, TypeOK
  <1>6. CASE UNCHANGED <<queue, notifying, wpc>>
    BY <1>6
  <1>7. ASSUME NEW l \in Listeners, Subscribe(l) \/ Unsubscribe(l)
        PROVE  UNCHANGED <<queue, notifying, wpc>>
    BY <1>7 DEF Subscribe, Unsubscribe, inbox, workers
  <1>8. CASE CloseInbox \/ RequestStop \/ Join \/ StopReturns
    <2>1. UNCHANGED <<queue, notifying, wpc>>
      BY <1>8 DEF CloseInbox, RequestStop, Join, StopReturns, inbox, workers
    <2> QED  BY <1>6, <2>1
  <1>9. CASE UNCHANGED vars
    BY <1>6, <1>9 DEF vars, inbox, workers
  <1> HIDE DEF ParkingOverEmptyQueue, NoSleepOnWork
  <1> QED
    BY ZenonT(60), <1>1, <1>2, <1>3, <1>4, <1>5, <1>6, <1>7, <1>8, <1>9 DEF Next, Controller

-----------------------------------------------------------------------------
(* Types, order and wakeups together hold in every reachable state.        *)
LEMMA BusInvariant == Spec => []IInv
  <1>1. IInv /\ [Next]_vars => IInv'
    BY NextTypeOK, NextFifo, NextNoSleep DEF IInv
  <1> QED
    BY InitIInv, <1>1, PTL DEF Spec

(* The types of the bus, and that exactly the worker about to block holds  *)
(* the mutex of the inbox.                                                 *)
THEOREM BusTypes == Spec => []TypeOK
  <1>1. IInv => TypeOK
    BY DEF IInv
  <1> QED
    BY BusInvariant, <1>1, PTL

(* Inbox::push and the two pops: events leave in the order they came, for  *)
(* any number of publishers and workers.                                   *)
THEOREM BusFifo == Spec => []Fifo
  <1>1. IInv => Fifo
    BY DEF IInv
  <1> QED
    BY BusInvariant, <1>1, PTL

(* Inbox::push and wait_pop lose no wakeup: while all workers sleep and an *)
(* event is queued, a notify_one is still to come.                         *)
THEOREM BusNoSleepOnWork == Spec => []NoSleepOnWork
  <1>1. IInv => NoSleepOnWork
    BY DEF IInv
  <1> QED
    BY BusInvariant, <1>1, PTL

-----------------------------------------------------------------------------
(* Listeners that are gone.                                                *)

(* What makes NoCallAfterUnsubscribe inductive.  Who is gone stays gone and *)
(* is in no bucket, so a snapshot taken after the push has nobody who was  *)
(* gone at the push; and an event in hand has been pushed, so that nobody  *)
(* writes its absent any more.                                             *)
AbsentOK ==
  /\ absent \in [Events -> SUBSET Listeners]
  /\ calls \subseteq Range(pushed) \X Listeners
  /\ slots \cap gone = {}
  /\ \A e \in Events : absent[e] \subseteq gone
  /\ Range(queue) \subseteq Range(pushed)
  /\ \A w \in Workers : wpc[w] \in {"run", "calling"} => task[w] \in Range(pushed)
  /\ \A w \in Workers : wpc[w] = "calling" => snapshot[w] \cap absent[task[w]] = {}
  /\ NoCallAfterUnsubscribe

(* What a push and a pop do to the set of events in a queue.               *)
LEMMA QueueSets ==
  ASSUME NEW S, NEW s \in Seq(S)
  PROVE  /\ Range(s) \subseteq S
         /\ \A e \in S : Range(Append(s, e)) = Range(s) \cup {e}
         /\ s # <<>> => Head(s) \in Range(s) /\ Range(Tail(s)) \subseteq Range(s)
  <1>1. Range(s) \subseteq S
    BY DEF Range
  <1>2. ASSUME NEW e \in S PROVE Range(Append(s, e)) = Range(s) \cup {e}
    <2> DEFINE t == Append(s, e)
    <2>1. /\ t \in Seq(S) /\ Len(t) = Len(s) + 1 /\ t[Len(s) + 1] = e
          /\ \A i \in 1 .. Len(s) : t[i] = s[i]
      OBVIOUS
    <2>2. DOMAIN t = 1 .. Len(s) + 1 /\ DOMAIN s = 1 .. Len(s) /\ Len(s) \in Nat
      OBVIOUS
    <2> HIDE DEF t
    <2>3. ASSUME NEW i \in DOMAIN t PROVE t[i] \in Range(s) \cup {e}
      BY <2>1, <2>2 DEF Range
    <2>4. ASSUME NEW i \in DOMAIN s PROVE i \in DOMAIN t /\ t[i] = s[i]
      BY <2>1, <2>2
    <2>5. Len(s) + 1 \in DOMAIN t
      BY <2>2
    <2> QED
      BY ZenonT(60), <2>1, <2>3, <2>4, <2>5 DEF Range, t
  <1>3. ASSUME s # <<>> PROVE Head(s) \in Range(s) /\ Range(Tail(s)) \subseteq Range(s)
    <2>1. 1 \in DOMAIN s /\ Head(s) = s[1]
      BY <1>3
    <2>2. ASSUME NEW i \in DOMAIN Tail(s) PROVE i + 1 \in DOMAIN s /\ Tail(s)[i] = s[i + 1]
      BY <1>3
    <2> QED
      BY ZenonT(60), <2>1, <2>2 DEF Range
  <1> QED
    BY <1>1, <1>2, <1>3

(* Only a push writes absent, only Unsubscribe makes a listener go, only   *)
(* TakeSnapshot and CallListener touch the listeners of an event.          *)
LEMMA NextAbsent == TypeOK /\ AbsentOK /\ [Next]_vars => AbsentOK'
  <1> SUFFICES ASSUME TypeOK, AbsentOK, [Next]_vars PROVE AbsentOK'
    OBVIOUS
  <1>a. /\ Range(pushed) \subseteq Events
        /\ \A e \in Events : Range(Append(pushed, e)) = Range(pushed) \cup {e}
        /\ \A e \in Events : Range(Append(queue, e)) = Range(queue) \cup {e}
        /\ queue # <<>> => Head(queue) \in Range(queue) /\ Range(Tail(queue)) \subseteq Range(queue)
    BY ZenonT(60), QueueSets DEF TypeOK
  <1>1. ASSUME NEW e \in Events, Push(e) PROVE AbsentOK'
    <2>1. /\ absent' \in [Events -> SUBSET Listeners]
          /\ absent'[e] = gone /\ \A x \in Range(pushed) : absent'[x] = absent[x]
          /\ \A x \in Events : absent'[x] \in {absent[x], gone}
      BY <1>1, <1>a DEF Push, TypeOK, AbsentOK
    <2>2. /\ Range(pushed') = Range(pushed) \cup {e} /\ Range(queue') = Range(queue) \cup {e}
          /\ UNCHANGED <<workers, registry, calls>>
      BY <1>1, <1>a DEF Push
    <2>3. \A c \in calls : c[1] \in Range(pushed)
      BY ZenonT(60) DEF AbsentOK
    <2> QED
      BY <2>1, <2>2, <2>3 DEF AbsentOK, NoCallAfterUnsubscribe, workers, registry
  <1>2. ASSUME NEW w \in Workers, NEW from \in {"try", "wait"}, Take(w, from) PROVE AbsentOK'
    BY <1>2, <1>a DEF Take, TypeOK, AbsentOK, NoCallAfterUnsubscribe
  <1>3. ASSUME NEW w \in Workers, TakeSnapshot(w) PROVE AbsentOK'
    BY <1>3, <1>a DEF TakeSnapshot, TypeOK, AbsentOK, NoCallAfterUnsubscribe
  <1>4. ASSUME NEW w \in Workers, CallListener(w) PROVE AbsentOK'
    <2>1. PICK l \in snapshot[w] : /\ snapshot' = [snapshot EXCEPT ![w] = @ \ {l}]
                                   /\ calls' = calls \cup {<<task[w], l>>}
      BY ZenonT(60), <1>4 DEF CallListener
    <2>2. wpc[w] = "calling" /\ UNCHANGED <<queue, pushed, wpc, task, absent, slots, gone>>
      BY ZenonT(60), <1>4 DEF CallListener, registry
    <2>3. l \in Listeners /\ snapshot \in [Workers -> SUBSET Listeners]
      BY ZenonT(60), <2>1 DEF TypeOK
    <2>4. l \notin absent[task[w]] /\ task[w] \in Range(pushed)
      BY ZenonT(60), <2>1, <2>2 DEF AbsentOK
    <2>5. \A x \in Workers : snapshot'[x] \subseteq snapshot[x]
      BY ZenonT(60), <2>1, <2>3
    <2>6. calls' \subseteq Range(pushed) \X Listeners
      <3>1. calls \subseteq Range(pushed) \X Listeners
        BY ZenonT(60) DEF AbsentOK
      <3>2. <<task[w], l>> \in Range(pushed) \X Listeners
        BY ZenonT(60), <2>3, <2>4
      <3> QED
        BY ZenonT(60), <2>1, <3>1, <3>2
    <2>7. \A c \in calls' : c[2] \notin absent[c[1]]
      <3>1. \A c \in calls : c[2] \notin absent[c[1]]
        BY ZenonT(60) DEF AbsentOK, NoCallAfterUnsubscribe
      <3>2. \A c \in {<<task[w], l>>} : c[2] \notin absent[c[1]]
        <4>1. <<task[w], l>>[1] = task[w] /\ <<task[w], l>>[2] = l
          BY ZenonT(60)
        <4> QED
          BY ZenonT(60), <2>4, <4>1
      <3> QED
        BY ZenonT(60), <2>1, <3>1, <3>2
    <2> QED
      BY ZenonT(60), <2>2, <2>5, <2>6, <2>7 DEF AbsentOK, NoCallAfterUnsubscribe
  <1>5. ASSUME NEW l \in Listeners, Subscribe(l) \/ Unsubscribe(l) PROVE AbsentOK'
    BY <1>5 DEF Subscribe, Unsubscribe, AbsentOK, NoCallAfterUnsubscribe
  <1>6. ASSUME UNCHANGED <<queue, pushed, snapshot, absent, calls, slots, gone>>,
               \A w \in Workers : wpc'[w] \in {"run", "calling"} =>
                                    wpc'[w] = wpc[w] /\ task'[w] = task[w]
        PROVE  AbsentOK'
    BY ZenonT(60), <1>6 DEF AbsentOK, NoCallAfterUnsubscribe
  <1>7. ASSUME NEW w \in Workers, DispatchDone(w) PROVE AbsentOK'
    <2>1. UNCHANGED <<queue, pushed, snapshot, absent, calls, slots, gone>>
      BY <1>7 DEF DispatchDone
    <2>2. ASSUME NEW x \in Workers, wpc'[x] \in {"run", "calling"}
          PROVE  wpc'[x] = wpc[x] /\ task'[x] = task[x]
      BY ZenonT(60), <1>7, <2>2 DEF DispatchDone, TypeOK
    <2> QED
      BY ZenonT(60), <1>6, <2>1, <2>2
  <1>8. ASSUME NEW w \in Workers,
               \/ WorkerLoop(w) \/ TryPopFails(w) \/ WaitStopped(w) \/ WaitNotReady(w)
               \/ Park(w) \/ SpuriousWakeup(w)
        PROVE  AbsentOK'
    BY ZenonT(60), <1>6, <1>8 DEF WorkerLoop, TryPopFails, WaitStopped, WaitNotReady, Park,
                                SpuriousWakeup, TypeOK
  <1>9. ASSUME NEW e \in Events, Notify(e) PROVE AbsentOK'
    BY ZenonT(60), <1>6, <1>9 DEF Notify, Blocked, TypeOK
  <1>10. CASE StartWorkers \/ NotifyAll
    BY ZenonT(60), <1>6, <1>10 DEF StartWorkers, NotifyAll, TypeOK
  <1>11. CASE CloseInbox \/ RequestStop \/ Join \/ StopReturns
    BY ZenonT(60), <1>6, <1>11 DEF CloseInbox, RequestStop, Join, StopReturns
  <1>12. CASE UNCHANGED vars
    BY ZenonT(60), <1>6, <1>12 DEF vars
  <1> QED
    BY ZenonT(60), <1>1, <1>2, <1>3, <1>4, <1>5, <1>7, <1>8, <1>9, <1>10, <1>11, <1>12
       DEF Next, WorkerStep, Controller

(* ScopedSubscription::reset and dispatch_sync: for any number of workers, *)
(* publishers and subscriptions, a listener whose subscription had ended   *)
(* when an event was published is never called for it, although the calls  *)
(* are made from a snapshot without the bucket's mutex.                    *)
THEOREM BusNoCallAfterUnsubscribe == Spec => []NoCallAfterUnsubscribe
  <1>1. Init => AbsentOK
    BY SMT, SMTT(60) DEF Init, AbsentOK, NoCallAfterUnsubscribe, Range
  <1>2. AbsentOK => NoCallAfterUnsubscribe
    BY ZenonT(60) DEF AbsentOK
  <1> QED
    BY <1>1, <1>2, BusTypes, NextAbsent, PTL DEF Spec

-----------------------------------------------------------------------------
(* The connection to the service.                                          *)

Numbers == 1 .. MaxFrames

(* The frames on their way are frames of the heartbeat: what is written    *)
(* was pumped.                                                             *)
FramesOK ==
  /\ pumped \in Nat
  /\ outbound \in Seq(Frames) /\ drained \in Seq(Frames)
  /\ write_queue \in Seq(Numbers) /\ wire \in Seq(Numbers)

Closing == {"close", "join_loop", "join_connect"}
Places == Closing \cup {"idle", "arm", "gone", "none", "create", "connect", "spawn", "assign", "poll",
                        "exited", "test", "service"}

(* The thread of libwebsockets and the one that connects are in            *)
(* close_internal, or have joined themselves there, only behind a callback *)
(* that reported the end.                                                  *)
ClosingIsEnded ==
  /\ at \in [Threads -> Places]
  /\ at["loop"] \in Closing => ended = TRUE
  /\ at["connect"] \in Closing => ended = TRUE
  /\ fault = "self_join" => ended = TRUE

(* The frames taken stand among the frames dispatched from place i on.     *)
Window(i) == \A k \in 1 .. Len(accepted) : accepted[k] = ours[i + k]

(* Before the connection stands nothing is taken; while it stands the      *)
(* frames taken are the last ones dispatched; and it never stands twice.   *)
TakenOK ==
  /\ at \in [Threads -> Places]
  /\ connected \in BOOLEAN
  /\ ours \in Seq(Numbers) /\ accepted \in Seq(Numbers) /\ drained \in Seq(Frames)
  /\ Len(accepted) <= Len(ours)
  /\ at["connect"] \in {"none", "create", "connect"} => link = "none"
  /\ link \in {"none", "connecting"} => accepted = <<>> /\ connected = FALSE
  /\ connected = TRUE => Window(Len(ours) - Len(accepted))
  /\ \E i \in 0 .. Len(ours) - Len(accepted) : Window(i)

(* Every step keeps the frames.                                            *)
LEMMA FramesKept ==
  ASSUME FramesOK, [TransportNext]_transport_vars
  PROVE  FramesOK'
<1> USE TransportAssumption
<1>1. CASE Pump
  <2>1. pumped + 1 \in Numbers  BY <1>1 DEF Pump, FramesOK, Numbers
  <2>2. PICK s \in {"ours", "other"} :
               outbound' = Append(outbound, [number |-> pumped + 1, session |-> s])
    BY <1>1 DEF Pump
  <2>3. [number |-> pumped + 1, session |-> s] \in Frames  BY <2>1 DEF Frames, Numbers
  <2> QED  BY <1>1, <2>2, <2>3 DEF Pump, FramesOK, sending
<1>2. CASE DispatchPending
  BY <1>2 DEF DispatchPending, FramesOK, sending
<1>3. CASE SkipFrame
  BY <1>3 DEF SkipFrame, FramesOK, sending
<1>4. CASE Send
  <2>1. Head(drained) \in Frames /\ Tail(drained) \in Seq(Frames)
    BY <1>4 DEF Send, FramesOK
  <2>2. Head(drained).number \in Numbers  BY <2>1 DEF Frames, Numbers
  <2>3. write_queue' = Append(write_queue, Head(drained).number) \/ write_queue' = write_queue
    BY <1>4 DEF Send
  <2>4. write_queue' \in Seq(Numbers)
    BY ZenonT(60), <2>2, <2>3, AppendItems DEF FramesOK
  <2> QED  BY <1>4, <2>1, <2>4 DEF Send, FramesOK
<1>5. CASE Writeable
  BY <1>5 DEF Writeable, Popped, FramesOK, scheduler
<1>6. CASE Receive \/ Established \/ LoopTest \/ ServiceReturns \/ LinkEnds \/ Arm
  BY ZenonT(60), <1>6 DEF Receive, Established, LoopTest, ServiceReturns, LinkEnds, Arm, FramesOK, sending, scheduler
<1>7. CASE Open \/ Close \/ Destruct \/ ConnectStep
  BY ZenonT(60), <1>7 DEF Open, Close, Destruct, ConnectStep, CreateContext, ConnectWsi, StartLoop, AssignLoop,
              DestroyContext, CloseStep, SetClosed, JoinLoop, JoinConnect, FramesOK, sending, scheduler
<1>8. CASE CloseStep("owner") \/ CloseStep("loop")
  BY ZenonT(60), <1>8 DEF CloseStep, SetClosed, JoinLoop, JoinConnect, FramesOK, sending, scheduler
<1>9. CASE UNCHANGED transport_vars
  BY <1>9 DEF transport_vars, FramesOK, sending, scheduler
<1> QED  BY <1>1, <1>2, <1>3, <1>4, <1>5, <1>6, <1>7, <1>8, <1>9 DEF TransportNext, OwnerStep, LoopStep

(* send_text and WRITEABLE: the connection implements the abstract queue.  *)
THEOREM TransportIsQueue == TransportSpec => WritesInOrder
<1>1. TransportInit => FramesOK /\ Queue!QInit
  BY TransportAssumption DEF TransportInit, FramesOK, Queue!QInit
<1>2. FramesOK /\ [TransportNext]_transport_vars => [Queue!QNext]_(Queue!qVars)
  <2> SUFFICES ASSUME FramesOK, [TransportNext]_transport_vars
               PROVE  Queue!QNext \/ UNCHANGED <<write_queue, wire>>
    BY DEF Queue!qVars
  <2>1. CASE Send
    <3>1. Head(drained).number \in 1 .. MaxFrames
      <4>1. Head(drained) \in Frames  BY <2>1 DEF Send, FramesOK
      <4> QED  BY <4>1 DEF Frames
    <3>2. CASE Takes
      <4>1. Queue!Put(Head(drained).number)  BY <2>1, <3>2 DEF Send, Queue!Put
      <4> QED  BY <3>1, <4>1 DEF Queue!QNext
    <3>3. CASE ~Takes
      BY <2>1, <3>3 DEF Send
    <3> QED  BY <3>2, <3>3
  <2>2. CASE Writeable
    <3>1. CASE write_queue = <<>>
      BY <2>2, <3>1 DEF Writeable, Popped
    <3>2. CASE write_queue # <<>>
      <4>1. 1 \in 1 .. Len(write_queue)  BY <3>2 DEF FramesOK
      <4>2. SubSeq(write_queue, 1, 1) = <<Head(write_queue)>>
        BY <3>2, <4>1, FirstOfSeq DEF FramesOK
      <4>3. SubSeq(write_queue, 2, Len(write_queue)) = Tail(write_queue)  BY <3>2 DEF FramesOK
      <4>4. wire \o <<Head(write_queue)>> = Append(wire, Head(write_queue))
        BY <3>2 DEF FramesOK
      <4>5. wire' = Append(wire, Head(write_queue)) /\ write_queue' = Tail(write_queue)
        BY <2>2, <3>2 DEF Writeable, Popped
      <4>6. Queue!TakeFirst(1)  BY <4>2, <4>3, <4>4, <4>5 DEF Queue!TakeFirst
      <4> QED  BY <4>1, <4>6 DEF Queue!QNext
    <3> QED  BY <3>1, <3>2
  <2>3. CASE Pump \/ DispatchPending \/ SkipFrame \/ Arm
    BY ZenonT(60), <2>3 DEF Pump, DispatchPending, SkipFrame, Arm, sending
  <2>4. CASE Receive \/ Established \/ LoopTest \/ ServiceReturns \/ LinkEnds
    BY <2>4 DEF Receive, Established, LoopTest, ServiceReturns, LinkEnds, sending
  <2>5. CASE Open \/ Close \/ Destruct \/ ConnectStep
    BY ZenonT(60), <2>5 DEF Open, Close, Destruct, ConnectStep, CreateContext, ConnectWsi, StartLoop, AssignLoop,
                DestroyContext, CloseStep, SetClosed, JoinLoop, JoinConnect, sending
  <2>6. CASE CloseStep("owner") \/ CloseStep("loop")
    BY ZenonT(60), <2>6 DEF CloseStep, SetClosed, JoinLoop, JoinConnect, sending
  <2>7. CASE UNCHANGED transport_vars
    BY <2>7 DEF transport_vars, sending
  <2> QED  BY <2>1, <2>2, <2>3, <2>4, <2>5, <2>6, <2>7 DEF TransportNext, OwnerStep, LoopStep
<1> QED  BY <1>1, <1>2, FramesKept, PTL DEF TransportSpec, WritesInOrder, Queue!QSpec

(* Every step keeps what is known of the threads that close.               *)
LEMMA ClosingKept ==
  ASSUME ClosingIsEnded, [TransportNext]_transport_vars
  PROVE  ClosingIsEnded'
<1> USE DEF ClosingIsEnded, Closing, Places, Threads
<1>1. CASE Pump \/ DispatchPending \/ SkipFrame
  BY ZenonT(60), <1>1 DEF Pump, DispatchPending, SkipFrame, threads
<1>2. CASE Send \/ Arm
  BY ZenonT(60), <1>2 DEF Send, Arm, Goto, MayFault
<1>3. CASE Open \/ Close \/ Destruct
  BY ZenonT(60), <1>3 DEF Open, Close, Destruct, Goto
<1>4. CASE CreateContext \/ ConnectWsi
  BY <1>4 DEF CreateContext, ConnectWsi, Goto
<1>5. CASE StartLoop \/ AssignLoop
  BY <1>5 DEF StartLoop, AssignLoop, Goto
<1>6. CASE DestroyContext
  BY ZenonT(60), <1>6 DEF DestroyContext, AfterDestroy, Goto, MayFault
<1>7. CASE LoopTest \/ ServiceReturns \/ Established \/ Receive \/ Writeable
  BY <1>7 DEF LoopTest, ServiceReturns, Established, Receive, Writeable, Goto
<1>8. CASE LinkEnds
  BY <1>8 DEF LinkEnds, Goto
<1>9. ASSUME NEW t \in Threads, SetClosed(t)
      PROVE  ClosingIsEnded'
  BY <1>9 DEF SetClosed, Goto, MayFault
<1>10. ASSUME NEW t \in Threads, JoinLoop(t)
       PROVE  ClosingIsEnded'
  BY <1>10 DEF JoinLoop, Goto
<1>11. ASSUME NEW t \in Threads, JoinConnect(t)
       PROVE  ClosingIsEnded'
  BY <1>11 DEF JoinConnect, Return, Goto, MayFault
<1>12. CASE UNCHANGED transport_vars
  BY <1>12 DEF transport_vars, threads
<1> QED
  BY ZenonT(60), <1>1, <1>2, <1>3, <1>4, <1>5, <1>6, <1>7, <1>8, <1>9, <1>10, <1>11, <1>12
  DEF TransportNext, OwnerStep, ConnectStep, LoopStep, CloseStep

(* close_internal: a thread joins itself only behind a callback that       *)
(* reported an error or the close.                                         *)
THEOREM TransportSelfJoin == TransportSpec => []SelfJoinOnlyIfEnded
<1>1. TransportInit => ClosingIsEnded
  BY DEF TransportInit, ClosingIsEnded, Closing, Places, Threads
<1>2. ClosingIsEnded => SelfJoinOnlyIfEnded
  BY ZenonT(60) DEF ClosingIsEnded, SelfJoinOnlyIfEnded
<1> QED  BY <1>1, <1>2, ClosingKept, PTL DEF TransportSpec

(* A frame dispatched is taken behind the ones before it, or passed by.    *)
LEMMA SendKeepsTaken ==
  ASSUME TakenOK, Send
  PROVE  TakenOK'
<1> DEFINE n == Head(drained).number
<1>1. Head(drained) \in Frames /\ Tail(drained) \in Seq(Frames)  BY DEF Send, TakenOK
<1>2. n \in Numbers  BY <1>1 DEF Frames, Numbers
<1>3. ours' = Append(ours, n) /\ drained' = Tail(drained) /\ UNCHANGED <<link, connected>>
  BY DEF Send, flags
<1>4. /\ ours' \in Seq(Numbers) /\ Len(ours') = Len(ours) + 1
      /\ \A k \in 1 .. Len(ours) : ours'[k] = ours[k]
      /\ ours'[Len(ours) + 1] = n
  BY <1>2, <1>3, AppendItems DEF TakenOK
<1>5. at' \in [Threads -> Places] /\ at'["connect"] = at["connect"]
  BY DEF Send, Goto, TakenOK, Threads, Places
<1> HIDE DEF n
<1>6. CASE connected = TRUE
  <2>1. accepted' = Append(accepted, n)  BY ZenonT(60), <1>6 DEF Send, Takes, n
  <2>2. /\ accepted' \in Seq(Numbers) /\ Len(accepted') = Len(accepted) + 1
        /\ \A k \in 1 .. Len(accepted) : accepted'[k] = accepted[k]
        /\ accepted'[Len(accepted) + 1] = n
    BY <1>2, <2>1, AppendItems DEF TakenOK
  <2>3. Window(Len(ours) - Len(accepted))  BY <1>6 DEF TakenOK
  <2>4. Len(ours) \in Nat /\ Len(accepted) \in Nat /\ Len(accepted) <= Len(ours)
    BY DEF TakenOK
  <2>5. \A k \in 1 .. Len(accepted') : accepted'[k] = ours'[Len(ours') - Len(accepted') + k]
    <3> SUFFICES ASSUME NEW k \in 1 .. Len(accepted')
                 PROVE  accepted'[k] = ours'[Len(ours') - Len(accepted') + k]
      OBVIOUS
    <3>1. CASE k = Len(accepted) + 1
      BY <1>4, <2>2, <2>4, <3>1
    <3>2. CASE k \in 1 .. Len(accepted)
      BY <1>4, <2>2, <2>3, <2>4, <3>2 DEF Window
    <3> QED  BY <2>2, <2>4, <3>1, <3>2
  <2>6. Len(ours') - Len(accepted') \in 0 .. Len(ours') - Len(accepted')
    BY <1>4, <2>2, <2>4
  <2>7. ~(link \in {"none", "connecting"})  BY <1>6 DEF TakenOK
  <2>8. (\E i \in 0 .. Len(ours) - Len(accepted) : Window(i))'  BY ZenonT(60), <2>5, <2>6 DEF Window
  <2>9. Window(Len(ours) - Len(accepted))'  BY <2>5 DEF Window
  <2>10. Len(accepted') <= Len(ours')  BY <1>4, <2>2, <2>4
  <2> QED
    BY <1>1, <1>3, <1>4, <1>5, <1>6, <2>2, <2>7, <2>8, <2>9, <2>10 DEF TakenOK
<1>7. CASE connected = FALSE
  <2>1. accepted' = accepted  BY <1>7 DEF Send, Takes
  <2>2. Len(ours) \in Nat /\ Len(accepted) \in Nat  BY DEF TakenOK
  <2>3. PICK i \in 0 .. Len(ours) - Len(accepted) : Window(i)  BY DEF TakenOK
  <2>4. \A k \in 1 .. Len(accepted') : accepted'[k] = ours'[i + k]
    BY SMT, SMTT(60), <1>4, <2>1, <2>2, <2>3 DEF Window
  <2>5. i \in 0 .. Len(ours') - Len(accepted')  BY <1>4, <2>1, <2>2
  <2>6. Len(accepted') <= Len(ours')  BY <1>4, <2>1, <2>2 DEF TakenOK
  <2> QED
    BY ZenonT(60), <1>1, <1>3, <1>4, <1>5, <1>7, <2>1, <2>4, <2>5, <2>6 DEF TakenOK, Window
<1> QED  BY ZenonT(60), <1>6, <1>7 DEF TakenOK

(* Every step keeps what is known of the frames taken.                     *)
LEMMA TakenKept ==
  ASSUME TakenOK, FramesOK, [TransportNext]_transport_vars
  PROVE  TakenOK'
<1> DEFINE Same == UNCHANGED <<ours, accepted, drained>>
<1>1. ASSUME Same, at' \in [Threads -> Places], connected' \in BOOLEAN,
             at'["connect"] \in {"none", "create", "connect"} => link' = "none",
             link' \in {"none", "connecting"} => accepted = <<>> /\ connected' = FALSE,
             connected' = TRUE => connected = TRUE \/ accepted = <<>>
      PROVE  TakenOK'
  <2>1. accepted = <<>> => Window(Len(ours) - Len(accepted))  BY DEF Window
  <2>2. connected' = TRUE => Window(Len(ours) - Len(accepted))  BY <1>1, <2>1 DEF TakenOK
  <2> QED  BY <1>1, <2>2 DEF TakenOK, Window
<1> USE DEF Threads, Places, Closing
<1>2. CASE Pump
  BY ZenonT(60), <1>1, <1>2 DEF Pump, threads, flags, TakenOK
<1>3. CASE DispatchPending \/ SkipFrame
  <2>1. drained' \in Seq(Frames)
    <3>1. CASE DispatchPending  BY <3>1 DEF DispatchPending, FramesOK
    <3>2. CASE SkipFrame  BY <3>2 DEF SkipFrame, FramesOK
    <3> QED  BY <1>3, <3>1, <3>2
  <2>2. UNCHANGED <<at, connected, link, ours, accepted>>
    BY <1>3 DEF DispatchPending, SkipFrame, threads, flags
  <2> QED  BY <2>1, <2>2 DEF TakenOK, Window
<1>4. CASE Send
  BY <1>4, SendKeepsTaken
<1>5. CASE Arm \/ Open \/ Close \/ Destruct
  BY ZenonT(60), <1>1, <1>5 DEF Arm, Open, Close, Destruct, Goto, flags, scheduler, TakenOK
<1>6. CASE CreateContext \/ ConnectWsi
  BY ZenonT(60), <1>1, <1>6 DEF CreateContext, ConnectWsi, Goto, scheduler, TakenOK
<1>7. CASE StartLoop \/ AssignLoop
  BY ZenonT(60), <1>1, <1>7 DEF StartLoop, AssignLoop, Goto, flags, scheduler, TakenOK
<1>8. CASE DestroyContext
  BY ZenonT(60), <1>1, <1>8 DEF DestroyContext, AfterDestroy, Goto, scheduler, TakenOK
<1>9. CASE LoopTest \/ ServiceReturns \/ Receive \/ Writeable
  BY ZenonT(60), <1>1, <1>9 DEF LoopTest, ServiceReturns, Receive, Writeable, Goto, flags, scheduler, TakenOK
<1>10. CASE Established
  BY ZenonT(60), <1>1, <1>10 DEF Established, Goto, scheduler, TakenOK
<1>11. CASE LinkEnds
  BY ZenonT(60), <1>1, <1>11 DEF LinkEnds, Goto, flags, scheduler, TakenOK
<1>12. ASSUME NEW t \in Threads, SetClosed(t)  PROVE TakenOK'
  BY ZenonT(60), <1>1, <1>12 DEF SetClosed, Goto, scheduler, TakenOK
<1>13. ASSUME NEW t \in Threads, JoinLoop(t)  PROVE TakenOK'
  <2>1. Same /\ UNCHANGED <<connected, link>>  BY <1>13 DEF JoinLoop, flags, scheduler
  <2>2. at' \in [Threads -> Places]  BY <1>13 DEF JoinLoop, Goto, TakenOK
  <2>3. at'["connect"] \in {at["connect"], "join_connect"}
    BY <1>13 DEF JoinLoop, Goto, TakenOK
  <2> QED  BY ZenonT(60), <1>1, <2>1, <2>2, <2>3 DEF TakenOK
<1>14. ASSUME NEW t \in Threads, JoinConnect(t)  PROVE TakenOK'
  <2>1. Same /\ UNCHANGED <<connected, link>>  BY <1>14 DEF JoinConnect, scheduler
  <2>2. at' \in [Threads -> Places]  BY <1>14 DEF JoinConnect, Return, Goto, TakenOK
  <2>3. at'["connect"] \in {at["connect"], "spawn"}
    BY <1>14 DEF JoinConnect, Return, Goto, TakenOK
  <2> QED  BY ZenonT(60), <1>1, <2>1, <2>2, <2>3 DEF TakenOK
<1>15. CASE UNCHANGED transport_vars
  <2>1. Same /\ UNCHANGED <<at, connected, link>>
    BY <1>15 DEF transport_vars, threads, flags, scheduler
  <2> QED  BY ZenonT(60), <1>1, <2>1 DEF TakenOK
<1> QED
  BY ZenonT(60), <1>2, <1>3, <1>4, <1>5, <1>6, <1>7, <1>8, <1>9, <1>10, <1>11, <1>12, <1>13, <1>14, <1>15
  DEF TransportNext, OwnerStep, ConnectStep, LoopStep, CloseStep

(* UpstreamClient::send: between the first frame taken and the last, no    *)
(* frame dispatched for the session is left out.                           *)
THEOREM TransportNoGap == TransportSpec => []NoGapInFrames
<1>1. TransportInit => FramesOK /\ TakenOK
  <2> SUFFICES ASSUME TransportInit PROVE FramesOK /\ TakenOK  OBVIOUS
  <2>1. FramesOK  BY TransportAssumption DEF TransportInit, FramesOK
  <2>2. 0 \in 0 .. Len(ours) - Len(accepted) /\ Window(0)  BY DEF TransportInit, Window
  <2>3. at \in [Threads -> Places]  BY DEF TransportInit, Threads, Places
  <2>4. /\ ours = <<>> /\ accepted = <<>> /\ drained = <<>>
        /\ connected = FALSE /\ link = "none"
    BY DEF TransportInit
  <2>5. /\ ours \in Seq(Numbers) /\ accepted \in Seq(Numbers) /\ drained \in Seq(Frames)
        /\ Len(accepted) <= Len(ours)
    BY <2>4
  <2>6. \E i \in 0 .. Len(ours) - Len(accepted) : Window(i)  BY <2>2
  <2> QED  BY ZenonT(60), <2>1, <2>3, <2>4, <2>5, <2>6 DEF TakenOK
<1>2. TakenOK => NoGapInFrames
  <2> SUFFICES ASSUME TakenOK PROVE NoGapInFrames  OBVIOUS
  <2>1. PICK i \in 0 .. Len(ours) - Len(accepted) : Window(i)  BY ZenonT(60) DEF TakenOK
  <2> DEFINE part == SubSeq(ours, i + 1, i + Len(accepted))
  <2>2. /\ part \in Seq(Numbers) /\ Len(part) = Len(accepted)
        /\ \A k \in 1 .. Len(accepted) : part[k] = ours[i + k]
    BY SubSeqItems DEF TakenOK
  <2> HIDE DEF part
  <2>3. accepted \in Seq(Numbers) /\ \A k \in 1 .. Len(accepted) : accepted[k] = part[k]
    BY ZenonT(60), <2>1, <2>2 DEF TakenOK, Window
  <2>4. accepted = part  BY ZenonT(60), <2>2, <2>3, SameItems
  <2> QED  BY ZenonT(60), <2>4 DEF part, NoGapInFrames
<1> QED  BY <1>1, <1>2, FramesKept, TakenKept, PTL DEF TransportSpec

-----------------------------------------------------------------------------
(* The local engine.                                                       *)

(* Rounding down.                                                          *)
LEMMA Quotient ==
  ASSUME NEW a \in Int, NEW b \in Int, b > 0
  PROVE  /\ a \div b \in Int /\ a % b \in Int /\ 0 <= a % b /\ a % b < b
         /\ a = b * (a \div b) + (a % b)
         /\ b * (a \div b) <= a /\ a < b * (a \div b) + b
         /\ \A q \in Int : b * q <= a /\ a < b * q + b => a \div b = q
  OBVIOUS

(* std::max and std::min.                                                  *)
LEMMA MaxMin ==
  ASSUME NEW a \in Int, NEW b \in Int
  PROVE  /\ Max({a, b}) = (IF a >= b THEN a ELSE b)
         /\ Min({a, b}) = (IF a <= b THEN a ELSE b)
  <1>1. PICK m \in {a, b} : m = (IF a >= b THEN a ELSE b) /\ \A y \in {a, b} : m >= y
    OBVIOUS
  <1>2. Max({a, b}) \in {a, b} /\ \A y \in {a, b} : Max({a, b}) >= y
    BY ZenonT(60), <1>1 DEF Max
  <1>3. PICK n \in {a, b} : n = (IF a <= b THEN a ELSE b) /\ \A y \in {a, b} : n <= y
    OBVIOUS
  <1>4. Min({a, b}) \in {a, b} /\ \A y \in {a, b} : Min({a, b}) <= y
    BY ZenonT(60), <1>3 DEF Min
  <1>5. Max({a, b}) = m /\ Min({a, b}) = n
    BY <1>1, <1>2, <1>3, <1>4
  <1> QED
    BY <1>1, <1>3, <1>5

(* float_to_int16 keeps within full scale.                                 *)
LEMMA FloatToInt16Range ==
  ASSUME NEW x \in Int
  PROVE  FloatToInt16(x) \in Int /\ -FullScale <= FloatToInt16(x) /\ FloatToInt16(x) <= FullScale
  <1>1. FullScale \in Nat
    BY EngineAssumption
  <1>2. FullScale \in Int /\ -FullScale \in Int
    BY <1>1
  <1>3. PICK y : y = Min({x, FullScale})
    OBVIOUS
  <1>4. y = IF x <= FullScale THEN x ELSE FullScale
    BY ZenonT(60), <1>2, <1>3, MaxMin
  <1>5. y \in Int /\ y <= FullScale
    BY <1>2, <1>4
  <1>6. PICK z : z = Max({-FullScale, y})
    OBVIOUS
  <1>7. z = IF -FullScale >= y THEN -FullScale ELSE y
    BY ZenonT(60), <1>2, <1>5, <1>6, MaxMin
  <1>8. z \in Int /\ -FullScale <= z /\ z <= FullScale
    BY <1>1, <1>5, <1>7
  <1> QED
    BY <1>3, <1>6, <1>8 DEF FloatToInt16

(* lrint of a fraction between two integers lies between them.             *)
LEMMA LrIntBetween ==
  ASSUME NEW num \in Int, NEW den \in Int, den > 0, NEW lo \in Int, NEW hi \in Int,
         den * lo <= num, num <= den * hi
  PROVE  LrInt(num, den) \in Int /\ lo <= LrInt(num, den) /\ LrInt(num, den) <= hi
  <1>1. PICK q, r : q = num \div den /\ r = num % den
    OBVIOUS
  <1>2. /\ q \in Int /\ r \in Int /\ 0 <= r /\ r < den /\ num = den * q + r
    BY <1>1, Quotient
  <1>3. lo <= q
    <2>1. CASE q < lo
      <3>1. den * q + den <= den * lo
        BY <1>2, <2>1
      <3> QED
        BY <1>2, <3>1
    <2> QED
      BY <1>2, <2>1
  <1>4. q <= hi
    <2>1. CASE q > hi
      <3>1. den * hi + den <= den * q
        BY <1>2, <2>1
      <3> QED
        BY <1>2, <3>1
    <2> QED
      BY <1>2, <2>1
  <1>5. ASSUME r > 0 PROVE q + 1 <= hi
    <2>1. CASE q = hi
      BY <1>2, <1>5, <2>1
    <2> QED
      BY <1>2, <1>4, <2>1
  <1>6. LrInt(num, den) = IF 2 * r < den \/ (2 * r = den /\ q % 2 = 0) THEN q ELSE q + 1
    BY ZenonT(60), <1>1 DEF LrInt
  <1> QED
    BY <1>2, <1>3, <1>4, <1>5, <1>6

(* A weighted sum of two numbers lies between bounds of both.              *)
LEMMA WeightedBetween ==
  ASSUME NEW a \in Int, NEW b \in Int, NEW c \in Int, NEW d \in Int,
         NEW t \in Int, NEW to \in Int,
         c <= a, c <= b, a <= d, b <= d, 0 <= t, t < to
  PROVE  /\ (to - t) * a + t * b \in Int
         /\ to * c <= (to - t) * a + t * b /\ (to - t) * a + t * b <= to * d
  <1>1. PICK u : u = to - t
    OBVIOUS
  <1>2. u \in Int /\ 0 <= u
    BY <1>1
  <1>3. u * c <= u * a /\ u * a <= u * d
    BY <1>2
  <1>4. t * c <= t * b /\ t * b <= t * d
    OBVIOUS
  <1>5. to * c = u * c + t * c /\ to * d = u * d + t * d
    BY <1>1
  <1>6. PICK ua, uc, ud, tb, tc, td :
           /\ ua = u * a /\ uc = u * c /\ ud = u * d
           /\ tb = t * b /\ tc = t * c /\ td = t * d
    OBVIOUS
  <1>7. ua \in Int /\ uc \in Int /\ ud \in Int /\ tb \in Int /\ tc \in Int /\ td \in Int
    BY <1>2, <1>6
  <1>8. uc <= ua /\ ua <= ud /\ tc <= tb /\ tb <= td
    BY ZenonT(60), <1>3, <1>4, <1>6
  <1>9. ua + tb \in Int /\ uc + tc <= ua + tb /\ ua + tb <= ud + td
    BY <1>7, <1>8
  <1> QED
    BY ZenonT(60), <1>1, <1>5, <1>6, <1>9

\* out is s, of n samples, brought from one rate to the other.
Between(s, n, from, to, out) ==
  \E m \in Nat :
    /\ out = [k \in 1 .. m |-> out[k]]
    /\ m * from >= n * to /\ (m - 1) * from < n * to
    /\ \A k \in 1 .. m : \E i, j \in 1 .. n : s[i] <= out[k] /\ out[k] <= s[j]

(* resample_linear reads inside its input, and every sample it makes lies  *)
(* between two of the input; their number is the length rounded up.        *)
LEMMA ResampleInside ==
  ASSUME NEW n \in Nat, n > 0, NEW s \in [1 .. n -> Int],
         NEW from \in Nat, from > 0, NEW to \in Nat, to > 0,
         NEW out, out = ResampleLinear(s, from, to)
  PROVE  Between(s, n, from, to, out)
  <1>1. Len(s) = n
    OBVIOUS
  <1>2. PICK m : m = (n * to + from - 1) \div from
    OBVIOUS
  <1>3. n * to \in Nat /\ n * to > 0
    OBVIOUS
  <1>4. m \in Int /\ from * m <= n * to + from - 1 /\ n * to + from - 1 < from * m + from
    BY <1>2, <1>3, Quotient
  <1>5. m \in Nat
    <2>1. CASE m < 0
      <3>1. from * m + from <= 0
        BY <1>4, <2>1
      <3> QED
        BY <1>3, <1>4, <3>1
    <2> QED
      BY <1>4, <2>1
  <1>6. m * from >= n * to /\ (m - 1) * from < n * to
    <2>1. m * from = from * m /\ (m - 1) * from = from * m - from
      BY <1>4
    <2> QED
      BY <1>3, <1>4, <2>1
  <1> DEFINE V(k) == LET pos == (k - 1) * from
                         i0 == pos \div to
                         t == pos % to
                     IN  LrInt((to - t) * At(s, i0) + t * At(s, Neighbour(i0, n)), to)
  <1>7. out = [k \in 1 .. m |-> V(k)]
    BY ZenonT(60), <1>1, <1>2 DEF ResampleLinear
  <1>8. ASSUME NEW k \in 1 .. m
        PROVE  V(k) \in Int /\ \E i, j \in 1 .. n : s[i] <= V(k) /\ V(k) <= s[j]
    <2>a. PICK pos : pos = (k - 1) * from
      OBVIOUS
    <2>b. PICK i0, t : i0 = pos \div to /\ t = pos % to
      OBVIOUS
    <2>c. PICK i1 : i1 = Neighbour(i0, n)
      OBVIOUS
    <2>1. pos \in Nat /\ pos < to * n
      <3>1. (k - 1) * from <= (m - 1) * from /\ (k - 1) * from \in Nat
        BY <1>5
      <3>2. n * to = to * n /\ n * to \in Int /\ (m - 1) * from \in Int
        <4>1. n \in Int /\ to \in Int /\ m - 1 \in Int /\ from \in Int
          BY <1>5
        <4> QED
          BY ZenonT(60), <4>1, Products
      <3> QED
        BY <1>6, <2>a, <3>1, <3>2
    <2>2. /\ i0 \in Int /\ t \in Int /\ 0 <= t /\ t < to
          /\ to * i0 <= pos /\ pos < to * i0 + to
      BY <2>1, <2>b, Quotient
    <2>3. 0 <= i0
      <3>1. CASE i0 < 0
        <4>1. to * i0 + to <= 0
          BY <2>2, <3>1
        <4> QED
          BY <2>1, <2>2, <4>1
      <3> QED
        BY <2>2, <3>1
    <2>4. i0 < n
      <3>1. CASE i0 >= n
        <4>1. to * n <= to * i0
          BY <2>2, <3>1
        <4> QED
          BY <2>1, <2>2, <4>1
      <3> QED
        BY <2>2, <3>1
    <2>5. i1 \in 0 .. n - 1
      <3>1. i1 = Min({i0 + 1, n - 1})
        BY <2>c DEF Neighbour
      <3>2. i0 + 1 \in Int /\ n - 1 \in Int
        BY <2>2
      <3>3. i1 = IF i0 + 1 <= n - 1 THEN i0 + 1 ELSE n - 1
        BY ZenonT(60), <3>1, <3>2, MaxMin
      <3> QED
        BY <2>2, <2>3, <2>4, <3>3
    <2>6. PICK i, j \in 1 .. n : i = i0 + 1 /\ j = i1 + 1
      BY <2>2, <2>3, <2>4, <2>5
    <2>7. At(s, i0) = s[i] /\ At(s, i1) = s[j] /\ s[i] \in Int /\ s[j] \in Int
      BY <1>1, <2>2, <2>4, <2>5, <2>6 DEF At
    <2>8. PICK lo, hi \in {i, j} : /\ s[lo] <= s[i] /\ s[lo] <= s[j]
                                  /\ s[i] <= s[hi] /\ s[j] <= s[hi]
      BY <2>7
    <2>9. s[lo] \in Int /\ s[hi] \in Int /\ lo \in 1 .. n /\ hi \in 1 .. n
      BY <2>7, <2>8
    <2>10. PICK num : num = (to - t) * At(s, i0) + t * At(s, i1)
      OBVIOUS
    <2>11. num \in Int /\ to * s[lo] <= num /\ num <= to * s[hi]
      <3>1. PICK a, b, c, d : a = s[i] /\ b = s[j] /\ c = s[lo] /\ d = s[hi]
        OBVIOUS
      <3>2. /\ a \in Int /\ b \in Int /\ c \in Int /\ d \in Int /\ t \in Int
            /\ c <= a /\ c <= b /\ a <= d /\ b <= d /\ 0 <= t /\ t < to
        BY ZenonT(60), <2>2, <2>7, <2>8, <2>9, <3>1
      <3>3. num = (to - t) * a + t * b
        BY <2>7, <2>10, <3>1
      <3>4. to \in Int
        OBVIOUS
      <3> QED
        BY ZenonT(60), <3>1, <3>2, <3>3, <3>4, WeightedBetween
    <2>12. to \in Int /\ to > 0
      OBVIOUS
    <2>13. LrInt(num, to) \in Int /\ s[lo] <= LrInt(num, to) /\ LrInt(num, to) <= s[hi]
      BY ZenonT(60), <2>9, <2>11, <2>12, LrIntBetween
    <2>14. V(k) = LrInt(num, to)
      BY ZenonT(60), <2>10, <2>a, <2>b, <2>c
    <2> HIDE DEF V
    <2> QED
      BY ZenonT(60), <2>9, <2>13, <2>14
  <1> HIDE DEF V
  <1>9. \A k \in 1 .. m : out[k] = V(k)
    BY ZenonT(60), <1>7
  <1>10. out = [k \in 1 .. m |-> out[k]]
    BY ZenonT(60), <1>7, <1>9
  <1>11. \A k \in 1 .. m : \E i, j \in 1 .. n : s[i] <= out[k] /\ out[k] <= s[j]
    <2> TAKE k \in 1 .. m
    <2>1. PICK i, j \in 1 .. n : s[i] <= V(k) /\ V(k) <= s[j]
      BY ZenonT(60), <1>8
    <2> QED
      BY ZenonT(60), <1>9, <2>1
  <1> QED
    BY ZenonT(60), <1>5, <1>6, <1>10, <1>11 DEF Between

\* Every sample made lies between two of the input.
WithinInput(input, samples) ==
  \A k \in DOMAIN samples :
    \E i, j \in DOMAIN input :
      FloatToInt16(input[i]) <= samples[k] /\ samples[k] <= FloatToInt16(input[j])

\* What sherpa answers when its model has the rate rate.
Tells(a, via, rate) ==
  /\ a.via = via /\ a.status = "ok"
  /\ WithinInput(a.input, a.samples)
  /\ Len(a.samples) * rate >= Len(a.input) * TargetRate
  /\ (Len(a.samples) - 1) * rate < Len(a.input) * TargetRate

(* SherpaOnnxLocalTts::Synthesize, for everything a model may generate.    *)
LEMMA SherpaTells ==
  ASSUME NEW via, NEW n \in Nat, NEW g \in [1 .. n -> Int], native_sr \in Nat \ {0}
  PROVE  Tells(Sherpa(via, g), via, native_sr)
  <1>1. PICK pcm : pcm = [i \in 1 .. n |-> FloatToInt16(g[i])]
    BY ZenonT(60)
  <1>2. pcm \in [1 .. n -> Int] /\ DOMAIN g = 1 .. n /\ Len(g) = n
    BY <1>1, FloatToInt16Range
  <1>3. PICK out : out = To16kMono(g, native_sr)
    OBVIOUS
  <1>4. out = IF g = <<>> \/ native_sr = TargetRate THEN pcm
              ELSE ResampleLinear(pcm, native_sr, TargetRate)
    BY ZenonT(60), <1>1, <1>2, <1>3 DEF To16kMono
  <1>5. \E m \in Nat :
          /\ out = [k \in 1 .. m |-> out[k]]
          /\ m * native_sr >= n * TargetRate /\ (m - 1) * native_sr < n * TargetRate
          /\ \A k \in 1 .. m : \E i, j \in 1 .. n : pcm[i] <= out[k] /\ out[k] <= pcm[j]
    <2>1. CASE g = <<>>
      <3>1. n = 0
        BY <1>2, <2>1
      <3>2. out = pcm /\ out = [k \in 1 .. 0 |-> out[k]]
        BY <1>2, <1>4, <2>1, <3>1
      <3>3. 0 * native_sr >= n * TargetRate /\ (0 - 1) * native_sr < n * TargetRate
        BY <3>1 DEF TargetRate
      <3>4. \A k \in 1 .. 0 : FALSE
        OBVIOUS
      <3> QED
        BY ZenonT(60), <3>2, <3>3, <3>4
    <2>2. CASE native_sr = TargetRate
      <3>1. out = pcm
        BY <1>4, <2>2
      <3>2. out = [k \in 1 .. n |-> out[k]]
        BY <1>2, <3>1
      <3>3. n * native_sr >= n * TargetRate /\ (n - 1) * native_sr < n * TargetRate
        BY <2>2 DEF TargetRate
      <3>4. \A k \in 1 .. n : pcm[k] <= out[k] /\ out[k] <= pcm[k]
        BY <1>2, <3>1
      <3> QED
        BY ZenonT(60), <3>2, <3>3, <3>4
    <2>3. CASE g # <<>> /\ native_sr # TargetRate
      <3>1. n > 0 /\ native_sr \in Nat /\ native_sr > 0 /\ TargetRate \in Nat /\ TargetRate > 0
        BY <1>2, <2>3 DEF TargetRate
      <3>2. out = ResampleLinear(pcm, native_sr, TargetRate)
        BY <1>4, <2>3
      <3>3. PICK to : to = TargetRate
        OBVIOUS
      <3>4. to \in Nat /\ to > 0 /\ out = ResampleLinear(pcm, native_sr, to)
        BY <3>1, <3>2, <3>3
      <3>5. Between(pcm, n, native_sr, to, out)
        BY ZenonT(60), <1>2, <3>1, <3>4, ResampleInside
      <3> QED
        BY ZenonT(60), <3>3, <3>5 DEF Between
    <2> QED
      BY <2>1, <2>2, <2>3
  <1>6. PICK m \in Nat :
          /\ out = [k \in 1 .. m |-> out[k]]
          /\ m * native_sr >= n * TargetRate /\ (m - 1) * native_sr < n * TargetRate
          /\ \A k \in 1 .. m : \E i, j \in 1 .. n : pcm[i] <= out[k] /\ out[k] <= pcm[j]
    BY ZenonT(60), <1>5
  <1>7. Len(out) = m /\ DOMAIN out = 1 .. m
    BY <1>6
  <1>8. \A i \in 1 .. n : pcm[i] = FloatToInt16(g[i])
    BY <1>1
  <1>9. LET a == Sherpa(via, g)
        IN  a.via = via /\ a.status = "ok" /\ a.input = g /\ a.samples = out
    BY ZenonT(60), <1>3 DEF Sherpa, Answer
  <1>10. PICK a : a = Sherpa(via, g)
    OBVIOUS
  <1>11. a.via = via /\ a.status = "ok" /\ a.input = g /\ a.samples = out
    BY ZenonT(60), <1>9, <1>10
  <1>12. WithinInput(g, out)
    <2> SUFFICES ASSUME NEW k \in DOMAIN out
                 PROVE  \E i, j \in DOMAIN g : /\ FloatToInt16(g[i]) <= out[k]
                                               /\ out[k] <= FloatToInt16(g[j])
      BY DEF WithinInput
    <2>1. k \in 1 .. m
      BY <1>7
    <2>2. PICK i, j \in 1 .. n : pcm[i] <= out[k] /\ out[k] <= pcm[j]
      BY ZenonT(60), <1>6, <2>1
    <2>3. FloatToInt16(g[i]) <= out[k] /\ out[k] <= FloatToInt16(g[j]) /\ i \in DOMAIN g /\ j \in DOMAIN g
      BY ZenonT(60), <1>2, <1>8, <2>2
    <2> QED
      BY <2>3
  <1>13. Len(out) * native_sr >= Len(g) * TargetRate /\ (Len(out) - 1) * native_sr < Len(g) * TargetRate
    BY ZenonT(60), <1>2, <1>6, <1>7
  <1>14. WithinInput(a.input, a.samples)
    BY ZenonT(60), <1>11, <1>12
  <1>15. /\ Len(a.samples) * native_sr >= Len(a.input) * TargetRate
         /\ (Len(a.samples) - 1) * native_sr < Len(a.input) * TargetRate
    BY ZenonT(60), <1>11, <1>13
  <1> QED
    BY ZenonT(60), <1>10, <1>11, <1>14, <1>15 DEF Tells

\* Before the server serves nothing was asked of the engine.
EngineOK ==
  /\ engine \in {"none", "mock", "sherpa"} /\ native_sr \in Nat \ {0}
  /\ IF phase = "serving" THEN engine # "none" ELSE answer = Empty("nobody", "none")
  /\ ServedWhereAsked /\ ResampledInsideInput

\* What is left alone by every use of the engine.
Serving == phase = "serving" /\ UNCHANGED <<phase, exit_code, local, engine, native_sr>>

\* Those for whom the engine synthesizes.
Askers == {"mediator", "auto", "local"}

(* An answer without audio.                                                *)
LEMMA EmptyTells ==
  ASSUME NEW via, NEW outcome
  PROVE  Empty(via, outcome).via = via /\ Empty(via, outcome).status = outcome
  BY DEF Empty, Answer

(* The answer of the mock.                                                 *)
LEMMA MockStep ==
  ASSUME NEW via \in Askers, EngineOK, Serving, engine = "mock", answer' = Mock(via)
  PROVE  EngineOK'
  <1>1. answer'.status = "ok" /\ answer'.via = via
    BY ZenonT(60), EmptyTells DEF Mock
  <1>2. phase' = "serving" /\ engine' = "mock" /\ native_sr' = native_sr
    BY DEF Serving
  <1>3. ServedWhereAsked'
    BY <1>1 DEF ServedWhereAsked, Askers
  <1>4. ResampledInsideInput'
    BY ZenonT(60), <1>2 DEF ResampledInsideInput
  <1> QED
    BY ZenonT(60), <1>2, <1>3, <1>4 DEF EngineOK

(* The answer of sherpa.                                                   *)
LEMMA SherpaStep ==
  ASSUME NEW via \in Askers, NEW n \in Nat, NEW g \in [1 .. n -> Int], EngineOK, Serving,
         engine = "sherpa", answer' = Sherpa(via, g)
  PROVE  EngineOK'
  <1>1. phase' = "serving" /\ engine' = "sherpa" /\ native_sr' = native_sr
    BY DEF Serving
  <1>2. native_sr \in Nat \ {0}
    BY DEF EngineOK
  <1>3. Tells(answer', via, native_sr)
    BY ZenonT(60), <1>2, SherpaTells
  <1>6. answer'.via = via /\ answer'.status = "ok"
    BY <1>3 DEF Tells
  <1>4. ServedWhereAsked'
    BY <1>6 DEF ServedWhereAsked, Askers
  <1>5. ResampledInsideInput'
    BY ZenonT(60), <1>1, <1>3 DEF ResampledInsideInput, Tells, WithinInput
  <1> QED
    BY ZenonT(60), <1>1, <1>2, <1>4, <1>5 DEF EngineOK

(* A use that brings no audio: sherpa failed, or the request went upstream *)
(* although it did not ask for the local engine.                           *)
LEMMA EmptyStep ==
  ASSUME NEW via, NEW outcome \in {"failed", "upstream"}, EngineOK, Serving,
         answer' = Empty(via, outcome),
         outcome = "failed" => via # "upstream",
         outcome = "upstream" => via # "local" /\ (via = "auto" => ~local.prefer_local)
  PROVE  EngineOK'
  <1>1. phase' = "serving" /\ engine' = engine /\ native_sr' = native_sr /\ local' = local
    BY DEF Serving
  <1>2. answer'.via = via /\ answer'.status = outcome
    BY EmptyTells
  <1>3. ServedWhereAsked'
    BY <1>1, <1>2 DEF ServedWhereAsked
  <1>4. ResampledInsideInput'
    BY ZenonT(60), <1>2 DEF ResampledInsideInput
  <1> QED
    BY ZenonT(60), <1>1, <1>3, <1>4 DEF EngineOK, Serving

(* Synthesize, whoever asks.                                               *)
LEMMA SynthesizeStep ==
  ASSUME NEW via \in Askers, EngineOK, Serving, Synthesize(via)
  PROVE  EngineOK'
  <1>1. CASE engine = "mock" /\ answer' = Mock(via)
    BY ZenonT(60), <1>1, MockStep
  <1>2. CASE engine = "sherpa" /\ answer' = Empty(via, "failed")
    <2>1. via # "upstream"
      BY DEF Askers
    <2> QED
      BY ZenonT(60), <1>2, <2>1, EmptyStep
  <1>3. CASE engine = "sherpa" /\ \E n \in 0 .. MaxGenerated :
               \E g \in [1 .. n -> FloatSamples] : answer' = Sherpa(via, g)
    <2>1. PICK n \in 0 .. MaxGenerated :
            \E g \in [1 .. n -> FloatSamples] : answer' = Sherpa(via, g)
      BY <1>3
    <2>0. PICK g \in [1 .. n -> FloatSamples] : answer' = Sherpa(via, g)
      BY <2>1
    <2>2. n \in Nat /\ g \in [1 .. n -> Int]
      <3>1. n \in Nat /\ FloatSamples \subseteq Int
        BY EngineAssumption
      <3>2. \A i \in 1 .. n : g[i] \in Int
        BY ZenonT(60), <2>0, <3>1
      <3>3. g = [i \in 1 .. n |-> g[i]]
        BY ZenonT(60), <2>0
      <3> QED
        BY ZenonT(60), <3>1, <3>2, <3>3
    <2> QED
      BY ZenonT(60), <1>3, <2>0, <2>2, SherpaStep
  <1> QED
    BY ZenonT(60), <1>1, <1>2, <1>3 DEF Synthesize

(* main up to its threads: whatever the environment, an engine comes of it.*)
LEMMA StartStep ==
  ASSUME EngineOK, Start
  PROVE  EngineOK'
  <1>1. phase = "start" /\ answer' = answer /\ answer = Empty("nobody", "none")
    BY ZenonT(60) DEF Start, Exit, EngineOK
  <1>2. answer'.via = "nobody" /\ answer'.status = "none"
    BY <1>1, EmptyTells
  <1>3. ServedWhereAsked' /\ ResampledInsideInput'
    BY ZenonT(60), <1>2 DEF ServedWhereAsked, ResampledInsideInput
  <1>4. /\ engine' \in {"none", "mock", "sherpa"} /\ native_sr' \in Nat \ {0}
        /\ phase' = "serving" => engine' # "none"
    BY ZenonT(60), EngineAssumption DEF Start, Exit, CreateLocalTts, EngineOK
  <1> QED
    BY ZenonT(60), <1>1, <1>3, <1>4 DEF EngineOK

(* Every step.                                                             *)
LEMMA EngineStep ==
  ASSUME EngineOK, [EngineNext]_engine_vars
  PROVE  EngineOK'
  <1>1. CASE Start
    BY <1>1, StartStep
  <1>2. CASE Synth
    <2>1. Serving /\ Synthesize("mediator")
      BY ZenonT(60), <1>2 DEF Synth, Serving, EngineOK
    <2> QED
      BY ZenonT(60), <2>1, SynthesizeStep DEF Askers
  <1>3. ASSUME NEW backend \in {"auto", "local", "upstream"}, Request(backend)
        PROVE  EngineOK'
    <2>1. Serving
      BY <1>3 DEF Request, Serving
    <2>2. CASE ShouldUseLocal(backend)
      <3>1. Synthesize(backend) /\ backend \in Askers
        BY ZenonT(60), <1>3, <2>2 DEF Request, ShouldUseLocal, Askers
      <3> QED
        BY ZenonT(60), <2>1, <3>1, SynthesizeStep
    <2>3. CASE ~ShouldUseLocal(backend)
      <3>1. answer' = Empty(backend, "upstream")
        BY <1>3, <2>3 DEF Request
      <3>2. engine # "none"
        BY <2>1 DEF Serving, EngineOK
      <3>3. backend # "local" /\ (backend = "auto" => ~local.prefer_local)
        BY ZenonT(60), <2>3, <3>2 DEF ShouldUseLocal
      <3> QED
        BY ZenonT(60), <2>1, <3>1, <3>3, EmptyStep
    <2> QED
      BY <2>2, <2>3
  <1>4. CASE UNCHANGED engine_vars
    <2>1. /\ engine' = engine /\ native_sr' = native_sr /\ phase' = phase /\ answer' = answer
          /\ local' = local
      BY <1>4 DEF engine_vars
    <2>2. ServedWhereAsked'
      BY ZenonT(60), <2>1 DEF EngineOK, ServedWhereAsked
    <2>3. ResampledInsideInput'
      BY ZenonT(60), <2>1 DEF EngineOK, ResampledInsideInput
    <2> QED
      BY ZenonT(60), <2>1, <2>2, <2>3 DEF EngineOK
  <1> QED
    BY ZenonT(60), <1>1, <1>2, <1>3, <1>4 DEF EngineNext

(* The invariant from which both theorems follow.                          *)
LEMMA EngineInvariant == EngineSpec => []EngineOK
  <1>1. ASSUME EngineInit
        PROVE  EngineOK
    <2>1. answer.via = "nobody" /\ answer.status = "none"
      BY <1>1, EmptyTells DEF EngineInit
    <2>2. ServedWhereAsked /\ ResampledInsideInput
      BY ZenonT(60), <2>1 DEF ServedWhereAsked, ResampledInsideInput
    <2> QED
      BY <1>1, <2>2 DEF EngineInit, EngineOK
  <1> QED
    BY <1>1, EngineStep, PTL DEF EngineSpec

(* Whatever the environment and the model, a request is served where it    *)
(* asked to be, and one that leaves it open by the local engine where that *)
(* is preferred.                                                           *)
THEOREM EngineServedWhereAsked == EngineSpec => []ServedWhereAsked
  <1>1. EngineOK => ServedWhereAsked
    BY DEF EngineOK
  <1> QED
    BY <1>1, EngineInvariant, PTL

(* AudioResampler reads inside what the model generated, for every length, *)
(* every sample and every rate; what it makes lies between two samples,    *)
(* and its length is that of the input at the other rate, rounded up.      *)
THEOREM EngineResampledInsideInput == EngineSpec => []ResampledInsideInput
  <1>1. EngineOK => ResampledInsideInput
    BY DEF EngineOK
  <1> QED
    BY <1>1, EngineInvariant, PTL
=============================================================================
