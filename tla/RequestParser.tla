--------------------------- MODULE RequestParser ---------------------------
(***************************************************************************)
(* From protobuf messages to TtsRequestMsg (entry/request_parser.cpp), as  *)
(* the two calls of TtsServiceImpl use it: SynthesizeStream parses its one *)
(* request, SynthesizeClient every chunk it reads, until one is refused.   *)
(*                                                                         *)
(* A protobuf field that is not set reads as zero; an enumeration may also *)
(* hold a number the server does not know.  voice stands for the settings  *)
(* of the voice, which are either unset or the client's ("set"); the text  *)
(* and the model are left out.                                             *)
(***************************************************************************)
EXTENDS Integers, Sequences

CONSTANTS
  SampleRates,  \* sample rates a client asks for, 0 for none
  Channels,     \* likewise
  MaxReads      \* bound on the chunks of one stream

ASSUME ParserAssumption == SampleRates \subseteq Nat /\ Channels \subseteq Nat /\ MaxReads \in Nat

VARIABLES
  call,      \* the call being served
  first,     \* SynthesizeClient's first
  requests,  \* the messages sent to the request channel
  inputs,    \* history: the request or the chunks the call has read
  status     \* what the call returned, or "open"

parser_vars == <<call, first, requests, inputs, status>>

Formats == {"unspecified", "mp3", "pcm", "flac", "wav"}
Backends == {"unspecified", "auto", "local", "upstream"}
Unknown == "unknown"

Protos ==
  [voice : {"unset", "set"}, sample_rate : SampleRates, channel : Channels,
   format : Formats \cup {Unknown}, backend : Backends \cup {Unknown}]

\* A default-constructed SynthesizeRequest.
EmptyProto ==
  [voice |-> "unset", sample_rate |-> 0, channel |-> 0, format |-> "unspecified",
   backend |-> "unspecified"]

\* The member initialisers of TtsRequestMsg, VoiceSettings, AudioSettings.
DefaultRequest ==
  [kind |-> "StreamChunk", voice |-> "male-qn-qingse", sample_rate |-> 16000, channel |-> 1,
   format |-> "mp3", backend |-> "auto"]

-----------------------------------------------------------------------------
ToFormat(f) == IF f = Unknown THEN "unspecified" ELSE f

ToBackend(b) == IF b \in {"local", "upstream"} THEN b ELSE "auto"

ApplyVoice(p, r) == [r EXCEPT !.voice = IF p.voice = "unset" THEN @ ELSE p.voice]

\* Mutant: a format that is not known keeps the default.
ApplyAudio_KeepsFormat(p, r) ==
  [r EXCEPT
     !.sample_rate = IF p.sample_rate = 0 THEN @ ELSE p.sample_rate,
     !.channel = IF p.channel = 0 THEN @ ELSE p.channel,
     !.format = IF ToFormat(p.format) = "unspecified" THEN @ ELSE ToFormat(p.format)]

ApplyAudio(p, r) ==
  [r EXCEPT
     !.sample_rate = IF p.sample_rate = 0 THEN @ ELSE p.sample_rate,
     !.channel = IF p.channel = 0 THEN @ ELSE p.channel,
     !.format = IF p.format = "unspecified" THEN @ ELSE ToFormat(p.format)]

\* enforce_audio_invariants: the request is refused with ParseError.
AudioInvariants(r) ==
  /\ r.sample_rate \in {8000, 16000}
  /\ r.channel = 1
  /\ r.format \in {"mp3", "pcm"}

Settings(p, r) ==
  [ApplyAudio(p, ApplyVoice(p, r)) EXCEPT !.backend = ToBackend(p.backend)]

ParseUnary(p) == [Settings(p, DefaultRequest) EXCEPT !.kind = "OpenStream"]

\* Mutant: a finish mark in the first chunk is overruled by OpenStream.
ParseChunk_OpenWins(body, p, isFirst) ==
  IF isFirst THEN ParseUnary(p)
  ELSE [DefaultRequest EXCEPT !.kind = IF body = "finish" THEN "FinishStream" ELSE @]

\* The cases of TextChunk's oneof.
Bodies == {"text", "finish", "unset"}

ParseChunk(body, p, isFirst) ==
  LET r == IF isFirst THEN ParseUnary(p) ELSE DefaultRequest
  IN  [r EXCEPT !.kind = IF body = "finish" THEN "FinishStream" ELSE @]

-----------------------------------------------------------------------------
ParserInit ==
  /\ call \in {"SynthesizeStream", "SynthesizeClient"}
  /\ first = TRUE
  /\ requests = <<>>
  /\ inputs = <<>>
  /\ status = "open"

\* What both calls do with a parsed request.
SendOrRefuse(r) ==
  IF AudioInvariants(r)
  THEN requests' = Append(requests, r) /\ first' = FALSE /\ UNCHANGED status
  ELSE status' = "INVALID_ARGUMENT" /\ UNCHANGED <<requests, first>>

\* The part of SynthesizeStream up to the send; the rest is in Server.
SynthesizeStream(p) ==
  /\ call = "SynthesizeStream"
  /\ inputs = <<>>
  /\ inputs' = <<p>>
  /\ SendOrRefuse(ParseUnary(p))
  /\ UNCHANGED call

\* One turn of SynthesizeClient's loop: initial_settings stays empty.
ReadChunk(body) ==
  /\ call = "SynthesizeClient"
  /\ status = "open"
  /\ Len(inputs) < MaxReads
  /\ inputs' = Append(inputs, body)
  /\ SendOrRefuse(ParseChunk(body, EmptyProto, first))
  /\ UNCHANGED call

\* Read returns false.
ReadEnds ==
  /\ call = "SynthesizeClient"
  /\ status = "open"
  /\ status' = "OK"
  /\ UNCHANGED <<call, first, requests, inputs>>

ParserNext ==
  \/ \E p \in Protos : SynthesizeStream(p)
  \/ \E body \in Bodies : ReadChunk(body)
  \/ ReadEnds

ParserSpec == ParserInit /\ [][ParserNext]_parser_vars

-----------------------------------------------------------------------------
\* What docs/API.md:316 lists as out of range.
OutOfRange(p) ==
  \/ p.sample_rate \notin {0, 8000, 16000}
  \/ p.channel \notin {0, 1}
  \/ p.format \notin {"unspecified", "mp3", "pcm"}

\* r has what p asks for, and something a server can work with elsewhere.
AsAsked(p, r) ==
  /\ r.voice = p.voice \/ (p.voice = "unset" /\ r.voice = "male-qn-qingse")
  /\ r.sample_rate = p.sample_rate \/ (p.sample_rate = 0 /\ r.sample_rate = 16000)
  /\ r.channel = 1
  /\ r.format = p.format \/ (p.format = "unspecified" /\ r.format \in {"mp3", "pcm"})
  /\ r.backend = p.backend \/ (p.backend \in {"unspecified", Unknown} /\ r.backend = "auto")

(* A stream call is never served with other settings than its client gave: *)
(* what docs/API.md:316 lists as out of range, a format number nobody      *)
(* knows included, is refused and nothing is sent; every other call sends  *)
(* one OpenStream with the settings asked for, the open ones filled in.    *)
AsAskedOrRefused ==
  call = "SynthesizeStream" /\ inputs # <<>> =>
    IF OutOfRange(inputs[1])
    THEN status = "INVALID_ARGUMENT" /\ requests = <<>>
    ELSE /\ status = "open" /\ Len(requests) = 1
         /\ requests[1].kind = "OpenStream" /\ AsAsked(inputs[1], requests[1])

\* The message the i-th chunk of a stream asks for.
KindOf(i, body) ==
  IF body = "finish" THEN "FinishStream" ELSE IF i = 1 THEN "OpenStream" ELSE "StreamChunk"

(* A bidirectional call turns every chunk into one message and is never    *)
(* refused: a finish mark becomes FinishStream wherever it comes, the      *)
(* first chunk of the stream OpenStream if it is no finish mark, and every *)
(* other one StreamChunk, also the one that follows an early finish mark.  *)
StreamShape ==
  call = "SynthesizeClient" =>
    /\ status # "INVALID_ARGUMENT"
    /\ Len(requests) = Len(inputs)
    /\ \A i \in DOMAIN inputs : requests[i].kind = KindOf(i, inputs[i])

(* docs/DEVELOPMENT.md:57 and docs/API.md:28: the parser forces 16 kHz.    *)
Forces16k == \A i \in DOMAIN requests : requests[i].sample_rate = 16000

(* docs/API.md:52: the upstream backend supports FLAC and WAV.             *)
UpstreamTakesFlacAndWav ==
  call = "SynthesizeStream" /\ status = "INVALID_ARGUMENT"
    => ~(inputs[1].backend = "upstream" /\ inputs[1].format \in {"flac", "wav"}
         /\ ~OutOfRange([inputs[1] EXCEPT !.format = "pcm"]))

(* docs/API.md:52: a format left open is PCM.                              *)
OpenFormatIsPcm ==
  call = "SynthesizeStream" /\ requests # <<>> /\ inputs[1].format = "unspecified"
    => requests[1].format = "pcm"
=============================================================================
