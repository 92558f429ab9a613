--------------------------- MODULE UpstreamCodec ---------------------------
(***************************************************************************)
(* What becomes of the texts the upstream service sends: parsed            *)
(* (upstream/ws_frame_codec.cpp), turned into response messages            *)
(* (upstream/minimax_protocol_adapter.h) and, for audio, decoded from      *)
(* hexadecimal (upstream/hex_codec.h) and added to the request.            *)
(*                                                                         *)
(* A text is a record with the fields the parser looks for.  A field that  *)
(* is absent, or not of the type the parser asks for, is Absent; so are    *)
(* all fields of a JSON value that is no object.  A status code below     *)
(* zero stands for an absent one.                                          *)
(***************************************************************************)
EXTENDS Integers, SequencesExt

CONSTANTS
  AudioPieces,  \* pieces of audio the service sends, sequences of bytes
  MaxTexts      \* bound on the texts received

ASSUME CodecAssumption == AudioPieces \subseteq Seq(0 .. 255) /\ MaxTexts \in Nat

VARIABLES
  texts,     \* history: the texts received
  messages,  \* the response messages made of them
  audio,     \* PendingRequest::accumulated_audio
  final      \* PendingRequest::final_received

codec_vars == <<texts, messages, audio, final>>

Absent == "absent"
Digits == <<"0", "1", "2", "3", "4", "5", "6", "7", "8", "9", "a", "b", "c", "d", "e", "f">>
Capitals == <<"A", "B", "C", "D", "E", "F">>

-----------------------------------------------------------------------------
HexEncode(bytes) ==
  FlattenSeq([i \in DOMAIN bytes |-> <<Digits[(bytes[i] \div 16) + 1], Digits[(bytes[i] % 16) + 1]>>])

\* The value of a digit, -1 for anything else.
Nibble(c) ==
  CASE c \in ToSet(Digits)   -> (CHOOSE i \in DOMAIN Digits : Digits[i] = c) - 1
    [] c \in ToSet(Capitals) -> (CHOOSE i \in DOMAIN Capitals : Capitals[i] = c) + 9
    [] OTHER                 -> -1

Pairs(hex) == [i \in 1 .. Len(hex) \div 2 |-> <<Nibble(hex[2 * i - 1]), Nibble(hex[2 * i])>>]

\* Mutant: what stands before a character that is no digit is kept.
HexDecode_Prefix(hex) ==
  LET bad == {i \in DOMAIN Pairs(hex) : Pairs(hex)[i][1] < 0 \/ Pairs(hex)[i][2] < 0}
      good == IF bad = {} THEN Pairs(hex) ELSE SubSeq(Pairs(hex), 1, Min(bad) - 1)
  IN  [i \in DOMAIN good |-> good[i][1] * 16 + good[i][2]]

\* All or nothing.
HexDecode(hex) ==
  IF Len(hex) % 2 # 0 \/ \E i \in DOMAIN hex : Nibble(hex[i]) < 0
  THEN <<>>
  ELSE [i \in DOMAIN Pairs(hex) |-> Pairs(hex)[i][1] * 16 + Pairs(hex)[i][2]]

-----------------------------------------------------------------------------
NoFrame == [event |-> "no frame"]

\* The optional fields that are left empty stay Absent.
ParseServerFrame(t) ==
  IF ~t.json THEN NoFrame
  ELSE [event |-> IF t.event = Absent THEN "" ELSE t.event,
        audio_hex |-> t.audio_hex,
        is_final |-> t.is_final,
        status_code |-> IF t.status_code < 0 THEN 0 ELSE t.status_code]

\* ParsedServerFrame to WsFrameDecodedEvent, whose defaults fill the gaps.
Decoded(p) ==
  [event_name |-> p.event,
   audio_hex |-> IF p.audio_hex = <<Absent>> THEN <<>> ELSE p.audio_hex,
   is_final |-> p.is_final = "true",
   status_code |-> p.status_code]

\* The members a translation does not set.
Response(kind) == [kind |-> kind, audio_hex |-> <<>>, is_final |-> FALSE, status_code |-> 0]

Translate(e) ==
  CASE e.event_name = "connected_success" -> <<Response("Connected")>>
    [] e.event_name = "task_started"      -> <<Response("TaskStarted")>>
    [] e.event_name = "task_continued"    ->
         <<[kind |-> "AudioChunk", audio_hex |-> e.audio_hex, is_final |-> e.is_final,
            status_code |-> e.status_code]>>
    [] e.event_name = "task_finished"     ->
         <<[Response("TaskFinished") EXCEPT !.status_code = e.status_code]>>
    [] e.event_name = "task_failed"       ->
         <<[Response("TaskFailed") EXCEPT !.status_code = e.status_code]>>
    [] OTHER                              -> <<>>

Responses(t) ==
  LET p == ParseServerFrame(t) IN IF p = NoFrame THEN <<>> ELSE Translate(Decoded(p))

-----------------------------------------------------------------------------
(* The texts: a piece of audio in small or capital letters, any part of    *)
(* it, or all of it with one character spoiled.                            *)

Capital(c) == IF Nibble(c) > 9 THEN Capitals[Nibble(c) - 9] ELSE c
Spellings(bytes) ==
  {HexEncode(bytes), [i \in DOMAIN HexEncode(bytes) |-> Capital(HexEncode(bytes)[i])]}
Damaged(bytes) ==
  LET hex == HexEncode(bytes)
  IN  {<<Absent>>} \cup {SubSeq(hex, i, j) : i, j \in DOMAIN hex}
        \cup {[hex EXCEPT ![i] = "x"] : i \in DOMAIN hex}

AudioTexts ==
  [json : {TRUE}, event : {"task_continued"}, is_final : {"true", "false", Absent}, status_code : {0},
   audio_hex : UNION {Spellings(b) \cup Damaged(b) : b \in AudioPieces}]
OtherTexts ==
  [json : BOOLEAN, is_final : {"true"}, status_code : {-1, 0, 2201}, audio_hex : {HexEncode(<<171>>)},
   event : {"connected_success", "task_started", "task_finished", "task_failed", "other", Absent}]

CodecInit == texts = <<>> /\ messages = <<>> /\ audio = <<>> /\ final = FALSE

\* handle_response's AudioChunk adds what it can decode.
AddAudio(chunks) ==
  /\ audio' = audio \o FlattenSeq([i \in DOMAIN chunks |-> HexDecode(chunks[i].audio_hex)])
  /\ final' = (final \/ \E i \in DOMAIN chunks : chunks[i].is_final)

ReceiveText(t) ==
  /\ Len(texts) < MaxTexts
  /\ texts' = Append(texts, t)
  /\ messages' = messages \o Responses(t)
  /\ AddAudio(SelectSeq(Responses(t), LAMBDA r : r.kind = "AudioChunk"))

CodecNext == \E t \in AudioTexts \cup OtherTexts : ReceiveText(t)

-----------------------------------------------------------------------------
\* The byte two digits stand for: the one hex_encode spells so.
ByteOf ==
  [pair \in UNION {Spellings(<<x>>) : x \in 0 .. 255} |->
     CHOOSE x \in 0 .. 255 : pair \in Spellings(<<x>>)]

\* The audio a text spells from its first character to its last, or nothing.
Meant(t) ==
  LET pair(i) == SubSeq(t.audio_hex, 2 * i - 1, 2 * i)
      n == Len(t.audio_hex) \div 2
  IN  IF /\ t.json /\ t.event = "task_continued"
         /\ Len(t.audio_hex) = 2 * n /\ \A i \in 1 .. n : pair(i) \in DOMAIN ByteOf
      THEN [i \in 1 .. n |-> ByteOf[pair(i)]]
      ELSE <<>>

(* A text adds to the audio of its request everything it spells or         *)
(* nothing, in the order in which the service sent the texts: one with an  *)
(* odd number of digits, or with a character that is none, adds no part of *)
(* itself.  (A piece cut to an even number of digits cannot be told from a *)
(* shorter one, and what is left of it is added.)  Only an audio text that *)
(* says so in a Boolean ends the audio, and every known event becomes one  *)
(* message.                                                                *)
AudioAllOrNothing ==
  /\ audio = FlattenSeq([i \in DOMAIN texts |-> Meant(texts[i])])
  /\ final <=> \E i \in DOMAIN texts :
                 texts[i].json /\ texts[i].event = "task_continued" /\ texts[i].is_final = "true"
  /\ Len(messages) =
       Len(SelectSeq(texts, LAMBDA t : t.json /\ t.event \notin {"other", Absent}))
=============================================================================
