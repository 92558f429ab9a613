--------------------------- MODULE MCConversions ---------------------------
(* The parts that turn one form of data into another, one at a time: what  *)
(* focus names runs and the others stay as they were.                      *)
EXTENDS RequestParser, UpstreamCodec, LocalEngine

VARIABLE focus

MCAudioPieces == {<<>>, <<171>>, <<15, 240>>}

MCFloatSamples == {-5, 2}

MCInit ==
  /\ focus \in {"parser", "codec", "engine"}
  /\ ParserInit /\ CodecInit /\ EngineInit

MCNext ==
  /\ UNCHANGED focus
  /\ \/ focus = "parser" /\ ParserNext /\ UNCHANGED <<codec_vars, engine_vars>>
     \/ focus = "codec" /\ CodecNext /\ UNCHANGED <<parser_vars, engine_vars>>
     \/ focus = "engine" /\ EngineNext /\ UNCHANGED <<parser_vars, codec_vars>>

MCSpec == MCInit /\ [][MCNext]_<<focus, parser_vars, codec_vars, engine_vars>>
=============================================================================
