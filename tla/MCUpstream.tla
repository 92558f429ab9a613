----------------------------- MODULE MCUpstream -----------------------------
(***************************************************************************)
(* UpstreamPipeline for TLC.  The tick drains the channels at its start,   *)
(* appends to request_channel only when it runs local jobs, and touches    *)
(* the links only when it sends frames or closes sessions.  A step of a    *)
(* sender or of the upstream service at any other moment commutes with the *)
(* steps of the tick, so it is enough to take it before one of these or    *)
(* between two ticks.                                                      *)
(***************************************************************************)
EXTENDS UpstreamPipeline, TLC

SendersBetweenPhases ==
  /\ sent' # sent \/ cancelled' # cancelled
       => \/ phase = "idle"
          \/ phase = "jobs" /\ cs.local_jobs # <<>>
  /\ ws_event_channel' \notin {ws_event_channel, <<>>}
       => \/ phase = "idle"
          \/ phase = "dispatch" /\ (cs.ws_frames # <<>> \/ cs.close_sessions # {})

\* Bound: at most this many upstream events wait for a tick.
MaxWaiting == 4
FewWaiting == Len(ws_event_channel') <= MaxWaiting

\* The ids of stream calls are interchangeable.
StreamSymmetry == Permutations(StreamRids)
=============================================================================
