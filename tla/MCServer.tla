------------------------------ MODULE MCServer ------------------------------
(* Server for TLC. *)
EXTENDS Server

(* Only sessions have ages, and only an upstream request makes a session:  *)
(* without one no step reads the clock, so it need not advance.            *)
ClockMatters ==
  now' # now => \E r \in StreamRids : backend[r] = "Upstream"
=============================================================================
