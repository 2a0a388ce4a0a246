--------------------------- MODULE MCLogStreamer ---------------------------
(***************************************************************************)
(* A run for TLC: two jobs of one step each.                               *)
(***************************************************************************)
EXTENDS LogStreamer

MCStepCount == <<1, 1>>
=============================================================================
