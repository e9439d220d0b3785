------------------------------ MODULE MCWarmup ------------------------------
(***************************************************************************)
(* A small instance of Warmup: two stages of a day each.                   *)
(***************************************************************************)
EXTENDS Warmup

TwoStages == <<[days |-> 1, cap |-> 1], [days |-> 1, cap |-> 2]>>
=============================================================================
