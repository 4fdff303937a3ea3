------------------------- MODULE MCRouterBandwidth -------------------------
(***************************************************************************)
(* Two inputs and two outputs; a1 and a2 come in by input 0, b1 by input   *)
(* 1.  a2 takes two cycles of bandwidth.  The outputs are interchangeable. *)
(***************************************************************************)
EXTENDS RouterBandwidth

CONSTANTS a1, a2, b1, o1, o2

MCPortOf   == [r \in Reqs |-> IF r = b1 THEN 1 ELSE 0]
MCSymmetry == Permutations(Outputs)

MCDuration == [r \in Reqs |-> IF r = a2 THEN 2 ELSE 1]
=============================================================================
