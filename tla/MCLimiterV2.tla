---------------------------- MODULE MCLimiterV2 -----------------------------
(***************************************************************************)
(* Three requests, so that one can wait for its answers and one be in      *)
(* emission while the third is refused; each is a full and a partial chunk. *)
(***************************************************************************)
EXTENDS LimiterV2
=============================================================================
