------------------------------ MODULE MCFifoV2 ------------------------------
(* Model-checking instance of FifoV2. *)
EXTENDS FifoV2
=============================================================================
