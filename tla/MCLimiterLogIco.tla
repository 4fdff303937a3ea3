-------------------------- MODULE MCLimiterLogIco ---------------------------
(***************************************************************************)
(* The limiter and the interleaved crossbar in one run: the initial state  *)
(* says which of the two runs, and the other stays as it was constructed,  *)
(* where none of the steps its fairness is about changes anything.         *)
(***************************************************************************)
EXTENDS MCLimiterV2, MCLogIcoV2

VARIABLE running

MCInit ==
    /\ Init /\ IcoInit
    /\ running \in {"limiter", "log_ico"}

MCNext ==
    /\ \/ running = "limiter" /\ Next /\ UNCHANGED IcoVars
       \/ running = "log_ico" /\ IcoNext /\ UNCHANGED vars
    /\ UNCHANGED running

MCSpec ==
    /\ MCInit /\ [][MCNext]_<<vars, IcoVars, running>>
    /\ Fairness /\ IcoFairness
=============================================================================
