--------------------------- MODULE MCFifoSplitter ---------------------------
(***************************************************************************)
(* The FIFO and the splitter in one run: the initial state says which of   *)
(* the two runs, and the other stays as it was constructed, where none of  *)
(* the steps its fairness is about can be taken.                           *)
(***************************************************************************)
EXTENDS MCFifoV2, MCSplitterV2

VARIABLE running

MCInit ==
    /\ Init /\ SplitterInit
    /\ running \in {"fifo", "splitter"}

MCNext ==
    /\ \/ running = "fifo" /\ Next /\ UNCHANGED SplitterVars
       \/ running = "splitter" /\ SplitterNext /\ UNCHANGED vars
    /\ UNCHANGED running

MCSpec ==
    /\ MCInit /\ [][MCNext]_<<vars, SplitterVars, running>>
    /\ Fairness /\ SplitterFairness
=============================================================================
