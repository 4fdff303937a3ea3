-------------------------- MODULE MCBandwidthCache --------------------------
(***************************************************************************)
(* The bandwidth router and the cache in one run: the initial state says   *)
(* which of the two runs, and the other stays as it was constructed.  The  *)
(* states are those of the one and those of the other, never their product. *)
(***************************************************************************)
EXTENDS MCRouterBandwidth, MCCacheV4

VARIABLE running

MCInit ==
    /\ Init /\ CacheInit
    /\ running \in {"router", "cache"}

MCNext ==
    /\ \/ running = "router" /\ Next /\ UNCHANGED CacheVars
       \/ running = "cache" /\ CacheNext /\ UNCHANGED vars
    /\ UNCHANGED running

MCSpec == MCInit /\ [][MCNext]_<<vars, CacheVars, running>>
=============================================================================
