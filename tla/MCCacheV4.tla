----------------------------- MODULE MCCacheV4 -----------------------------
(***************************************************************************)
(* Lines 0 and 1, and line 2 which is only ever prefetched, compete for    *)
(* one set of two ways.                                                    *)
(***************************************************************************)
EXTENDS CacheV4

CONSTANTS r0, r1

MCTagOf == [r \in CacheReqs |-> IF r = r0 THEN 0 ELSE 1]
=============================================================================
