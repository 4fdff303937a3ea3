------------------------ MODULE MCRouterBackpressure ------------------------
(***************************************************************************)
(* Two inputs, two reachable outputs and an error mapping.  Output o1 maps *)
(* window 4..7 to 0..3 and o2, a catch-all, what is above to 4 and up, so  *)
(* that an address translated for o2 decodes to o1 when it is decoded      *)
(* again.  12..15 is an error.                                             *)
(***************************************************************************)
EXTENDS RouterBackpressure, TLC

CONSTANTS r1, r2, r3, o1, o2, oe

MCPortOf == r1 :> 0 @@ r2 :> 0 @@ r3 :> 1

Map(b, s, off, err) ==
    [base |-> b, size |-> s, remove_offset |-> off, add_offset |-> 0, is_error |-> err]

MCMappings == [o \in Outputs |-> CASE o = o1 -> Map(4, 4, 4, FALSE)
                                   [] o = o2 -> Map(8, 0, 4, FALSE)
                                   [] o = oe -> Map(12, 4, 0, TRUE)]

(* Both outputs are contended for; r1 may also straddle o1's end. *)
MCAccesses == r1 :> {<<4, 4>>, <<6, 4>>, <<12, 4>>} @@ r2 :> {<<8, 4>>}
              @@ r3 :> {<<4, 4>>}

(* Everybody contends for o1. *)
MCOneAccess == [r \in Reqs |-> {<<4, 4>>}]
=============================================================================
