----------------------------- MODULE MCLogIcoV2 -----------------------------
(***************************************************************************)
(* Three masters, one request each (a master whose request is refused      *)
(* issues no other, so a second object would add nothing), on two banks    *)
(* with two-byte granules; the addresses reach both banks, both bytes of a *)
(* granule and the second round of granules.                               *)
(***************************************************************************)
EXTENDS LogIcoV2, TLC

CONSTANTS r1, r2, r3

MCPortOf == r1 :> 0 @@ r2 :> 1 @@ r3 :> 2
MCAddrs  == {1, 2, 5}
=============================================================================
