---------------------------- MODULE MCSplitterV2 ----------------------------
(***************************************************************************)
(* A 4-byte input over two 2-byte outputs.  The accesses are aligned,      *)
(* misaligned, empty, and too large for one fan-out; a slow chunk and an   *)
(* invalid one come back.                                                  *)
(***************************************************************************)
EXTENDS SplitterV2

MCAccesses == {<<0, 4>>, <<1, 2>>, <<0, 0>>, <<1, 4>>}
MCAnswers  == {<<0, TRUE>>, <<1, FALSE>>}
=============================================================================
