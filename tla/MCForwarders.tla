---------------------------- MODULE MCForwarders ----------------------------
(***************************************************************************)
(* Three requests; testandset_v2 has a second view and the router a second *)
(* input, which p1 uses.  Bit 1 of the address selects one of two outputs: *)
(* 6 goes to output 1, and has a higher bit set that must not matter.  The *)
(* window is 6 .. 7 and moves to 7 .. 8: an address moved twice is 8.  The *)
(* mappings of the router take 0 .. 3 to 6 .. 9 and, as a catch-all of     *)
(* size 0, everything from 6 on to 0 and up: an address translated twice   *)
(* goes to the other output.  Access 3 straddles.                          *)
(***************************************************************************)
EXTENDS Forwarders

CONSTANTS r1, r2, p1

MCViewOf == [r \in Reqs |-> IF r = p1 THEN "passthrough" ELSE "input"]

Window(b, s, off, add) == [base |-> b, size |-> s, remove_offset |-> off, add_offset |-> add]
MCMappings == [o \in Outputs |-> IF o = 0 THEN Window(0, 4, 0, 6) ELSE Window(6, 0, 6, 0)]

MCAccesses ==
    [k \in Kinds |->
        CASE k = "router_untimed"                 -> [addr : {0, 3, 6}, write : {FALSE}]
          [] k \in {"demux", "remapper"}          -> [addr : {0, 6}, write : {FALSE}]
          [] k \in {"rw_splitter", "testandset"}  -> [addr : {6}, write : BOOLEAN]]
=============================================================================
