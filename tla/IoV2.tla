-------------------------------- MODULE IoV2 --------------------------------
(***************************************************************************)
(* The vocabulary of the io_v2 request protocol, as every component under  *)
(* models/interco and models/utils uses it.  The protocol header           *)
(* (vp/itf/io_v2.hpp) belongs to the engine and is not part of this        *)
(* repository: what is written here is what the components rely on.        *)
(*                                                                         *)
(* A master calls req(r) on a slave, which answers at once                 *)
(*   DONE     the access is complete, r goes back to the master;           *)
(*   GRANTED  the slave keeps r and will call resp(r) exactly once;        *)
(*   DENIED   nothing happened, the master keeps r and re-issues it from   *)
(*            inside the retry() call the slave now owes it.               *)
(* A request object is in one of the MasterStates from its master's point  *)
(* of view; "error" marks a response the master was not waiting for.       *)
(***************************************************************************)

IO_REQ_DONE    == "done"
IO_REQ_GRANTED == "granted"
IO_REQ_DENIED  == "denied"

IoReqStatus == {IO_REQ_DONE, IO_REQ_GRANTED, IO_REQ_DENIED}

MasterStates == {"idle", "granted", "denied", "error"}

(***************************************************************************)
(* What a status returned by req() makes of the master's view of r, and    *)
(* what a resp() call makes of it.                                         *)
(***************************************************************************)
AfterReq(status) ==
    CASE status = IO_REQ_DONE    -> "idle"
      [] status = IO_REQ_GRANTED -> "granted"
      [] status = IO_REQ_DENIED  -> "denied"

AfterResp(state) == IF state = "granted" THEN "idle" ELSE "error"

(***************************************************************************)
(* "A single slave port can only hold one denied request": a master holds  *)
(* its port until the denied request has been re-issued.                   *)
(***************************************************************************)
NoneDenied(view, reqs) == \A q \in reqs : view[q] # "denied"

=============================================================================
