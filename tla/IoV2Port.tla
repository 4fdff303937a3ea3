------------------------------ MODULE IoV2Port ------------------------------
(***************************************************************************)
(* What an io_v2 slave port promises the master bound to it, whatever      *)
(* component stands behind the port.  A request is answered inline, or     *)
(* taken and answered by exactly one resp(), or refused and retried; no    *)
(* response comes for a request that is not outstanding; and nothing that  *)
(* was taken or refused is forgotten.  The component modules are shown to  *)
(* implement this specification.                                           *)
(***************************************************************************)
EXTENDS IoV2

CONSTANT Reqs           \* the request objects the master owns

VARIABLE view           \* view[r]: the state of r for its master

vars == view

Init == view = [r \in Reqs |-> "idle"]

(* req(r): a fresh request, or the re-issue of the refused one. *)
Req(r) ==
    /\ \/ view[r] = "idle" /\ NoneDenied(view, Reqs)
       \/ view[r] = "denied"
    /\ \E st \in IoReqStatus : view' = [view EXCEPT ![r] = AfterReq(st)]

(* resp(r): the one answer to a request the port has taken. *)
Resp(r) ==
    /\ view[r] = "granted"
    /\ view' = [view EXCEPT ![r] = "idle"]

(* A reset of the subtree drops every request on both sides of the port. *)
Reset == view' = [r \in Reqs |-> "idle"]

Next == Reset \/ \E r \in Reqs : Req(r) \/ Resp(r)

Safety == Init /\ [][Next]_vars

(* Every request taken is answered; every request refused is let in. *)
Progress ==
    \A r \in Reqs : /\ (view[r] = "granted") ~> (view[r] = "idle")
                    /\ (view[r] = "denied")  ~> (view[r] # "denied")

Spec == Safety /\ Progress
=============================================================================
