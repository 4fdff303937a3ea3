----------------------------- MODULE Forwarders -----------------------------
(***************************************************************************)
(* The components of models/interco that forward a request inline and      *)
(* remember one thing about it:                                            *)
(*   demux_v2       picks the output by some bits of the address;          *)
(*   rw_splitter_v2 picks it by the direction of the access;               *)
(*   remapper_v2    moves the addresses of one window;                     *)
(*   testandset_v2  two views of one memory; a read through the aliased    *)
(*                  one is followed by a store that takes the lock;        *)
(*   router_v2_untimed  picks it by the mapping the address is in, which   *)
(*                  also moves it; several inputs, to all of which every   *)
(*                  retry() is passed on.                                  *)
(* The memory behind testandset_v2 is one lock word.  Handlers are cut at  *)
(* resp() and retry().  A master takes every response: demux_v2 and        *)
(* testandset_v2 would pass a denial on, the others not; but the masters   *)
(* that deny do so only to a slave that has registered a resp_retry        *)
(* handler (router_v2_beat:999), and none of the five has one.             *)
(***************************************************************************)
EXTENDS IoV2, Integers, Sequences, SequencesExt

CONSTANTS Kinds,              \* which of the five components
          Reqs, ViewOf,       \* the requests; the port of testandset_v2 each one uses,
                              \* or the input of the router: "input" or "passthrough"
          Accesses,           \* for each component, what the masters access: records
                              \* [addr, write]
          Offset, Width,      \* demux_v2: the bits that select the output
          Base, Size, Target, \* remapper_v2: base, size, target_base
          Mappings, Length,   \* router_v2_untimed: a window for each output; the size
                              \* of an access
          Serial,             \* testandset_v2: its masters have one access at a time
          InOrderMemory       \* testandset_v2: its slave works in the order of the
                              \* requests and does not deny the follow-up store; one
                              \* that defers is what a clock bridge makes of a memory

AllKinds == {"demux", "rw_splitter", "remapper", "testandset", "router_untimed"}
Views    == {"input", "passthrough"}
Outputs  == 0 .. 2 ^ Width - 1
NoOut    == -1
NoView   == "none"
SetReq   == "set_req"      \* Testandset::set_req, in the place of a request

ASSUME ForwardersAssumption ==
    /\ Kinds \subseteq AllKinds
    /\ SetReq \notin Reqs
    /\ ViewOf \in [Reqs -> Views]
    /\ Accesses \in [Kinds -> SUBSET [addr : Nat, write : BOOLEAN]]
    /\ Offset \in Nat /\ Width \in Nat \ {0}
    /\ 2 ^ Offset \in Nat \ {0} /\ 2 ^ Width \in Nat \ {0, 1}   \* follows; the provers
                                                              \* know nothing of ^
    /\ Base \in Nat /\ Size \in Nat /\ Target \in Nat /\ Length \in Nat
    /\ Mappings \in [Outputs -> [base : Nat, size : Nat, remove_offset : Nat, add_offset : Nat]]
    /\ Serial \in BOOLEAN /\ InOrderMemory \in BOOLEAN

VARIABLES
    kind,              \* the component, which never changes
    denied_output,     \* demux_v2, rw_splitter_v2
    input_needs_retry, \* remapper_v2
    pending_itf,       \* testandset_v2
    in_flight_map,     \* router_v2_untimed: the input a granted request came from
    access,            \* each request as issued: [addr, write]
    addr,              \* the address in each request object
    ctl,               \* [pc, view]: the call on a master a handler is in
    up,                \* the masters' view of their requests
    down,              \* what the slaves have granted, in order: [req, out]
    owes,              \* the outputs whose slave owes a retry()
    mem                \* testandset_v2: the lock word, "free" or "taken", and how
                       \* many have read it free since it was last freed

latches == <<denied_output, input_needs_retry, pending_itf>>
vars == <<kind, latches, in_flight_map, access, addr, ctl, up, down, owes, mem>>

View(r)  == IF kind \in {"testandset", "router_untimed"} THEN ViewOf[r] ELSE "input"
OnPort(v) == {r \in Reqs : View(r) = v}
Idle     == [pc |-> "idle", view |-> "input"]
NoAccess == [addr |-> 0, write |-> FALSE]

Init ==
    /\ kind \in Kinds
    /\ denied_output = NoOut /\ input_needs_retry = FALSE /\ pending_itf = "input"
    /\ in_flight_map = [r \in Reqs |-> NoView]
    /\ access = [r \in Reqs |-> NoAccess] /\ addr = [r \in Reqs |-> 0]
    /\ ctl = Idle
    /\ up = [r \in Reqs |-> "idle"]
    /\ down = <<>> /\ owes = {}
    /\ mem = [lock |-> "free", holders |-> 0]

-----------------------------------------------------------------------------
(* What the mapping tree finds for an address: the window it is in, or     *)
(* else a mapping of size 0, which takes everything from its base on.      *)
InWindowOf(a, m) == a.addr >= m.base /\ a.addr < m.base + m.size
CatchAll(a, m)   == m.size = 0 /\ a.addr >= m.base

Found(a) ==
    LET windows == {out \in Outputs : InWindowOf(a, Mappings[out])}
    IN  IF windows # {} THEN windows ELSE {out \in Outputs : CatchAll(a, Mappings[out])}

Straddles(a, m) == m.size # 0 /\ a.addr + Length > m.base + m.size

(* The mapping an access goes to: it must lie in it as a whole. *)
Decode(a) ==
    LET out == CHOOSE out \in Found(a) : TRUE
    IN  IF Found(a) # {} /\ ~Straddles(a, Mappings[out]) THEN out ELSE NoOut

(* Mutant: the bits above the selector are not masked off. *)
SelectUnmasked(a) == a.addr \div 2 ^ Offset

(* The output demux_v2 selects. *)
Select(a) == (a.addr \div 2 ^ Offset) % 2 ^ Width

(* The output rw_splitter_v2 selects. *)
Direction(a) == IF a.write THEN 1 ELSE 0

(* The address the remapper and the router send an access with. *)
InWindow(a) == Size > 0 /\ a.addr >= Base /\ a.addr < Base + Size
Moved(a) == IF InWindow(a) THEN a.addr - Base + Target ELSE a.addr
Translate(a, m) == a.addr - m.remove_offset + m.add_offset

(* The output a request goes to and the address it goes out with, whatever *)
(* the component.                                                          *)
Route(a) ==
    CASE kind = "demux"          -> Select(a)
      [] kind = "rw_splitter"    -> Direction(a)
      [] kind = "router_untimed" -> Decode(a)
      [] OTHER                   -> 0

Remap(a) ==
    CASE kind = "remapper"       -> Moved(a)
      [] kind = "router_untimed" -> Translate(a, Mappings[Decode(a)])
      [] OTHER                   -> a.addr

(* The memory executes access a of request r, and the store of set(). *)
Execute(r, a) ==
    CASE a.write -> [lock |-> "free", holders |-> 0]
      [] ~a.write /\ View(r) = "input" /\ mem.lock = "free" /\ mem.holders < 2 ->
            [mem EXCEPT !.holders = @ + 1]
      [] OTHER -> mem

Taken(m) == [m EXCEPT !.lock = "taken"]

(* How the slave may answer when it still has d to do; an in-order memory  *)
(* completes nothing inline then.                                          *)
Answers(d) ==
    IF kind = "testandset" /\ InOrderMemory /\ d # <<>> THEN {IO_REQ_GRANTED, IO_REQ_DENIED}
    ELSE IoReqStatus

SetAnswers(d) == IF InOrderMemory THEN Answers(d) \ {IO_REQ_DENIED} ELSE Answers(d)

(* Who Testandset::set is called for, in input_req and in output_resp. *)
TakesLock(itf, a, ok) ==
    kind = "testandset" /\ itf = "input" /\ ok /\ ~a.write

(* Access a of r is complete, with resp_status ok, while d is still to be  *)
(* done; set() follows it.  Nobody looks at the status of its store.       *)
Completes(r, a, ok, itf, d) ==
    LET takes == TakesLock(itf, a, ok)
        m     == IF kind = "testandset" /\ ok THEN Execute(r, a) ELSE mem
    IN  \E st \in (IF takes THEN SetAnswers(d) ELSE {IO_REQ_DONE}) :
            /\ mem' = IF takes /\ st = IO_REQ_DONE THEN Taken(m) ELSE m
            /\ down' = IF takes /\ st = IO_REQ_GRANTED
                       THEN Append(d, [req |-> SetReq, out |-> 0]) ELSE d
            /\ owes' = IF takes /\ st = IO_REQ_DENIED THEN owes \cup {0} ELSE owes

(* Mutant: the moved address is left in a refused request. *)
RefusedMoved(a) == Remap(a)

(* The address a refused request goes back to its master with. *)
Refused(a) == a.addr

(* req() on the output: the slave answers st for access a of request r,    *)
(* which it gets at address moved.                                         *)
Output(r, a, out, moved, st, ok) ==
    \/ /\ st = IO_REQ_DONE
       /\ Completes(r, a, ok, View(r), down)
       /\ addr' = [addr EXCEPT ![r] = 0]
    \/ /\ st = IO_REQ_GRANTED
       /\ down' = Append(down, [req |-> r, out |-> out])
       /\ addr' = [addr EXCEPT ![r] = moved]
       /\ UNCHANGED <<owes, mem>>
    \/ /\ st = IO_REQ_DENIED
       /\ owes' = owes \cup {out}
       /\ addr' = [addr EXCEPT ![r] = Refused(a)]
       /\ UNCHANGED <<down, mem>>

(* The output a refusal came from is remembered. *)
Latched(out, st) == IF st = IO_REQ_DENIED THEN out ELSE denied_output

(* Mutant: the remapper does not remember that it refused. *)
NeedsRetryForgotten(st) == input_needs_retry

(* The remapper remembers that it refused. *)
NeedsRetry(st) == input_needs_retry \/ st = IO_REQ_DENIED

DemuxReq(r, a, st, ok) ==
    /\ kind = "demux"
    /\ Output(r, a, Select(a), a.addr, st, ok)
    /\ denied_output' = Latched(Select(a), st)
    /\ UNCHANGED <<input_needs_retry, pending_itf, in_flight_map>>

SplitterReq(r, a, st, ok) ==
    /\ kind = "rw_splitter"
    /\ Output(r, a, Direction(a), a.addr, st, ok)
    /\ denied_output' = Latched(Direction(a), st)
    /\ UNCHANGED <<input_needs_retry, pending_itf, in_flight_map>>

RemapperReq(r, a, st, ok) ==
    /\ kind = "remapper"
    /\ Output(r, a, 0, Moved(a), st, ok)
    /\ input_needs_retry' = NeedsRetry(st)
    /\ UNCHANGED <<denied_output, pending_itf, in_flight_map>>

(* input_req and passthrough_req: the next resp() or retry() goes to the   *)
(* view the last request came by.  A completed read of input_req is        *)
(* followed by set(), in Completes.                                        *)
TestandsetReq(r, a, st, ok) ==
    /\ kind = "testandset"
    /\ pending_itf' = View(r)
    /\ Output(r, a, 0, a.addr, st, ok)
    /\ UNCHANGED <<denied_output, input_needs_retry, in_flight_map>>

(* The router answers itself, as invalid, what is in no mapping; it        *)
(* remembers the input a granted request came from.                        *)
RouterReq(r, a, st, ok) ==
    LET out == Decode(a)
    IN  /\ kind = "router_untimed"
        /\ out = NoOut => st = IO_REQ_DONE /\ ~ok
        /\ Output(r, a, out, Translate(a, Mappings[out]), st, ok)
        /\ in_flight_map' = IF st = IO_REQ_GRANTED THEN [in_flight_map EXCEPT ![r] = View(r)]
                            ELSE in_flight_map
        /\ UNCHANGED latches

(* The request handler of the component. *)
InputReq(r, a, st, ok) ==
    /\ \/ DemuxReq(r, a, st, ok)    \/ SplitterReq(r, a, st, ok)
       \/ RemapperReq(r, a, st, ok) \/ TestandsetReq(r, a, st, ok)
       \/ RouterReq(r, a, st, ok)
    /\ up' = [up EXCEPT ![r] = AfterReq(st)]
    /\ UNCHANGED kind

(* A master issues a request, between two handlers, inside a resp(), or    *)
(* inside a retry() once it has re-issued what was refused.                *)
MayIssue(r) ==
    IF kind = "testandset" /\ Serial THEN \A q \in Reqs : up[q] = "idle"
    ELSE up[r] = "idle" /\ NoneDenied(up, OnPort(View(r)))

MasterReq(r, a, st, ok) ==
    /\ ctl.pc \in {"idle", "resp", "retried"}
    /\ MayIssue(r) /\ st \in Answers(down)
    /\ InputReq(r, a, st, ok)
    /\ access' = [access EXCEPT ![r] = IF st = IO_REQ_DONE THEN NoAccess ELSE a]
    /\ UNCHANGED ctl

(* The request object goes out again with the address that is in it. *)
MasterReissue(r, st, ok) ==
    /\ ctl.pc = "retry" /\ ctl.view = View(r) /\ up[r] = "denied"
    /\ st \in Answers(down)
    /\ InputReq(r, [access[r] EXCEPT !.addr = addr[r]], st, ok)
    /\ access' = IF st = IO_REQ_DONE THEN [access EXCEPT ![r] = NoAccess] ELSE access
    /\ ctl' = [ctl EXCEPT !.pc = "retried"]

-----------------------------------------------------------------------------
(* output_resp and resp_muxed for the i-th of the accesses the slaves have *)
(* to do: it goes back by the port the component remembers.                *)
WayBack(r) ==
    CASE kind = "testandset"     -> pending_itf
      [] kind = "router_untimed" -> in_flight_map[r]
      [] OTHER                   -> "input"

InOrder(i) == kind = "testandset" /\ InOrderMemory => i = 1

OutputResp(i, ok) ==
    LET r == down[i].req
    IN  /\ ctl = Idle /\ r # SetReq /\ InOrder(i)
        /\ Completes(r, access[r], ok, pending_itf, RemoveAt(down, i))
        /\ up' = [up EXCEPT ![r] = IF WayBack(r) = View(r) THEN AfterResp(@) ELSE "error"]
        /\ access' = [access EXCEPT ![r] = NoAccess]
        /\ addr' = [addr EXCEPT ![r] = 0]
        /\ in_flight_map' = [in_flight_map EXCEPT ![r] = NoView]
        /\ ctl' = [pc |-> "resp", view |-> WayBack(r)]
        /\ UNCHANGED <<kind, latches>>

(* A beat of the response that is not the last one: the router keeps the   *)
(* way back.                                                               *)
OutputBeat(i) ==
    LET r == down[i].req
    IN  /\ ctl = Idle /\ kind = "router_untimed"
        /\ up' = [up EXCEPT ![r] = IF WayBack(r) = View(r) THEN @ ELSE "error"]
        /\ ctl' = [pc |-> "resp", view |-> WayBack(r)]
        /\ UNCHANGED <<kind, latches, in_flight_map, access, addr, down, owes, mem>>

(* The store of set() is complete: its response is swallowed. *)
SetResp(i) ==
    /\ ctl = Idle /\ down[i].req = SetReq /\ InOrder(i)
    /\ down' = RemoveAt(down, i)
    /\ mem' = Taken(mem)
    /\ UNCHANGED <<kind, latches, in_flight_map, access, addr, ctl, up, owes>>

(* output_retry.  One that nobody is owed is dropped: in particular one    *)
(* from the output that has not denied.                                    *)
PassesRetry(out) ==
    CASE kind \in {"demux", "rw_splitter"} -> denied_output = out
      [] kind = "remapper"                 -> input_needs_retry
      [] OTHER                             -> TRUE

OutputRetry(out) ==
    /\ ctl = Idle
    /\ kind \in {"testandset", "router_untimed"} => out \in owes
    /\ PassesRetry(out)
    /\ owes' = owes \ {out}
    /\ denied_output' = NoOut /\ input_needs_retry' = FALSE
    /\ ctl' = [pc |-> "retry", view |-> IF kind = "testandset" THEN pending_itf ELSE "input"]
    /\ UNCHANGED <<kind, pending_itf, in_flight_map, access, addr, up, down, mem>>

(* retry_muxed goes on to the next input. *)
AfterCall ==
    IF kind = "router_untimed" /\ ctl.pc # "resp" /\ ctl.view = "input"
    THEN [pc |-> "retry", view |-> "passthrough"] ELSE Idle

Returns ==
    /\ \/ ctl.pc \in {"resp", "retried"}
       \/ ctl.pc = "retry" /\ NoneDenied(up, OnPort(ctl.view))
    /\ ctl' = AfterCall
    /\ UNCHANGED <<kind, latches, in_flight_map, access, addr, up, down, owes, mem>>

(* reset() of the subtree; testandset_v2 and the router have none. *)
Reset ==
    /\ ctl = Idle
    /\ denied_output' = NoOut /\ input_needs_retry' = FALSE
    /\ access' = [r \in Reqs |-> NoAccess] /\ addr' = [r \in Reqs |-> 0]
    /\ up' = [r \in Reqs |-> "idle"]
    /\ down' = <<>> /\ owes' = {}
    /\ mem' = [mem EXCEPT !.holders = 0]
    /\ UNCHANGED <<kind, pending_itf, in_flight_map, ctl>>

Next ==
    \/ \E r \in Reqs, a \in Accesses[kind], st \in IoReqStatus, ok \in BOOLEAN : MasterReq(r, a, st, ok)
    \/ \E r \in Reqs, st \in IoReqStatus, ok \in BOOLEAN : MasterReissue(r, st, ok)
    \/ \E i \in DOMAIN down : SetResp(i) \/ OutputBeat(i) \/ \E ok \in BOOLEAN : OutputResp(i, ok)
    \/ \E out \in Outputs : OutputRetry(out)
    \/ Returns \/ Reset

Spec == Init /\ [][Next]_vars

(***************************************************************************)
(* Handlers return, a retried master re-issues, and the slaves do what     *)
(* they have granted, retry what they have denied, and let it in some      *)
(* time.                                                                   *)
(***************************************************************************)
Served(r) ==
    \E i \in DOMAIN down : down[i].req = r /\ \E ok \in BOOLEAN : OutputResp(i, ok)

Fairness ==
    /\ WF_vars(Returns)
    /\ WF_vars(\E r \in Reqs, st \in IoReqStatus, ok \in BOOLEAN : MasterReissue(r, st, ok))
    /\ \A r \in Reqs :
          /\ SF_vars(Served(r))
          /\ SF_vars(\E st \in IoReqStatus \ {IO_REQ_DENIED}, ok \in BOOLEAN :
                        MasterReissue(r, st, ok))
    /\ SF_vars(\E i \in DOMAIN down : SetResp(i))
    /\ SF_vars(\E out \in owes : OutputRetry(out))

FairSpec == Spec /\ Fairness

-----------------------------------------------------------------------------
TypeOK ==
    /\ kind \in Kinds
    /\ denied_output \in Outputs \cup {NoOut}
    /\ input_needs_retry \in BOOLEAN /\ pending_itf \in Views
    /\ in_flight_map \in [Reqs -> Views \cup {NoView}]
    /\ access \in [Reqs -> [addr : Nat, write : BOOLEAN]]
    /\ addr \in [Reqs -> Int]
    /\ ctl \in [pc : {"idle", "resp", "retry", "retried"}, view : Views]
    /\ up \in [Reqs -> MasterStates]
    /\ down \in Seq([req : Reqs \cup {SetReq}, out : Outputs])
    /\ owes \subseteq Outputs
    /\ mem \in [lock : {"free", "taken"}, holders : 0 .. 2]

(* "Its response goes back the way it arrived": no master is answered for  *)
(* a request of the other view, or for one it did not issue.  Once a       *)
(* memory defers and both views are busy, it breaks.                       *)
RightWayBack == \A r \in Reqs : up[r] # "error"

(***************************************************************************)
(* What a slave has granted is what the master issued: on the output its   *)
(* address or its direction selects, once, at the address the window moves *)
(* it to, and moved once however often it was refused before.  A request   *)
(* that was refused is byte for byte as it was, and the latch knows the    *)
(* output whose slave will retry it; the answer goes back the way the      *)
(* request came.                                                           *)
(***************************************************************************)
Forwarded(r) == {i \in DOMAIN down : down[i].req = r}

ForwardedFaithfully ==
    /\ RightWayBack
    /\ \A r \in Reqs :
        /\ up[r] = "granted" <=> Forwarded(r) # {}
        /\ \A i, j \in Forwarded(r) : i = j
        /\ \A i \in Forwarded(r) : /\ down[i].out = Route(access[r])
                                   /\ addr[r] = Remap(access[r])
        /\ up[r] = "denied" =>
              /\ addr[r] = access[r].addr
              /\ ctl = Idle => Route(access[r]) \in owes
              /\ ctl = Idle => PassesRetry(Route(access[r]))

(* "A *read* atomically returns the previous content and writes an         *)
(* all-ones value": of the reads through the aliased view at most one has  *)
(* found the lock free since it was last freed.  The store of set() is a   *)
(* request of its own: once a memory defers, a second read that is already *)
(* on its way gets in between, and it breaks.                              *)
LockExclusive == mem.holders <= 1

(* A request that was taken is answered, and one that was refused is let   *)
(* in, through whichever view and output it goes.                          *)
EveryRequestEnds ==
    \A r \in Reqs : /\ (up[r] = "granted") ~> (up[r] = "idle")
                    /\ (up[r] = "denied")  ~> (up[r] # "denied")
=============================================================================
