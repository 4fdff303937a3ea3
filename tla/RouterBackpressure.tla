------------------------- MODULE RouterBackpressure -------------------------
(***************************************************************************)
(* models/interco/router/router_v2_backpressure.cpp: the address-decoding  *)
(* router that applies its latency before forwarding.                      *)
(*                                                                         *)
(* A request is decoded, translated and either forwarded inline or parked  *)
(* (at most one per input) until its send_event fires.  The delay comes    *)
(* from watermarks and per-mapping latencies; only whether it is zero      *)
(* steers the control flow, so it is a free choice.  Handlers are cut at   *)
(* the resp() and retry() calls they make on a master, which may re-enter  *)
(* req_muxed from inside; ctl says where the running handler is.           *)
(***************************************************************************)
EXTENDS IoV2, Integers

CONSTANTS NbInput,            \* cfg.nb_input_port
          Outputs,            \* one output port per mapping
          Mappings,           \* cfg.mappings: base, size and the two offsets
          Reqs, PortOf,       \* request objects and the input of their master
          Accesses,           \* the <<address, size>> pairs each request is issued with
          NoReq, NoOut

Inputs == 0 .. NbInput - 1

Mine(i) == {r \in Reqs : PortOf[r] = i}

ASSUME RouterAssumption ==
    /\ NbInput \in Nat \ {0}
    /\ PortOf \in [Reqs -> Inputs]
    /\ Accesses \in [Reqs -> SUBSET (Nat \X Nat)]
    /\ Mappings \in [Outputs -> [base : Nat, size : Nat, remove_offset : Nat,
                                 add_offset : Nat, is_error : BOOLEAN]]
    /\ NoReq \notin Reqs /\ NoOut \notin Outputs

VARIABLES
    pending_req,         \* per input: the parked request
    pending_mapping_id,  \* per input: the output it is parked for
    send_enqueued,       \* per input: send_event is on the clock engine
    denied_on_output,    \* per input: outputs that denied one of its forwards
    initiator,           \* per request: the input its InFlight remembers
    addr,                \* per request: the address field of the object
    ctl,                 \* where the running handler is
    up, want,            \* the masters: their view, and the access they want
    down, owes           \* the slaves: who serves r, who owes r a retry()

vars == <<pending_req, pending_mapping_id, send_enqueued, denied_on_output,
          initiator, addr, ctl, up, want, down, owes>>

router  == <<pending_req, pending_mapping_id, send_enqueued>>
Idle    == [pc |-> "idle", in |-> 0, id |-> NoOut]
NoInput == NbInput

Init ==
    /\ pending_req = [i \in Inputs |-> NoReq]
    /\ pending_mapping_id = [i \in Inputs |-> NoOut]
    /\ send_enqueued = [i \in Inputs |-> FALSE]
    /\ denied_on_output = [i \in Inputs |-> {}]
    /\ initiator = [r \in Reqs |-> NoInput]
    /\ addr = [r \in Reqs |-> 0]
    /\ ctl = Idle
    /\ up = [r \in Reqs |-> "idle"]
    /\ want = [r \in Reqs |-> <<0, 0>>]
    /\ down = [r \in Reqs |-> NoOut]
    /\ owes = {}

-----------------------------------------------------------------------------
(* What the mapping tree finds for an address: the window it is in, or     *)
(* else a mapping of size 0, which takes everything from its base on.      *)
InWindowOf(a, m) == m.base <= a /\ a < m.base + m.size
CatchAll(a, m)   == m.size = 0 /\ m.base <= a

Found(a) ==
    LET windows == {o \in Outputs : InWindowOf(a, Mappings[o])}
    IN  IF windows # {} THEN windows ELSE {o \in Outputs : CatchAll(a, Mappings[o])}

Straddles(a, size, m) == m.size # 0 /\ a + size > m.base + m.size

(* The output an access goes to, NoOut when it is answered                 *)
(* IO_RESP_INVALID (so is an access to an output nothing is bound to, an   *)
(* error mapping here).                                                    *)
Decode(a, size) ==
    LET o == CHOOSE o \in Found(a) : TRUE
    IN  IF Found(a) # {} /\ ~Mappings[o].is_error /\ ~Straddles(a, size, Mappings[o])
        THEN o ELSE NoOut

Translate(a, o) == (a - Mappings[o].remove_offset) + Mappings[o].add_offset

(* Mutant: a denied forward leaves no deny bit. *)
ForwardNoBit(r, o, st, bits) ==
    /\ denied_on_output' = bits
    /\ owes' = IF st = IO_REQ_DENIED THEN owes \cup {<<o, r>>} ELSE owes
    /\ initiator' = IF st = IO_REQ_GRANTED THEN [initiator EXCEPT ![r] = PortOf[r]] ELSE initiator
    /\ down' = IF st = IO_REQ_GRANTED THEN [down EXCEPT ![r] = o] ELSE down

(* RouterBackpressure::forward as far as the InFlight record, the deny bit *)
(* and the slave go, from deny bits bits; the callers add what each status *)
(* means for them.                                                         *)
Forward(r, o, st, bits) ==
    \/ /\ st = IO_REQ_DENIED
       /\ denied_on_output' = [bits EXCEPT ![PortOf[r]] = @ \cup {o}]
       /\ owes' = owes \cup {<<o, r>>}
       /\ UNCHANGED <<initiator, down>>
    \/ /\ st = IO_REQ_DONE
       /\ denied_on_output' = bits
       /\ UNCHANGED <<owes, initiator, down>>
    \/ /\ st = IO_REQ_GRANTED
       /\ denied_on_output' = bits
       /\ initiator' = [initiator EXCEPT ![r] = PortOf[r]]
       /\ down' = [down EXCEPT ![r] = o]
       /\ UNCHANGED owes

(* The delayed path: park the translated request, arm its send_event. *)
Park(r, a, o) ==
    /\ pending_req' = [pending_req EXCEPT ![PortOf[r]] = r]
    /\ pending_mapping_id' = [pending_mapping_id EXCEPT ![PortOf[r]] = o]
    /\ send_enqueued' = [send_enqueued EXCEPT ![PortOf[r]] = TRUE]
    /\ up' = [up EXCEPT ![r] = "granted"]
    /\ addr' = [addr EXCEPT ![r] = Translate(a, o)]

(* RouterBackpressure::req_muxed for a request that arrives with address a *)
(* and size; st is the slave's answer.  Whether the delay is zero is left  *)
(* open: any number of cycles may have passed since the watermarks of the  *)
(* two ports last moved.  A slave's refusal leaves the translated address  *)
(* in the object.                                                          *)
ReqMuxed(r, a, size, delayed, st) ==
    LET in == PortOf[r]
        o  == Decode(a, size)
    IN  \/ /\ pending_req[in] # NoReq
           /\ up' = [up EXCEPT ![r] = "denied"]
           /\ addr' = [addr EXCEPT ![r] = a]
           /\ UNCHANGED <<router, denied_on_output, initiator, down, owes>>
        \/ /\ pending_req[in] = NoReq /\ o = NoOut
           /\ up' = [up EXCEPT ![r] = "idle"]
           /\ addr' = [addr EXCEPT ![r] = 0]
           /\ UNCHANGED <<router, denied_on_output, initiator, down, owes>>
        \/ /\ pending_req[in] = NoReq /\ o # NoOut /\ ~delayed
           /\ Forward(r, o, st, denied_on_output)
           /\ up' = [up EXCEPT ![r] = AfterReq(st)]
           /\ addr' = [addr EXCEPT ![r] = IF st = IO_REQ_DONE THEN 0 ELSE Translate(a, o)]
           /\ UNCHANGED router
        \/ /\ pending_req[in] = NoReq /\ o # NoOut /\ delayed
           /\ Park(r, a, o)
           /\ UNCHANGED <<denied_on_output, initiator, down, owes>>

(* A master issues a fresh request, from anywhere its code can be running: *)
(* between two handlers, inside a resp() call, or inside a retry() call    *)
(* once it has re-issued what was refused.                                 *)
MasterReq(r) ==
    /\ ctl.pc \in {"idle", "resp", "retried"}
    /\ up[r] = "idle"
    /\ NoneDenied(up, Mine(PortOf[r]))
    /\ \E acc \in Accesses[r], delayed \in BOOLEAN, st \in IoReqStatus :
          /\ ReqMuxed(r, acc[1], acc[2], delayed, st)
          /\ want' = [want EXCEPT ![r] = IF up'[r] = "idle" THEN <<0, 0>> ELSE acc]
    /\ UNCHANGED ctl

(* Inside retry() the master re-issues the request that was refused, with  *)
(* the address it first had or, as limiter_v2 does, with what the refusal  *)
(* left in the object.  A re-issue to an output that has not called        *)
(* retry() yet can only come from the send_handler whose resp() the        *)
(* request was refused in: the cycle is the same, hence the delay, and the *)
(* slave still refuses.                                                    *)
MasterReissue(r) ==
    /\ ctl.pc = "retry" /\ ctl.in = PortOf[r]
    /\ up[r] = "denied"
    /\ \E a \in {want[r][1], addr[r]}, delayed \in BOOLEAN, st \in IoReqStatus :
          /\ ctl.id = NoOut /\ <<Decode(a, want[r][2]), r>> \in owes =>
                ~delayed /\ st = IO_REQ_DENIED
          /\ ReqMuxed(r, a, want[r][2], delayed, st)
    /\ want' = [want EXCEPT ![r] = IF up'[r] = "idle" THEN <<0, 0>> ELSE @]
    /\ ctl' = [ctl EXCEPT !.pc = "retried"]

-----------------------------------------------------------------------------
(* Mutant: the parked slot is not emptied. *)
ForwardPendingKept(in, st, bits) ==
    LET r == pending_req[in]
    IN  /\ Forward(r, pending_mapping_id[in], st, bits)
        /\ UNCHANGED <<pending_req, pending_mapping_id>>
        /\ IF st = IO_REQ_DONE
           THEN /\ up' = [up EXCEPT ![r] = AfterResp(@)]
                /\ addr' = [addr EXCEPT ![r] = 0]
                /\ want' = [want EXCEPT ![r] = <<0, 0>>]
           ELSE UNCHANGED <<up, addr, want>>

(* forward(from_delayed) of the request parked on input in: a DENIED keeps *)
(* it parked, a DONE is answered with resp().                              *)
ForwardPending(in, st, bits) ==
    LET r == pending_req[in]
    IN  /\ Forward(r, pending_mapping_id[in], st, bits)
        /\ IF st = IO_REQ_DENIED
           THEN UNCHANGED <<pending_req, pending_mapping_id>>
           ELSE /\ pending_req' = [pending_req EXCEPT ![in] = NoReq]
                /\ pending_mapping_id' = [pending_mapping_id EXCEPT ![in] = NoOut]
        /\ IF st = IO_REQ_DONE
           THEN /\ up' = [up EXCEPT ![r] = AfterResp(@)]
                /\ addr' = [addr EXCEPT ![r] = 0]
                /\ want' = [want EXCEPT ![r] = <<0, 0>>]
           ELSE UNCHANGED <<up, addr, want>>

(* RouterBackpressure::send_handler: up to the resp() of a DONE, and to    *)
(* the retry() otherwise.                                                  *)
SendHandler(in, st) ==
    /\ ctl = Idle /\ send_enqueued[in] /\ pending_req[in] # NoReq
    /\ send_enqueued' = [send_enqueued EXCEPT ![in] = FALSE]
    /\ ForwardPending(in, st, denied_on_output)
    /\ ctl' = CASE st = IO_REQ_DENIED  -> Idle
                [] st = IO_REQ_DONE    -> [pc |-> "resp", in |-> in, id |-> NoOut]
                [] st = IO_REQ_GRANTED -> [pc |-> "retry", in |-> in, id |-> NoOut]

(* send_handler with nothing parked: it forwards a null request, and the   *)
(* program is at its end.                                                  *)
SendHandlerEmpty(in) ==
    /\ ctl = Idle /\ send_enqueued[in] /\ pending_req[in] = NoReq
    /\ ctl' = [ctl EXCEPT !.pc = "crashed"]
    /\ UNCHANGED <<router, denied_on_output, initiator, addr, up, want, down, owes>>

Crashed == ctl.pc = "crashed"

Halted == Crashed /\ UNCHANGED vars

(* resp() returns: send_handler advertises an input with nothing parked,   *)
(* retry_muxed goes on with its loop.                                      *)
RespReturns ==
    /\ ctl.pc = "resp"
    /\ ctl' = CASE ctl.id # NoOut -> [ctl EXCEPT !.pc = "loop", !.in = @ + 1]
                [] ctl.id = NoOut /\ pending_req[ctl.in] = NoReq -> [ctl EXCEPT !.pc = "retry"]
                [] ctl.id = NoOut /\ pending_req[ctl.in] # NoReq -> Idle
    /\ UNCHANGED <<router, denied_on_output, initiator, addr, up, want, down, owes>>

(* retry() returns; a master with nothing refused ignores it. *)
RetryReturns ==
    /\ \/ ctl.pc = "retried"
       \/ ctl.pc = "retry" /\ NoneDenied(up, Mine(ctl.in))
    /\ ctl' = IF ctl.id = NoOut THEN Idle ELSE [ctl EXCEPT !.pc = "loop", !.in = @ + 1]
    /\ UNCHANGED <<router, denied_on_output, initiator, addr, up, want, down, owes>>

OwesRetry(o) == \E r \in Reqs : <<o, r>> \in owes

(* RouterBackpressure::retry_muxed, called by a slave that owes a retry(). *)
RetryMuxed(o) ==
    /\ ctl = Idle /\ OwesRetry(o)
    /\ owes' = {p \in owes : p[1] # o}
    /\ ctl' = [pc |-> "loop", in |-> 0, id |-> o]
    /\ UNCHANGED <<router, denied_on_output, initiator, addr, up, want, down>>

(* One turn of its loop, for the next input with a deny bit on the output. *)
Denied(i, o) == o \in denied_on_output[i]

LoopEnds ==
    /\ ctl.pc = "loop"
    /\ \A i \in Inputs : i >= ctl.in => ~Denied(i, ctl.id)
    /\ ctl' = Idle
    /\ UNCHANGED <<router, denied_on_output, initiator, addr, up, want, down, owes>>

LoopAt(i) ==
    /\ ctl.pc = "loop" /\ i >= ctl.in /\ Denied(i, ctl.id)
    /\ \A j \in Inputs : ctl.in <= j /\ j < i => ~Denied(j, ctl.id)

ParkedFor(i, o) == pending_req[i] # NoReq /\ pending_mapping_id[i] = o

BitCleared(i) == [denied_on_output EXCEPT ![i] = @ \ {ctl.id}]

(* Mutant: the loop's body advances the index as well. *)
LoopForwardSkips(i, st) ==
    /\ LoopAt(i) /\ ParkedFor(i, ctl.id)
    /\ ForwardPending(i, st, BitCleared(i))
    /\ ctl' = IF st = IO_REQ_DONE THEN [ctl EXCEPT !.pc = "resp", !.in = i]
                                  ELSE [ctl EXCEPT !.in = i + 2]
    /\ UNCHANGED send_enqueued

LoopForward(i, st) ==
    /\ LoopAt(i) /\ ParkedFor(i, ctl.id)
    /\ ForwardPending(i, st, BitCleared(i))
    /\ ctl' = IF st = IO_REQ_DONE THEN [ctl EXCEPT !.pc = "resp", !.in = i]
                                  ELSE [ctl EXCEPT !.in = i + 1]
    /\ UNCHANGED send_enqueued

LoopRetry(i) ==
    /\ LoopAt(i) /\ ~ParkedFor(i, ctl.id)
    /\ denied_on_output' = BitCleared(i)
    /\ ctl' = [ctl EXCEPT !.pc = "retry", !.in = i]
    /\ UNCHANGED <<router, initiator, addr, up, want, down, owes>>

(* RouterBackpressure::resp_muxed: the answer goes to the input recorded   *)
(* in the InFlight; a master it does not belong to would be surprised.     *)
RespMuxed(r) ==
    /\ ctl = Idle /\ down[r] # NoOut
    /\ down' = [down EXCEPT ![r] = NoOut]
    /\ initiator' = [initiator EXCEPT ![r] = NoInput]
    /\ up' = [up EXCEPT ![r] = IF initiator[r] = PortOf[r] THEN AfterResp(@) ELSE "error"]
    /\ addr' = [addr EXCEPT ![r] = 0]
    /\ want' = [want EXCEPT ![r] = <<0, 0>>]
    /\ UNCHANGED <<router, denied_on_output, ctl, owes>>

-----------------------------------------------------------------------------
Next ==
    \/ \E r \in Reqs : MasterReq(r) \/ MasterReissue(r) \/ RespMuxed(r)
    \/ \E in \in Inputs, st \in IoReqStatus : SendHandler(in, st) \/ LoopForward(in, st)
    \/ \E in \in Inputs : SendHandlerEmpty(in) \/ LoopRetry(in)
    \/ \E o \in Outputs : RetryMuxed(o)
    \/ RespReturns \/ RetryReturns \/ LoopEnds \/ Halted

Spec == Init /\ [][Next]_vars

(***************************************************************************)
(* Handlers run to their end.  The clock engine gets to an enqueued        *)
(* send_event, and a slave to the resp() or retry() it owes, although other *)
(* handlers run in between (hence SF).  Neither a parked nor a re-issued   *)
(* request is denied by its slave for ever.                                *)
(***************************************************************************)
HandlerStep ==
    \/ RespReturns \/ RetryReturns \/ LoopEnds
    \/ \E r \in Reqs : MasterReissue(r)
    \/ \E in \in Inputs : LoopRetry(in) \/ \E st \in IoReqStatus : LoopForward(in, st)

PendingMoves(in) ==
    \/ SendHandlerEmpty(in)
    \/ \E st \in IoReqStatus : SendHandler(in, st)
    \/ \E st \in IoReqStatus \ {IO_REQ_DENIED} : LoopForward(in, st)

Fairness ==
    /\ WF_vars(HandlerStep)
    /\ \A r \in Reqs : SF_vars(RespMuxed(r))
    /\ \A in \in Inputs : SF_vars(PendingMoves(in))
    /\ \A o \in Outputs : Mappings[o].is_error \/ SF_vars(RetryMuxed(o))

ReissueFairness ==
    \A in \in Inputs : SF_vars(\E r \in Mine(in) : MasterReissue(r) /\ up'[r] # "denied")

FairSpec == Spec /\ Fairness

PatientSpec == FairSpec /\ ReissueFairness

-----------------------------------------------------------------------------
TypeOK ==
    /\ pending_req \in [Inputs -> Reqs \cup {NoReq}]
    /\ pending_mapping_id \in [Inputs -> Outputs \cup {NoOut}]
    /\ send_enqueued \in [Inputs -> BOOLEAN]
    /\ denied_on_output \in [Inputs -> SUBSET Outputs]
    /\ initiator \in [Reqs -> Inputs \cup {NoInput}]
    /\ addr \in [Reqs -> Int]
    /\ ctl \in [pc : {"idle", "resp", "retry", "retried", "loop", "crashed"},
                in : 0 .. NbInput, id : Outputs \cup {NoOut}]
    /\ up \in [Reqs -> MasterStates]
    /\ want \in [Reqs -> Nat \X Nat]
    /\ \A r \in Reqs : want[r] \in Accesses[r] \cup {<<0, 0>>}
    /\ down \in [Reqs -> Outputs \cup {NoOut}]
    /\ owes \subseteq Outputs \X Reqs

(***************************************************************************)
(* A granted request is in exactly one place, parked on its own input or   *)
(* with a slave under an InFlight that leads back to that input; nothing   *)
(* else is parked or with a slave; no master gets an answer it is not      *)
(* waiting for.  What a slave gets was translated for the output it is:    *)
(* undone, the translation leads back to that output.                      *)
(***************************************************************************)
Parked(r) == pending_req[PortOf[r]] = r

Untranslate(a, o) == (a - Mappings[o].add_offset) + Mappings[o].remove_offset

SentRight(r) ==
    \A o \in Outputs :
        (Parked(r) /\ pending_mapping_id[PortOf[r]] = o) \/ down[r] = o =>
            Decode(Untranslate(addr[r], o), want[r][2]) = o

OnePlace ==
    \A r \in Reqs :
        /\ up[r] # "error"
        /\ up[r] = "granted" <=> Parked(r) \/ down[r] # NoOut
        /\ ~(Parked(r) /\ down[r] # NoOut)
        /\ initiator[r] = (IF down[r] # NoOut THEN PortOf[r] ELSE NoInput)
        /\ SentRight(r)

(***************************************************************************)
(* A parked request is never stranded: its send_event is on the engine, or *)
(* the output it is parked for denied it, remembers so in the input's deny *)
(* bit, and will call retry() or is in the retry_muxed loop that comes to  *)
(* this input.                                                             *)
(***************************************************************************)
RetryComing(i, o) == OwesRetry(o) \/ (ctl.id = o /\ ctl.in <= i)

ParkedHasMover ==
    \A i \in Inputs :
        pending_req[i] # NoReq =>
            \/ send_enqueued[i]
            \/ /\ pending_mapping_id[i] \in denied_on_output[i]
               /\ RetryComing(i, pending_mapping_id[i])

(* "applies addr - remove_offset + add_offset before forwarding": of a     *)
(* granted request, the address the master wants, once, for the output it  *)
(* decodes to.  A denial leaves the translated address in the object, and  *)
(* a master that re-sends the object has it translated again.              *)
TranslatedOnce ==
    \A r \in Reqs : up[r] = "granted" =>
        addr[r] = Translate(want[r][1], Decode(want[r][1], want[r][2]))

(* A request the router granted is answered, however often the output it   *)
(* goes to denies the delayed forward, as long as the router runs.         *)
GrantedIsAnswered == \A r \in Reqs : up[r] = "granted" ~> up[r] = "idle" \/ Crashed

(* A request the router refused is let in again, whichever rule refused it *)
(* (the promise of the one_pending_rule_deny test).                        *)
DeniedIsRetried == \A r \in Reqs : up[r] = "denied" ~> up[r] # "denied" \/ Crashed
=============================================================================
