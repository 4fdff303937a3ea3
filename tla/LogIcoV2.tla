------------------------------ MODULE LogIcoV2 ------------------------------
(***************************************************************************)
(* models/interco/log_ico_v2.cpp: the interleaved crossbar.  A request in  *)
(* the idle state is always refused; one bit per (input, bank) remembers   *)
(* it; the FSM elects one input per bank, round robin, and calls its       *)
(* retry(), during which every request is forwarded inline to its bank.    *)
(*                                                                         *)
(* The FSM loop is cut at its retry() calls (ico_ctl), from inside which   *)
(* the elected master re-issues and any master may go on to issue new      *)
(* requests.  Time is relative: fsm_event is off, due next cycle or now.   *)
(***************************************************************************)
EXTENDS IoV2, Integers, Sequences, FiniteSetsExt

CONSTANTS nb_masters, nb_slaves,
          Granule,          \* 1 << cfg.interleaving_width
          Addrs,            \* addresses the masters access
          IcoReqs, PortOf,     \* request objects and the input of their master
          MaxHits           \* bound: accesses served within one cycle

Masters == 0 .. nb_masters - 1
Banks   == 0 .. nb_slaves - 1

ASSUME LogIcoAssumption ==
    /\ nb_masters \in Nat \ {0} /\ nb_slaves \in Nat \ {0} /\ Granule \in Nat \ {0}
    /\ \E slave_bits \in 0 .. nb_slaves : nb_slaves = 2 ^ slave_bits
    /\ Addrs \subseteq Nat
    /\ PortOf \in [IcoReqs -> Masters]
    /\ MaxHits \in Nat

VARIABLES
    pending_mask,   \* per bank: inputs with a refused request for it
    rr_next,        \* per bank: where the next election starts
    fsm_event,      \* "off", "next" cycle, or "now"
    ico_ctl,        \* the FSM loop: its bank, any_remaining, the input retried
    ico_up, addr,   \* the masters: their view, the address of each request
    hits,           \* accesses the banks served in this cycle
    passed          \* per input: elections lost since it was refused

IcoVars == <<pending_mask, rr_next, fsm_event, ico_ctl, ico_up, addr, hits, passed>>

IcoIdle == [pc |-> "idle", bank |-> 0, any_remaining |-> FALSE, winner |-> 0]

IcoInit ==
    /\ pending_mask = [b \in Banks |-> {}]
    /\ rr_next = [b \in Banks |-> 0]
    /\ fsm_event = "off"
    /\ ico_ctl = IcoIdle
    /\ ico_up = [r \in IcoReqs |-> "idle"] /\ addr = [r \in IcoReqs |-> 0]
    /\ hits = <<>>
    /\ passed = [m \in Masters |-> 0]

-----------------------------------------------------------------------------
(* LogIco::decode_bank and decode_offset, for nb_slaves a power of two: with *)
(* another number ceil_log2 gives a mask that reaches past the last bank.  *)
decode_bank(a)   == (a \div Granule) % nb_slaves
(* Mutant: the row of the granule is lost. *)
decode_offset_row0(a) == a % Granule

decode_offset(a) == (a \div (nb_slaves * Granule)) * Granule + (a % Granule)

(* Mutant: fixed priority. *)
pick_winner_fixed(mask, rr) == Min(mask)

(* LogIco::pick_winner: rotate the mask by rr_next, take the first bit. *)
pick_winner(mask, rr) ==
    (rr + Min({(m + nb_masters - rr) % nb_masters : m \in mask})) % nb_masters

in_election == ico_ctl.pc # "idle"

Mine(m) == {r \in IcoReqs : PortOf[r] = m}

(* LogIco::input_req: forward inline during an election, else note the     *)
(* input in its bank's mask and call for an election in this very cycle.   *)
IcoInputReq(r, a) ==
    IF in_election
    THEN /\ hits' = Append(hits, [addr |-> a, bank |-> decode_bank(a),
                                  offset |-> decode_offset(a)])
         /\ ico_up' = [ico_up EXCEPT ![r] = "idle"]
         /\ addr' = [addr EXCEPT ![r] = 0]
         /\ UNCHANGED <<pending_mask, fsm_event>>
    ELSE /\ pending_mask' = [pending_mask EXCEPT ![decode_bank(a)] = @ \cup {PortOf[r]}]
         /\ fsm_event' = "now"
         /\ ico_up' = [ico_up EXCEPT ![r] = "denied"]
         /\ addr' = [addr EXCEPT ![r] = a]
         /\ UNCHANGED hits

(* A fresh request, also from inside a retry() after the re-issue. *)
IcoMasterReq(r) ==
    /\ ico_ctl.pc \in {"idle", "retried"}
    /\ Len(hits) < MaxHits
    /\ ico_up[r] = "idle" /\ NoneDenied(ico_up, Mine(PortOf[r]))
    /\ \E a \in Addrs : IcoInputReq(r, a)
    /\ passed' = [passed EXCEPT ![PortOf[r]] = 0]
    /\ UNCHANGED <<rr_next, ico_ctl>>

(* The re-issue the retry() of the election asks for. *)
IcoMasterReissue(r) ==
    /\ ico_ctl.pc = "retry" /\ ico_ctl.winner = PortOf[r]
    /\ ico_up[r] = "denied"
    /\ IcoInputReq(r, addr[r])
    /\ ico_ctl' = [ico_ctl EXCEPT !.pc = "retried"]
    /\ UNCHANGED <<rr_next, passed>>

-----------------------------------------------------------------------------
(* LogIco::fsm_handler.  It starts with in_election raised. *)
FsmHandler ==
    /\ ico_ctl = IcoIdle /\ fsm_event = "now"
    /\ fsm_event' = "off"
    /\ ico_ctl' = [IcoIdle EXCEPT !.pc = "loop"]
    /\ UNCHANGED <<pending_mask, rr_next, ico_up, addr, hits, passed>>

(* Mutant: the rotor is not wrapped. *)
RotorUnwrapped(winner) == winner + 1

(* Where the next election starts, and who still waits after this one. *)
Rotor(winner) == (winner + 1) % nb_masters
Losers(mask, winner) == mask \ {winner}

(* One bank of the loop: elect, move the rotor, retry() the winner. *)
FsmBank ==
    LET b == ico_ctl.bank
        mask == pending_mask[b]
        winner == pick_winner(mask, rr_next[b])
    IN  /\ ico_ctl.pc = "loop" /\ b < nb_slaves
        /\ IF mask = {}
           THEN /\ ico_ctl' = [ico_ctl EXCEPT !.bank = @ + 1]
                /\ UNCHANGED <<pending_mask, rr_next, passed>>
           ELSE /\ pending_mask' = [pending_mask EXCEPT ![b] = Losers(mask, winner)]
                /\ rr_next' = [rr_next EXCEPT ![b] = Rotor(winner)]
                /\ passed' = [m \in Masters |->
                                IF m \in Losers(mask, winner) THEN passed[m] + 1 ELSE passed[m]]
                /\ ico_ctl' = [ico_ctl EXCEPT !.pc = "retry", !.winner = winner]
        /\ UNCHANGED <<fsm_event, ico_up, addr, hits>>

(* Mutant: the last bank elected decides alone. *)
RetryReturnsLastBank ==
    /\ ico_ctl.pc = "retried"
    /\ ico_ctl' = [ico_ctl EXCEPT !.pc = "loop", !.bank = @ + 1,
                          !.any_remaining = pending_mask[ico_ctl.bank] # {}]
    /\ UNCHANGED <<pending_mask, rr_next, fsm_event, ico_up, addr, hits, passed>>

IcoRetryReturns ==
    /\ ico_ctl.pc = "retried"
    /\ ico_ctl' = [ico_ctl EXCEPT !.pc = "loop", !.bank = @ + 1,
                          !.any_remaining = @ \/ pending_mask[ico_ctl.bank] # {}]
    /\ UNCHANGED <<pending_mask, rr_next, fsm_event, ico_up, addr, hits, passed>>

(* Mutant: the FSM is not re-armed. *)
FsmEndsIdle ==
    /\ ico_ctl.pc = "loop" /\ ico_ctl.bank = nb_slaves
    /\ ico_ctl' = IcoIdle
    /\ UNCHANGED <<pending_mask, rr_next, fsm_event, ico_up, addr, hits, passed>>

(* The loop ends: re-arm for the next cycle if an input still waits. *)
FsmEnds ==
    /\ ico_ctl.pc = "loop" /\ ico_ctl.bank = nb_slaves
    /\ fsm_event' = IF ico_ctl.any_remaining THEN "next" ELSE fsm_event
    /\ ico_ctl' = IcoIdle
    /\ UNCHANGED <<pending_mask, rr_next, ico_up, addr, hits, passed>>

(* The clock engine moves to the next cycle. *)
IcoTick ==
    /\ ico_ctl = IcoIdle /\ fsm_event # "now"
    /\ fsm_event' = IF fsm_event = "next" THEN "now" ELSE fsm_event
    /\ hits' = <<>>
    /\ UNCHANGED <<pending_mask, rr_next, ico_ctl, ico_up, addr, passed>>

(* LogIco::reset, the masters resetting with it; fsm_event stays. *)
IcoReset ==
    /\ ico_ctl = IcoIdle
    /\ pending_mask' = [b \in Banks |-> {}]
    /\ rr_next' = [b \in Banks |-> 0]
    /\ ico_up' = [r \in IcoReqs |-> "idle"] /\ addr' = [r \in IcoReqs |-> 0]
    /\ passed' = [m \in Masters |-> 0]
    /\ UNCHANGED <<fsm_event, ico_ctl, hits>>

IcoNext ==
    \/ \E r \in IcoReqs : IcoMasterReq(r) \/ IcoMasterReissue(r)
    \/ FsmHandler \/ FsmBank \/ IcoRetryReturns \/ FsmEnds
    \/ IcoTick \/ IcoReset

IcoSpec == IcoInit /\ [][IcoNext]_IcoVars

(* Cycles pass, the FSM runs to its end, a retried master re-issues inside *)
(* the call (the io_v2 synchronous-retry rule the header relies on).       *)
IcoFairness ==
    /\ WF_IcoVars(IcoTick) /\ WF_IcoVars(FsmHandler) /\ WF_IcoVars(FsmBank)
    /\ WF_IcoVars(IcoRetryReturns) /\ WF_IcoVars(FsmEnds)
    /\ WF_IcoVars(\E r \in IcoReqs : IcoMasterReissue(r))

IcoFairSpec == IcoSpec /\ IcoFairness

-----------------------------------------------------------------------------
IcoTypeOK ==
    /\ pending_mask \in [Banks -> SUBSET Masters]
    /\ rr_next \in [Banks -> Masters]
    /\ fsm_event \in {"off", "next", "now"}
    /\ ico_ctl \in [pc : {"idle", "loop", "retry", "retried"}, bank : 0 .. nb_slaves,
                any_remaining : BOOLEAN, winner : Masters]
    /\ ico_up \in [IcoReqs -> MasterStates] /\ addr \in [IcoReqs -> Nat]
    /\ hits \in Seq([addr : Nat, bank : Banks, offset : Nat])
    /\ passed \in [Masters -> Nat]

(***************************************************************************)
(* The masks are exactly the refused requests: a bit without a request     *)
(* would give a retry() nobody takes, a request without a bit would never  *)
(* be retried.  The one exception is the winner being retried right now.   *)
(***************************************************************************)
MasksAreRefusals ==
    \A m \in Masters, b \in Banks :
        m \in pending_mask[b]
          <=> /\ \E r \in Mine(m) : ico_up[r] = "denied" /\ decode_bank(addr[r]) = b
              /\ ~(ico_ctl.pc = "retry" /\ ico_ctl.winner = m)

(* The masks have an election coming, and the loop that is running does    *)
(* not forget the banks it has passed.                                     *)
ElectionComing ==
    /\ (ico_ctl = IcoIdle /\ \E b \in Banks : pending_mask[b] # {}) => fsm_event # "off"
    /\ ico_ctl.pc = "loop" =>
          \A b \in Banks : b < ico_ctl.bank /\ pending_mask[b] # {} => ico_ctl.any_remaining

(* Nobody waits unknown to the crossbar, or known to it and for nothing. *)
RefusalsAreElected == MasksAreRefusals /\ ElectionComing

(* Round robin: an input loses at most one election to each other input    *)
(* before it is served.                                                    *)
BoundedWait == \A m \in Masters : passed[m] < nb_masters

(* Two addresses served in one cycle are never sent to the same place of   *)
(* the same bank: the interleaving does not alias.                         *)
NoAliasing ==
    \A i, j \in 1 .. Len(hits) :
        hits[i].bank = hits[j].bank /\ hits[i].offset = hits[j].offset
            => hits[i].addr = hits[j].addr

(* Every refused request is served. *)
DeniedIsServed == \A r \in IcoReqs : ico_up[r] = "denied" ~> ico_up[r] = "idle"
=============================================================================
