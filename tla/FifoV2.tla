------------------------------- MODULE FifoV2 -------------------------------
(***************************************************************************)
(* models/interco/fifo_v2.cpp: the request FIFO that hides a downstream    *)
(* slave's back-pressure from an upstream master.                          *)
(*                                                                         *)
(* The component is not thread-concurrent but re-entrant: head_done calls  *)
(* resp() and retry() on the master, and the master may call input_req     *)
(* again before those calls return.  head_done is therefore cut at its two *)
(* outgoing calls (variable call) and nothing but the master's re-entrant  *)
(* requests can happen until it has finished.  Cycle counts are left out:  *)
(* an enqueued clock event fires at some later moment.                     *)
(***************************************************************************)
EXTENDS IoV2, Naturals, Sequences

CONSTANTS Reqs,     \* request objects of the upstream master
          Depth     \* cfg.depth

ASSUME DepthAssumption == Depth \in Nat \ {0}

VARIABLES
    queue,               \* buffered requests, oldest first
    downstream_busy,     \* a head request is outstanding downstream
    downstream_stalled,  \* ... and it was DENIED
    input_needs_retry,   \* a request was refused, a retry() is owed
    pump_enqueued,       \* pump_event is on the clock engine
    call,                \* the call on the master head_done is inside
    up,                  \* the master's view of its requests
    down                 \* what the downstream slave has of the head

vars == <<queue, downstream_busy, downstream_stalled, input_needs_retry,
          pump_enqueued, call, up, down>>

Calls     == {"none", "resp", "retry", "reissued"}
DownState == {"none", "serving", "denied"}

Init ==
    /\ queue = <<>>
    /\ downstream_busy = FALSE
    /\ downstream_stalled = FALSE
    /\ input_needs_retry = FALSE
    /\ pump_enqueued = FALSE
    /\ call = "none"
    /\ up = [r \in Reqs |-> "idle"]
    /\ down = "none"

-----------------------------------------------------------------------------
(* Mutant: the full test is off by one. *)
InputReqOverfull(r) ==
    IF Len(queue) > Depth
    THEN /\ input_needs_retry' = TRUE
         /\ up' = [up EXCEPT ![r] = "denied"]
         /\ UNCHANGED <<queue, pump_enqueued>>
    ELSE /\ queue' = Append(queue, r)
         /\ up' = [up EXCEPT ![r] = "granted"]
         /\ pump_enqueued' = (pump_enqueued \/ ~downstream_busy)
         /\ UNCHANGED input_needs_retry

(* Fifo::input_req: refuse when full, else buffer and kick an idle pump. *)
InputReq(r) ==
    IF Len(queue) >= Depth
    THEN /\ input_needs_retry' = TRUE
         /\ up' = [up EXCEPT ![r] = "denied"]
         /\ UNCHANGED <<queue, pump_enqueued>>
    ELSE /\ queue' = Append(queue, r)
         /\ up' = [up EXCEPT ![r] = "granted"]
         /\ pump_enqueued' = (pump_enqueued \/ ~downstream_busy)
         /\ UNCHANGED input_needs_retry

(* The master issues a request: on its own, from inside its resp()         *)
(* callback, or after the re-issue a retry() asks of it.                   *)
MasterReq(r) ==
    /\ up[r] = "idle" /\ NoneDenied(up, Reqs)
    /\ InputReq(r)
    /\ UNCHANGED <<call, downstream_busy, downstream_stalled, down>>

(* Inside retry() the master re-issues the refused request. *)
MasterReissue(r) ==
    /\ call = "retry" /\ up[r] = "denied"
    /\ InputReq(r)
    /\ call' = "reissued"
    /\ UNCHANGED <<downstream_busy, downstream_stalled, down>>

-----------------------------------------------------------------------------
(* Mutant: head_done forgets to pop. *)
HeadDoneNoPop ==
    /\ queue' = queue
    /\ downstream_busy' = FALSE
    /\ downstream_stalled' = FALSE
    /\ up' = [up EXCEPT ![Head(queue)] = AfterResp(@)]
    /\ call' = "resp"
    /\ down' = "none"

(* Fifo::head_done up to its call of resp(). *)
HeadDone ==
    /\ queue' = Tail(queue)
    /\ downstream_busy' = FALSE
    /\ downstream_stalled' = FALSE
    /\ up' = [up EXCEPT ![Head(queue)] = AfterResp(@)]
    /\ call' = "resp"
    /\ down' = "none"

(* Mutant: head_done relies on input_req to restart the pump. *)
RearmNever ==
    /\ call' = "none"
    /\ UNCHANGED pump_enqueued

(* The end of head_done: keep draining. *)
Rearm ==
    /\ call' = "none"
    /\ pump_enqueued' = (pump_enqueued \/ queue # <<>>)

(* Mutant: the freed slot is not advertised. *)
RespReturnsNoRetry ==
    /\ call = "resp"
    /\ Rearm
    /\ UNCHANGED <<input_needs_retry, queue, downstream_busy, downstream_stalled, up, down>>

(* resp() returns: a slot is free, let a refused master back in. *)
RespReturns ==
    /\ call = "resp"
    /\ IF input_needs_retry /\ Len(queue) < Depth
       THEN /\ input_needs_retry' = FALSE
            /\ call' = "retry"
            /\ UNCHANGED pump_enqueued
       ELSE /\ Rearm
            /\ UNCHANGED input_needs_retry
    /\ UNCHANGED <<queue, downstream_busy, downstream_stalled, up, down>>

(* retry() returns, the refused request having been re-issued inside it. *)
RetryReturns ==
    /\ call = "reissued"
    /\ Rearm
    /\ UNCHANGED <<queue, downstream_busy, downstream_stalled,
                   input_needs_retry, up, down>>

(* Fifo::send_head with the status the downstream slave answers and the    *)
(* value downstream_stalled has on entry, which a GRANTED does not touch.  *)
SendHead(st, stalled) ==
    \/ /\ st = IO_REQ_DONE
       /\ HeadDone
    \/ /\ st = IO_REQ_DENIED
       /\ downstream_busy' = TRUE
       /\ downstream_stalled' = TRUE
       /\ down' = "denied"
       /\ UNCHANGED <<queue, up, call>>
    \/ /\ st = IO_REQ_GRANTED
       /\ downstream_busy' = TRUE
       /\ downstream_stalled' = stalled
       /\ down' = "serving"
       /\ UNCHANGED <<queue, up, call>>

(* Fifo::pump_handler. *)
PumpHandler(st) ==
    /\ call = "none" /\ pump_enqueued
    /\ pump_enqueued' = FALSE
    /\ IF downstream_busy \/ queue = <<>>
       THEN UNCHANGED <<queue, downstream_busy, downstream_stalled, call, up, down>>
       ELSE SendHead(st, downstream_stalled)
    /\ UNCHANGED input_needs_retry

(* Fifo::output_resp: the slave answers the head it was serving. *)
OutputResp ==
    /\ call = "none" /\ down = "serving"
    /\ HeadDone
    /\ UNCHANGED <<input_needs_retry, pump_enqueued>>

(* Fifo::output_retry: the slave asks for the head it denied; a retry()    *)
(* that finds nothing parked returns at once.                              *)
OutputRetry(st) ==
    /\ call = "none" /\ down = "denied"
    /\ downstream_stalled
    /\ SendHead(st, FALSE)
    /\ UNCHANGED <<input_needs_retry, pump_enqueued>>

(* Fifo::reset, with the master and the slave resetting around it.  The    *)
(* pump event is not cancelled.                                            *)
Reset ==
    /\ call = "none"
    /\ queue' = <<>>
    /\ downstream_busy' = FALSE
    /\ downstream_stalled' = FALSE
    /\ input_needs_retry' = FALSE
    /\ up' = [r \in Reqs |-> "idle"]
    /\ down' = "none"
    /\ UNCHANGED <<pump_enqueued, call>>

-----------------------------------------------------------------------------
Master == \E r \in Reqs : MasterReq(r) \/ MasterReissue(r)

Slave == OutputResp \/ \E st \in IoReqStatus : OutputRetry(st)

Next ==
    \/ Master
    \/ Slave
    \/ RespReturns
    \/ RetryReturns
    \/ \E st \in IoReqStatus : PumpHandler(st)
    \/ Reset

Spec == Init /\ [][Next]_vars

(***************************************************************************)
(* Calls return, the clock engine runs enqueued events, a retried master   *)
(* re-issues, and the slave answers, retries and does not deny for ever.   *)
(***************************************************************************)
Fairness ==
    /\ WF_vars(RespReturns)
    /\ WF_vars(RetryReturns)
    /\ WF_vars(\E r \in Reqs : MasterReissue(r))
    /\ WF_vars(\E st \in IoReqStatus : PumpHandler(st))
    /\ WF_vars(OutputResp)
    /\ WF_vars(\E st \in IoReqStatus : OutputRetry(st))
    /\ SF_vars(\E st \in IoReqStatus \ {IO_REQ_DENIED} : OutputRetry(st))

FairSpec == Spec /\ Fairness

-----------------------------------------------------------------------------
TypeOK ==
    /\ queue \in Seq(Reqs)
    /\ Len(queue) <= Depth
    /\ downstream_busy \in BOOLEAN
    /\ downstream_stalled \in BOOLEAN
    /\ input_needs_retry \in BOOLEAN
    /\ pump_enqueued \in BOOLEAN
    /\ call \in Calls
    /\ up \in [Reqs -> MasterStates]
    /\ down \in DownState

(***************************************************************************)
(* The FIFO holds exactly the requests it granted and has not answered,    *)
(* each once: a head popped before its answer, or answered while another   *)
(* request is at the head, would break it.                                 *)
(***************************************************************************)
QueueIsOutstanding ==
    /\ \A r \in Reqs : (up[r] = "granted") <=> (\E i \in 1..Len(queue) : queue[i] = r)
    /\ \A i, j \in 1..Len(queue) : queue[i] = queue[j] => i = j
    /\ \A r \in Reqs : up[r] # "error"

(***************************************************************************)
(* No wake-up is lost: a buffered request always has someone who will move *)
(* it (the slave, the pump or a running head_done), and a refused master   *)
(* is always owed a retry() that a buffered request's completion fires.    *)
(***************************************************************************)
NoLostWakeup ==
    /\ queue # <<>> => \/ downstream_busy \/ pump_enqueued \/ call # "none"
    /\ \A r \in Reqs : up[r] = "denied" => input_needs_retry \/ call = "retry"
    /\ input_needs_retry => queue # <<>> \/ call # "none"

(***************************************************************************)
(* The parked-head flags agree with what the slave believes, so that its   *)
(* retry() or resp() always finds the head it is about.                    *)
(***************************************************************************)
FlagsMatchSlave ==
    /\ downstream_busy <=> down # "none"
    /\ downstream_stalled <=> down = "denied"
    /\ downstream_busy => queue # <<>> /\ call = "none"

(***************************************************************************)
(* The retry() debt is exact: it stands for one refused request, it is     *)
(* cleared before retry() is called, the call has a taker, and a debt made *)
(* inside the call was made by a full FIFO, so that a completion will pay  *)
(* it.                                                                     *)
(***************************************************************************)
RetryDebt ==
    /\ \A q, r \in Reqs : up[q] = "denied" /\ up[r] = "denied" => q = r
    /\ input_needs_retry => \E r \in Reqs : up[r] = "denied"
    /\ call = "retry" => ~input_needs_retry /\ \E r \in Reqs : up[r] = "denied"
    /\ call = "reissued" /\ input_needs_retry => queue # <<>>

(* The inductive invariant the proofs rest on. *)
IInv == TypeOK /\ QueueIsOutstanding /\ NoLostWakeup /\ FlagsMatchSlave /\ RetryDebt

Port == INSTANCE IoV2Port WITH view <- up

(* The FIFO implements the port its Python wrapper documents: no request   *)
(* is answered twice, dropped, or refused for ever.                        *)
ImplementsPort == Port!Spec
=============================================================================
