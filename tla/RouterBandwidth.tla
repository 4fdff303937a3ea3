-------------------------- MODULE RouterBandwidth --------------------------
(***************************************************************************)
(* models/interco/router/router_v2_bandwidth.cpp: the address-decoding     *)
(* router that forwards inline and reports contention as latency.  It      *)
(* never refuses a request: one that meets a stalled output is granted and *)
(* queued on its input, and the queue drains when the output retries.      *)
(*                                                                         *)
(* The mapping is abstracted to the output a request decodes to (an access *)
(* no output takes is answered at once and changes nothing).  A watermark  *)
(* is kept as its distance ahead of now.  Handlers are cut at resp().      *)
(***************************************************************************)
EXTENDS IoV2, Integers, FiniteSets, Sequences, SequencesExt

CONSTANTS NbInputs, Outputs,
          Reqs, PortOf, \* the requests and the input each one comes in by
          Duration,     \* ceil(size / bandwidth) of each request
          MaxAhead,     \* bound: masters wait while a watermark is this far ahead
          NoOut

Inputs == 0 .. NbInputs - 1
Ports  == Inputs \cup Outputs

(* The InFlight objects; Own is the initiator field as the master set it. *)
Own    == 0
Pool   == 1 .. Cardinality(Reqs) + 1

ASSUME RouterAssumption ==
    /\ NbInputs \in Nat \ {0} /\ MaxAhead \in Nat \ {0}
    /\ IsFiniteSet(Reqs)
    /\ PortOf \in [Reqs -> Inputs] /\ Duration \in [Reqs -> Nat]
    /\ Outputs \cap Inputs = {} /\ NoOut \notin Outputs

VARIABLES
    queue,     \* per input, the <<request, output>> pairs that wait
    stalled,   \* the outputs whose slave has denied and not yet retried
    initiator, \* req->initiator: an InFlight, or Own
    input,     \* for each InFlight, the input it was allocated for
    ahead,     \* next_available_cycle of each port, minus now, 0 if past
    work,      \* ghost: the cycles of transfer charged to a port, still to come
    offsets,   \* how many times the address of a request has been translated since
               \* its master set it
    ctl,       \* where retry_muxed or resp_muxed is
    up,        \* the masters' view of their requests
    down,      \* the output whose slave has granted a request
    owes       \* the outputs whose slave owes a retry()

vars == <<queue, stalled, initiator, input, ahead, work, offsets, ctl, up, down, owes>>

Idle == [pc |-> "idle"]

Init ==
    /\ queue = [i \in Inputs |-> <<>>]
    /\ stalled = {}
    /\ initiator = [r \in Reqs |-> Own]
    /\ input = [n \in Pool |-> 0]
    /\ ahead = [p \in Ports |-> 0] /\ work = [p \in Ports |-> 0]
    /\ offsets = [r \in Reqs |-> 0]
    /\ ctl = Idle
    /\ up = [r \in Reqs |-> "idle"]
    /\ down = [r \in Reqs |-> NoOut]
    /\ owes = {}

-----------------------------------------------------------------------------
(* The InFlight that resp_muxed holds on to over its call of resp(). *)
Held == IF ctl.pc = "muxed" THEN {ctl.ifl} ELSE {}
Free == Pool \ (Held \cup Range(initiator))

alloc_inflight == CHOOSE n \in Free : TRUE

(* Mutant: only the input is waited for. *)
AdvanceInput(in, out, d) ==
    /\ ahead' = [ahead EXCEPT ![in] = @ + d, ![out] = ahead[in] + d]
    /\ work'  = [work EXCEPT ![in] = @ + d, ![out] = @ + d]

(* forward_inline: the two watermarks move to the end of the transfer,     *)
(* which starts when both ports are free.                                  *)
Advance(in, out, d) ==
    LET wait == IF ahead[in] < ahead[out] THEN ahead[out] ELSE ahead[in]
    IN  /\ ahead' = [ahead EXCEPT ![in] = wait + d, ![out] = wait + d]
        /\ work'  = [work EXCEPT ![in] = @ + d, ![out] = @ + d]

(* Mutant: the address is not restored when the slave denies. *)
ForwardInlineMoved(r, out, st) ==
    LET in == PortOf[r]
    IN  \/ /\ st \in {IO_REQ_DONE, IO_REQ_GRANTED}
           /\ Advance(in, out, Duration[r])
           /\ IF st = IO_REQ_GRANTED
              THEN /\ initiator' = [initiator EXCEPT ![r] = alloc_inflight]
                   /\ input' = [input EXCEPT ![alloc_inflight] = in]
                   /\ down' = [down EXCEPT ![r] = out]
                   /\ offsets' = [offsets EXCEPT ![r] = @ + 1]
              ELSE UNCHANGED <<initiator, input, down, offsets>>
           /\ UNCHANGED <<stalled, owes>>
        \/ /\ st = IO_REQ_DENIED
           /\ stalled' = stalled \cup {out}
           /\ owes' = owes \cup {out}
           /\ offsets' = [offsets EXCEPT ![r] = @ + 1]
           /\ UNCHANGED <<ahead, work, initiator, input, down>>

(* forward_inline, the output's slave answering st. *)
ForwardInline(r, out, st) ==
    LET in == PortOf[r]
    IN  \/ /\ st \in {IO_REQ_DONE, IO_REQ_GRANTED}
           /\ Advance(in, out, Duration[r])
           /\ IF st = IO_REQ_GRANTED
              THEN /\ initiator' = [initiator EXCEPT ![r] = alloc_inflight]
                   /\ input' = [input EXCEPT ![alloc_inflight] = in]
                   /\ down' = [down EXCEPT ![r] = out]
                   /\ offsets' = [offsets EXCEPT ![r] = @ + 1]
              ELSE UNCHANGED <<initiator, input, down, offsets>>
           /\ UNCHANGED <<stalled, owes>>
        \/ /\ st = IO_REQ_DENIED
           /\ stalled' = stalled \cup {out}
           /\ owes' = owes \cup {out}
           /\ UNCHANGED <<ahead, work, offsets, initiator, input, down>>

(* req_muxed for a request that decodes to out. *)
Queue(r, out) == [queue EXCEPT ![PortOf[r]] = Append(@, <<r, out>>)]

ReqMuxed(r, out) ==
    \/ /\ out \in stalled
       /\ queue' = Queue(r, out)
       /\ up' = [up EXCEPT ![r] = "granted"]
       /\ UNCHANGED <<stalled, initiator, input, ahead, work, offsets, down, owes>>
    \/ /\ out \notin stalled
       /\ \E st \in IoReqStatus :
             /\ ForwardInline(r, out, st)
             /\ queue' = IF st = IO_REQ_DENIED THEN Queue(r, out) ELSE queue
             /\ up' = [up EXCEPT ![r] = IF st = IO_REQ_DONE THEN "idle" ELSE "granted"]

(* A master issues a request, between two handlers or inside a resp(). *)
MasterReq(r, out) ==
    /\ ctl.pc \in {"idle", "resp", "muxed"}
    /\ up[r] = "idle"
    /\ ahead[PortOf[r]] < MaxAhead /\ ahead[out] < MaxAhead
    /\ ReqMuxed(r, out)
    /\ UNCHANGED ctl

-----------------------------------------------------------------------------
(* retry_muxed: the output is no longer stalled; the inputs whose queue    *)
(* starts with it are drained, lowest first.                               *)
Scan(out, i) == [pc |-> "scan", out |-> out, in |-> i]

RetryMuxed(out) ==
    /\ ctl = Idle /\ out \in owes
    /\ owes' = owes \ {out}
    /\ stalled' = stalled \ {out}
    /\ ctl' = Scan(out, 0)
    /\ UNCHANGED <<queue, initiator, input, ahead, work, offsets, up, down>>

FrontIs(i, out) == queue[i] # <<>> /\ Head(queue[i])[2] = out

ScanInput ==
    /\ ctl.pc = "scan"
    /\ ctl' = IF ctl.in = NbInputs THEN Idle
              ELSE IF FrontIs(ctl.in, ctl.out) THEN [ctl EXCEPT !.pc = "drain"]
              ELSE Scan(ctl.out, ctl.in + 1)
    /\ UNCHANGED <<queue, stalled, initiator, input, ahead, work, offsets, up, down, owes>>

(* drain_queue: stop at a stalled front, or forward the front. *)
FrontStalled(i) == queue[i] # <<>> /\ Head(queue[i])[2] \in stalled

(* Mutant: retry_muxed drains the first input that matches. *)
DrainStopsAll ==
    /\ ctl.pc = "drain"
    /\ queue[ctl.in] = <<>> \/ FrontStalled(ctl.in)
    /\ ctl' = Idle
    /\ UNCHANGED <<queue, stalled, initiator, input, ahead, work, offsets, up, down, owes>>

DrainStops ==
    /\ ctl.pc = "drain"
    /\ queue[ctl.in] = <<>> \/ FrontStalled(ctl.in)
    /\ ctl' = Scan(ctl.out, ctl.in + 1)
    /\ UNCHANGED <<queue, stalled, initiator, input, ahead, work, offsets, up, down, owes>>

DrainForwards(st) ==
    LET r   == Head(queue[ctl.in])[1]
        out == Head(queue[ctl.in])[2]
    IN  /\ ctl.pc = "drain"
        /\ queue[ctl.in] # <<>> /\ ~FrontStalled(ctl.in)
        /\ ForwardInline(r, out, st)
        /\ queue' = IF st = IO_REQ_DENIED THEN queue
                    ELSE [queue EXCEPT ![ctl.in] = Tail(@)]
        /\ up' = [up EXCEPT ![r] = IF st = IO_REQ_DONE THEN AfterResp(@) ELSE @]
        /\ ctl' = CASE st = IO_REQ_DONE    -> [ctl EXCEPT !.pc = "resp"]
                    [] st = IO_REQ_GRANTED -> ctl
                    [] st = IO_REQ_DENIED  -> Scan(ctl.out, ctl.in + 1)

DrainResumes ==
    /\ ctl.pc = "resp"
    /\ ctl' = [ctl EXCEPT !.pc = "drain"]
    /\ UNCHANGED <<queue, stalled, initiator, input, ahead, work, offsets, up, down, owes>>

(* resp_muxed, for the last beat of a response or for an earlier one: the  *)
(* request shows its master the initiator it came with, and takes the      *)
(* InFlight back when more beats are to come.                              *)
RespMuxed(r, last) ==
    LET ifl == initiator[r]
    IN  /\ ctl = Idle /\ down[r] # NoOut
        /\ initiator' = [initiator EXCEPT ![r] = Own]
        /\ ctl' = [pc |-> "muxed", req |-> r, ifl |-> ifl, last |-> last]
        /\ IF input[ifl] # PortOf[r] THEN up' = [up EXCEPT ![r] = "error"]
           ELSE up' = [up EXCEPT ![r] = IF last THEN AfterResp(@) ELSE @]
        /\ down' = IF last THEN [down EXCEPT ![r] = NoOut] ELSE down
        /\ offsets' = IF last THEN [offsets EXCEPT ![r] = 0] ELSE offsets
        /\ UNCHANGED <<queue, stalled, input, ahead, work, owes>>

(* Mutant: the InFlight is put back after the last beat, too. *)
RespReturnsAlways ==
    /\ ctl.pc = "muxed"
    /\ initiator' = [initiator EXCEPT ![ctl.req] = ctl.ifl]
    /\ ctl' = Idle
    /\ UNCHANGED <<queue, stalled, input, ahead, work, offsets, up, down, owes>>

RespReturns ==
    /\ ctl.pc = "muxed"
    /\ initiator' = IF ctl.last THEN initiator ELSE [initiator EXCEPT ![ctl.req] = ctl.ifl]
    /\ ctl' = Idle
    /\ UNCHANGED <<queue, stalled, input, ahead, work, offsets, up, down, owes>>

(* The next cycle. *)
Less(n) == IF n = 0 THEN 0 ELSE n - 1

Tick ==
    /\ ctl = Idle /\ \E p \in Ports : ahead[p] > 0
    /\ ahead' = [p \in Ports |-> Less(ahead[p])]
    /\ work' = [p \in Ports |-> Less(work[p])]
    /\ UNCHANGED <<queue, stalled, initiator, input, offsets, ctl, up, down, owes>>

Next ==
    \/ \E r \in Reqs, out \in Outputs : MasterReq(r, out)
    \/ \E out \in Outputs : RetryMuxed(out)
    \/ ScanInput \/ DrainStops \/ DrainResumes
    \/ \E st \in IoReqStatus : DrainForwards(st)
    \/ \E r \in Reqs, last \in BOOLEAN : RespMuxed(r, last)
    \/ RespReturns
    \/ Tick

Spec == Init /\ [][Next]_vars

-----------------------------------------------------------------------------
Draining == {"scan", "drain", "resp"}

TypeOK ==
    /\ queue \in [Inputs -> Seq(Reqs \X Outputs)]
    /\ stalled \subseteq Outputs /\ owes \subseteq Outputs
    /\ initiator \in [Reqs -> Pool \cup {Own}] /\ input \in [Pool -> Inputs]
    /\ ahead \in [Ports -> Nat] /\ work \in [Ports -> Nat]
    /\ offsets \in [Reqs -> {0, 1}]
    /\ ctl = Idle \/ ctl \in [pc : {"scan"}, out : Outputs, in : 0 .. NbInputs]
                  \/ ctl \in [pc : {"drain", "resp"}, out : Outputs, in : Inputs]
                  \/ ctl \in [pc : {"muxed"}, req : Reqs, ifl : Pool, last : BOOLEAN]
    /\ up \in [Reqs -> MasterStates]
    /\ down \in [Reqs -> Outputs \cup {NoOut}]

(* The response path: a request at a slave has an InFlight of its own,     *)
(* allocated for its input, except while resp() shows the master its own   *)
(* initiator; a request that is re-issued inside that resp() gets another. *)
InFlightOwned ==
    /\ \A r \in Reqs :
          LET shown == ctl.pc = "muxed" /\ ~ctl.last /\ ctl.req = r
          IN  /\ initiator[r] # Own <=> down[r] # NoOut /\ ~shown
              /\ initiator[r] # Own => input[initiator[r]] = PortOf[r]
              /\ initiator[r] # Own => initiator[r] \notin Held
    /\ \A r, s \in Reqs : initiator[r] = initiator[s] => r = s \/ initiator[r] = Own

(***************************************************************************)
(* A granted request is in the queue of its own input, once, with its      *)
(* address as it came, or at a slave, translated once, under an InFlight   *)
(* that leads back to its input; a request that was refused, put back and  *)
(* forwarded again is no exception.  It never is refused upstream.         *)
(***************************************************************************)
Queued(r) == \E i \in Inputs : \E k \in DOMAIN queue[i] : queue[i][k][1] = r

OnePlace ==
    /\ \A i \in Inputs : \A j, k \in DOMAIN queue[i] :
          /\ PortOf[queue[i][j][1]] = i
          /\ queue[i][j][1] = queue[i][k][1] => j = k
    /\ \A r \in Reqs :
          /\ up[r] \in {"idle", "granted"}
          /\ up[r] = "granted" <=> Queued(r) \/ down[r] # NoOut
          /\ ~(Queued(r) /\ down[r] # NoOut)
          /\ offsets[r] = IF down[r] # NoOut THEN 1 ELSE 0
    /\ InFlightOwned

(***************************************************************************)
(* A queue that is not being drained starts with an output that is         *)
(* stalled, and whose slave owes a retry(): nothing waits that nobody will *)
(* come back for, although a retry() of one output wakes only the inputs   *)
(* whose first request is for it.                                          *)
(***************************************************************************)
StillToScan(i) == ctl.pc \in Draining /\ i >= ctl.in /\ FrontIs(i, ctl.out)
BeingDrained(i) == ctl.pc \in {"drain", "resp"} /\ i = ctl.in

FrontWaitsForRetry ==
    /\ stalled = owes
    /\ \A i \in Inputs : queue[i] # <<>> =>
          FrontStalled(i) \/ StillToScan(i) \/ BeingDrained(i)

(* No port promises more bandwidth than it has: the watermark of an input  *)
(* or an output is never behind the transfers charged to it, whichever     *)
(* mix of ports they came from and however long they were queued.          *)
BandwidthKept == \A p \in Ports : work[p] <= ahead[p]
=============================================================================
