----------------------------- MODULE LimiterV2 ------------------------------
(***************************************************************************)
(* models/interco/limiter_v2.cpp: the bandwidth limiter.  One request at a *)
(* time is in emission; it is cut into chunks of at most cfg.bandwidth     *)
(* bytes, one per cycle; a chunk the output denies is parked and replayed  *)
(* from output_retry; responses come back in any order and as any number   *)
(* of beats, and the parent is answered when all its bytes are in.         *)
(*                                                                         *)
(* Time is relative to the current cycle: an event is off, due in the next *)
(* cycle, or due now; the pacing watermark is in the past or one ahead.    *)
(* ctl cuts the handlers at resp() and retry(), from inside which the      *)
(* master may issue again; ctl.k says who resumes after check_last_chunk.  *)
(***************************************************************************)
EXTENDS IoV2, Integers, FiniteSets, FiniteSetsExt

CONSTANTS Reqs, Sizes,    \* request objects and the sizes they are given
          Bandwidth,      \* cfg.bandwidth
          None

(* A chunk on its way: its parent, the parent's bytes it stands for, and  *)
(* how many of them are answered.                                         *)
Chunks == [parent : Reqs, off : Nat, size : 1 .. Bandwidth, fill : 0 .. Bandwidth]

ASSUME LimiterAssumption ==
    /\ Sizes \subseteq Nat \ {0}
    /\ Bandwidth \in Nat \ {0}
    /\ None \notin Reqs \cup Chunks

VARIABLES
    pending_req, pending_size, pending_addr,  \* the request in emission
    input_needs_retry,    \* a request was refused, a retry() is owed
    denied_sub,           \* the chunk the output denied
    event,                \* "off", "next" cycle, or "now"
    next_req_timestamp,   \* the watermark, 0 or 1 cycle ahead
    remaining_size,       \* per parent: bytes not yet answered
    ctl,                  \* the call a handler is inside, and who resumes
    up, size,             \* the master: its view, the size of each request
    out,                  \* the slave: chunks it holds, with a fill cursor
    taken,                \* per parent: bytes the slave has accepted
    filled,               \* per parent: byte offsets answered
    sent                  \* chunks the slave accepted in this cycle

vars == <<pending_req, pending_size, pending_addr, input_needs_retry, denied_sub,
          event, next_req_timestamp, remaining_size, ctl, up, size, out, taken,
          filled, sent>>

emission == <<pending_req, pending_size, pending_addr>>
Idle == [pc |-> "idle", k |-> "end"]

Init ==
    /\ pending_req = None /\ pending_size = 0 /\ pending_addr = 0
    /\ input_needs_retry = FALSE
    /\ denied_sub = None
    /\ event = "off" /\ next_req_timestamp = 0
    /\ remaining_size = [r \in Reqs |-> 0]
    /\ ctl = Idle
    /\ up = [r \in Reqs |-> "idle"] /\ size = [r \in Reqs |-> 0]
    /\ out = {}
    /\ taken = [r \in Reqs |-> 0] /\ filled = [r \in Reqs |-> {}]
    /\ sent = 0

-----------------------------------------------------------------------------
(* ClockEvent::enqueue(1): an event already enqueued keeps its cycle. *)
Enqueued(ev) == IF ev = "off" THEN "next" ELSE ev

(* Limiter::input_req. *)
InputReq(r, s) ==
    IF pending_req # None
    THEN /\ input_needs_retry' = TRUE
         /\ up' = [up EXCEPT ![r] = "denied"]
         /\ UNCHANGED <<emission, event, remaining_size, taken, filled>>
    ELSE /\ pending_req' = r /\ pending_size' = s /\ pending_addr' = 0
         /\ remaining_size' = [remaining_size EXCEPT ![r] = s]
         /\ event' = Enqueued(event)
         /\ up' = [up EXCEPT ![r] = "granted"]
         /\ taken' = [taken EXCEPT ![r] = 0]
         /\ filled' = [filled EXCEPT ![r] = {}]
         /\ UNCHANGED input_needs_retry

(* A fresh request, also from inside resp() or after a re-issue. *)
MasterReq(r) ==
    /\ ctl.pc \in {"idle", "resp", "retried"}
    /\ up[r] = "idle" /\ NoneDenied(up, Reqs)
    /\ \E s \in Sizes : InputReq(r, s) /\ size' = [size EXCEPT ![r] = s]
    /\ UNCHANGED <<denied_sub, next_req_timestamp, ctl, out, sent>>

(* The re-issue a retry() asks for. *)
MasterReissue(r) ==
    /\ ctl.pc = "retry" /\ up[r] = "denied"
    /\ InputReq(r, size[r])
    /\ ctl' = [ctl EXCEPT !.pc = "retried"]
    /\ UNCHANGED <<denied_sub, next_req_timestamp, size, out, sent>>

-----------------------------------------------------------------------------
(* What the slave does with a chunk it does not deny. *)
Bytes(c, n) == (c.off + c.fill) .. (c.off + c.fill + n - 1)

Accepts(c) ==
    /\ taken' = [taken EXCEPT ![c.parent] = @ + c.size]
    /\ sent' = sent + 1

(* Mutant: a beat is accounted as its whole chunk. *)
FinishChunkWhole(c, n, k) ==
    LET r == c.parent
    IN  /\ remaining_size' = [remaining_size EXCEPT ![r] = @ - c.size]
        /\ filled' = [filled EXCEPT ![r] = @ \cup Bytes(c, n)]
        /\ IF remaining_size[r] = c.size
           THEN /\ up' = [up EXCEPT ![r] = AfterResp(@)]
                /\ ctl' = [pc |-> "resp", k |-> k]
           ELSE /\ ctl' = [pc |-> "tail", k |-> k]
                /\ UNCHANGED up

(* Limiter::finish_chunk for n more bytes of chunk c, and check_last_chunk *)
(* up to its resp(); k resumes afterwards.                                 *)
FinishChunk(c, n, k) ==
    LET r == c.parent
    IN  /\ remaining_size' = [remaining_size EXCEPT ![r] = @ - n]
        /\ filled' = [filled EXCEPT ![r] = @ \cup Bytes(c, n)]
        /\ IF remaining_size[r] = n
           THEN /\ up' = [up EXCEPT ![r] = AfterResp(@)]
                /\ ctl' = [pc |-> "resp", k |-> k]
           ELSE /\ ctl' = [pc |-> "tail", k |-> k]
                /\ UNCHANGED up

(* Mutant: the last chunk is not cut to the bytes that are left. *)
ChunkSizeWhole == Bandwidth

(* The bytes of the next chunk. *)
ChunkSize == Min({pending_size, Bandwidth})

(* The early returns of event_handler. *)
NothingToSend == denied_sub # None \/ pending_req = None \/ pending_size = 0

(* Limiter::event_handler: cut the next chunk and forward it. *)
EventHandler(st) ==
    /\ ctl = Idle /\ event = "now"
    /\ IF NothingToSend
       THEN /\ event' = "off"
            /\ UNCHANGED <<emission, denied_sub, next_req_timestamp, remaining_size,
                           ctl, up, out, taken, filled, sent>>
       ELSE IF next_req_timestamp > 0
       THEN /\ event' = "next"
            /\ UNCHANGED <<emission, denied_sub, next_req_timestamp, remaining_size,
                           ctl, up, out, taken, filled, sent>>
       ELSE LET chunk == ChunkSize
                c == [parent |-> pending_req, off |-> pending_addr, size |-> chunk, fill |-> 0]
            IN  /\ event' = "off"
                /\ pending_addr' = pending_addr + chunk
                /\ pending_size' = pending_size - chunk
                /\ pending_req' = IF pending_size = chunk THEN None ELSE pending_req
                /\ next_req_timestamp' = 1
                /\ \/ /\ st = IO_REQ_DONE
                      /\ Accepts(c)
                      /\ FinishChunk(c, chunk, "event")
                      /\ UNCHANGED <<denied_sub, out>>
                   \/ /\ st = IO_REQ_DENIED
                      /\ denied_sub' = c
                      /\ UNCHANGED <<remaining_size, ctl, up, out, taken, filled, sent>>
                   \/ /\ st = IO_REQ_GRANTED
                      /\ Accepts(c)
                      /\ out' = out \cup {c}
                      /\ ctl' = [pc |-> "tail", k |-> "event"]
                      /\ UNCHANGED <<denied_sub, remaining_size, up, filled>>
    /\ UNCHANGED <<input_needs_retry, size>>

(* Limiter::output_retry: replay the parked chunk. *)
OutputRetry(st) ==
    /\ ctl = Idle /\ denied_sub # None
    /\ LET c == denied_sub
       IN  \/ /\ st = IO_REQ_DONE
              /\ denied_sub' = None
              /\ Accepts(c)
              /\ FinishChunk(c, c.size, "retry")
              /\ UNCHANGED out
           \/ /\ st = IO_REQ_DENIED
              /\ UNCHANGED <<denied_sub, remaining_size, ctl, up, out, taken, filled, sent>>
           \/ /\ st = IO_REQ_GRANTED
              /\ denied_sub' = None
              /\ Accepts(c)
              /\ out' = out \cup {c}
              /\ ctl' = [pc |-> "tail", k |-> "retry"]
              /\ UNCHANGED <<remaining_size, up, filled>>
    /\ UNCHANGED <<emission, input_needs_retry, event, next_req_timestamp, size>>

(* Limiter::output_resp: the slave answers a chunk it holds, or n bytes of *)
(* it as a beat of their own; the last beat gives the chunk back.          *)
OutputResp(c, n) ==
    /\ ctl = Idle /\ c \in out /\ n \in 1 .. (c.size - c.fill)
    /\ out' = (out \ {c}) \cup
              (IF c.fill + n = c.size THEN {} ELSE {[c EXCEPT !.fill = @ + n]})
    /\ FinishChunk(c, n, "end")
    /\ UNCHANGED <<emission, input_needs_retry, denied_sub, event, next_req_timestamp,
                   size, taken, sent>>

-----------------------------------------------------------------------------
(* Mutant: check_last_chunk leaves the retry() to event_handler. *)
RespReturnsNoRetry ==
    /\ ctl.pc = "resp"
    /\ ctl' = [ctl EXCEPT !.pc = "tail"]
    /\ UNCHANGED <<emission, input_needs_retry, denied_sub, event, next_req_timestamp,
                   remaining_size, up, size, out, taken, filled, sent>>

(* The end of check_last_chunk: fire the retry() owed, if there is room. *)
RespReturns ==
    /\ ctl.pc = "resp"
    /\ IF pending_req = None /\ input_needs_retry
       THEN input_needs_retry' = FALSE /\ ctl' = [ctl EXCEPT !.pc = "retry"]
       ELSE UNCHANGED input_needs_retry /\ ctl' = [ctl EXCEPT !.pc = "tail"]
    /\ UNCHANGED <<emission, denied_sub, event, next_req_timestamp, remaining_size,
                   up, size, out, taken, filled, sent>>

RetryReturns ==
    /\ ctl.pc = "retried"
    /\ ctl' = [ctl EXCEPT !.pc = "tail"]
    /\ UNCHANGED <<emission, input_needs_retry, denied_sub, event, next_req_timestamp,
                   remaining_size, up, size, out, taken, filled, sent>>

(* Mutant: output_retry does not restart the emission. *)
RearmFromEventOnly(more) == ctl.k = "event" /\ more

(* Who re-arms the event: event_handler and output_retry. *)
Rearms(more) == ctl.k # "end" /\ more

(* The last lines of event_handler and of output_retry: re-arm while there *)
(* are bytes to emit; event_handler also lets a refused master back in.    *)
HandlerTail ==
    /\ ctl.pc = "tail"
    /\ LET more == pending_req # None /\ pending_size > 0
       IN  /\ event' = IF Rearms(more) THEN Enqueued(event) ELSE event
           /\ IF ctl.k = "event" /\ ~more /\ input_needs_retry
              THEN input_needs_retry' = FALSE /\ ctl' = [pc |-> "retry", k |-> "end"]
              ELSE UNCHANGED input_needs_retry /\ ctl' = Idle
    /\ UNCHANGED <<emission, denied_sub, next_req_timestamp, remaining_size, up, size,
                   out, taken, filled, sent>>

(* The clock engine moves to the next cycle. *)
Tick ==
    /\ ctl = Idle /\ event # "now"
    /\ event' = IF event = "next" THEN "now" ELSE event
    /\ next_req_timestamp' = 0
    /\ sent' = 0
    /\ UNCHANGED <<emission, input_needs_retry, denied_sub, remaining_size, ctl, up,
                   size, out, taken, filled>>

(* Limiter::reset, its surroundings resetting with it; the event stays. *)
Reset ==
    /\ ctl = Idle
    /\ pending_req' = None /\ pending_size' = 0 /\ pending_addr' = 0
    /\ input_needs_retry' = FALSE
    /\ denied_sub' = None
    /\ next_req_timestamp' = 0
    /\ remaining_size' = [r \in Reqs |-> 0]
    /\ up' = [r \in Reqs |-> "idle"]
    /\ out' = {}
    /\ taken' = [r \in Reqs |-> 0] /\ filled' = [r \in Reqs |-> {}]
    /\ size' = [r \in Reqs |-> 0]
    /\ UNCHANGED <<event, ctl, sent>>

Beats == 1 .. Bandwidth

Next ==
    \/ \E r \in Reqs : MasterReq(r) \/ MasterReissue(r)
    \/ \E st \in IoReqStatus : EventHandler(st) \/ OutputRetry(st)
    \/ \E c \in out, n \in Beats : OutputResp(c, n)
    \/ RespReturns \/ RetryReturns \/ HandlerTail \/ Tick \/ Reset

Spec == Init /\ [][Next]_vars

(***************************************************************************)
(* Handlers return, cycles pass, a retried master re-issues; the slave     *)
(* answers every chunk it holds and retries, and accepts in the end, the   *)
(* one it denied.                                                          *)
(***************************************************************************)
Fairness ==
    /\ WF_vars(RespReturns) /\ WF_vars(RetryReturns) /\ WF_vars(HandlerTail)
    /\ WF_vars(Tick)
    /\ WF_vars(\E r \in Reqs : MasterReissue(r))
    /\ WF_vars(\E st \in IoReqStatus : EventHandler(st))
    /\ SF_vars(\E st \in IoReqStatus \ {IO_REQ_DENIED} : OutputRetry(st))
    /\ \A r \in Reqs :
          SF_vars(\E c \in out, n \in Beats : c.parent = r /\ OutputResp(c, n))

FairSpec == Spec /\ Fairness

-----------------------------------------------------------------------------
TypeOK ==
    /\ pending_req \in Reqs \cup {None}
    /\ pending_size \in Nat /\ pending_addr \in Nat
    /\ input_needs_retry \in BOOLEAN
    /\ denied_sub \in Chunks \cup {None}
    /\ event \in {"off", "next", "now"} /\ next_req_timestamp \in {0, 1}
    /\ remaining_size \in [Reqs -> Nat]
    /\ ctl \in [pc : {"idle", "resp", "retry", "retried", "tail"}, k : {"event", "retry", "end"}]
    /\ up \in [Reqs -> MasterStates] /\ size \in [Reqs -> Nat]
    /\ out \subseteq Chunks /\ \A c \in out : c.fill < c.size
    /\ taken \in [Reqs -> Nat]
    /\ filled \in [Reqs -> SUBSET Nat]
    /\ sent \in Nat

DeniedOf(r) == IF denied_sub # None /\ denied_sub.parent = r THEN denied_sub.size ELSE 0

(* The chunks of r that are parked or with the slave, and the bytes of one *)
(* that are not answered yet.                                              *)
OpenOf(r) == {c \in out \cup ({denied_sub} \ {None}) : c.parent = r}
Unanswered(c) == (c.off + c.fill) .. (c.off + c.size - 1)
InEmission(r) ==
    IF pending_req = r THEN pending_addr .. (pending_addr + pending_size - 1) ELSE {}

(***************************************************************************)
(* Every byte of a granted request is in one place: answered, still to be  *)
(* emitted, or in one chunk that is parked or with the slave;              *)
(* remaining_size counts the ones that are not answered, so the parent can *)
(* neither be answered early nor hang.                                     *)
(***************************************************************************)
UnansweredBytes(r) ==
    up[r] = "granted" =>
        /\ remaining_size[r] = size[r] - Cardinality(filled[r])
        /\ remaining_size[r] > 0
        /\ 0 .. (size[r] - 1) = filled[r] \cup InEmission(r)
                                  \cup UNION {Unanswered(c) : c \in OpenOf(r)}
        /\ filled[r] \cap InEmission(r) = {}
        /\ \A c \in OpenOf(r) :
              /\ Unanswered(c) \cap (filled[r] \cup InEmission(r)) = {}
              /\ \A d \in OpenOf(r) \ {c} : Unanswered(c) \cap Unanswered(d) = {}

(* A request back at its master has had every byte answered at its place,  *)
(* whatever beats the answers came in.                                     *)
AnswerIsComplete(r) ==
    up[r] # "error" /\ (up[r] = "idle" => filled[r] = 0 .. (size[r] - 1))

(* The slave gets a request's chunks in address order and without a gap,   *)
(* and the last one before any chunk of the next request: the limiter does *)
(* not advance past a denied chunk.                                        *)
ChunksInOrder ==
    /\ pending_req # None =>
          /\ pending_addr = taken[pending_req] + DeniedOf(pending_req)
          /\ pending_addr + pending_size = size[pending_req]
    /\ denied_sub # None =>
          /\ denied_sub.off = taken[denied_sub.parent]
          /\ \A r \in Reqs \ {denied_sub.parent} : pending_req = r => taken[r] = 0

(* Each byte of a request is emitted once, in order, and is answered       *)
(* before its request is: the three parts above.                           *)
EveryByteAccounted ==
    ChunksInOrder /\ \A r \in Reqs : UnansweredBytes(r) /\ AnswerIsComplete(r)

(***************************************************************************)
(* No wake-up is lost: a request in emission has its event armed, or the   *)
(* slave's retry() to wait for; a refused master is owed a retry() and     *)
(* somebody is left to fire it.  This is the point of the two places that  *)
(* fire it, since output_retry does not.                                   *)
(***************************************************************************)
NoLostWakeup ==
    /\ ctl = Idle /\ pending_req # None => event # "off" \/ denied_sub # None
    /\ \A r \in Reqs : up[r] = "denied" => input_needs_retry \/ ctl.pc = "retry"
    /\ ctl = Idle /\ input_needs_retry => \E r \in Reqs : up[r] = "granted"
    /\ ctl.pc = "retry" => pending_req = None /\ \E r \in Reqs : up[r] = "denied"

(* The output gets at most one sub-request per cycle, as the documentation *)
(* says; the code replays a denied chunk without regard to the watermark,  *)
(* and emits the next one in the same cycle if the event is due.           *)
OneChunkPerCycle == sent <= 1

Port == INSTANCE IoV2Port WITH view <- up

(* The limiter keeps the io_v2 promise to its master. *)
ImplementsPort == Port!Spec
=============================================================================
