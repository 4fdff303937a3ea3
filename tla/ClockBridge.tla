---------------------------- MODULE ClockBridge ----------------------------
(***************************************************************************)
(* models/utils/io_v2_clock_bridge.cpp: the bridge that carries io_v2      *)
(* requests and responses across two clock domains.  With k_src = k_dst =  *)
(* 0 a request is forwarded inline and only its response waits for the     *)
(* next master edge; otherwise four stages of cycle-counted FIFOs are      *)
(* crossed, two in each domain.                                            *)
(*                                                                         *)
(* The two clocks tick independently, so deadlines are kept relative: an   *)
(* entry is left cycles of its own domain away from its deadline, negative *)
(* when late, and ev counts the cycles until each event fires.  Requests   *)
(* of RoundTrip (reads, atomics, last write beats) are answered; the other *)
(* ones are write beats, freed by whoever consumes them, which gives the   *)
(* object back to its master.  Handlers are cut at resp() and retry().     *)
(***************************************************************************)
EXTENDS IoV2, Integers, Sequences, SequencesExt

CONSTANTS Configs,          \* the bridges: records [k_src, k_dst, depth]
          Reqs, RoundTrip   \* the requests, and those a response comes for

ASSUME BridgeAssumption ==
    /\ \A c \in Configs : c.k_src \in Nat /\ c.k_dst \in Nat /\ c.depth \in Nat \ {0}
    /\ RoundTrip \subseteq Reqs

VARIABLES
    cfg,        \* the configuration, which never changes
    q,          \* the four stage queues, sequences of [req, left]
    resp_queue, \* the responses that wait for resp_event (k = 0)
    ev,         \* for each ClockEvent, the cycles until it fires or Off
    retry_owed,
    ctl,        \* where a handler is, in a call on the master
    up,         \* the master's view of its requests
    down,       \* the requests the slave has granted
    owes        \* the slave has denied a request and owes a retry()

vars == <<cfg, q, resp_queue, ev, retry_owed, ctl, up, down, owes>>

Stages     == {"fwd_src", "fwd_dst", "rev_src", "rev_dst"}
MasterSide == {"fwd_src", "rev_dst", "retry", "resp"}
SlaveSide  == {"fwd_dst", "rev_src"}
Events     == MasterSide \cup SlaveSide

Off  == -1
Idle == [pc |-> "idle", of |-> "none"]

parametric == cfg.k_src > 0 \/ cfg.k_dst > 0

(* The cycles a stage takes. *)
K(s) == IF s \in {"fwd_src", "rev_src"} THEN cfg.k_src ELSE cfg.k_dst

NoEvent == [e \in Events |-> Off]
Drained == [s \in Stages |-> <<>>]

Init ==
    /\ cfg \in Configs
    /\ q = Drained /\ resp_queue = <<>> /\ ev = NoEvent
    /\ retry_owed = FALSE
    /\ ctl = Idle
    /\ up = [r \in Reqs |-> "idle"] /\ down = {} /\ owes = FALSE

-----------------------------------------------------------------------------
Larger(a, b) == IF a < b THEN b ELSE a

(* enqueue_in for each of reqs in turn, with the deadline now + K(s): one  *)
(* cycle after the previous entry at the earliest, so that the entries of  *)
(* a burst are due one after the other.                                    *)
FirstSlot(queue, s) ==
    IF queue = <<>> THEN K(s) ELSE Larger(K(s), Last(queue).left + 1)

EnqueueIn(queue, reqs, s) ==
    queue \o [i \in DOMAIN reqs |-> [req |-> reqs[i], left |-> FirstSlot(queue, s) + i - 1]]

(* reschedule_event, for the queues qq. *)
Reschedule(e, s, qq) ==
    [e EXCEPT ![s] = IF qq[s] = <<>> THEN Off ELSE Larger(1, Head(qq[s]).left)]

Occupancy(qq) ==
    Len(qq["fwd_src"]) + Len(qq["fwd_dst"]) + Len(qq["rev_src"]) + Len(qq["rev_dst"])

(* How many entries the loop of a stage handler takes off its queue. *)
NbDue(queue) ==
    CHOOSE n \in 0 .. Len(queue) :
        /\ \A i \in 1 .. n : queue[i].left <= 0
        /\ n < Len(queue) => queue[n + 1].left > 0

DueReqs(queue) == [i \in 1 .. NbDue(queue) |-> queue[i].req]
Later(queue)   == SubSeq(queue, NbDue(queue) + 1, Len(queue))

(* Those of reqs that are in S, in the order of reqs. *)
InOrderOf(reqs, S) ==
    {b \in UNION {Bijection(1 .. n, S) : n \in 0 .. Len(reqs)} :
        \A i, j \in DOMAIN b : i < j =>
            \E m, n \in DOMAIN reqs : m < n /\ reqs[m] = b[i] /\ reqs[n] = b[j]}

(* Mutant: the forward drain does not re-open the window. *)
ScheduleNoRetry(e, qq) == e

(* schedule_retry, from the slave's domain. *)
ScheduleRetry(e, qq) ==
    IF retry_owed /\ Occupancy(qq) < cfg.depth
    THEN [e EXCEPT !["retry"] = IF @ = Off THEN 1 ELSE @]
    ELSE e

-----------------------------------------------------------------------------
(* in_req_handler with k = 0: out.req(), its status st handed back. *)
Relay(r, st) ==
    /\ ~parametric
    /\ up' = [up EXCEPT ![r] = AfterReq(st)]
    /\ down' = IF st = IO_REQ_GRANTED THEN down \cup {r} ELSE down
    /\ owes' = (owes \/ st = IO_REQ_DENIED)
    /\ UNCHANGED <<q, ev, retry_owed>>

(* in_req_handler otherwise: the depth gate, then fwd_src. *)
Admit(r) ==
    /\ parametric
    /\ IF Occupancy(q) >= cfg.depth
       THEN /\ retry_owed' = TRUE
            /\ up' = [up EXCEPT ![r] = "denied"]
            /\ UNCHANGED <<q, ev>>
       ELSE /\ q' = [q EXCEPT !["fwd_src"] = EnqueueIn(@, <<r>>, "fwd_src")]
            /\ ev' = Reschedule(ev, "fwd_src", q')
            /\ up' = [up EXCEPT ![r] = "granted"]
            /\ UNCHANGED retry_owed
    /\ UNCHANGED <<down, owes>>

InReq(r) ==
    /\ \/ Admit(r)
       \/ \E st \in IoReqStatus : Relay(r, st)
    /\ UNCHANGED <<cfg, resp_queue>>

(* The master issues a request between two handlers, inside a resp(), or   *)
(* inside a retry() once it has re-issued what was refused.                *)
MasterReq(r) ==
    /\ ctl.pc \in {"idle", "resp", "retried"}
    /\ up[r] = "idle" /\ NoneDenied(up, Reqs)
    /\ InReq(r)
    /\ UNCHANGED ctl

MasterReissue(r) ==
    /\ ctl.pc = "retry" /\ up[r] = "denied"
    /\ InReq(r)
    /\ ctl' = [ctl EXCEPT !.pc = "retried"]

-----------------------------------------------------------------------------
(* Mutant: a handler re-arms the next stage's event only. *)
CrossOnce(s, t) ==
    /\ ctl = Idle /\ ev[s] = 0
    /\ q' = [q EXCEPT ![s] = Later(@), ![t] = EnqueueIn(@, DueReqs(q[s]), t)]
    /\ ev' = Reschedule([ev EXCEPT ![s] = Off], t, q')
    /\ UNCHANGED <<cfg, resp_queue, retry_owed, ctl, up, down, owes>>

(* fwd_src_done_handler and rev_src_done_handler: what is due in stage s   *)
(* goes on to stage t of the other domain.                                 *)
Cross(s, t) ==
    /\ ctl = Idle /\ ev[s] = 0
    /\ q' = [q EXCEPT ![s] = Later(@), ![t] = EnqueueIn(@, DueReqs(q[s]), t)]
    /\ ev' = Reschedule(Reschedule(ev, s, q'), t, q')
    /\ UNCHANGED <<cfg, resp_queue, retry_owed, ctl, up, down, owes>>

FwdSrcDone == Cross("fwd_src", "fwd_dst")
RevSrcDone == Cross("rev_src", "rev_dst")

(* Mutant: a write beat completed inline is sent back as well. *)
FwdDstDoneAll(Done) ==
    LET reqs == DueReqs(q["fwd_dst"])
    IN  /\ ctl = Idle /\ ev["fwd_dst"] = 0
        /\ Done \subseteq Range(reqs)
        /\ \E back \in InOrderOf(reqs, Done) :
              q' = [q EXCEPT !["fwd_dst"] = Later(@),
                             !["rev_src"] = EnqueueIn(@, back, "rev_src")]
        /\ ev' = ScheduleRetry(Reschedule(Reschedule(ev, "fwd_dst", q'), "rev_src", q'), q')
        /\ up' = [r \in Reqs |-> IF r \in Done \ RoundTrip THEN AfterResp(up[r]) ELSE up[r]]
        /\ down' = down \cup (Range(reqs) \ Done)
        /\ UNCHANGED <<cfg, resp_queue, retry_owed, ctl, owes>>

(* fwd_dst_done_handler: what is due is sent to the slave, which completes *)
(* the requests of Done inline and grants the other ones (DENIED is not    *)
(* handled).  A write beat that is completed inline is dropped and freed.  *)
FwdDstDone(Done) ==
    LET reqs == DueReqs(q["fwd_dst"])
    IN  /\ ctl = Idle /\ ev["fwd_dst"] = 0
        /\ Done \subseteq Range(reqs)
        /\ \E back \in InOrderOf(reqs, Done \cap RoundTrip) :
              q' = [q EXCEPT !["fwd_dst"] = Later(@),
                             !["rev_src"] = EnqueueIn(@, back, "rev_src")]
        /\ ev' = ScheduleRetry(Reschedule(Reschedule(ev, "fwd_dst", q'), "rev_src", q'), q')
        /\ up' = [r \in Reqs |-> IF r \in Done \ RoundTrip THEN AfterResp(up[r]) ELSE up[r]]
        /\ down' = down \cup (Range(reqs) \ Done)
        /\ UNCHANGED <<cfg, resp_queue, retry_owed, ctl, owes>>

(* Mutant: the mode of the bridge is not looked at. *)
OutRespAnyMode(r) ==
    /\ ctl = Idle /\ r \in down \cap RoundTrip
    /\ down' = down \ {r}
    /\ resp_queue' = Append(resp_queue, r)
    /\ ev' = [ev EXCEPT !["resp"] = IF @ = Off THEN 1 ELSE @]
    /\ UNCHANGED <<cfg, q, retry_owed, ctl, up, owes>>

(* out_resp_handler. *)
OutResp(r) ==
    /\ ctl = Idle /\ r \in down \cap RoundTrip
    /\ down' = down \ {r}
    /\ IF parametric
       THEN /\ q' = [q EXCEPT !["rev_src"] = EnqueueIn(@, <<r>>, "rev_src")]
            /\ ev' = Reschedule(ev, "rev_src", q')
            /\ UNCHANGED resp_queue
       ELSE /\ resp_queue' = Append(resp_queue, r)
            /\ ev' = [ev EXCEPT !["resp"] = IF @ = Off THEN 1 ELSE @]
            /\ UNCHANGED q
    /\ UNCHANGED <<cfg, retry_owed, ctl, up, owes>>

(* The slave is done with a write beat and frees it. *)
SlaveFrees(r) ==
    /\ ctl = Idle /\ r \in down \ RoundTrip
    /\ down' = down \ {r}
    /\ up' = [up EXCEPT ![r] = AfterResp(@)]
    /\ UNCHANGED <<cfg, q, resp_queue, ev, retry_owed, ctl, owes>>

(* out_retry_handler: with k = 0 the retry() goes through. *)
OutRetry ==
    /\ ctl = Idle /\ owes
    /\ owes' = FALSE
    /\ ctl' = [pc |-> "retry", of |-> "out_retry"]
    /\ UNCHANGED <<cfg, q, resp_queue, ev, retry_owed, up, down>>

-----------------------------------------------------------------------------
(* Mutant: the response drain leaves the retry() to retry_event. *)
MaybeRetryEventOnly(h, e) ==
    IF h = "retry" /\ retry_owed /\ Occupancy(q) < cfg.depth
    THEN /\ retry_owed' = FALSE
         /\ ctl' = [pc |-> "retry", of |-> h]
         /\ ev' = [ev EXCEPT ![h] = Off]
    ELSE /\ ctl' = Idle
         /\ ev' = e
         /\ UNCHANGED retry_owed

(* maybe_retry as the next call of handler h, whose event is off and which *)
(* ends with the events e if there is nothing to do.                       *)
MaybeRetry(h, e) ==
    IF retry_owed /\ Occupancy(q) < cfg.depth
    THEN /\ retry_owed' = FALSE
         /\ ctl' = [pc |-> "retry", of |-> h]
         /\ ev' = [ev EXCEPT ![h] = Off]
    ELSE /\ ctl' = Idle
         /\ ev' = e
         /\ UNCHANGED retry_owed

RetryEvent ==
    /\ ctl = Idle /\ ev["retry"] = 0
    /\ MaybeRetry("retry", [ev EXCEPT !["retry"] = Off])
    /\ UNCHANGED <<cfg, q, resp_queue, up, down, owes>>

(* rev_dst_done_handler: one turn of its loop, or what follows the loop. *)
RevDstDone ==
    /\ \/ ctl = Idle /\ ev["rev_dst"] = 0
       \/ ctl = [pc |-> "resp", of |-> "rev_dst"]
    /\ IF NbDue(q["rev_dst"]) > 0
       THEN /\ q' = [q EXCEPT !["rev_dst"] = Tail(@)]
            /\ ev' = [ev EXCEPT !["rev_dst"] = Off]
            /\ up' = [up EXCEPT ![Head(q["rev_dst"]).req] = AfterResp(@)]
            /\ ctl' = [pc |-> "resp", of |-> "rev_dst"]
            /\ UNCHANGED retry_owed
       ELSE /\ MaybeRetry("rev_dst", Reschedule(ev, "rev_dst", q))
            /\ UNCHANGED <<q, up>>
    /\ UNCHANGED <<cfg, resp_queue, down, owes>>

(* resp_event_handler, likewise. *)
RespEvent ==
    /\ \/ ctl = Idle /\ ev["resp"] = 0
       \/ ctl = [pc |-> "resp", of |-> "resp"]
    /\ ev' = [ev EXCEPT !["resp"] = Off]
    /\ IF resp_queue # <<>>
       THEN /\ resp_queue' = Tail(resp_queue)
            /\ up' = [up EXCEPT ![Head(resp_queue)] = AfterResp(@)]
            /\ ctl' = [pc |-> "resp", of |-> "resp"]
       ELSE /\ ctl' = Idle
            /\ UNCHANGED <<resp_queue, up>>
    /\ UNCHANGED <<cfg, q, retry_owed, down, owes>>

(* retry() returns; rev_dst_done_handler has its event to re-arm. *)
RetryReturns ==
    /\ ctl.pc = "retried"
    /\ ctl' = Idle
    /\ ev' = IF ctl.of = "rev_dst" THEN Reschedule(ev, "rev_dst", q) ELSE ev
    /\ UNCHANGED <<cfg, q, resp_queue, retry_owed, up, down, owes>>

(* A cycle of one of the two domains, which has run its due events. *)
Tick(side) ==
    /\ ctl = Idle
    /\ \A e \in side : ev[e] # 0
    /\ \E e \in side : ev[e] # Off
    /\ ev' = [e \in Events |-> IF e \in side /\ ev[e] # Off THEN ev[e] - 1 ELSE ev[e]]
    /\ q' = [s \in Stages |->
                IF s \in side
                THEN [i \in DOMAIN q[s] |-> [q[s][i] EXCEPT !.left = @ - 1]]
                ELSE q[s]]
    /\ UNCHANGED <<cfg, resp_queue, retry_owed, ctl, up, down, owes>>

(* reset(), the whole subtree resetting with the bridge. *)
Reset ==
    /\ ctl = Idle
    /\ q' = Drained /\ resp_queue' = <<>> /\ ev' = NoEvent
    /\ retry_owed' = FALSE
    /\ up' = [r \in Reqs |-> "idle"] /\ down' = {} /\ owes' = FALSE
    /\ UNCHANGED <<cfg, ctl>>

-----------------------------------------------------------------------------
Next ==
    \/ \E r \in Reqs : MasterReq(r) \/ MasterReissue(r) \/ OutResp(r) \/ SlaveFrees(r)
    \/ FwdSrcDone \/ RevSrcDone \/ RevDstDone \/ RespEvent
    \/ \E Done \in SUBSET Reqs : FwdDstDone(Done)
    \/ OutRetry \/ RetryEvent \/ RetryReturns
    \/ Tick(MasterSide) \/ Tick(SlaveSide)
    \/ Reset

Spec == Init /\ [][Next]_vars

(***************************************************************************)
(* Handlers return; both clocks go on and run what is due, whatever the    *)
(* other side does meanwhile (SF); the slave answers, frees or retries     *)
(* everything it has been sent, and does not deny the same request for     *)
(* ever.                                                                   *)
(***************************************************************************)
HandlerStep ==
    \/ RetryReturns
    \/ ctl # Idle /\ (RevDstDone \/ RespEvent)
    \/ \E r \in Reqs : MasterReissue(r)

MasterEngine == Tick(MasterSide) \/ FwdSrcDone \/ RevDstDone \/ RetryEvent \/ RespEvent
SlaveEngine  == Tick(SlaveSide) \/ RevSrcDone \/ \E Done \in SUBSET Reqs : FwdDstDone(Done)

Fairness ==
    /\ WF_vars(HandlerStep) /\ SF_vars(MasterEngine) /\ SF_vars(SlaveEngine)
    /\ \A r \in Reqs : SF_vars(OutResp(r) \/ SlaveFrees(r))
    /\ SF_vars(OutRetry)
    /\ SF_vars(\E r \in Reqs : MasterReissue(r) /\ up'[r] # "denied")

FairSpec == Spec /\ Fairness

-----------------------------------------------------------------------------
Entry == [req : Reqs, left : Int]

TypeOK ==
    /\ cfg \in Configs
    /\ q \in [Stages -> Seq(Entry)]
    /\ resp_queue \in Seq(Reqs)
    /\ ev \in [Events -> Nat \cup {Off}]
    /\ retry_owed \in BOOLEAN
    /\ ctl \in [pc : {"idle", "resp", "retry", "retried"},
                of : {"none", "rev_dst", "resp", "retry", "out_retry"}]
    /\ up \in [Reqs -> MasterStates]
    /\ down \subseteq Reqs
    /\ owes \in BOOLEAN
    /\ IF parametric THEN resp_queue = <<>> /\ ~owes ELSE q = Drained /\ ~retry_owed

(***************************************************************************)
(* A granted request is in one place, once: a stage queue, the queue of    *)
(* resp_event, or the slave.  A write beat never comes back through the    *)
(* reverse path, and no response is delivered twice.                       *)
(***************************************************************************)
ReqsIn(s)  == [i \in DOMAIN q[s] |-> q[s][i].req]
InBridge   == ReqsIn("fwd_src") \o ReqsIn("fwd_dst") \o ReqsIn("rev_src")
                                \o ReqsIn("rev_dst") \o resp_queue

OnePlace ==
    /\ IsInjective(InBridge)
    /\ Range(InBridge) \cap down = {}
    /\ \A r \in Reqs : /\ up[r] # "error"
                       /\ up[r] = "granted" <=> r \in Range(InBridge) \cup down
    /\ Range(ReqsIn("rev_src") \o ReqsIn("rev_dst") \o resp_queue) \subseteq RoundTrip

(***************************************************************************)
(* "Its own vp::ClockEvent always scheduled to the head's deadline": a     *)
(* stage has an event pending exactly when it holds something, at the      *)
(* deadline of its head, or in this cycle or the next one when a           *)
(* reschedule has made the head late.  Each entry is due after the one     *)
(* before it, and at most one cycle per entry ahead of it later than K, or *)
(* than the next cycle.                                                    *)
(***************************************************************************)
EventTracksHead ==
    /\ \A s \in Stages : ctl.of # s =>
          /\ q[s] = <<>> <=> ev[s] = Off
          /\ q[s] # <<>> => \/ ev[s] = Head(q[s]).left
                            \/ ev[s] \in {0, 1} /\ Head(q[s]).left < ev[s]
    /\ \A s \in Stages : \A i, j \in DOMAIN q[s] :
          i < j => q[s][i].left < q[s][j].left /\ q[s][j].left < Larger(1, K(s)) + j
    /\ ctl = Idle => (resp_queue = <<>> <=> ev["resp"] = Off)

(***************************************************************************)
(* The accept window re-opens from the forward drain as well as from the   *)
(* response drain: a refused request is owed a retry(), and either the     *)
(* bridge is still full or retry_event is on its way.  The forward half    *)
(* never holds more than depth.                                            *)
(***************************************************************************)
DepthGate ==
    /\ ctl = Idle => (~NoneDenied(up, Reqs) <=> retry_owed \/ owes)
    /\ retry_owed => \/ Occupancy(q) >= cfg.depth \/ ev["retry"] # Off
                     \/ ctl.of = "rev_dst"
    /\ Len(q["fwd_src"]) + Len(q["fwd_dst"]) <= cfg.depth

Port == INSTANCE IoV2Port WITH view <- up

(* The input port keeps the io_v2 promise across the two clocks, whatever  *)
(* their ratio: each request taken is answered (each write beat freed)     *)
(* once, and each one refused is let in.                                   *)
ImplementsPort == Port!Spec
=============================================================================
