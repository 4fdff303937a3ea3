---------------------------- MODULE FifoV2Proofs ----------------------------
(***************************************************************************)
(* The safety of the request FIFO, for every set of requests and every     *)
(* depth: IInv is inductive, and it carries the type invariant, the safety *)
(* invariants and the refinement of the io_v2 port's safety.               *)
(***************************************************************************)
EXTENDS FifoV2, TLAPS

(* What Append does to membership and distinctness: the tail of input_req. *)
LEMMA AppendFresh ==
    ASSUME NEW q \in Seq(Reqs), NEW r \in Reqs,
           \A i \in 1..Len(q) : q[i] # r,
           \A i, j \in 1..Len(q) : q[i] = q[j] => i = j
    PROVE  /\ Append(q, r) \in Seq(Reqs)
           /\ Len(Append(q, r)) = Len(q) + 1
           /\ \A i, j \in 1..Len(Append(q, r)) : Append(q, r)[i] = Append(q, r)[j] => i = j
           /\ \A x \in Reqs : (\E i \in 1..Len(Append(q, r)) : Append(q, r)[i] = x)
                                <=> (x = r \/ \E i \in 1..Len(q) : q[i] = x)
<1> DEFINE a == Append(q, r)
<1>1. /\ a \in Seq(Reqs) /\ Len(a) = Len(q) + 1
      /\ \A i \in 1..Len(q) : a[i] = q[i]
      /\ a[Len(q) + 1] = r
  OBVIOUS
<1>2. \A i, j \in 1..Len(a) : a[i] = a[j] => i = j
  BY <1>1
<1>3. ASSUME NEW x \in Reqs
      PROVE (\E i \in 1..Len(a) : a[i] = x) <=> (x = r \/ \E i \in 1..Len(q) : q[i] = x)
  <2>1. ASSUME NEW i \in 1..Len(a), a[i] = x PROVE x = r \/ \E k \in 1..Len(q) : q[k] = x
    <3>1. CASE i \in 1..Len(q) BY <2>1, <1>1, <3>1
    <3>2. CASE i = Len(q) + 1 BY <2>1, <1>1, <3>2
    <3> QED BY <3>1, <3>2, <1>1
  <2>2. ASSUME x = r PROVE \E i \in 1..Len(a) : a[i] = x
    BY <2>2, <1>1
  <2>3. ASSUME NEW i \in 1..Len(q), q[i] = x PROVE \E k \in 1..Len(a) : a[k] = x
    BY <2>3, <1>1
  <2> QED BY <2>1, <2>2, <2>3
<1> QED BY <1>1, <1>2, <1>3

(* What Tail does to them: the pop of head_done. *)
LEMMA PopHead ==
    ASSUME NEW q \in Seq(Reqs), q # <<>>,
           \A i, j \in 1..Len(q) : q[i] = q[j] => i = j
    PROVE  /\ Tail(q) \in Seq(Reqs)
           /\ Len(Tail(q)) = Len(q) - 1
           /\ Head(q) \in Reqs
           /\ \E i \in 1..Len(q) : q[i] = Head(q)
           /\ \A i, j \in 1..Len(Tail(q)) : Tail(q)[i] = Tail(q)[j] => i = j
           /\ \A x \in Reqs : (\E i \in 1..Len(Tail(q)) : Tail(q)[i] = x)
                                <=> (x # Head(q) /\ \E i \in 1..Len(q) : q[i] = x)
<1> DEFINE t == Tail(q)
<1>1. /\ t \in Seq(Reqs) /\ Len(t) = Len(q) - 1 /\ Len(q) >= 1
      /\ \A i \in 1..Len(t) : t[i] = q[i + 1]
      /\ Head(q) = q[1] /\ Head(q) \in Reqs
  OBVIOUS
<1>2. \A i, j \in 1..Len(t) : t[i] = t[j] => i = j
  BY <1>1
<1>3. ASSUME NEW x \in Reqs
      PROVE (\E i \in 1..Len(t) : t[i] = x) <=> (x # Head(q) /\ \E i \in 1..Len(q) : q[i] = x)
  <2>1. ASSUME NEW i \in 1..Len(t), t[i] = x
        PROVE x # Head(q) /\ \E k \in 1..Len(q) : q[k] = x
    <3>1. i + 1 \in 1..Len(q) /\ q[i + 1] = x /\ 1 \in 1..Len(q) /\ i + 1 # 1
      BY <2>1, <1>1
    <3> QED BY <3>1, <1>1
  <2>2. ASSUME NEW i \in 1..Len(q), q[i] = x, x # Head(q)
        PROVE \E k \in 1..Len(t) : t[k] = x
    <3>1. i - 1 \in 1..Len(t) /\ t[i - 1] = q[i]
      BY <2>2, <1>1
    <3> QED BY <3>1, <2>2
  <2> QED BY <2>1, <2>2
<1>4. \E i \in 1..Len(q) : q[i] = Head(q)
  BY <1>1
<1> QED BY <1>1, <1>2, <1>3, <1>4

-----------------------------------------------------------------------------
(* The states a request can be in for its master. *)
LEMMA StatesDistinct ==
    /\ \A st \in IoReqStatus : st = IO_REQ_DONE \/ st = IO_REQ_GRANTED \/ st = IO_REQ_DENIED
    /\ MasterStates = {"idle", "granted", "denied", "error"}
    /\ AfterResp("granted") = "idle"
BY DEF IoReqStatus, IO_REQ_DONE, IO_REQ_GRANTED, IO_REQ_DENIED, MasterStates, AfterResp

(* The reset state satisfies the invariant. *)
LEMMA InitIInv == Init => IInv
<1> SUFFICES ASSUME Init PROVE IInv
  OBVIOUS
<1> USE DepthAssumption DEF Init
<1>1. TypeOK
  <2>1. queue \in Seq(Reqs) /\ Len(queue) = 0
    OBVIOUS
  <2>2. Len(queue) <= Depth
    BY <2>1
  <2>3. up \in [Reqs -> MasterStates]
    BY DEF MasterStates
  <2> QED BY <2>1, <2>2, <2>3 DEF TypeOK, Calls, DownState
<1>2. QueueIsOutstanding
  BY DEF QueueIsOutstanding
<1>3. NoLostWakeup /\ FlagsMatchSlave /\ RetryDebt
  BY DEF NoLostWakeup, FlagsMatchSlave, RetryDebt
<1> QED BY <1>1, <1>2, <1>3 DEF IInv

(***************************************************************************)
(* A request that reaches input_req, fresh or re-issued: what both actions *)
(* share.  r is not granted, so it is not in the queue.                    *)
(***************************************************************************)
LEMMA InputReqQueue ==
    ASSUME TypeOK, QueueIsOutstanding, NEW r \in Reqs, up[r] # "granted", InputReq(r)
    PROVE  /\ queue' \in Seq(Reqs) /\ Len(queue') <= Depth
           /\ up' \in [Reqs -> MasterStates]
           /\ pump_enqueued' \in BOOLEAN /\ input_needs_retry' \in BOOLEAN
           /\ QueueIsOutstanding'
           /\ queue # <<>> => queue' # <<>>
           /\ queue' # <<>>
           /\ queue' # queue => downstream_busy \/ pump_enqueued'
           /\ pump_enqueued => pump_enqueued'
           /\ \/ up' = [up EXCEPT ![r] = "denied"] /\ input_needs_retry'
              \/ up' = [up EXCEPT ![r] = "granted"] /\ input_needs_retry' = input_needs_retry
<1> USE DepthAssumption
<1>0. \A i \in 1..Len(queue) : queue[i] # r
  BY DEF QueueIsOutstanding
<1>1. CASE Len(queue) >= Depth
  <2>1. /\ input_needs_retry' = TRUE /\ up' = [up EXCEPT ![r] = "denied"]
        /\ queue' = queue /\ pump_enqueued' = pump_enqueued
    BY <1>1 DEF InputReq
  <2>2. queue # <<>>
    BY <1>1 DEF TypeOK
  <2>3. up' \in [Reqs -> MasterStates]
    BY <2>1 DEF TypeOK, MasterStates
  <2>4. QueueIsOutstanding'
    BY <2>1 DEF QueueIsOutstanding, TypeOK
  <2> QED BY <2>1, <2>2, <2>3, <2>4 DEF TypeOK
<1>2. CASE ~(Len(queue) >= Depth)
  <2>1. /\ queue' = Append(queue, r) /\ up' = [up EXCEPT ![r] = "granted"]
        /\ pump_enqueued' = (pump_enqueued \/ ~downstream_busy)
        /\ input_needs_retry' = input_needs_retry
    BY <1>2 DEF InputReq
  <2>2. /\ queue' \in Seq(Reqs) /\ Len(queue') = Len(queue) + 1
        /\ \A i, j \in 1..Len(queue') : queue'[i] = queue'[j] => i = j
        /\ \A x \in Reqs : (\E i \in 1..Len(queue') : queue'[i] = x)
                             <=> (x = r \/ \E i \in 1..Len(queue) : queue[i] = x)
    <3>1. /\ queue \in Seq(Reqs)
          /\ \A i, j \in 1..Len(queue) : queue[i] = queue[j] => i = j
      BY DEF TypeOK, QueueIsOutstanding
    <3> QED BY <3>1, <2>1, <1>0, AppendFresh
  <2>3. up' \in [Reqs -> MasterStates]
    BY <2>1 DEF TypeOK, MasterStates
  <2>4. QueueIsOutstanding'
    <3>1. ASSUME NEW x \in Reqs
          PROVE (up'[x] = "granted") <=> (\E i \in 1..Len(queue') : queue'[i] = x)
      <4>1. CASE x = r BY <4>1, <2>1, <2>2 DEF TypeOK
      <4>2. CASE x # r BY <4>2, <2>1, <2>2 DEF TypeOK, QueueIsOutstanding
      <4> QED BY <4>1, <4>2
    <3>2. ASSUME NEW x \in Reqs PROVE up'[x] # "error"
      BY <2>1 DEF TypeOK, QueueIsOutstanding
    <3> QED BY <3>1, <3>2, <2>2 DEF QueueIsOutstanding
  <2>5. Len(queue) \in Nat /\ Len(queue') <= Depth /\ queue' # <<>>
    BY <2>2, <1>2 DEF TypeOK
  <2> QED BY <2>1, <2>2, <2>3, <2>4, <2>5 DEF TypeOK
<1> QED BY <1>1, <1>2

(* The pop and the answer of head_done, with a head that was granted. *)
LEMMA HeadDoneQueue ==
    ASSUME TypeOK, QueueIsOutstanding, queue # <<>>, HeadDone
    PROVE  /\ queue' \in Seq(Reqs) /\ Len(queue') <= Depth
           /\ Head(queue) \in Reqs /\ up[Head(queue)] = "granted"
           /\ up' = [up EXCEPT ![Head(queue)] = "idle"]
           /\ up' \in [Reqs -> MasterStates]
           /\ QueueIsOutstanding'
<1> DEFINE h == Head(queue)
<1>1. /\ queue \in Seq(Reqs)
      /\ \A i, j \in 1..Len(queue) : queue[i] = queue[j] => i = j
  BY DEF TypeOK, QueueIsOutstanding
<1>2. /\ Tail(queue) \in Seq(Reqs) /\ Len(Tail(queue)) = Len(queue) - 1
      /\ h \in Reqs /\ \E i \in 1..Len(queue) : queue[i] = h
      /\ \A i, j \in 1..Len(Tail(queue)) : Tail(queue)[i] = Tail(queue)[j] => i = j
      /\ \A x \in Reqs : (\E i \in 1..Len(Tail(queue)) : Tail(queue)[i] = x)
                           <=> (x # h /\ \E i \in 1..Len(queue) : queue[i] = x)
  BY <1>1, PopHead
<1>3. up[h] = "granted"
  BY <1>2 DEF QueueIsOutstanding
<1>4. queue' = Tail(queue) /\ up' = [up EXCEPT ![h] = "idle"]
  BY <1>2, <1>3, StatesDistinct DEF HeadDone, TypeOK
<1>5. up' \in [Reqs -> MasterStates]
  BY <1>4 DEF TypeOK, MasterStates
<1>6. Len(queue') <= Depth
  <2>1. Len(queue) \in Nat /\ Len(queue) <= Depth BY <1>1 DEF TypeOK
  <2> QED BY <2>1, <1>2, <1>4, DepthAssumption
<1>7. QueueIsOutstanding'
  <2>1. ASSUME NEW x \in Reqs
        PROVE (up'[x] = "granted") <=> (\E i \in 1..Len(queue') : queue'[i] = x)
    <3>1. CASE x = h BY <3>1, <1>2, <1>4 DEF TypeOK
    <3>2. CASE x # h BY <3>2, <1>2, <1>4 DEF TypeOK, QueueIsOutstanding
    <3> QED BY <3>1, <3>2
  <2>2. ASSUME NEW x \in Reqs PROVE up'[x] # "error"
    BY <1>2, <1>4 DEF TypeOK, QueueIsOutstanding
  <2> QED BY <2>1, <2>2, <1>2, <1>4 DEF QueueIsOutstanding
<1> QED BY <1>2, <1>3, <1>4, <1>5, <1>6, <1>7

-----------------------------------------------------------------------------
(* The master's two actions. *)
LEMMA MasterReqIInv == ASSUME IInv, NEW r \in Reqs, MasterReq(r) PROVE IInv'
<1> USE DEF IInv
<1>1. /\ up[r] = "idle" /\ \A q \in Reqs : up[q] # "denied"
      /\ InputReq(r)
      /\ UNCHANGED <<call, downstream_busy, downstream_stalled, down>>
  BY DEF MasterReq, NoneDenied
<1>2. /\ queue' \in Seq(Reqs) /\ Len(queue') <= Depth
      /\ up' \in [Reqs -> MasterStates]
      /\ pump_enqueued' \in BOOLEAN /\ input_needs_retry' \in BOOLEAN
      /\ QueueIsOutstanding'
      /\ queue' # <<>>
      /\ queue' # queue => downstream_busy \/ pump_enqueued'
      /\ pump_enqueued => pump_enqueued'
      /\ \/ up' = [up EXCEPT ![r] = "denied"] /\ input_needs_retry'
         \/ up' = [up EXCEPT ![r] = "granted"] /\ input_needs_retry' = input_needs_retry
  BY <1>1, InputReqQueue
<1>3. TypeOK'
  BY <1>1, <1>2 DEF TypeOK
<1>4. NoLostWakeup'
  <2>1. queue' # <<>> => downstream_busy' \/ pump_enqueued' \/ call' # "none"
    BY <1>1, <1>2 DEF NoLostWakeup
  <2>2. \A q \in Reqs : up'[q] = "denied" => input_needs_retry' \/ call' = "retry"
    BY <1>1, <1>2 DEF TypeOK
  <2> QED BY <2>1, <2>2, <1>2 DEF NoLostWakeup
<1>5. FlagsMatchSlave'
  BY <1>1, <1>2 DEF FlagsMatchSlave
<1>6. RetryDebt'
  BY <1>1, <1>2 DEF RetryDebt, TypeOK
<1> QED BY <1>2, <1>3, <1>4, <1>5, <1>6

LEMMA MasterReissueIInv == ASSUME IInv, NEW r \in Reqs, MasterReissue(r) PROVE IInv'
<1> USE DEF IInv
<1>1. /\ call = "retry" /\ up[r] = "denied" /\ InputReq(r) /\ call' = "reissued"
      /\ UNCHANGED <<downstream_busy, downstream_stalled, down>>
  BY DEF MasterReissue
<1>2. /\ queue' \in Seq(Reqs) /\ Len(queue') <= Depth
      /\ up' \in [Reqs -> MasterStates]
      /\ pump_enqueued' \in BOOLEAN /\ input_needs_retry' \in BOOLEAN
      /\ QueueIsOutstanding'
      /\ queue' # <<>>
      /\ \/ up' = [up EXCEPT ![r] = "denied"] /\ input_needs_retry'
         \/ up' = [up EXCEPT ![r] = "granted"] /\ input_needs_retry' = input_needs_retry
  BY <1>1, InputReqQueue
<1>3. /\ \A q \in Reqs : up[q] = "denied" => q = r
      /\ ~input_needs_retry
  BY <1>1 DEF RetryDebt
<1>4. TypeOK'
  BY <1>1, <1>2 DEF TypeOK, Calls
<1>5. NoLostWakeup'
  <2>1. \A q \in Reqs : up'[q] = "denied" => input_needs_retry'
    BY <1>2, <1>3 DEF TypeOK
  <2> QED BY <2>1, <1>1, <1>2 DEF NoLostWakeup
<1>6. FlagsMatchSlave'
  BY <1>1, <1>2 DEF FlagsMatchSlave
<1>7. RetryDebt'
  <2>1. \A q, x \in Reqs : up'[q] = "denied" /\ up'[x] = "denied" => q = x
    BY <1>2, <1>3 DEF TypeOK
  <2>2. input_needs_retry' => \E q \in Reqs : up'[q] = "denied"
    BY <1>2, <1>3 DEF TypeOK
  <2> QED BY <2>1, <2>2, <1>1, <1>2 DEF RetryDebt
<1> QED BY <1>2, <1>4, <1>5, <1>6, <1>7

(* Fifo::head_done up to its resp(), whoever runs it. *)
LEMMA HeadDoneIInv ==
    ASSUME IInv, queue # <<>>, call = "none", HeadDone, UNCHANGED input_needs_retry,
           pump_enqueued' \in BOOLEAN
    PROVE  IInv'
<1> USE DEF IInv
<1>1. /\ queue' \in Seq(Reqs) /\ Len(queue') <= Depth
      /\ Head(queue) \in Reqs /\ up[Head(queue)] = "granted"
      /\ up' = [up EXCEPT ![Head(queue)] = "idle"]
      /\ up' \in [Reqs -> MasterStates]
      /\ QueueIsOutstanding'
  BY HeadDoneQueue
<1>2. /\ downstream_busy' = FALSE /\ downstream_stalled' = FALSE
      /\ call' = "resp" /\ down' = "none"
  BY DEF HeadDone
<1>3. \A q \in Reqs : up'[q] = "denied" <=> up[q] = "denied"
  BY <1>1 DEF TypeOK
<1>4. TypeOK'
  BY <1>1, <1>2 DEF TypeOK, Calls, DownState
<1>5. NoLostWakeup'
  BY <1>2, <1>3 DEF NoLostWakeup
<1>6. FlagsMatchSlave'
  BY <1>2 DEF FlagsMatchSlave
<1>7. RetryDebt'
  BY <1>2, <1>3 DEF RetryDebt
<1> QED BY <1>1, <1>4, <1>5, <1>6, <1>7

(* Fifo::send_head with any answer of the slave. *)
LEMMA SendHeadIInv ==
    ASSUME IInv, queue # <<>>, call = "none", NEW st \in IoReqStatus, SendHead(st, FALSE),
           UNCHANGED input_needs_retry, pump_enqueued' \in BOOLEAN
    PROVE  IInv'
<1> USE DEF IInv
<1>1. CASE HeadDone
  BY <1>1, HeadDoneIInv
<1>2. CASE /\ downstream_busy' = TRUE
           /\ \/ downstream_stalled' = TRUE /\ down' = "denied"
              \/ downstream_stalled' = FALSE /\ down' = "serving"
           /\ UNCHANGED <<queue, up, call>>
  <2>1. TypeOK'
    BY <1>2 DEF TypeOK, DownState
  <2>2. QueueIsOutstanding'
    BY <1>2 DEF QueueIsOutstanding
  <2>3. NoLostWakeup' /\ RetryDebt'
    BY <1>2 DEF NoLostWakeup, RetryDebt
  <2>4. FlagsMatchSlave'
    BY <1>2 DEF FlagsMatchSlave
  <2> QED BY <2>1, <2>2, <2>3, <2>4
<1> QED BY <1>1, <1>2 DEF SendHead

(* The three callers of send_head and head_done. *)
LEMMA PumpHandlerIInv == ASSUME IInv, NEW st \in IoReqStatus, PumpHandler(st) PROVE IInv'
<1> USE DEF IInv
<1>1. /\ call = "none" /\ pump_enqueued' = FALSE /\ input_needs_retry' = input_needs_retry
  BY DEF PumpHandler
<1>2. CASE downstream_busy \/ queue = <<>>
  <2>1. UNCHANGED <<queue, downstream_busy, downstream_stalled, call, up, down>>
    BY <1>2 DEF PumpHandler
  <2>2. TypeOK' /\ QueueIsOutstanding'
    BY <1>1, <2>1 DEF TypeOK, QueueIsOutstanding
  <2>3. NoLostWakeup' /\ FlagsMatchSlave' /\ RetryDebt'
    BY <1>1, <1>2, <2>1 DEF NoLostWakeup, FlagsMatchSlave, RetryDebt
  <2> QED BY <2>2, <2>3
<1>3. CASE ~(downstream_busy \/ queue = <<>>)
  <2>1. SendHead(st, FALSE)
    BY <1>3 DEF PumpHandler, FlagsMatchSlave, TypeOK
  <2> QED BY <1>1, <1>3, <2>1, SendHeadIInv
<1> QED BY <1>2, <1>3

LEMMA OutputRespIInv == ASSUME IInv, OutputResp PROVE IInv'
<1>1. /\ call = "none" /\ HeadDone /\ UNCHANGED <<input_needs_retry, pump_enqueued>>
      /\ queue # <<>> /\ pump_enqueued' \in BOOLEAN
  BY DEF OutputResp, IInv, FlagsMatchSlave, TypeOK
<1> QED BY <1>1, HeadDoneIInv

LEMMA OutputRetryIInv == ASSUME IInv, NEW st \in IoReqStatus, OutputRetry(st) PROVE IInv'
<1>1. /\ call = "none" /\ SendHead(st, FALSE) /\ UNCHANGED <<input_needs_retry, pump_enqueued>>
      /\ queue # <<>> /\ pump_enqueued' \in BOOLEAN
  BY DEF OutputRetry, IInv, FlagsMatchSlave, TypeOK
<1> QED BY <1>1, SendHeadIInv

(* The returns of resp() and retry(): the rest of head_done. *)
LEMMA RespReturnsIInv == ASSUME IInv, RespReturns PROVE IInv'
<1> USE DEF IInv
<1>1. /\ call = "resp"
      /\ UNCHANGED <<queue, downstream_busy, downstream_stalled, up, down>>
  BY DEF RespReturns
<1>2. QueueIsOutstanding'
  BY <1>1 DEF QueueIsOutstanding
<1>3. CASE input_needs_retry /\ Len(queue) < Depth
  <2>1. input_needs_retry' = FALSE /\ call' = "retry" /\ pump_enqueued' = pump_enqueued
    BY <1>3 DEF RespReturns
  <2>2. TypeOK'
    BY <1>1, <2>1 DEF TypeOK, Calls
  <2>3. NoLostWakeup' /\ FlagsMatchSlave' /\ RetryDebt'
    BY <1>1, <1>3, <2>1 DEF NoLostWakeup, FlagsMatchSlave, RetryDebt
  <2> QED BY <1>2, <2>2, <2>3
<1>4. CASE ~(input_needs_retry /\ Len(queue) < Depth)
  <2>1. /\ input_needs_retry' = input_needs_retry /\ call' = "none"
        /\ pump_enqueued' = (pump_enqueued \/ queue # <<>>)
    BY <1>4 DEF RespReturns, Rearm
  <2>2. input_needs_retry => queue # <<>>
    <3>1. Len(queue) \in Nat BY DEF TypeOK
    <3> QED BY <3>1, <1>4, DepthAssumption
  <2>3. TypeOK'
    BY <1>1, <2>1 DEF TypeOK, Calls
  <2>4. NoLostWakeup' /\ FlagsMatchSlave' /\ RetryDebt'
    BY <1>1, <2>1, <2>2 DEF NoLostWakeup, FlagsMatchSlave, RetryDebt
  <2> QED BY <1>2, <2>3, <2>4
<1> QED BY <1>3, <1>4

LEMMA RetryReturnsIInv == ASSUME IInv, RetryReturns PROVE IInv'
<1> USE DEF IInv
<1>1. /\ call = "reissued" /\ call' = "none"
      /\ pump_enqueued' = (pump_enqueued \/ queue # <<>>)
      /\ UNCHANGED <<queue, downstream_busy, downstream_stalled, input_needs_retry, up, down>>
  BY DEF RetryReturns, Rearm
<1>2. TypeOK' /\ QueueIsOutstanding'
  BY <1>1 DEF TypeOK, QueueIsOutstanding, Calls
<1>3. NoLostWakeup' /\ FlagsMatchSlave' /\ RetryDebt'
  BY <1>1 DEF NoLostWakeup, FlagsMatchSlave, RetryDebt
<1> QED BY <1>2, <1>3

LEMMA ResetIInv == ASSUME IInv, Reset PROVE IInv'
<1> USE DEF IInv, Reset
<1>1. TypeOK'
  <2>1. queue' \in Seq(Reqs) /\ Len(queue') = 0
    OBVIOUS
  <2>2. Len(queue') <= Depth
    BY <2>1, DepthAssumption
  <2>3. up' \in [Reqs -> MasterStates]
    BY DEF MasterStates
  <2> QED BY <2>1, <2>2, <2>3 DEF TypeOK, Calls, DownState
<1>2. QueueIsOutstanding'
  BY DEF QueueIsOutstanding
<1>3. NoLostWakeup' /\ FlagsMatchSlave' /\ RetryDebt'
  BY DEF NoLostWakeup, FlagsMatchSlave, RetryDebt
<1> QED BY <1>1, <1>2, <1>3

(* IInv is inductive. *)
LEMMA NextIInv == IInv /\ [Next]_vars => IInv'
<1> SUFFICES ASSUME IInv, [Next]_vars PROVE IInv'
  OBVIOUS
<1>1. CASE Master
  BY <1>1, MasterReqIInv, MasterReissueIInv DEF Master
<1>2. CASE Slave
  BY <1>2, OutputRespIInv, OutputRetryIInv DEF Slave
<1>3. CASE RespReturns \/ RetryReturns
  BY <1>3, RespReturnsIInv, RetryReturnsIInv
<1>4. CASE \E st \in IoReqStatus : PumpHandler(st)
  BY <1>4, PumpHandlerIInv
<1>5. CASE Reset
  BY <1>5, ResetIInv
<1>6. CASE UNCHANGED vars
  BY <1>6 DEF vars, IInv, TypeOK, QueueIsOutstanding, NoLostWakeup, FlagsMatchSlave, RetryDebt
<1> QED BY <1>1, <1>2, <1>3, <1>4, <1>5, <1>6 DEF Next

-----------------------------------------------------------------------------
(* Fifo::queue never exceeds cfg.depth and every variable keeps its type.  *)
THEOREM TypeCorrect == Spec => []TypeOK
<1>1. Spec => []IInv
  BY InitIInv, NextIInv, PTL DEF Spec
<1>2. IInv => TypeOK
  BY DEF IInv
<1> QED BY <1>1, <1>2, PTL

(* The queue holds exactly the requests granted and not yet answered, each *)
(* once, and no request is answered that was not granted.                  *)
THEOREM OutstandingTheorem == Spec => []QueueIsOutstanding
<1>1. Spec => []IInv
  BY InitIInv, NextIInv, PTL DEF Spec
<1>2. IInv => QueueIsOutstanding
  BY DEF IInv
<1> QED BY <1>1, <1>2, PTL

(* A buffered request always has a mover and a refused master always has a *)
(* retry() coming, whatever the re-entrant calls do; the retry() debt and  *)
(* the flags about the slave are exact.                                    *)
THEOREM WakeupTheorem == Spec => [](NoLostWakeup /\ FlagsMatchSlave /\ RetryDebt)
<1>1. Spec => []IInv
  BY InitIInv, NextIInv, PTL DEF Spec
<1>2. IInv => NoLostWakeup /\ FlagsMatchSlave /\ RetryDebt
  BY DEF IInv
<1> QED BY <1>1, <1>2, PTL

(* Every step of the FIFO is a step of the port, or does not concern it.   *)
LEMMA StepSimulation ==
    ASSUME IInv, [Next]_vars
    PROVE  [Port!Next]_(Port!vars)
<1> USE DEF Port!vars, Port!Next, Port!Req, Port!Resp, Port!Reset
<1>1. ASSUME NEW r \in Reqs, InputReq(r), up[r] = "denied" \/ (up[r] = "idle" /\ NoneDenied(up, Reqs))
      PROVE Port!Req(r)
  <2>1. up' = [up EXCEPT ![r] = "denied"] \/ up' = [up EXCEPT ![r] = "granted"]
    BY <1>1 DEF InputReq
  <2>2. /\ Port!AfterReq("denied") = "denied" /\ Port!AfterReq("granted") = "granted"
        /\ Port!IoReqStatus = {"done", "granted", "denied"}
    BY DEF Port!AfterReq, Port!IoReqStatus, Port!IO_REQ_DONE, Port!IO_REQ_GRANTED,
           Port!IO_REQ_DENIED
  <2>3. NoneDenied(up, Reqs) => Port!NoneDenied(up, Reqs)
    BY DEF NoneDenied, Port!NoneDenied
  <2> QED BY <1>1, <2>1, <2>2, <2>3
<1>2. ASSUME HeadDone, queue # <<>> PROVE Port!Resp(Head(queue)) /\ Head(queue) \in Reqs
  BY <1>2, HeadDoneQueue DEF IInv
<1>3. ASSUME NEW st \in IoReqStatus, NEW b \in BOOLEAN, SendHead(st, b), queue # <<>>
      PROVE up' = up \/ \E r \in Reqs : Port!Resp(r)
  BY <1>2, <1>3 DEF SendHead
<1>4. CASE Master
  BY <1>1, <1>4 DEF Master, MasterReq, MasterReissue
<1>5. CASE Slave
  <2>1. CASE OutputResp
    BY <2>1, <1>2 DEF OutputResp, IInv, FlagsMatchSlave
  <2>2. CASE \E st \in IoReqStatus : OutputRetry(st)
    BY <2>2, <1>3 DEF OutputRetry, IInv, FlagsMatchSlave
  <2> QED BY <1>5, <2>1, <2>2 DEF Slave
<1>6. CASE RespReturns \/ RetryReturns
  BY <1>6 DEF RespReturns, RetryReturns
<1>7. CASE \E st \in IoReqStatus : PumpHandler(st)
  BY <1>7, <1>3 DEF PumpHandler, IInv, TypeOK
<1>8. CASE Reset
  BY <1>8 DEF Reset
<1>9. CASE UNCHANGED vars
  BY <1>9 DEF vars
<1> QED BY <1>4, <1>5, <1>6, <1>7, <1>8, <1>9 DEF Next

(* The FIFO implements the safety of the io_v2 slave port it presents to   *)
(* its master: one answer per grant, no answer without one, one request    *)
(* refused at a time.                                                      *)
THEOREM Refinement == Spec => Port!Safety
<1>1. Init => Port!Init
  BY DEF Init, Port!Init
<1>2. Spec => []IInv
  BY InitIInv, NextIInv, PTL DEF Spec
<1>3. IInv /\ [Next]_vars => [Port!Next]_(Port!vars)
  BY StepSimulation
<1> QED BY <1>1, <1>2, <1>3, PTL DEF Spec, Port!Safety
=============================================================================
