---------------------- MODULE RouterBackpressureProofs ----------------------
(***************************************************************************)
(* The safety of the back-pressure router, for every set of requests, any  *)
(* number of inputs and outputs and every mapping of addresses to outputs. *)
(***************************************************************************)
EXTENDS RouterBackpressure, TLAPS

(***************************************************************************)
(* The strengthening.  A slot holds a request of its own input, for a real *)
(* output; the handler in progress is one the code can be in; and while    *)
(* retry_muxed is inside a call on the input of its current turn, what is  *)
(* parked there for the retried output is newer than the turn: it has its  *)
(* send_event, so that the loop may pass on.                               *)
(***************************************************************************)
ParkedOnOwnInput ==
    \A i \in Inputs : pending_req[i] # NoReq =>
        PortOf[pending_req[i]] = i /\ pending_mapping_id[i] # NoOut

CtlShape ==
    /\ ctl.pc = "idle" => ctl = Idle
    /\ ctl.pc \in {"resp", "retry", "retried"} => ctl.in \in Inputs
    /\ ctl.pc = "loop" => ctl.id # NoOut

InCall == ctl.pc \in {"resp", "retry", "retried"}

TurnIsOver ==
    InCall /\ ctl.id # NoOut /\ ParkedFor(ctl.in, ctl.id) => send_enqueued[ctl.in]

(* What OnePlace says of one request. *)
Placed(r) ==
    /\ up[r] # "error"
    /\ up[r] = "granted" <=> Parked(r) \/ down[r] # NoOut
    /\ ~(Parked(r) /\ down[r] # NoOut)
    /\ initiator[r] = (IF down[r] # NoOut THEN PortOf[r] ELSE NoInput)
    /\ SentRight(r)

(* Nothing OnePlace speaks of changes for request q. *)
Elsewhere(q) ==
    /\ up'[q] = up[q] /\ want'[q] = want[q] /\ addr'[q] = addr[q]
    /\ down'[q] = down[q] /\ initiator'[q] = initiator[q]
    /\ Parked(q)' <=> Parked(q)
    /\ Parked(q) => pending_mapping_id'[PortOf[q]] = pending_mapping_id[PortOf[q]]

IInv ==
    /\ TypeOK /\ ParkedOnOwnInput /\ CtlShape /\ TurnIsOver /\ ParkedHasMover /\ OnePlace

-----------------------------------------------------------------------------
LEMMA StatusCases ==
    /\ \A st \in IoReqStatus : st = IO_REQ_DONE \/ st = IO_REQ_GRANTED \/ st = IO_REQ_DENIED
    /\ IO_REQ_DONE # IO_REQ_GRANTED /\ IO_REQ_DONE # IO_REQ_DENIED
    /\ IO_REQ_GRANTED # IO_REQ_DENIED
    /\ AfterReq(IO_REQ_DONE) = "idle" /\ AfterReq(IO_REQ_GRANTED) = "granted"
    /\ AfterReq(IO_REQ_DENIED) = "denied"
    /\ \A s : AfterResp(s) \in {"idle", "error"}
    /\ AfterResp("granted") = "idle"
    /\ MasterStates = {"idle", "granted", "denied", "error"}
BY DEF IoReqStatus, IO_REQ_DONE, IO_REQ_GRANTED, IO_REQ_DENIED, AfterReq, AfterResp, MasterStates

(* mapping_tree.get and the offsets, as far as their results go. *)
LEMMA DecodeType ==
    \A a, size : Decode(a, size) \in Outputs \cup {NoOut}
<1> SUFFICES ASSUME NEW a, NEW size PROVE Decode(a, size) \in Outputs \cup {NoOut}
  OBVIOUS
<1>1. Found(a) \subseteq Outputs
  BY DEF Found
<1> QED BY <1>1 DEF Decode

LEMMA TranslateType ==
    ASSUME NEW a \in Int, NEW o \in Outputs PROVE Translate(a, o) \in Int
BY RouterAssumption DEF Translate

LEMMA TranslateBack ==
    ASSUME NEW a \in Int, NEW o \in Outputs PROVE Untranslate(Translate(a, o), o) = a
BY RouterAssumption DEF Translate, Untranslate

LEMMA InputsType ==
    /\ Inputs \subseteq 0 .. NbInput /\ NoInput \in 0 .. NbInput /\ NoInput \notin Inputs
    /\ 0 \in Inputs /\ \A i \in Inputs : i + 1 \in 0 .. NbInput
    /\ \A r \in Reqs : PortOf[r] \in Inputs
BY RouterAssumption DEF Inputs, NoInput

-----------------------------------------------------------------------------
LEMMA InitIInv == Init => IInv
<1> SUFFICES ASSUME Init PROVE IInv
  OBVIOUS
<1>1. TypeOK
  BY RouterAssumption, InputsType DEF Init, TypeOK, Idle, MasterStates
<1>2. ParkedOnOwnInput /\ CtlShape /\ TurnIsOver /\ ParkedHasMover
  BY InputsType DEF Init, ParkedOnOwnInput, CtlShape, TurnIsOver, ParkedHasMover, Idle
<1>3. OnePlace
  BY InputsType, RouterAssumption DEF Init, OnePlace, SentRight, Parked
<1> QED BY <1>1, <1>2, <1>3 DEF IInv

LEMMA ElsewherePlaced ==
    ASSUME OnePlace, NEW q \in Reqs, Elsewhere(q) PROVE Placed(q)'
BY DEF OnePlace, Placed, Elsewhere, SentRight, Parked

(* What forward() does to the deny bits and to the slaves. *)
LEMMA ForwardStep ==
    ASSUME TypeOK, NEW r \in Reqs, NEW o \in Outputs, NEW st \in IoReqStatus,
           NEW bits \in [Inputs -> SUBSET Outputs], Forward(r, o, st, bits)
    PROVE  /\ denied_on_output' \in [Inputs -> SUBSET Outputs]
           /\ initiator' \in [Reqs -> Inputs \cup {NoInput}]
           /\ down' \in [Reqs -> Outputs \cup {NoOut}]
           /\ owes \subseteq owes' /\ owes' \subseteq Outputs \X Reqs
           /\ \A i \in Inputs : bits[i] \subseteq denied_on_output'[i]
           /\ st = IO_REQ_DENIED => o \in denied_on_output'[PortOf[r]] /\ <<o, r>> \in owes'
<1>0. PortOf[r] \in Inputs
  BY InputsType
<1>1. CASE st = IO_REQ_DENIED
  <2>1. /\ denied_on_output' = [bits EXCEPT ![PortOf[r]] = @ \cup {o}]
        /\ owes' = owes \cup {<<o, r>>} /\ UNCHANGED <<initiator, down>>
    BY <1>1, StatusCases DEF Forward
  <2> QED BY <1>0, <2>1 DEF TypeOK
<1>2. CASE st = IO_REQ_DONE
  <2>1. denied_on_output' = bits /\ UNCHANGED <<owes, initiator, down>>
    BY <1>2, StatusCases DEF Forward
  <2> QED BY <1>2, <2>1, StatusCases DEF TypeOK
<1>3. CASE st = IO_REQ_GRANTED
  <2>1. /\ denied_on_output' = bits /\ UNCHANGED owes
        /\ initiator' = [initiator EXCEPT ![r] = PortOf[r]]
        /\ down' = [down EXCEPT ![r] = o]
    BY <1>3, StatusCases DEF Forward
  <2> QED BY <1>0, <1>3, <2>1, StatusCases DEF TypeOK
<1> QED BY <1>1, <1>2, <1>3, StatusCases

(***************************************************************************)
(* req_muxed: it changes a slot only by parking r in an empty one, with    *)
(* the send_event of its input enqueued, and takes away no deny bit and no *)
(* debt of a slave.                                                        *)
(***************************************************************************)
TypedButCtl ==
    /\ pending_req \in [Inputs -> Reqs \cup {NoReq}]
    /\ pending_mapping_id \in [Inputs -> Outputs \cup {NoOut}]
    /\ send_enqueued \in [Inputs -> BOOLEAN]
    /\ denied_on_output \in [Inputs -> SUBSET Outputs]
    /\ initiator \in [Reqs -> Inputs \cup {NoInput}]
    /\ addr \in [Reqs -> Int]
    /\ up \in [Reqs -> MasterStates]
    /\ down \in [Reqs -> Outputs \cup {NoOut}]
    /\ owes \subseteq Outputs \X Reqs

ParksOnly(r) ==
    /\ owes \subseteq owes'
    /\ \A i \in Inputs : denied_on_output[i] \subseteq denied_on_output'[i]
    /\ \A i \in Inputs :
          \/ /\ pending_req'[i] = pending_req[i]
             /\ pending_mapping_id'[i] = pending_mapping_id[i]
             /\ send_enqueued'[i] = send_enqueued[i]
          \/ /\ i = PortOf[r] /\ pending_req'[i] = r
             /\ pending_mapping_id'[i] # NoOut /\ send_enqueued'[i]

LEMMA ReqMuxedStep ==
    ASSUME TypeOK, NEW r \in Reqs, NEW a \in Int, NEW size \in Nat, NEW delayed \in BOOLEAN,
           NEW st \in IoReqStatus, ReqMuxed(r, a, size, delayed, st)
    PROVE  TypedButCtl' /\ ParksOnly(r)
<1> USE DEF TypedButCtl, ParksOnly
<1> DEFINE in == PortOf[r]
           o  == Decode(a, size)
<1>0. /\ in \in Inputs /\ r # NoReq /\ TypeOK
      /\ o # NoOut => o \in Outputs /\ Translate(a, o) \in Int
  BY InputsType, RouterAssumption, DecodeType, TranslateType
<1>1. CASE /\ pending_req[in] # NoReq
           /\ up' = [up EXCEPT ![r] = "denied"]
           /\ addr' = [addr EXCEPT ![r] = a]
           /\ UNCHANGED <<router, denied_on_output, initiator, down, owes>>
  BY <1>0, <1>1 DEF TypeOK, router, MasterStates
<1>2. CASE /\ pending_req[in] = NoReq /\ o = NoOut
           /\ up' = [up EXCEPT ![r] = "idle"]
           /\ addr' = [addr EXCEPT ![r] = 0]
           /\ UNCHANGED <<router, denied_on_output, initiator, down, owes>>
  BY <1>0, <1>2 DEF TypeOK, router, MasterStates
<1>3. CASE /\ pending_req[in] = NoReq /\ o # NoOut /\ ~delayed
           /\ Forward(r, o, st, denied_on_output)
           /\ up' = [up EXCEPT ![r] = AfterReq(st)]
           /\ addr' = [addr EXCEPT ![r] = IF st = IO_REQ_DONE THEN 0 ELSE Translate(a, o)]
           /\ UNCHANGED router
  <2>1. AfterReq(st) \in MasterStates
    BY StatusCases
  <2>2. denied_on_output \in [Inputs -> SUBSET Outputs]
    BY <1>0 DEF TypeOK
  <2>3. /\ up' \in [Reqs -> MasterStates] /\ addr' \in [Reqs -> Int]
    BY <1>0, <1>3, <2>1 DEF TypeOK
  <2>4. UNCHANGED <<pending_req, pending_mapping_id, send_enqueued>>
    BY <1>3 DEF router
  <2> QED BY <1>0, <1>3, <2>2, <2>3, <2>4, ForwardStep DEF TypeOK
<1>4. CASE /\ pending_req[in] = NoReq /\ o # NoOut /\ delayed
           /\ Park(r, a, o)
           /\ UNCHANGED <<denied_on_output, initiator, down, owes>>
  BY <1>0, <1>4 DEF TypeOK, Park, MasterStates
<1> QED BY <1>1, <1>2, <1>3, <1>4 DEF ReqMuxed

(***************************************************************************)
(* What a fresh request and a re-issue share: the request is in no place   *)
(* yet, and the size the router is given is the one the master wants,      *)
(* whatever address comes with it.                                         *)
(***************************************************************************)
Issued(r, size) ==
    /\ up[r] \in {"idle", "denied"}
    /\ want' \in [Reqs -> Nat \X Nat]
    /\ \A q \in Reqs : want'[q] \in Accesses[q] \cup {<<0, 0>>}
    /\ \A q \in Reqs \ {r} : want'[q] = want[q]
    /\ up'[r] # "idle" => want'[r][2] = size

LEMMA IssueIInv ==
    ASSUME IInv, NEW r \in Reqs, NEW a \in Int, NEW size \in Nat, NEW delayed \in BOOLEAN,
           NEW st \in IoReqStatus, ReqMuxed(r, a, size, delayed, st), Issued(r, size),
           \/ ctl' = ctl /\ ctl.pc # "retry"
           \/ ctl.pc = "retry" /\ ctl' = [ctl EXCEPT !.pc = "retried"]
    PROVE  IInv'
<1>0. TypedButCtl' /\ ParksOnly(r)
  BY ReqMuxedStep DEF IInv
<1>1. TypeOK'
  BY <1>0 DEF TypeOK, IInv, TypedButCtl, Issued
<1>2. CtlShape'
  BY DEF CtlShape, IInv, TypeOK, Idle
<1>3. ParkedOnOwnInput'
  BY <1>0, RouterAssumption DEF ParkedOnOwnInput, IInv, ParksOnly
<1>4. /\ ctl'.in = ctl.in /\ ctl'.id = ctl.id /\ InCall' = InCall
  BY DEF IInv, TypeOK, InCall
<1>5. TurnIsOver'
  BY <1>0, <1>4, InputsType DEF TurnIsOver, InCall, ParkedFor, IInv, CtlShape, ParksOnly
<1>6. \A i \in Inputs, o \in Outputs : RetryComing(i, o) => RetryComing(i, o)'
  BY <1>0, <1>4 DEF RetryComing, OwesRetry, ParksOnly
<1>7. ParkedHasMover'
  BY <1>0, <1>6, RouterAssumption DEF ParkedHasMover, IInv, TypeOK, ParkedOnOwnInput, ParksOnly
<1>8. OnePlace'
  <2> DEFINE in == PortOf[r]
             o  == Decode(a, size)
  <2>0. /\ in \in Inputs /\ r # NoReq /\ (o # NoOut => o \in Outputs) /\ NoOut \notin Outputs
        /\ ~Parked(r) /\ down[r] = NoOut /\ initiator[r] = NoInput
    BY InputsType, RouterAssumption, DecodeType DEF IInv, OnePlace, Issued
  <2>1. \A q \in Reqs \ {r} : up'[q] = up[q] /\ want'[q] = want[q] /\ addr'[q] = addr[q]
    BY DEF ReqMuxed, Park, IInv, TypeOK, Issued
  <2>3. \A q \in Reqs \ {r} : down'[q] = down[q] /\ initiator'[q] = initiator[q]
    BY DEF ReqMuxed, Forward, IInv, TypeOK
  <2>4. pending_req[in] # NoReq => UNCHANGED <<pending_req, pending_mapping_id, send_enqueued>>
    BY DEF ReqMuxed, router
  <2>5. \A i \in Inputs \ {in} :
           pending_req'[i] = pending_req[i] /\ pending_mapping_id'[i] = pending_mapping_id[i]
    BY DEF ReqMuxed, Park, router, IInv, TypeOK
  <2>6. \A q \in Reqs \ {r} : Elsewhere(q)
    BY <1>0, <2>0, <2>1, <2>3, <2>4, <2>5, InputsType, RouterAssumption DEF Elsewhere, Parked, ParksOnly
  <2>7. o # NoOut => Decode(Untranslate(Translate(a, o), o), size) = o
    BY <2>0, TranslateBack
  <2>8. Placed(r)'
    <3>0. /\ up \in [Reqs -> MasterStates]
          /\ pending_req \in [Inputs -> Reqs \cup {NoReq}]
          /\ pending_mapping_id \in [Inputs -> Outputs \cup {NoOut}]
          /\ addr \in [Reqs -> Int] /\ down \in [Reqs -> Outputs \cup {NoOut}]
          /\ initiator \in [Reqs -> Inputs \cup {NoInput}]
      BY DEF IInv, TypeOK
    <3>1. CASE /\ pending_req[in] # NoReq
               /\ up' = [up EXCEPT ![r] = "denied"]
               /\ addr' = [addr EXCEPT ![r] = a]
               /\ UNCHANGED <<router, denied_on_output, initiator, down, owes>>
      BY <2>0, <3>0, <3>1 DEF Placed, Parked, SentRight, router
    <3>2. CASE /\ pending_req[in] = NoReq /\ o = NoOut
               /\ up' = [up EXCEPT ![r] = "idle"]
               /\ addr' = [addr EXCEPT ![r] = 0]
               /\ UNCHANGED <<router, denied_on_output, initiator, down, owes>>
      BY <2>0, <3>0, <3>2 DEF Placed, Parked, SentRight, router
    <3>3. CASE /\ pending_req[in] = NoReq /\ o # NoOut /\ ~delayed
               /\ Forward(r, o, st, denied_on_output)
               /\ up' = [up EXCEPT ![r] = AfterReq(st)]
               /\ addr' = [addr EXCEPT ![r] = IF st = IO_REQ_DONE THEN 0 ELSE Translate(a, o)]
               /\ UNCHANGED router
      <4>1. CASE st = IO_REQ_GRANTED
        <5>1. /\ initiator'[r] = in /\ down'[r] = o /\ up'[r] = "granted"
              /\ addr'[r] = Translate(a, o) /\ pending_req'[in] = NoReq
          BY <2>0, <3>0, <3>3, <4>1, StatusCases DEF Forward, router
        <5>2. want'[r][2] = size /\ ~Parked(r)'
          BY <2>0, <5>1 DEF Issued, Parked
        <5>3. SentRight(r)'
          BY <2>7, <3>3, <5>1, <5>2 DEF SentRight, Untranslate
        <5> QED BY <2>0, <3>3, <5>1, <5>2, <5>3 DEF Placed
      <4>2. CASE st # IO_REQ_GRANTED
        <5>1. /\ UNCHANGED <<initiator, down>> /\ up'[r] \in {"idle", "denied"}
          BY <3>0, <3>3, <4>2, StatusCases DEF Forward
        <5> QED BY <2>0, <3>3, <5>1 DEF Placed, Parked, SentRight, router
      <4> QED BY <4>1, <4>2
    <3>4. CASE /\ pending_req[in] = NoReq /\ o # NoOut /\ delayed
               /\ Park(r, a, o)
               /\ UNCHANGED <<denied_on_output, initiator, down, owes>>
      <4>1. /\ pending_req'[in] = r /\ pending_mapping_id'[in] = o /\ up'[r] = "granted"
            /\ addr'[r] = Translate(a, o)
        BY <2>0, <3>0, <3>4 DEF Park
      <4>2. want'[r][2] = size /\ Parked(r)' /\ down'[r] = NoOut /\ initiator'[r] = NoInput
        BY <2>0, <3>4, <4>1 DEF Issued, Parked
      <4>3. SentRight(r)'
        BY <2>0, <2>7, <3>4, <4>1, <4>2 DEF SentRight, Untranslate
      <4> QED BY <4>1, <4>2, <4>3 DEF Placed
    <3> QED BY <3>1, <3>2, <3>3, <3>4 DEF ReqMuxed
  <2>9. \A q \in Reqs : Placed(q)'
    BY <2>6, <2>8, ElsewherePlaced DEF IInv
  <2> QED BY <2>9 DEF OnePlace, Placed
<1> QED BY <1>1, <1>2, <1>3, <1>5, <1>7, <1>8 DEF IInv

LEMMA MasterReqIInv ==
    ASSUME IInv, NEW r \in Reqs, MasterReq(r) PROVE IInv'
<1>1. PICK acc \in Accesses[r], delayed \in BOOLEAN, st \in IoReqStatus :
        /\ ReqMuxed(r, acc[1], acc[2], delayed, st)
        /\ want' = [want EXCEPT ![r] = IF up'[r] = "idle" THEN <<0, 0>> ELSE acc]
  BY DEF MasterReq
<1>2. acc \in Nat \X Nat /\ acc[1] \in Int /\ acc[2] \in Nat
  BY RouterAssumption
<1>3. Issued(r, acc[2])
  BY <1>1, <1>2 DEF Issued, MasterReq, IInv, TypeOK
<1>4. ctl' = ctl /\ ctl.pc # "retry"
  BY DEF MasterReq
<1> QED BY <1>1, <1>2, <1>3, <1>4, IssueIInv

LEMMA MasterReissueIInv ==
    ASSUME IInv, NEW r \in Reqs, MasterReissue(r) PROVE IInv'
<1> DEFINE size == want[r][2]
<1>1. PICK a \in {want[r][1], addr[r]}, delayed \in BOOLEAN, st \in IoReqStatus :
        ReqMuxed(r, a, size, delayed, st)
  BY DEF MasterReissue
<1>2. want[r] \in Nat \X Nat /\ a \in Int /\ size \in Nat
  BY DEF IInv, TypeOK
<1>3. /\ ctl.pc = "retry" /\ ctl' = [ctl EXCEPT !.pc = "retried"] /\ up[r] = "denied"
      /\ want' = [want EXCEPT ![r] = IF up'[r] = "idle" THEN <<0, 0>> ELSE @]
  BY DEF MasterReissue
<1>4. Issued(r, size)
  BY <1>2, <1>3 DEF Issued, IInv, TypeOK
<1> HIDE DEF size
<1> QED BY <1>1, <1>2, <1>3, <1>4, IssueIInv

-----------------------------------------------------------------------------
(***************************************************************************)
(* forward() of what is parked on input in: the slot is emptied, or the    *)
(* request stays in it and the output that denied it owes a retry() and    *)
(* has its deny bit; the other slots are left alone.                       *)
(***************************************************************************)
SlotForwarded(in, st, bits) ==
    /\ owes \subseteq owes'
    /\ \A i \in Inputs \ {in} : /\ pending_req'[i] = pending_req[i]
                                /\ pending_mapping_id'[i] = pending_mapping_id[i]
                                /\ denied_on_output'[i] = bits[i]
    /\ st # IO_REQ_DENIED => pending_req'[in] = NoReq /\ denied_on_output'[in] = bits[in]
    /\ st = IO_REQ_DENIED =>
          /\ pending_req'[in] = pending_req[in]
          /\ pending_mapping_id'[in] = pending_mapping_id[in]
          /\ denied_on_output'[in] = bits[in] \cup {pending_mapping_id[in]}
          /\ OwesRetry(pending_mapping_id[in])'
    /\ \A q \in Reqs : PortOf[q] # in => up'[q] = up[q] /\ want'[q] = want[q]

LEMMA ForwardPendingStep ==
    ASSUME IInv, NEW in \in Inputs, NEW st \in IoReqStatus, pending_req[in] # NoReq,
           NEW bits \in [Inputs -> SUBSET Outputs], ForwardPending(in, st, bits),
           send_enqueued' \in [Inputs -> BOOLEAN]
    PROVE  /\ TypedButCtl' /\ SlotForwarded(in, st, bits) /\ OnePlace'
           /\ want' \in [Reqs -> Nat \X Nat]
           /\ \A q \in Reqs : want'[q] \in Accesses[q] \cup {<<0, 0>>}
<1> PICK r \in Reqs, o \in Outputs : pending_req[in] = r /\ pending_mapping_id[in] = o
  BY DEF IInv, TypeOK, ParkedOnOwnInput
<1>0. /\ PortOf[r] = in /\ TypeOK /\ r # NoReq
      /\ pending_req[in] = r /\ pending_mapping_id[in] = o
  BY DEF IInv, ParkedOnOwnInput
<1>1. Forward(r, o, st, bits)
  BY DEF ForwardPending
<1>2. /\ denied_on_output' \in [Inputs -> SUBSET Outputs]
      /\ initiator' \in [Reqs -> Inputs \cup {NoInput}]
      /\ down' \in [Reqs -> Outputs \cup {NoOut}]
      /\ owes \subseteq owes' /\ owes' \subseteq Outputs \X Reqs
      /\ st = IO_REQ_DENIED => <<o, r>> \in owes'
  BY <1>0, <1>1, ForwardStep
<1>3. /\ pending_req' = IF st = IO_REQ_DENIED THEN pending_req
                                              ELSE [pending_req EXCEPT ![in] = NoReq]
      /\ pending_mapping_id' = IF st = IO_REQ_DENIED THEN pending_mapping_id
                                  ELSE [pending_mapping_id EXCEPT ![in] = NoOut]
  BY DEF ForwardPending
<1>4. Placed(r) /\ Parked(r) /\ up[r] = "granted" /\ down[r] = NoOut
  BY <1>0 DEF IInv, OnePlace, Placed, Parked
<1>5. /\ up' = [up EXCEPT ![r] = IF st = IO_REQ_DONE THEN "idle" ELSE @]
      /\ addr' = [addr EXCEPT ![r] = IF st = IO_REQ_DONE THEN 0 ELSE @]
      /\ want' = [want EXCEPT ![r] = IF st = IO_REQ_DONE THEN <<0, 0>> ELSE @]
  BY <1>0, <1>4, StatusCases DEF ForwardPending, TypeOK
<1>6. /\ down' = [down EXCEPT ![r] = IF st = IO_REQ_GRANTED THEN o ELSE @]
      /\ initiator' = [initiator EXCEPT ![r] = IF st = IO_REQ_GRANTED THEN in ELSE @]
      /\ denied_on_output' = [bits EXCEPT ![in] = IF st = IO_REQ_DENIED THEN @ \cup {o} ELSE @]
  BY <1>0, <1>1, StatusCases DEF Forward, TypeOK
<1>7. /\ up' \in [Reqs -> MasterStates] /\ addr' \in [Reqs -> Int]
      /\ want' \in [Reqs -> Nat \X Nat]
      /\ \A q \in Reqs : want'[q] \in Accesses[q] \cup {<<0, 0>>}
  BY <1>0, <1>5, StatusCases DEF TypeOK
<1>8. TypedButCtl'
  BY <1>0, <1>2, <1>3, <1>7 DEF TypedButCtl, TypeOK
<1>9. SlotForwarded(in, st, bits)
  BY <1>0, <1>2, <1>3, <1>5, <1>6 DEF SlotForwarded, TypeOK, OwesRetry
<1>11. \A q \in Reqs \ {r} : Elsewhere(q)
  BY <1>0, <1>3, <1>5, <1>6, InputsType, RouterAssumption DEF TypeOK, Elsewhere, Parked
<1>12. Placed(r)'
  <2>1. CASE st = IO_REQ_DONE
    <3>1. /\ up'[r] = "idle" /\ want'[r] = <<0, 0>> /\ down'[r] = NoOut
          /\ initiator'[r] = initiator[r] /\ pending_req'[in] = NoReq
      BY <1>0, <1>3, <1>4, <1>5, <1>6, <2>1, StatusCases DEF TypeOK
    <3> QED BY <1>0, <1>4, <3>1, RouterAssumption DEF Placed, Parked, SentRight
  <2>2. CASE st = IO_REQ_GRANTED
    <3>1. /\ up'[r] = "granted" /\ want'[r] = want[r] /\ addr'[r] = addr[r] /\ down'[r] = o
          /\ initiator'[r] = in /\ pending_req'[in] = NoReq
      BY <1>0, <1>3, <1>4, <1>5, <1>6, <2>2, StatusCases DEF TypeOK
    <3> QED BY <1>0, <1>4, <3>1, RouterAssumption DEF Placed, Parked, SentRight
  <2>3. CASE st = IO_REQ_DENIED
    BY <1>0, <1>3, <1>4, <1>5, <1>6, <2>3, StatusCases, RouterAssumption
       DEF TypeOK, Placed, Parked, SentRight
  <2> QED BY <2>1, <2>2, <2>3, StatusCases
<1>13. OnePlace'
  <2>1. \A q \in Reqs : Placed(q)'
    <3> SUFFICES ASSUME NEW q \in Reqs PROVE Placed(q)'
      OBVIOUS
    <3>1. CASE q = r
      BY <1>12, <3>1
    <3>2. CASE q # r
      <4>1. Elsewhere(q) /\ OnePlace
        BY <1>11, <3>2 DEF IInv
      <4> QED BY <4>1, ElsewherePlaced
    <3> QED BY <3>1, <3>2
  <2> QED BY <2>1 DEF OnePlace, Placed
<1> QED BY <1>7, <1>8, <1>9, <1>13

LEMMA SendHandlerIInv ==
    ASSUME IInv, NEW in \in Inputs, NEW st \in IoReqStatus, SendHandler(in, st) PROVE IInv'
<1>1. /\ ctl = Idle /\ send_enqueued[in] /\ pending_req[in] # NoReq
      /\ send_enqueued' = [send_enqueued EXCEPT ![in] = FALSE]
      /\ ForwardPending(in, st, denied_on_output)
  BY DEF SendHandler, IInv, ParkedHasMover
<1>2. /\ send_enqueued' \in [Inputs -> BOOLEAN]
      /\ denied_on_output \in [Inputs -> SUBSET Outputs]
  BY <1>1 DEF IInv, TypeOK
<1>3. /\ TypedButCtl' /\ SlotForwarded(in, st, denied_on_output) /\ OnePlace'
      /\ want' \in [Reqs -> Nat \X Nat]
      /\ \A q \in Reqs : want'[q] \in Accesses[q] \cup {<<0, 0>>}
  BY <1>1, <1>2, ForwardPendingStep
<1>4. /\ ctl' \in [pc : {"idle", "resp", "retry"}, in : 0 .. NbInput, id : {NoOut}]
      /\ ctl'.pc = "idle" => ctl' = Idle
      /\ ctl'.pc # "idle" => ctl'.in = in /\ st # IO_REQ_DENIED
  BY StatusCases, InputsType DEF SendHandler, Idle
<1>5. TypeOK'
  BY <1>3, <1>4 DEF TypeOK, TypedButCtl
<1>6. CtlShape' /\ TurnIsOver'
  BY <1>4 DEF CtlShape, TurnIsOver
<1>7. ParkedOnOwnInput'
  BY <1>3 DEF ParkedOnOwnInput, SlotForwarded, IInv
<1>8. \A i \in Inputs, o \in Outputs : RetryComing(i, o) => OwesRetry(o)'
  BY <1>1, <1>3, RouterAssumption DEF RetryComing, OwesRetry, SlotForwarded, Idle
<1>9. ParkedHasMover'
  <2> SUFFICES ASSUME NEW i \in Inputs
               PROVE  pending_req'[i] # NoReq =>
                            \/ send_enqueued'[i]
                            \/ /\ pending_mapping_id'[i] \in denied_on_output'[i]
                               /\ RetryComing(i, pending_mapping_id[i])'
    BY DEF ParkedHasMover
  <2>1. CASE i = in
    BY <1>1, <1>3, <2>1 DEF SlotForwarded, IInv, TypeOK, RetryComing
  <2>2. CASE i # in
    <3>1. pending_req[i] # NoReq => pending_mapping_id[i] \in Outputs
      BY DEF IInv, TypeOK, ParkedOnOwnInput
    <3> QED BY <1>1, <1>3, <1>8, <2>2, <3>1 DEF SlotForwarded, IInv, TypeOK, ParkedHasMover, RetryComing
  <2> QED BY <2>1, <2>2
<1> QED BY <1>3, <1>5, <1>6, <1>7, <1>9 DEF IInv

(* A turn of retry_muxed's loop: no input it passes has a bit of the       *)
(* retried output.                                                         *)
LEMMA LoopAtTurn ==
    ASSUME IInv, NEW in \in Inputs, LoopAt(in)
    PROVE  /\ ctl.pc = "loop" /\ ctl.id \in Outputs /\ ctl.in \in Int /\ in \in Int /\ ctl.in <= in
           /\ \A i \in Inputs : i \in Int /\ (ctl.in <= i /\ i < in => ctl.id \notin denied_on_output[i])
BY DEF LoopAt, Denied, IInv, TypeOK, CtlShape, Inputs

(* After the turn, the loop still comes to every later input. *)
LEMMA LaterInputs ==
    ASSUME IInv, NEW in \in Inputs, LoopAt(in), NEW i \in Inputs \ {in},
           ctl.id \in denied_on_output[i], ctl.in <= i
    PROVE  i \in Int /\ in + 1 <= i
BY LoopAtTurn

LEMMA LoopForwardIInv ==
    ASSUME IInv, NEW in \in Inputs, NEW st \in IoReqStatus, LoopForward(in, st) PROVE IInv'
<1>1. /\ LoopAt(in) /\ ParkedFor(in, ctl.id) /\ pending_req[in] # NoReq
      /\ ForwardPending(in, st, BitCleared(in))
      /\ send_enqueued' = send_enqueued
  BY DEF LoopForward, ParkedFor
<1>2. /\ ctl.pc = "loop" /\ ctl.id \in Outputs /\ ctl.in \in Int /\ in \in Int /\ ctl.in <= in
      /\ ctl.id = pending_mapping_id[in]
  BY <1>1, LoopAtTurn DEF ParkedFor
<1>3. /\ send_enqueued' \in [Inputs -> BOOLEAN]
      /\ BitCleared(in) \in [Inputs -> SUBSET Outputs]
      /\ \A i \in Inputs \ {in} : BitCleared(in)[i] = denied_on_output[i]
      /\ BitCleared(in)[in] = denied_on_output[in] \ {ctl.id}
  BY <1>1, <1>2 DEF IInv, TypeOK, BitCleared
<1>4. /\ TypedButCtl' /\ SlotForwarded(in, st, BitCleared(in)) /\ OnePlace'
      /\ want' \in [Reqs -> Nat \X Nat]
      /\ \A q \in Reqs : want'[q] \in Accesses[q] \cup {<<0, 0>>}
  BY <1>1, <1>3, ForwardPendingStep
<1>5. /\ ctl' \in [pc : {"idle", "resp", "retry", "retried", "loop", "crashed"},
                   in : 0 .. NbInput, id : Outputs \cup {NoOut}]
      /\ ctl'.id = ctl.id
      /\ \/ st = IO_REQ_DONE /\ ctl'.pc = "resp" /\ ctl'.in = in
         \/ ctl'.pc = "loop" /\ ctl'.in = in + 1
  <2>1. /\ ctl \in [pc : {"idle", "resp", "retry", "retried", "loop", "crashed"},
                    in : 0 .. NbInput, id : Outputs \cup {NoOut}]
        /\ in \in 0 .. NbInput /\ in + 1 \in 0 .. NbInput
    BY InputsType DEF IInv, TypeOK
  <2>2. CASE st = IO_REQ_DONE
    <3>1. ctl' = [ctl EXCEPT !.pc = "resp", !.in = in]
      BY <2>2 DEF LoopForward
    <3> QED BY <2>1, <2>2, <3>1
  <2>3. CASE st # IO_REQ_DONE
    <3>1. ctl' = [ctl EXCEPT !.in = in + 1]
      BY <2>3 DEF LoopForward
    <3> QED BY <1>2, <2>1, <3>1
  <2> QED BY <2>2, <2>3
<1>6. TypeOK'
  BY <1>4, <1>5 DEF TypeOK, TypedButCtl
<1>7. CtlShape'
  BY <1>2, <1>5, RouterAssumption DEF CtlShape
<1>8. TurnIsOver'
  BY <1>4, <1>5, StatusCases DEF TurnIsOver, InCall, ParkedFor, SlotForwarded
<1>9. ParkedOnOwnInput'
  BY <1>4 DEF ParkedOnOwnInput, SlotForwarded, IInv
<1>10. \A i \in Inputs \ {in} : \A o \in denied_on_output[i] :
          RetryComing(i, o) => RetryComing(i, o)'
  <2> SUFFICES ASSUME NEW i \in Inputs \ {in}, NEW o \in denied_on_output[i]
               PROVE  RetryComing(i, o) => RetryComing(i, o)'
    OBVIOUS
  <2>1. i \in Int
    BY DEF Inputs
  <2>2. ctl.id = o /\ ctl.in <= i => in + 1 <= i
    BY <1>1, LaterInputs
  <2>3. OwesRetry(o) => OwesRetry(o)'
    BY <1>4 DEF OwesRetry, SlotForwarded
  <2> QED BY <1>2, <1>5, <2>1, <2>2, <2>3 DEF RetryComing
<1>11. ParkedHasMover'
  <2> SUFFICES ASSUME NEW i \in Inputs
               PROVE  pending_req'[i] # NoReq =>
                            \/ send_enqueued'[i]
                            \/ /\ pending_mapping_id'[i] \in denied_on_output'[i]
                               /\ RetryComing(i, pending_mapping_id[i])'
    BY DEF ParkedHasMover
  <2>1. CASE i = in
    BY <1>1, <1>2, <1>4, <2>1 DEF SlotForwarded, RetryComing
  <2>2. CASE i # in
    BY <1>1, <1>3, <1>4, <1>10, <2>2 DEF SlotForwarded, IInv, ParkedHasMover, RetryComing
  <2> QED BY <2>1, <2>2
<1> QED BY <1>4, <1>6, <1>7, <1>8, <1>9, <1>11 DEF IInv

LEMMA LoopRetryIInv ==
    ASSUME IInv, NEW in \in Inputs, LoopRetry(in) PROVE IInv'
<1>1. /\ LoopAt(in) /\ ~ParkedFor(in, ctl.id)
      /\ denied_on_output' = BitCleared(in)
      /\ UNCHANGED <<pending_req, pending_mapping_id, send_enqueued>>
      /\ UNCHANGED <<initiator, addr, up, want, down, owes>>
  BY DEF LoopRetry, router
<1>2. /\ ctl.pc = "loop" /\ ctl.id \in Outputs /\ ctl.in \in Int /\ in \in Int /\ ctl.in <= in
  BY <1>1, LoopAtTurn
<1>3. /\ BitCleared(in) \in [Inputs -> SUBSET Outputs]
      /\ \A i \in Inputs \ {in} : BitCleared(in)[i] = denied_on_output[i]
      /\ BitCleared(in)[in] = denied_on_output[in] \ {ctl.id}
  BY <1>2 DEF IInv, TypeOK, BitCleared
<1>4. /\ ctl' \in [pc : {"idle", "resp", "retry", "retried", "loop", "crashed"},
                   in : 0 .. NbInput, id : Outputs \cup {NoOut}]
      /\ ctl'.id = ctl.id /\ ctl'.pc = "retry" /\ ctl'.in = in
  BY InputsType DEF LoopRetry, IInv, TypeOK
<1>5. TypeOK'
  BY <1>1, <1>3, <1>4 DEF TypeOK, IInv
<1>6. ParkedOnOwnInput' /\ CtlShape' /\ TurnIsOver'
  BY <1>1, <1>2, <1>4, RouterAssumption
     DEF IInv, ParkedOnOwnInput, CtlShape, TurnIsOver, ParkedFor
<1>7. OnePlace'
  BY <1>1 DEF OnePlace, SentRight, Parked, IInv
<1>8. \A i \in Inputs \ {in} : \A o \in denied_on_output[i] :
          RetryComing(i, o) => RetryComing(i, o)'
  <2> SUFFICES ASSUME NEW i \in Inputs \ {in}, NEW o \in denied_on_output[i]
               PROVE  RetryComing(i, o) => RetryComing(i, o)'
    OBVIOUS
  <2>1. i \in Int
    BY DEF Inputs
  <2>2. ctl.id = o /\ ctl.in <= i => in + 1 <= i
    BY <1>1, LaterInputs
  <2> QED BY <1>1, <1>2, <1>4, <2>1, <2>2 DEF RetryComing, OwesRetry
<1>9. ParkedHasMover'
  <2> SUFFICES ASSUME NEW i \in Inputs
               PROVE  pending_req'[i] # NoReq =>
                            \/ send_enqueued'[i]
                            \/ /\ pending_mapping_id'[i] \in denied_on_output'[i]
                               /\ RetryComing(i, pending_mapping_id[i])'
    BY DEF ParkedHasMover
  <2>1. CASE i = in
    <3>1. pending_req[in] # NoReq => pending_mapping_id[in] # ctl.id
      BY <1>1 DEF ParkedFor
    <3>2. \A o : o # ctl.id /\ RetryComing(in, o) => RetryComing(in, o)'
      BY <1>1 DEF RetryComing, OwesRetry
    <3>3. pending_req[in] # NoReq =>
              \/ send_enqueued[in]
              \/ /\ pending_mapping_id[in] \in denied_on_output[in]
                 /\ RetryComing(in, pending_mapping_id[in])
      BY DEF IInv, ParkedHasMover
    <3> QED BY <1>1, <1>3, <2>1, <3>1, <3>2, <3>3 DEF RetryComing, OwesRetry
  <2>2. CASE i # in
    BY <1>1, <1>2, <1>3, <1>8, <2>2 DEF IInv, ParkedHasMover, RetryComing
  <2> QED BY <2>1, <2>2
<1> QED BY <1>5, <1>6, <1>7, <1>9 DEF IInv

LEMMA RetryMuxedIInv ==
    ASSUME IInv, NEW out \in Outputs, RetryMuxed(out) PROVE IInv'
<1>1. /\ ctl = Idle /\ owes' = {p \in owes : p[1] # out}
      /\ ctl' = [pc |-> "loop", in |-> 0, id |-> out]
      /\ UNCHANGED <<pending_req, pending_mapping_id, send_enqueued>>
      /\ UNCHANGED <<denied_on_output, initiator, addr, up, want, down>>
  BY DEF RetryMuxed, router
<1>2. TypeOK'
  BY <1>1, InputsType DEF TypeOK, IInv
<1>3. ParkedOnOwnInput' /\ CtlShape' /\ TurnIsOver'
  BY <1>1, RouterAssumption
     DEF IInv, ParkedOnOwnInput, CtlShape, TurnIsOver, InCall
<1>4. OnePlace'
  BY <1>1 DEF OnePlace, SentRight, Parked, IInv
<1>5. \A i \in Inputs : 0 <= i
  BY DEF Inputs
<1>6. \A i \in Inputs, o \in Outputs : RetryComing(i, o) => RetryComing(i, o)'
  BY <1>1, <1>5, RouterAssumption DEF RetryComing, OwesRetry, Idle
<1>8. ParkedHasMover'
  BY <1>1, <1>6 DEF IInv, ParkedHasMover, ParkedOnOwnInput, TypeOK
<1> QED BY <1>2, <1>3, <1>4, <1>8 DEF IInv

(* The end of a call on a master, or of the loop: only ctl changes, and a  *)
(* slot the loop has still to come to is one it still comes to.            *)
LEMMA ReturnIInv ==
    ASSUME IInv, RespReturns \/ RetryReturns \/ LoopEnds PROVE IInv'
<1>1. /\ UNCHANGED <<pending_req, pending_mapping_id, send_enqueued>>
      /\ UNCHANGED <<denied_on_output, initiator, addr, up, want, down, owes>>
  BY DEF RespReturns, RetryReturns, LoopEnds, router
<1>2. \/ ctl' = Idle /\ ctl.id = NoOut
      \/ /\ ctl' = Idle /\ ctl.pc = "loop"
         /\ \A i \in Inputs : i >= ctl.in => ctl.id \notin denied_on_output[i]
      \/ ctl.pc = "resp" /\ ctl.id = NoOut /\ ctl' = [ctl EXCEPT !.pc = "retry"]
      \/ InCall /\ ctl.id # NoOut /\ ctl' = [ctl EXCEPT !.pc = "loop", !.in = @ + 1]
  BY DEF RespReturns, RetryReturns, LoopEnds, Denied, InCall
<1>3. /\ ctl \in [pc : {"idle", "resp", "retry", "retried", "loop", "crashed"},
                  in : 0 .. NbInput, id : Outputs \cup {NoOut}]
      /\ CtlShape /\ TurnIsOver /\ \A i \in Inputs : i \in Int
  BY DEF IInv, TypeOK, Inputs
<1>4. /\ ctl' \in [pc : {"idle", "resp", "retry", "retried", "loop", "crashed"},
                   in : 0 .. NbInput, id : Outputs \cup {NoOut}]
      /\ CtlShape' /\ (InCall' => ctl'.id = NoOut)
  <2>1. CASE ctl' = Idle
    BY <2>1, InputsType DEF CtlShape, Idle, InCall
  <2>2. CASE ctl.pc = "resp" /\ ctl.id = NoOut /\ ctl' = [ctl EXCEPT !.pc = "retry"]
    BY <1>3, <2>2 DEF CtlShape, InCall
  <2>3. CASE InCall /\ ctl.id # NoOut /\ ctl' = [ctl EXCEPT !.pc = "loop", !.in = @ + 1]
    <3>1. ctl.in \in Inputs /\ ctl.in + 1 \in 0 .. NbInput
      BY <1>3, <2>3, InputsType DEF CtlShape, InCall
    <3> QED BY <1>3, <2>3, <3>1 DEF CtlShape, InCall
  <2> QED BY <1>2, <2>1, <2>2, <2>3
<1>5. TypeOK'
  BY <1>1, <1>4 DEF TypeOK, IInv
<1>6. ParkedOnOwnInput' /\ TurnIsOver'
  BY <1>1, <1>4 DEF IInv, ParkedOnOwnInput, TurnIsOver
<1>7. OnePlace'
  BY <1>1 DEF OnePlace, SentRight, Parked, IInv
<1>8. ASSUME NEW i \in Inputs, NEW o \in denied_on_output[i], o \in Outputs
      PROVE  ParkedFor(i, o) /\ ~send_enqueued[i] /\ RetryComing(i, o) => RetryComing(i, o)'
  <2>0. o # NoOut /\ i \in Int /\ ctl.in \in Int /\ (OwesRetry(o) => OwesRetry(o)')
    <3>1. OwesRetry(o) => OwesRetry(o)'
      BY <1>1 DEF OwesRetry
    <3>2. ctl.in \in 0 .. NbInput /\ i \in Int
      BY <1>3
    <3> QED BY <1>8, <3>1, <3>2, RouterAssumption
  <2>1. CASE ctl' = Idle
    <3>1. ~(ctl.id = o /\ ctl.in <= i)
      BY <1>2, <1>8, <2>0, <2>1 DEF Idle, InCall
    <3> QED BY <2>0, <3>1 DEF RetryComing
  <2>2. CASE ctl.pc = "resp" /\ ctl.id = NoOut /\ ctl' = [ctl EXCEPT !.pc = "retry"]
    BY <2>0, <2>2 DEF RetryComing
  <2>3. CASE InCall /\ ctl.id # NoOut /\ ctl' = [ctl EXCEPT !.pc = "loop", !.in = @ + 1]
    <3>1. ctl'.pc = "loop" /\ ctl'.in = ctl.in + 1 /\ ctl'.id = ctl.id /\ ctl.pc # "loop"
      BY <1>3, <2>3 DEF InCall
    <3>2. ctl.id = o /\ ParkedFor(i, o) /\ ~send_enqueued[i] => ctl.in # i
      BY <1>3, <2>3 DEF TurnIsOver
    <3> QED BY <2>0, <3>1, <3>2 DEF RetryComing
  <2> QED BY <1>2, <2>1, <2>2, <2>3
<1>9. ParkedHasMover'
  <2> SUFFICES ASSUME NEW i \in Inputs, pending_req[i] # NoReq, ~send_enqueued[i]
               PROVE  RetryComing(i, pending_mapping_id[i])'
    BY <1>1 DEF IInv, ParkedHasMover
  <2>1. /\ pending_mapping_id[i] \in denied_on_output[i] /\ pending_mapping_id[i] \in Outputs
        /\ RetryComing(i, pending_mapping_id[i]) /\ ParkedFor(i, pending_mapping_id[i])
    BY DEF IInv, ParkedHasMover, TypeOK, ParkedFor
  <2>2. pending_mapping_id' = pending_mapping_id
    BY <1>1
  <2> QED BY <1>8, <2>1, <2>2 DEF RetryComing, OwesRetry
<1> QED BY <1>4, <1>5, <1>6, <1>7, <1>9 DEF IInv

LEMMA RespMuxedIInv ==
    ASSUME IInv, NEW r \in Reqs, RespMuxed(r) PROVE IInv'
<1>1. /\ up[r] = "granted" /\ initiator[r] = PortOf[r] /\ ~Parked(r)
  BY DEF RespMuxed, IInv, OnePlace
<1>2. /\ up' = [up EXCEPT ![r] = "idle"] /\ down' = [down EXCEPT ![r] = NoOut]
      /\ initiator' = [initiator EXCEPT ![r] = NoInput]
      /\ addr' = [addr EXCEPT ![r] = 0] /\ want' = [want EXCEPT ![r] = <<0, 0>>]
      /\ UNCHANGED <<pending_req, pending_mapping_id, send_enqueued>>
      /\ UNCHANGED <<denied_on_output, ctl, owes>>
  <2>1. up' = [up EXCEPT ![r] = AfterResp(@)]
    BY <1>1 DEF RespMuxed
  <2>2. up' = [up EXCEPT ![r] = "idle"]
    BY <1>1, <2>1, StatusCases
  <2> QED BY <2>2 DEF RespMuxed, router
<1>3. TypeOK'
  BY <1>2, StatusCases DEF TypeOK, IInv
<1>4. ParkedOnOwnInput' /\ CtlShape' /\ TurnIsOver'
  BY <1>2 DEF IInv, ParkedOnOwnInput, CtlShape, TurnIsOver, InCall, ParkedFor
<1>5. ParkedHasMover'
  BY <1>2 DEF IInv, ParkedHasMover, RetryComing, OwesRetry
<1>10. \A q \in Reqs : Placed(q)'
  <2>1. Placed(r)'
    BY <1>1, <1>2, RouterAssumption DEF IInv, TypeOK, Placed, Parked, SentRight
  <2>2. ASSUME NEW q \in Reqs, q # r PROVE Elsewhere(q)
    BY <1>2, <2>2 DEF Elsewhere, Parked, IInv, TypeOK
  <2>3. ASSUME NEW q \in Reqs, q # r PROVE Placed(q)'
    BY <2>2, <2>3, ElsewherePlaced DEF IInv
  <2> QED BY <2>1, <2>3
<1>11. OnePlace'
  BY <1>10 DEF OnePlace, Placed
<1> QED BY <1>3, <1>4, <1>5, <1>11 DEF IInv

LEMMA StutterIInv ==
    ASSUME IInv, UNCHANGED vars PROVE IInv'
<1> USE DEF vars
<1>1. TypeOK' /\ ParkedOnOwnInput' /\ CtlShape' /\ TurnIsOver'
  BY DEF IInv, TypeOK, ParkedOnOwnInput, CtlShape, TurnIsOver, InCall, ParkedFor
<1>2. ParkedHasMover'
  BY DEF IInv, ParkedHasMover, RetryComing, OwesRetry
<1>3. OnePlace'
  BY DEF IInv, OnePlace, SentRight, Parked
<1> QED BY <1>1, <1>2, <1>3 DEF IInv

LEMMA EmptyIInv ==
    ASSUME IInv, NEW in \in Inputs, SendHandlerEmpty(in) PROVE IInv'
<1>1. /\ UNCHANGED <<pending_req, pending_mapping_id, send_enqueued>>
      /\ UNCHANGED <<denied_on_output, initiator, addr, up, want, down, owes>>
      /\ ctl' = [ctl EXCEPT !.pc = "crashed"]
  BY DEF SendHandlerEmpty, router
<1>2. /\ ctl' \in [pc : {"idle", "resp", "retry", "retried", "loop", "crashed"},
                   in : 0 .. NbInput, id : Outputs \cup {NoOut}]
      /\ ctl'.pc = "crashed" /\ ctl'.in = ctl.in /\ ctl'.id = ctl.id
  BY <1>1 DEF IInv, TypeOK
<1>3. TypeOK'
  BY <1>1, <1>2 DEF IInv, TypeOK
<1>4. ParkedOnOwnInput' /\ CtlShape' /\ TurnIsOver'
  BY <1>1, <1>2 DEF IInv, ParkedOnOwnInput, CtlShape, TurnIsOver, InCall
<1>5. ParkedHasMover'
  BY <1>1, <1>2 DEF IInv, ParkedHasMover, RetryComing, OwesRetry
<1>6. OnePlace'
  BY <1>1 DEF IInv, OnePlace, SentRight, Parked
<1> QED BY <1>3, <1>4, <1>5, <1>6 DEF IInv

LEMMA NextIInv ==
    IInv /\ [Next]_vars => IInv'
<1> SUFFICES ASSUME IInv, [Next]_vars PROVE IInv'
  OBVIOUS
<1>1. ASSUME NEW r \in Reqs, MasterReq(r) \/ MasterReissue(r) \/ RespMuxed(r) PROVE IInv'
  BY <1>1, MasterReqIInv, MasterReissueIInv, RespMuxedIInv
<1>2. ASSUME NEW in \in Inputs, NEW st \in IoReqStatus, SendHandler(in, st) \/ LoopForward(in, st)
      PROVE  IInv'
  BY <1>2, SendHandlerIInv, LoopForwardIInv
<1>3. ASSUME NEW in \in Inputs, SendHandlerEmpty(in) \/ LoopRetry(in) PROVE IInv'
  BY <1>3, EmptyIInv, LoopRetryIInv
<1>4. ASSUME NEW o \in Outputs, RetryMuxed(o) PROVE IInv'
  BY <1>4, RetryMuxedIInv
<1>5. CASE RespReturns \/ RetryReturns \/ LoopEnds
  BY <1>5, ReturnIInv
<1>6. CASE Halted \/ UNCHANGED vars
  BY <1>6, StutterIInv DEF Halted
<1> QED BY <1>1, <1>2, <1>3, <1>4, <1>5, <1>6 DEF Next

-----------------------------------------------------------------------------
LEMMA RouterSafe ==
    Spec => []IInv
<1>1. Init => IInv
  BY InitIInv
<1>2. IInv /\ [Next]_vars => IInv'
  BY NextIInv
<1> QED BY <1>1, <1>2, PTL DEF Spec

(***************************************************************************)
(* Every field of the router, of its masters and of its slaves keeps its   *)
(* type in every handler.                                                  *)
(***************************************************************************)
THEOREM RouterTypeCorrect ==
    Spec => []TypeOK
<1>1. IInv => TypeOK
  BY DEF IInv
<1> QED BY <1>1, RouterSafe, PTL

(***************************************************************************)
(* For any number of inputs, outputs and requests and any address map, a   *)
(* granted request is in exactly one place, the InFlight record leads the  *)
(* answer back to the input it came from, and what a slave gets was        *)
(* translated for the output it is: with masters that re-issue a denied    *)
(* request with its first address or with the one the denial left in it,   *)
(* and with deny bits that a re-issue elsewhere left behind.               *)
(***************************************************************************)
THEOREM RouterOnePlace ==
    Spec => []OnePlace
<1>1. IInv => OnePlace
  BY DEF IInv
<1> QED BY <1>1, RouterSafe, PTL

(***************************************************************************)
(* No request parked by req_muxed is ever stranded: its send_event is on   *)
(* the clock engine, or the output that denied it has its deny bit set and *)
(* either still owes the retry() or is in the retry_muxed loop that has    *)
(* yet to come to this input, however retry(), resp() and the requests     *)
(* re-entering from them interleave.                                       *)
(***************************************************************************)
THEOREM RouterParkedHasMover ==
    Spec => []ParkedHasMover
<1>1. IInv => ParkedHasMover
  BY DEF IInv
<1> QED BY <1>1, RouterSafe, PTL
=============================================================================
