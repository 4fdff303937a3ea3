---------------------- MODULE BandwidthSplitterProofs ----------------------
(***************************************************************************)
(* The safety of two components, each for every value of its constants;    *)
(* neither part uses a definition of the other.                            *)
(*                                                                         *)
(* The bandwidth router (RouterBandwidth): IInv says where each request is *)
(* and what each InFlight object stands for.                               *)
(*                                                                         *)
(* The width splitter (SplitterV2): issue cuts a request into chunks that  *)
(* tile it (ChunksTile, SizeOfAll), and SplitterInv follows each parent    *)
(* through input_req, output_resp and output_retry: its chunks are parked, *)
(* held by a slave or answered, in one of these only, and its aggregation  *)
(* context is that of the answered ones (ReqState).                        *)
(***************************************************************************)
EXTENDS RouterBandwidth, SplitterV2, FiniteSetTheorems, WellFoundedInduction, TLAPS

(* What resp_muxed will put back after a beat that is not the last one.    *)
HeldComesBack ==
    ctl.pc = "muxed" /\ ~ctl.last =>
        down[ctl.req] # NoOut /\ input[ctl.ifl] = PortOf[ctl.req]

IInv == TypeOK /\ OnePlace /\ HeldComesBack /\ FrontWaitsForRetry /\ BandwidthKept

-----------------------------------------------------------------------------
(* The queues: which requests are in one, and in which order. *)
In(s, r) == \E k \in DOMAIN s : s[k][1] = r

Distinct(s) == \A j, k \in DOMAIN s : s[j][1] = s[k][1] => j = k

LEMMA AppendQueue ==
    ASSUME NEW s \in Seq(Reqs \X Outputs), NEW r \in Reqs, NEW o \in Outputs,
           Distinct(s), ~In(s, r)
    PROVE  /\ Append(s, <<r, o>>) \in Seq(Reqs \X Outputs)
           /\ Distinct(Append(s, <<r, o>>))
           /\ \A q : In(Append(s, <<r, o>>), q) <=> In(s, q) \/ q = r
           /\ Append(s, <<r, o>>) # <<>>
           /\ Head(Append(s, <<r, o>>)) = IF s = <<>> THEN <<r, o>> ELSE Head(s)
<1> PICK e, t : e = <<r, o>> /\ t = Append(s, e)
  OBVIOUS
<1>1. /\ t \in Seq(Reqs \X Outputs) /\ Len(t) = Len(s) + 1 /\ Len(s) \in Nat
      /\ \A k \in 1 .. Len(s) : t[k] = s[k]
      /\ t[Len(s) + 1] = e /\ e[1] = r
  OBVIOUS
<1>2. DOMAIN t = 1 .. Len(s) + 1 /\ DOMAIN s = 1 .. Len(s)
  BY <1>1
<1>3. Distinct(t)
  BY <1>1, <1>2 DEF Distinct, In
<1>4. \A q : In(t, q) <=> In(s, q) \/ q = r
  BY <1>1, <1>2 DEF In
<1>5. t # <<>> /\ Head(t) = IF s = <<>> THEN <<r, o>> ELSE Head(s)
  BY <1>1
<1> QED BY <1>1, <1>3, <1>4, <1>5

LEMMA TailQueue ==
    ASSUME NEW s \in Seq(Reqs \X Outputs), s # <<>>, Distinct(s)
    PROVE  /\ Tail(s) \in Seq(Reqs \X Outputs)
           /\ Distinct(Tail(s))
           /\ \A q : In(Tail(s), q) <=> In(s, q) /\ q # Head(s)[1]
           /\ Head(s) \in Reqs \X Outputs /\ In(s, Head(s)[1])
<1> PICK t : t = Tail(s)
  OBVIOUS
<1>1. /\ t \in Seq(Reqs \X Outputs) /\ Len(t) = Len(s) - 1 /\ Len(s) \in Nat \ {0}
      /\ \A k \in 1 .. Len(t) : t[k] = s[k + 1]
      /\ Head(s) = s[1] /\ s[1] \in Reqs \X Outputs
  <2>1. Len(s) \in Nat \ {0}
    OBVIOUS
  <2>2. t \in Seq(Reqs \X Outputs) /\ Len(t) = Len(s) - 1
    OBVIOUS
  <2>3. \A k \in 1 .. Len(t) : t[k] = s[k + 1]
    BY <2>1, <2>2
  <2> QED BY <2>1, <2>2, <2>3
<1>2. DOMAIN t = 1 .. Len(s) - 1 /\ DOMAIN s = 1 .. Len(s)
  BY <1>1
<1>3. Distinct(t)
  BY <1>1, <1>2 DEF Distinct
<1>4. ASSUME NEW q PROVE In(t, q) <=> In(s, q) /\ q # Head(s)[1]
  <2>1. ASSUME In(t, q) PROVE In(s, q) /\ q # Head(s)[1]
    <3>1. PICK k \in 1 .. Len(t) : t[k][1] = q
      BY <1>1, <1>2, <2>1 DEF In
    <3>2. k + 1 \in DOMAIN s /\ 1 \in DOMAIN s /\ k + 1 # 1 /\ s[k + 1][1] = q
      BY <1>1, <1>2, <3>1
    <3>3. s[k + 1][1] # s[1][1]
      BY <3>2 DEF Distinct
    <3> QED BY <1>1, <3>2, <3>3 DEF In
  <2>2. ASSUME In(s, q), q # Head(s)[1] PROVE In(t, q)
    <3>1. PICK k \in 1 .. Len(s) : s[k][1] = q
      BY <1>2, <2>2 DEF In
    <3>2. k # 1 /\ k - 1 \in 1 .. Len(t) /\ t[k - 1] = s[k]
      BY <1>1, <2>2, <3>1
    <3> QED BY <1>1, <1>2, <3>1, <3>2 DEF In
  <2> QED BY <2>1, <2>2
<1>5. In(s, Head(s)[1])
  BY <1>1, <1>2 DEF In
<1> QED BY <1>1, <1>3, <1>4, <1>5

(* OnePlace, said of each queue and of each request. *)
OwnQueue(i) == Distinct(queue[i]) /\ \A q : In(queue[i], q) => q \in Reqs /\ PortOf[q] = i

Waits(r) == In(queue[PortOf[r]], r)

Placed(r) ==
    /\ up[r] \in {"idle", "granted"}
    /\ up[r] = "granted" <=> Waits(r) \/ down[r] # NoOut
    /\ ~(Waits(r) /\ down[r] # NoOut)
    /\ offsets[r] = IF down[r] # NoOut THEN 1 ELSE 0

Places == /\ \A i \in Inputs : OwnQueue(i)
          /\ \A r \in Reqs : Placed(r)

LEMMA AfterStep ==
    /\ \A i : OwnQueue(i)' <=> /\ Distinct(queue'[i])
                              /\ \A q : In(queue'[i], q) => q \in Reqs /\ PortOf[q] = i
    /\ \A r : Waits(r)' <=> In(queue'[PortOf[r]], r)
BY DEF OwnQueue, Waits, Distinct, In

LEMMA OnePlaceIs ==
    ASSUME queue \in [Inputs -> Seq(Reqs \X Outputs)]
    PROVE  OnePlace <=> Places /\ InFlightOwned
<1>0. \A i \in Inputs : \A k \in DOMAIN queue[i] : queue[i][k][1] \in Reqs
  <2> SUFFICES ASSUME NEW i \in Inputs, NEW k \in DOMAIN queue[i] PROVE queue[i][k][1] \in Reqs
    OBVIOUS
  <2>1. queue[i] \in Seq(Reqs \X Outputs)
    OBVIOUS
  <2> QED BY <2>1
<1>1. (\A i \in Inputs : OwnQueue(i))
        <=> \A i \in Inputs : \A j, k \in DOMAIN queue[i] :
               /\ PortOf[queue[i][j][1]] = i
               /\ queue[i][j][1] = queue[i][k][1] => j = k
  BY <1>0 DEF OwnQueue, Distinct, In
<1>2. ASSUME \A i \in Inputs : OwnQueue(i), NEW r \in Reqs PROVE Queued(r) <=> Waits(r)
  <2>1. PortOf[r] \in Inputs
    BY RouterAssumption
  <2>2. Queued(r) <=> \E i \in Inputs : In(queue[i], r)
    BY DEF Queued, In
  <2> QED BY <1>2, <2>1, <2>2 DEF OwnQueue, Waits
<1> QED BY <1>1, <1>2 DEF OnePlace, Places, Placed

-----------------------------------------------------------------------------
LEMMA StatusCases ==
    /\ IoReqStatus = {"done", "granted", "denied"}
    /\ IO_REQ_DONE = "done" /\ IO_REQ_GRANTED = "granted" /\ IO_REQ_DENIED = "denied"
    /\ MasterStates = {"idle", "granted", "denied", "error"} /\ AfterResp("granted") = "idle"
BY DEF IoReqStatus, IO_REQ_DONE, IO_REQ_GRANTED, IO_REQ_DENIED, AfterResp, MasterStates

LEMMA PortFacts ==
    /\ \A r \in Reqs : PortOf[r] \in Inputs /\ PortOf[r] \in Ports /\ Duration[r] \in Nat
    /\ \A o \in Outputs : o \in Ports /\ o \notin Inputs
    /\ 0 \in Inputs /\ \A i \in Inputs : i \in Int /\ i + 1 \in 0 .. NbInputs /\ 0 <= i /\ i < NbInputs
    /\ Own \notin Pool /\ Pool \subseteq Nat
BY RouterAssumption DEF Inputs, Ports, Own, Pool

(***************************************************************************)
(* alloc_inflight never runs out, with one InFlight more than there are    *)
(* requests: one for each request at a slave and the one that resp_muxed   *)
(* holds, while the request it allocates for has none.                     *)
(***************************************************************************)
LEMMA FreeInFlight ==
    ASSUME TypeOK, InFlightOwned, NEW r \in Reqs, initiator[r] = Own
    PROVE  alloc_inflight \in Pool \ (Held \cup Range(initiator))
<1>1. \E n \in Pool : n \in Free
  <2> SUFFICES ASSUME \A n \in Pool : n \in Held \cup Range(initiator) PROVE FALSE
    BY DEF Free
  <2> DEFINE f == [n \in Pool |-> IF n \in Held THEN r ELSE CHOOSE q \in Reqs : initiator[q] = n]
  <2>1. \A n \in Pool : n \notin Held => f[n] \in Reqs /\ initiator[f[n]] = n
    BY DEF Range, TypeOK
  <2>2. \A n \in Pool : n \in Held => f[n] = r
    OBVIOUS
  <2>3. f \in [Pool -> Reqs]
    BY <2>1, <2>2
  <2>4. IsFiniteSet(Reqs) /\ Cardinality(Reqs) \in Nat
    <3>1. IsFiniteSet(Reqs)
      BY RouterAssumption
    <3> QED BY <3>1, FS_CardinalityType
  <2>5. IsFiniteSet(Pool) /\ Cardinality(Pool) = Cardinality(Reqs) + 1
    <3> PICK c \in Nat : c = Cardinality(Reqs)
      BY <2>4
    <3>0. PICK b \in Int : b = c + 1 /\ b >= 1
      OBVIOUS
    <3>1. IsFiniteSet(1 .. b) /\ Cardinality(1 .. b) = IF 1 > b THEN 0 ELSE b - 1 + 1
      <4>1. 1 \in Int /\ b \in Int
        OBVIOUS
      <4> QED BY <4>1, FS_Interval
    <3>2. Cardinality(1 .. b) = c + 1
      BY <3>0, <3>1
    <3> QED BY <3>0, <3>1, <3>2 DEF Pool
  <2> HIDE DEF f
  <2>6. PICK x \in Pool, y \in Pool : x # y /\ f[x] = f[y]
    BY <2>3, <2>4, <2>5, FS_PigeonHole
  <2>7. Held = {} \/ Held = {ctl.ifl}
    BY DEF Held
  <2> QED BY <2>1, <2>2, <2>6, <2>7, PortFacts
<1> QED BY <1>1 DEF alloc_inflight, Free

(***************************************************************************)
(* forward_inline for a request that is with no slave: the outputs that    *)
(* are stalled owe a retry(), the InFlight it takes is its own, and the    *)
(* watermarks stay ahead of the transfers they account for.                *)
(***************************************************************************)
Forwarded(r, out, st) ==
    /\ stalled' = (IF st = IO_REQ_DENIED THEN stalled \cup {out} ELSE stalled)
    /\ owes' = (IF st = IO_REQ_DENIED THEN owes \cup {out} ELSE owes)
    /\ down' = [down EXCEPT ![r] = IF st = IO_REQ_GRANTED THEN out ELSE @]
    /\ offsets' = [offsets EXCEPT ![r] = IF st = IO_REQ_GRANTED THEN 1 ELSE @]
    /\ initiator' \in [Reqs -> Pool \cup {Own}] /\ input' \in [Pool -> Inputs]
    /\ ahead' \in [Ports -> Nat] /\ work' \in [Ports -> Nat]
    /\ InFlightOwned' /\ HeldComesBack' /\ BandwidthKept'

SameHeld == ctl' = ctl \/ (ctl.pc # "muxed" /\ ctl'.pc # "muxed")

LEMMA AdvanceStep ==
    ASSUME TypeOK, BandwidthKept, NEW in \in Ports, NEW out \in Ports, in # out, NEW d \in Nat,
           Advance(in, out, d)
    PROVE  ahead' \in [Ports -> Nat] /\ work' \in [Ports -> Nat] /\ BandwidthKept'
<1> PICK wait : wait = IF ahead[in] < ahead[out] THEN ahead[out] ELSE ahead[in]
  OBVIOUS
<1>1. /\ ahead \in [Ports -> Nat] /\ work \in [Ports -> Nat]
      /\ ahead' = [ahead EXCEPT ![in] = wait + d, ![out] = wait + d]
      /\ work' = [work EXCEPT ![in] = @ + d, ![out] = @ + d]
  BY DEF Advance, TypeOK
<1>2. /\ wait \in Nat /\ ahead[in] <= wait /\ ahead[out] <= wait
      /\ work[in] <= ahead[in] /\ work[out] <= ahead[out]
  BY <1>1 DEF BandwidthKept
<1>3. ahead' \in [Ports -> Nat] /\ work' \in [Ports -> Nat]
  BY <1>1, <1>2
<1>4. ASSUME NEW p \in Ports PROVE work'[p] <= ahead'[p]
  <2>1. CASE p = in \/ p = out
    BY <1>1, <1>2, <2>1
  <2>2. CASE p # in /\ p # out
    BY <1>1, <2>2 DEF BandwidthKept
  <2> QED BY <2>1, <2>2
<1> QED BY <1>3, <1>4 DEF BandwidthKept

(* An InFlight is neither taken nor given back. *)
LEMMA InFlightKept ==
    ASSUME TypeOK, InFlightOwned, HeldComesBack, SameHeld,
           UNCHANGED <<initiator, input, down>>
    PROVE  InFlightOwned' /\ HeldComesBack'
<1>1. CASE ctl' = ctl
  BY <1>1 DEF InFlightOwned, HeldComesBack, Held
<1>2. CASE ctl.pc # "muxed" /\ ctl'.pc # "muxed"
  BY <1>2 DEF InFlightOwned, HeldComesBack, Held
<1> QED BY <1>1, <1>2 DEF SameHeld

LEMMA ForwardStep ==
    ASSUME TypeOK, InFlightOwned, HeldComesBack, BandwidthKept, SameHeld,
           NEW r \in Reqs, NEW out \in Outputs, NEW st \in IoReqStatus,
           down[r] = NoOut, offsets[r] = 0, ForwardInline(r, out, st)
    PROVE  Forwarded(r, out, st)
<1>0. /\ PortOf[r] \in Inputs /\ PortOf[r] \in Ports /\ out \in Ports /\ PortOf[r] # out
      /\ Duration[r] \in Nat
  BY PortFacts
<1>1. CASE st = IO_REQ_DENIED
  <2>1. /\ stalled' = stalled \cup {out} /\ owes' = owes \cup {out}
        /\ UNCHANGED <<ahead, work, offsets, initiator, input, down>>
    BY <1>1, StatusCases DEF ForwardInline
  <2>2. InFlightOwned' /\ HeldComesBack'
    BY <2>1, InFlightKept
  <2>3. BandwidthKept'
    BY <2>1 DEF BandwidthKept
  <2> QED BY <1>1, <2>1, <2>2, <2>3, StatusCases DEF Forwarded, TypeOK
<1>2. CASE st = IO_REQ_DONE
  <2>1. UNCHANGED <<stalled, owes, initiator, input, down, offsets>>
    BY <1>2, StatusCases DEF ForwardInline
  <2>2. InFlightOwned' /\ HeldComesBack'
    BY <2>1, InFlightKept
  <2>3. ahead' \in [Ports -> Nat] /\ work' \in [Ports -> Nat] /\ BandwidthKept'
    <3>1. Advance(PortOf[r], out, Duration[r])
      BY <1>2, StatusCases DEF ForwardInline
    <3> QED BY <1>0, <3>1, AdvanceStep
  <2> QED BY <1>2, <2>1, <2>2, <2>3, StatusCases DEF Forwarded, TypeOK
<1>3. CASE st = IO_REQ_GRANTED
  <2> PICK n : n = alloc_inflight
    OBVIOUS
  <2>1. /\ initiator' = [initiator EXCEPT ![r] = n] /\ input' = [input EXCEPT ![n] = PortOf[r]]
        /\ down' = [down EXCEPT ![r] = out] /\ offsets' = [offsets EXCEPT ![r] = 1]
        /\ UNCHANGED <<stalled, owes>>
    BY <1>3, StatusCases DEF ForwardInline, TypeOK
  <2>2. initiator[r] = Own
    BY DEF InFlightOwned
  <2>3. n \in Pool /\ n \notin Held /\ \A q \in Reqs : initiator[q] # n
    BY <2>2, FreeInFlight DEF Range, TypeOK
  <2>4. /\ initiator' \in [Reqs -> Pool \cup {Own}] /\ input' \in [Pool -> Inputs]
        /\ \A q \in Reqs \ {r} : initiator'[q] = initiator[q] /\ down'[q] = down[q]
        /\ initiator'[r] = n /\ down'[r] = out /\ input'[n] = PortOf[r]
        /\ \A m \in Pool \ {n} : input'[m] = input[m]
        /\ n # Own /\ out # NoOut
    BY <1>0, <2>1, <2>3, PortFacts, RouterAssumption DEF TypeOK
  <2>5. /\ Held' = Held /\ (ctl'.pc = "muxed" => ctl' = ctl)
        /\ ctl.pc = "muxed" => ctl' = ctl /\ ctl.req \in Reqs /\ ctl.ifl \in Pool /\ ctl.ifl \in Held
        /\ ctl.pc = "muxed" /\ ~ctl.last => ctl.req # r
    <3>1. ctl.pc = "muxed" => ctl \in [pc : {"muxed"}, req : Reqs, ifl : Pool, last : BOOLEAN]
      BY DEF TypeOK, Idle
    <3>2. ctl.pc = "muxed" => ctl.req \in Reqs /\ ctl.ifl \in Pool /\ ctl.ifl \in Held
      BY <3>1 DEF Held
    <3>3. Held' = Held /\ (ctl'.pc = "muxed" => ctl' = ctl) /\ (ctl.pc = "muxed" => ctl' = ctl)
      BY DEF SameHeld, Held
    <3> QED BY <3>2, <3>3 DEF HeldComesBack
  <2>6. HeldComesBack'
    BY <2>3, <2>4, <2>5 DEF HeldComesBack
  <2>7. ASSUME NEW q \in Reqs
        PROVE  LET shown == ctl'.pc = "muxed" /\ ~ctl'.last /\ ctl'.req = q
               IN  /\ initiator'[q] # Own <=> down'[q] # NoOut /\ ~shown
                   /\ initiator'[q] # Own => input'[initiator'[q]] = PortOf[q]
                   /\ initiator'[q] # Own => initiator'[q] \notin Held'
    <3>1. CASE q = r
      BY <2>3, <2>4, <2>5, <3>1
    <3>2. CASE q # r
      <4>1. ctl'.pc = "muxed" /\ ~ctl'.last /\ ctl'.req = q <=> ctl.pc = "muxed" /\ ~ctl.last /\ ctl.req = q
        BY <2>5
      <4>2. /\ initiator'[q] = initiator[q] /\ down'[q] = down[q] /\ Held' = Held
            /\ initiator[q] # Own => initiator[q] \in Pool \ {n}
        BY <2>3, <2>4, <2>5, <3>2 DEF TypeOK
      <4>3. initiator[q] # Own => input'[initiator[q]] = input[initiator[q]]
        BY <2>4, <4>2
      <4> QED BY <4>1, <4>2, <4>3 DEF InFlightOwned
    <3> QED BY <3>1, <3>2
  <2>8. \A q, s \in Reqs : initiator'[q] = initiator'[s] => q = s \/ initiator'[q] = Own
    BY <2>3, <2>4 DEF InFlightOwned
  <2>9. InFlightOwned'
    BY <2>7, <2>8 DEF InFlightOwned
  <2>10. ahead' \in [Ports -> Nat] /\ work' \in [Ports -> Nat] /\ BandwidthKept'
    <3>1. Advance(PortOf[r], out, Duration[r])
      BY <1>3, StatusCases DEF ForwardInline
    <3> QED BY <1>0, <3>1, AdvanceStep
  <2> QED BY <1>3, <2>1, <2>4, <2>6, <2>9, <2>10, StatusCases DEF Forwarded
<1> QED BY <1>1, <1>2, <1>3, StatusCases

-----------------------------------------------------------------------------
LEMMA InitIInv == Init => IInv
<1> SUFFICES ASSUME Init PROVE IInv
  OBVIOUS
<1>1. TypeOK
  BY PortFacts DEF Init, TypeOK, MasterStates
<1>2. Places
  BY PortFacts, RouterAssumption DEF Init, Places, OwnQueue, Distinct, In, Placed, Waits
<1>3. InFlightOwned /\ HeldComesBack
  BY DEF Init, InFlightOwned, HeldComesBack, Idle
<1>4. OnePlace
  BY <1>1, <1>2, <1>3, OnePlaceIs DEF TypeOK
<1>5. FrontWaitsForRetry /\ BandwidthKept
  BY DEF Init, FrontWaitsForRetry, BandwidthKept
<1> QED BY <1>1, <1>3, <1>4, <1>5 DEF IInv

(* IInv in the form the steps below keep it. *)
FrontOK(i) == queue[i] # <<>> => FrontStalled(i) \/ StillToScan(i) \/ BeingDrained(i)

Parts ==
    /\ TypeOK /\ Places /\ InFlightOwned /\ HeldComesBack /\ BandwidthKept
    /\ stalled = owes /\ \A i \in Inputs : FrontOK(i)

LEMMA IInvParts == IInv <=> Parts
<1>1. TypeOK => (OnePlace <=> Places /\ InFlightOwned)
  BY OnePlaceIs DEF TypeOK
<1> QED BY <1>1 DEF IInv, Parts, FrontWaitsForRetry, FrontOK

(* The primed copy, where TypeOK' is known. *)
LEMMA PartsIInv == ASSUME Parts' PROVE IInv'
BY IInvParts, PTL

(* push_back on the queue of r's input. *)
LEMMA EnqueueStep ==
    ASSUME Parts, NEW r \in Reqs, NEW out \in Outputs, up[r] = "idle",
           queue' = Queue(r, out), up' = [up EXCEPT ![r] = "granted"],
           UNCHANGED <<down, offsets, ctl>>, stalled \subseteq stalled', out \in stalled'
    PROVE  /\ queue' \in [Inputs -> Seq(Reqs \X Outputs)] /\ up' \in [Reqs -> MasterStates]
           /\ Places' /\ \A i \in Inputs : FrontOK(i)'
<1> PICK in, s, t : in = PortOf[r] /\ s = queue[in] /\ t = Append(s, <<r, out>>)
  OBVIOUS
<1>0. /\ in = PortOf[r] /\ in \in Inputs /\ s = queue[in] /\ s \in Seq(Reqs \X Outputs)
      /\ Placed(r) /\ ~Waits(r) /\ down[r] = NoOut
      /\ \A i \in Inputs : OwnQueue(i)
  BY PortFacts DEF Parts, TypeOK, Places, Placed
<1>1. /\ t \in Seq(Reqs \X Outputs) /\ Distinct(t) /\ t # <<>>
      /\ \A q : In(t, q) <=> In(s, q) \/ q = r
      /\ Head(t) = IF s = <<>> THEN <<r, out>> ELSE Head(s)
  <2>1. Distinct(s) /\ ~In(s, r)
    BY <1>0 DEF OwnQueue, Waits
  <2> QED BY <1>0, <2>1, AppendQueue
<1>2. /\ queue' \in [Inputs -> Seq(Reqs \X Outputs)] /\ queue'[in] = t
      /\ \A i \in Inputs \ {in} : queue'[i] = queue[i]
  BY <1>0, <1>1 DEF Queue, Parts, TypeOK
<1>3. up' \in [Reqs -> MasterStates] /\ up'[r] = "granted" /\ \A q \in Reqs \ {r} : up'[q] = up[q]
  BY StatusCases DEF Parts, TypeOK
<1>4. \A i \in Inputs : OwnQueue(i)'
  <2> SUFFICES ASSUME NEW i \in Inputs
               PROVE  /\ Distinct(queue'[i])
                      /\ \A q : In(queue'[i], q) => q \in Reqs /\ PortOf[q] = i
    BY AfterStep
  <2> QED BY <1>0, <1>1, <1>2 DEF OwnQueue
<1>5. \A q \in Reqs : Waits(q)' <=> Waits(q) \/ q = r
  <2> SUFFICES ASSUME NEW q \in Reqs PROVE In(queue'[PortOf[q]], q) <=> Waits(q) \/ q = r
    BY AfterStep
  <2>1. PortOf[q] \in Inputs
    BY PortFacts
  <2> QED BY <1>0, <1>1, <1>2, <2>1 DEF Waits
<1>6. \A q \in Reqs : Placed(q)'
  BY <1>0, <1>3, <1>5 DEF Parts, Places, Placed
<1>7. ASSUME NEW i \in Inputs PROVE FrontOK(i)'
  <2>1. CASE i = in /\ s = <<>>
    BY <1>1, <1>2, <2>1 DEF FrontOK, FrontStalled
  <2>2. CASE ~(i = in /\ s = <<>>)
    <3>1. queue'[i] # <<>> => queue[i] # <<>> /\ Head(queue'[i]) = Head(queue[i])
      BY <1>0, <1>1, <1>2, <2>2
    <3>2. FrontOK(i) /\ ctl' = ctl
      BY DEF Parts
    <3> QED BY <3>1, <3>2 DEF FrontOK, FrontStalled, StillToScan, BeingDrained, FrontIs
  <2> QED BY <2>1, <2>2
<1> QED BY <1>2, <1>3, <1>4, <1>6, <1>7 DEF Places

LEMMA MasterReqIInv ==
    ASSUME IInv, NEW r \in Reqs, NEW out \in Outputs, MasterReq(r, out) PROVE IInv'
<1>0. /\ Parts /\ up[r] = "idle" /\ ctl' = ctl /\ ReqMuxed(r, out)
      /\ down[r] = NoOut /\ offsets[r] = 0 /\ ~Waits(r)
  BY IInvParts DEF MasterReq, Parts, Places, Placed
<1>1. CASE /\ out \in stalled
           /\ queue' = Queue(r, out)
           /\ up' = [up EXCEPT ![r] = "granted"]
           /\ UNCHANGED <<stalled, initiator, input, ahead, work, offsets, down, owes>>
  <2>1. /\ queue' \in [Inputs -> Seq(Reqs \X Outputs)] /\ up' \in [Reqs -> MasterStates]
        /\ Places' /\ \A i \in Inputs : FrontOK(i)'
    BY <1>0, <1>1, EnqueueStep
  <2>2. InFlightOwned' /\ HeldComesBack'
    BY <1>0, <1>1, InFlightKept DEF Parts, SameHeld
  <2>3. TypeOK' /\ BandwidthKept'
    BY <1>0, <1>1, <2>1 DEF Parts, TypeOK, BandwidthKept
  <2>4. stalled' = owes'
    BY <1>0, <1>1 DEF Parts
  <2>5. Parts'
    BY <2>1, <2>2, <2>3, <2>4 DEF Parts
  <2> QED BY <2>5, PartsIInv
<1>2. ASSUME NEW st \in IoReqStatus, ForwardInline(r, out, st),
             queue' = IF st = IO_REQ_DENIED THEN Queue(r, out) ELSE queue,
             up' = [up EXCEPT ![r] = IF st = IO_REQ_DONE THEN "idle" ELSE "granted"]
      PROVE  IInv'
  <2>1. Forwarded(r, out, st)
    BY <1>0, <1>2, ForwardStep DEF Parts, SameHeld
  <2>2. stalled' = owes' /\ stalled' \subseteq Outputs /\ stalled \subseteq stalled'
    BY <1>0, <2>1 DEF Forwarded, Parts, TypeOK
  <2>3. /\ queue' \in [Inputs -> Seq(Reqs \X Outputs)] /\ up' \in [Reqs -> MasterStates]
        /\ Places' /\ \A i \in Inputs : FrontOK(i)'
    <3>1. CASE st = IO_REQ_DENIED
      <4>1. /\ UNCHANGED <<down, offsets>> /\ out \in stalled' /\ queue' = Queue(r, out)
            /\ up' = [up EXCEPT ![r] = "granted"]
        BY <1>0, <1>2, <2>1, <3>1, StatusCases DEF Forwarded, Parts, TypeOK
      <4> QED BY <1>0, <2>2, <4>1, EnqueueStep
    <3>2. CASE st # IO_REQ_DENIED
      <4>1. /\ UNCHANGED <<queue, stalled>>
            /\ \A q \in Reqs \ {r} : /\ up'[q] = up[q] /\ down'[q] = down[q]
                                     /\ offsets'[q] = offsets[q]
            /\ up' \in [Reqs -> MasterStates]
            /\ \/ up'[r] = "idle" /\ down'[r] = NoOut /\ offsets'[r] = 0
               \/ up'[r] = "granted" /\ down'[r] # NoOut /\ offsets'[r] = 1
        BY <1>0, <1>2, <2>1, <3>2, StatusCases, RouterAssumption DEF Forwarded, Parts, TypeOK
      <4>2. Places'
        BY <1>0, <4>1 DEF Parts, Places, Placed, OwnQueue, Waits
      <4>3. \A i \in Inputs : FrontOK(i)'
        BY <1>0, <4>1
           DEF Parts, FrontOK, FrontStalled, StillToScan, BeingDrained, FrontIs
      <4>4. queue' \in [Inputs -> Seq(Reqs \X Outputs)]
        BY <1>0, <4>1 DEF Parts, TypeOK
      <4> QED BY <4>1, <4>2, <4>3, <4>4
    <3> QED BY <3>1, <3>2
  <2>4. TypeOK'
    <3>1. down' \in [Reqs -> Outputs \cup {NoOut}] /\ offsets' \in [Reqs -> {0, 1}]
      BY <1>0, <2>1 DEF Forwarded, Parts, TypeOK
    <3>2. owes' \subseteq Outputs /\ stalled' \subseteq Outputs
      BY <2>2
    <3> QED BY <1>0, <2>1, <2>3, <3>1, <3>2 DEF Forwarded, Parts, TypeOK
  <2>5. Parts'
    BY <2>1, <2>2, <2>3, <2>4 DEF Parts, Forwarded
  <2> QED BY <2>5, PartsIInv
<1> QED BY <1>0, <1>1, <1>2 DEF ReqMuxed

-----------------------------------------------------------------------------
CtlType ==
    \/ ctl = Idle
    \/ ctl \in [pc : {"scan"}, out : Outputs, in : 0 .. NbInputs]
    \/ ctl \in [pc : {"drain", "resp"}, out : Outputs, in : Inputs]
    \/ ctl \in [pc : {"muxed"}, req : Reqs, ifl : Pool, last : BOOLEAN]

LEMMA DrainState ==
    ASSUME TypeOK
    PROVE  /\ ctl.pc = "scan" => ctl \in [pc : {"scan"}, out : Outputs, in : 0 .. NbInputs]
           /\ ctl.pc \in {"drain", "resp"} =>
                 ctl \in [pc : {"drain", "resp"}, out : Outputs, in : Inputs]
           /\ ctl.pc = "muxed" => ctl \in [pc : {"muxed"}, req : Reqs, ifl : Pool, last : BOOLEAN]
           /\ ctl.pc = "idle" => ctl = Idle
BY DEF TypeOK, Idle

LEMMA ScanState ==
    ASSUME NEW o \in Outputs, NEW i \in 0 .. NbInputs
    PROVE  /\ Scan(o, i) \in [pc : {"scan"}, out : Outputs, in : 0 .. NbInputs]
           /\ Scan(o, i).pc = "scan" /\ Scan(o, i).out = o /\ Scan(o, i).in = i
BY DEF Scan

(* drain_queue forwards the front of the queue of ctl.in. *)
LEMMA DrainForwardsIInv ==
    ASSUME IInv, NEW st \in IoReqStatus, DrainForwards(st) PROVE IInv'
<1> PICK in, s, o : in = ctl.in /\ s = queue[ctl.in] /\ o = ctl.out
  OBVIOUS
<1>0. /\ Parts /\ in = ctl.in /\ s = queue[in] /\ o = ctl.out /\ ctl.pc = "drain" /\ s # <<>>
      /\ ctl \in [pc : {"drain", "resp"}, out : Outputs, in : Inputs]
      /\ in \in Inputs /\ o \in Outputs /\ in \in Int /\ in + 1 \in 0 .. NbInputs
      /\ s \in Seq(Reqs \X Outputs) /\ Distinct(s)
  <2>1. Parts /\ ctl.pc = "drain" /\ s # <<>>
    BY IInvParts DEF DrainForwards
  <2>2. ctl \in [pc : {"drain", "resp"}, out : Outputs, in : Inputs]
    BY <2>1, DrainState DEF Parts
  <2>3. in \in Inputs /\ o \in Outputs
    BY <2>2
  <2> QED BY <2>1, <2>2, <2>3, PortFacts DEF Parts, TypeOK, Places, OwnQueue
<1>1. /\ Tail(s) \in Seq(Reqs \X Outputs) /\ Distinct(Tail(s))
      /\ \A q : In(Tail(s), q) <=> In(s, q) /\ q # Head(s)[1]
      /\ Head(s) \in Reqs \X Outputs /\ In(s, Head(s)[1])
  BY <1>0, TailQueue
<1> PICK r \in Reqs, out \in Outputs : r = Head(s)[1] /\ out = Head(s)[2]
  BY <1>1
<1>2. /\ r = Head(s)[1] /\ out = Head(s)[2] /\ PortOf[r] = in /\ Waits(r) /\ Placed(r)
      /\ up[r] = "granted" /\ down[r] = NoOut /\ offsets[r] = 0
  BY <1>0, <1>1 DEF Parts, Places, OwnQueue, Placed, Waits
<1>3. /\ ForwardInline(r, out, st)
      /\ queue' = (IF st = IO_REQ_DENIED THEN queue ELSE [queue EXCEPT ![in] = Tail(s)])
      /\ up' = [up EXCEPT ![r] = IF st = IO_REQ_DONE THEN "idle" ELSE @]
      /\ ctl' = CASE st = IO_REQ_DONE    -> [ctl EXCEPT !.pc = "resp"]
                  [] st = IO_REQ_GRANTED -> ctl
                  [] st = IO_REQ_DENIED  -> Scan(o, in + 1)
  <2>1. up' = [up EXCEPT ![r] = IF st = IO_REQ_DONE THEN AfterResp(@) ELSE @]
    BY <1>0, <1>2 DEF DrainForwards
  <2>2. up' = [up EXCEPT ![r] = IF st = IO_REQ_DONE THEN "idle" ELSE @]
    BY <1>2, <2>1, StatusCases
  <2> QED BY <1>0, <1>2, <2>2 DEF DrainForwards
<1>4. /\ ctl'.pc \in Draining /\ ctl'.pc # "muxed" /\ ctl'.out = o
      /\ st = IO_REQ_DENIED => ctl'.in = in + 1
      /\ st # IO_REQ_DENIED => ctl'.in = in /\ ctl'.pc \in {"drain", "resp"}
      /\ CtlType'
  <2>1. CASE st = IO_REQ_DONE
    <3>1. ctl' = [ctl EXCEPT !.pc = "resp"]
      BY <1>3, <2>1, StatusCases
    <3> QED BY <1>0, <2>1, <3>1, StatusCases DEF Draining, CtlType
  <2>2. CASE st = IO_REQ_GRANTED
    <3>1. ctl' = ctl
      BY <1>3, <2>2, StatusCases
    <3> QED BY <1>0, <2>2, <3>1, StatusCases DEF Draining, CtlType
  <2>3. CASE st = IO_REQ_DENIED
    <3>1. ctl' = Scan(o, in + 1)
      BY <1>3, <2>3, StatusCases
    <3> QED BY <1>0, <2>3, <3>1, ScanState DEF Draining, CtlType
  <2> QED BY <2>1, <2>2, <2>3, StatusCases
<1>5. Forwarded(r, out, st)
  BY <1>0, <1>2, <1>3, <1>4, ForwardStep DEF Parts, SameHeld
<1>6. stalled' = owes' /\ stalled' \subseteq Outputs /\ stalled \subseteq stalled'
  BY <1>0, <1>5 DEF Forwarded, Parts, TypeOK
<1>7. /\ queue' \in [Inputs -> Seq(Reqs \X Outputs)] /\ up' \in [Reqs -> MasterStates]
      /\ down' \in [Reqs -> Outputs \cup {NoOut}] /\ offsets' \in [Reqs -> {0, 1}]
  BY <1>0, <1>1, <1>3, <1>5, StatusCases DEF Forwarded, Parts, TypeOK
<1>8. TypeOK'
  BY <1>4, <1>5, <1>6, <1>7 DEF TypeOK, CtlType, Forwarded
<1>9. /\ \A i \in Inputs \ {in} : queue'[i] = queue[i]
      /\ queue'[in] = IF st = IO_REQ_DENIED THEN s ELSE Tail(s)
  BY <1>0, <1>3 DEF Parts, TypeOK
<1>10. \A i \in Inputs : OwnQueue(i)'
  <2> SUFFICES ASSUME NEW i \in Inputs
               PROVE  /\ Distinct(queue'[i])
                      /\ \A q : In(queue'[i], q) => q \in Reqs /\ PortOf[q] = i
    BY AfterStep
  <2>1. OwnQueue(i)
    BY <1>0 DEF Parts, Places
  <2> QED BY <1>0, <1>1, <1>9, <2>1 DEF OwnQueue
<1>11. \A q \in Reqs : Waits(q)' <=> Waits(q) /\ (q # r \/ st = IO_REQ_DENIED)
  <2> SUFFICES ASSUME NEW q \in Reqs
               PROVE  In(queue'[PortOf[q]], q) <=> Waits(q) /\ (q # r \/ st = IO_REQ_DENIED)
    BY AfterStep
  <2>1. PortOf[q] \in Inputs
    BY PortFacts
  <2>2. CASE PortOf[q] = in
    BY <1>0, <1>1, <1>2, <1>9, <2>2 DEF Waits
  <2>3. CASE PortOf[q] # in
    BY <1>2, <1>9, <2>1, <2>3 DEF Waits
  <2> QED BY <2>2, <2>3
<1>12. \A q \in Reqs : Placed(q)'
  <2>1. ASSUME NEW q \in Reqs, q # r PROVE Placed(q)'
    <3>1. up'[q] = up[q] /\ down'[q] = down[q] /\ offsets'[q] = offsets[q] /\ Placed(q)
      BY <1>0, <1>3, <1>5, <2>1 DEF Parts, TypeOK, Forwarded, Places
    <3> QED BY <1>11, <2>1, <3>1 DEF Placed
  <2>2. Placed(r)'
    <3>1. /\ up'[r] = IF st = IO_REQ_DONE THEN "idle" ELSE "granted"
          /\ down'[r] = IF st = IO_REQ_GRANTED THEN out ELSE NoOut
          /\ offsets'[r] = IF st = IO_REQ_GRANTED THEN 1 ELSE 0
      BY <1>0, <1>2, <1>3, <1>5 DEF Parts, TypeOK, Forwarded
    <3> QED BY <1>2, <1>11, <3>1, StatusCases, RouterAssumption DEF Placed
  <2> QED BY <2>1, <2>2
<1>13. ASSUME NEW i \in Inputs PROVE FrontOK(i)'
  <2>1. CASE i = in /\ st = IO_REQ_DENIED
    <3>1. Head(queue'[i])[2] \in stalled'
      BY <1>2, <1>5, <1>9, <2>1 DEF Forwarded
    <3> QED BY <3>1 DEF FrontOK, FrontStalled
  <2>2. CASE i = in /\ st # IO_REQ_DENIED
    BY <1>4, <2>2 DEF FrontOK, BeingDrained
  <2>3. CASE i # in
    <3>1. queue'[i] = queue[i] /\ FrontOK(i) /\ i \in Int
      BY <1>0, <1>9, <2>3, PortFacts DEF Parts
    <3>2. FrontStalled(i) => FrontStalled(i)'
      BY <1>6, <3>1 DEF FrontStalled
    <3>3. StillToScan(i) => StillToScan(i)'
      BY <1>0, <1>4, <2>3, <3>1 DEF StillToScan, FrontIs
    <3>4. ~BeingDrained(i)
      BY <1>0, <2>3 DEF BeingDrained
    <3> QED BY <3>1, <3>2, <3>3, <3>4 DEF FrontOK
  <2> QED BY <2>1, <2>2, <2>3
<1>14. Parts'
  BY <1>5, <1>6, <1>8, <1>10, <1>12, <1>13 DEF Parts, Places, Forwarded
<1> QED BY <1>14, PartsIInv

(* The steps of retry_muxed and drain_queue that move no request. *)
LEMMA DrainControlIInv ==
    ASSUME IInv,
           (\E out \in Outputs : RetryMuxed(out)) \/ ScanInput \/ DrainStops \/ DrainResumes
    PROVE  IInv'
<1>0. Parts /\ UNCHANGED <<queue, initiator, input, ahead, work, offsets, up, down>>
  BY IInvParts DEF RetryMuxed, ScanInput, DrainStops, DrainResumes
<1>1. Places'
  BY <1>0 DEF Parts, Places, OwnQueue, Distinct, In, Placed, Waits
<1>2. BandwidthKept'
  BY <1>0 DEF Parts, BandwidthKept
<1>3. /\ CtlType' /\ ctl.pc # "muxed" /\ ctl'.pc # "muxed"
      /\ stalled' = owes' /\ stalled' \subseteq Outputs
      /\ \A i \in Inputs : FrontOK(i)'
  <2>0. stalled = owes /\ stalled \subseteq Outputs /\ TypeOK /\ NbInputs \in Nat
    BY <1>0, RouterAssumption DEF Parts, TypeOK
  <2>1. ASSUME NEW out \in Outputs, RetryMuxed(out)
        PROVE  /\ CtlType' /\ ctl.pc # "muxed" /\ ctl'.pc # "muxed"
               /\ stalled' = owes' /\ stalled' \subseteq Outputs
               /\ \A i \in Inputs : FrontOK(i)'
    <3>1. ctl = Idle /\ stalled' = stalled \ {out} /\ owes' = owes \ {out} /\ ctl' = Scan(out, 0)
      BY <2>1 DEF RetryMuxed
    <3>2. /\ CtlType' /\ ctl.pc = "idle" /\ ctl'.pc = "scan" /\ ctl'.out = out /\ ctl'.in = 0
      BY <2>0, <3>1, ScanState DEF CtlType, Idle
    <3>3. ASSUME NEW i \in Inputs PROVE FrontOK(i)'
      <4>1. queue[i] # <<>> => FrontStalled(i)
        BY <1>0, <3>2 DEF Parts, FrontOK, StillToScan, BeingDrained, Draining
      <4>2. i >= 0
        BY PortFacts
      <4> QED BY <1>0, <3>1, <3>2, <4>1, <4>2
              DEF FrontOK, FrontStalled, StillToScan, FrontIs, Draining
    <3> QED BY <2>0, <3>1, <3>2, <3>3
  <2>2. CASE ScanInput
    <3>1. /\ ctl.pc = "scan" /\ UNCHANGED <<stalled, owes>>
          /\ ctl' = IF ctl.in = NbInputs THEN Idle
                    ELSE IF FrontIs(ctl.in, ctl.out) THEN [ctl EXCEPT !.pc = "drain"]
                    ELSE Scan(ctl.out, ctl.in + 1)
      BY <2>2 DEF ScanInput
    <3>2. ctl \in [pc : {"scan"}, out : Outputs, in : 0 .. NbInputs]
      BY <2>0, <3>1, DrainState
    <3>3. ASSUME NEW i \in Inputs
          PROVE  /\ i \in Int /\ i < NbInputs
                 /\ queue[i] # <<>> => FrontStalled(i) \/ (i >= ctl.in /\ FrontIs(i, ctl.out))
      BY <1>0, <3>1, PortFacts DEF Parts, FrontOK, StillToScan, BeingDrained
    <3>4. CASE ctl.in = NbInputs
      <4>1. ctl' = Idle
        BY <3>1, <3>4
      <4>2. ASSUME NEW i \in Inputs PROVE FrontOK(i)'
        <5>1. ~(i >= ctl.in)
          BY <2>0, <3>3, <3>4
        <5> QED BY <1>0, <3>1, <3>3, <5>1 DEF FrontOK, FrontStalled
      <4> QED BY <2>0, <3>1, <4>1, <4>2 DEF CtlType, Idle
    <3>5. CASE ctl.in # NbInputs /\ FrontIs(ctl.in, ctl.out)
      <4>1. ctl' = [ctl EXCEPT !.pc = "drain"] /\ ctl.in \in Inputs
        BY <2>0, <3>1, <3>2, <3>5 DEF Inputs
      <4>2. /\ ctl' \in [pc : {"drain", "resp"}, out : Outputs, in : Inputs]
            /\ ctl'.pc = "drain" /\ ctl'.in = ctl.in /\ ctl'.out = ctl.out
        BY <3>2, <4>1
      <4>3. \A i \in Inputs : FrontOK(i)'
        BY <1>0, <3>1, <3>3, <4>2 DEF FrontOK, FrontStalled, StillToScan, FrontIs, Draining
      <4> QED BY <2>0, <3>1, <4>2, <4>3 DEF CtlType
    <3>6. CASE ctl.in # NbInputs /\ ~FrontIs(ctl.in, ctl.out)
      <4>1. ctl' = Scan(ctl.out, ctl.in + 1) /\ ctl.in + 1 \in 0 .. NbInputs /\ ctl.out \in Outputs
        BY <2>0, <3>1, <3>2, <3>6
      <4>2. /\ ctl' \in [pc : {"scan"}, out : Outputs, in : 0 .. NbInputs]
            /\ ctl'.pc = "scan" /\ ctl'.in = ctl.in + 1 /\ ctl'.out = ctl.out
        BY <4>1, ScanState
      <4>3. ASSUME NEW i \in Inputs PROVE FrontOK(i)'
        <5>1. i >= ctl.in /\ FrontIs(i, ctl.out) => i >= ctl.in + 1
          BY <3>2, <3>3, <3>6
        <5> QED BY <1>0, <3>1, <3>3, <4>2, <5>1
                DEF FrontOK, FrontStalled, StillToScan, FrontIs, Draining
      <4> QED BY <2>0, <3>1, <4>2, <4>3 DEF CtlType
    <3> QED BY <3>4, <3>5, <3>6
  <2>3. CASE DrainStops
    <3>1. /\ ctl.pc = "drain" /\ UNCHANGED <<stalled, owes>> /\ ctl' = Scan(ctl.out, ctl.in + 1)
          /\ queue[ctl.in] = <<>> \/ FrontStalled(ctl.in)
      BY <2>3 DEF DrainStops
    <3>2. ctl \in [pc : {"drain", "resp"}, out : Outputs, in : Inputs]
      BY <2>0, <3>1, DrainState
    <3>3. ctl.in + 1 \in 0 .. NbInputs /\ ctl.out \in Outputs /\ ctl.in \in Int
      BY <3>2, PortFacts
    <3>4. /\ ctl' \in [pc : {"scan"}, out : Outputs, in : 0 .. NbInputs]
          /\ ctl'.pc = "scan" /\ ctl'.in = ctl.in + 1 /\ ctl'.out = ctl.out
      BY <3>1, <3>3, ScanState
    <3>5. ASSUME NEW i \in Inputs PROVE FrontOK(i)'
      <4>1. i \in Int /\ FrontOK(i)
        BY <1>0, PortFacts DEF Parts
      <4>2. i # ctl.in => ~BeingDrained(i)
        BY DEF BeingDrained
      <4>3. StillToScan(i) /\ i # ctl.in => StillToScan(i)'
        BY <1>0, <3>1, <3>3, <3>4, <4>1 DEF StillToScan, FrontIs, Draining
      <4>4. FrontStalled(i) => FrontStalled(i)'
        BY <1>0, <3>1 DEF FrontStalled
      <4> QED BY <1>0, <3>1, <4>1, <4>2, <4>3, <4>4 DEF FrontOK
    <3> QED BY <2>0, <3>1, <3>4, <3>5 DEF CtlType
  <2>4. CASE DrainResumes
    <3>1. /\ ctl.pc = "resp" /\ UNCHANGED <<stalled, owes>> /\ ctl' = [ctl EXCEPT !.pc = "drain"]
      BY <2>4 DEF DrainResumes
    <3>2. ctl \in [pc : {"drain", "resp"}, out : Outputs, in : Inputs]
      BY <2>0, <3>1, DrainState
    <3>3. /\ ctl' \in [pc : {"drain", "resp"}, out : Outputs, in : Inputs]
          /\ ctl'.pc = "drain" /\ ctl'.in = ctl.in /\ ctl'.out = ctl.out
      BY <3>1, <3>2
    <3>4. \A i \in Inputs : FrontOK(i)'
      BY <1>0, <3>1, <3>3
         DEF Parts, FrontOK, FrontStalled, StillToScan, FrontIs, Draining, BeingDrained
    <3> QED BY <2>0, <3>1, <3>3, <3>4 DEF CtlType
  <2> QED BY <2>1, <2>2, <2>3, <2>4
<1>4. TypeOK'
  BY <1>0, <1>3 DEF Parts, TypeOK, CtlType
<1>5. InFlightOwned' /\ HeldComesBack'
  BY <1>0, <1>3, InFlightKept DEF Parts, SameHeld
<1>6. Parts'
  BY <1>1, <1>2, <1>3, <1>4, <1>5 DEF Parts
<1> QED BY <1>6, PartsIInv

(* resp_muxed up to its resp(): the request shows its own initiator, and   *)
(* nobody else can be given its InFlight.                                  *)
LEMMA RespMuxedIInv ==
    ASSUME IInv, NEW r \in Reqs, NEW last \in BOOLEAN, RespMuxed(r, last) PROVE IInv'
<1> PICK ifl : ifl = initiator[r]
  OBVIOUS
<1>0. /\ Parts /\ ctl = Idle /\ ctl.pc = "idle" /\ down[r] # NoOut
      /\ initiator[r] = ifl /\ ifl \in Pool /\ ifl # Own /\ input[ifl] = PortOf[r]
      /\ up[r] = "granted" /\ ~Waits(r) /\ offsets[r] = 1
  <2>1. Parts /\ ctl = Idle /\ ctl.pc = "idle" /\ down[r] # NoOut
    BY IInvParts DEF RespMuxed, Idle
  <2>2. initiator[r] # Own /\ input[initiator[r]] = PortOf[r]
    BY <2>1 DEF Parts, InFlightOwned
  <2> QED BY <2>1, <2>2 DEF Parts, TypeOK, Places, Placed
<1>1. /\ initiator' = [initiator EXCEPT ![r] = Own]
      /\ ctl' = [pc |-> "muxed", req |-> r, ifl |-> ifl, last |-> last]
      /\ up' = [up EXCEPT ![r] = IF last THEN "idle" ELSE @]
      /\ down' = [down EXCEPT ![r] = IF last THEN NoOut ELSE @]
      /\ offsets' = [offsets EXCEPT ![r] = IF last THEN 0 ELSE @]
      /\ UNCHANGED <<queue, stalled, input, ahead, work, owes>>
  <2>1. up' = [up EXCEPT ![r] = IF last THEN AfterResp(@) ELSE @]
    BY <1>0 DEF RespMuxed
  <2>2. up' = [up EXCEPT ![r] = IF last THEN "idle" ELSE @]
    BY <1>0, <2>1, StatusCases
  <2> QED BY <1>0, <2>2 DEF RespMuxed, Parts, TypeOK
<1>2. /\ ctl'.pc = "muxed" /\ ctl'.req = r /\ ctl'.ifl = ifl /\ ctl'.last = last
      /\ ctl' \in [pc : {"muxed"}, req : Reqs, ifl : Pool, last : BOOLEAN]
  BY <1>0, <1>1
<1>3. TypeOK'
  <2>1. /\ up' \in [Reqs -> MasterStates] /\ offsets' \in [Reqs -> {0, 1}]
        /\ initiator' \in [Reqs -> Pool \cup {Own}] /\ down' \in [Reqs -> Outputs \cup {NoOut}]
    BY <1>0, <1>1, StatusCases DEF Parts, TypeOK
  <2> QED BY <1>0, <1>1, <1>2, <2>1 DEF Parts, TypeOK
<1>4. Places' /\ BandwidthKept' /\ stalled' = owes'
  <2>1. \A i \in Inputs : OwnQueue(i)'
    BY <1>0, <1>1 DEF Parts, Places, OwnQueue, Distinct, In
  <2>2. \A q \in Reqs : Waits(q)' <=> Waits(q)
    BY <1>1 DEF Waits, In
  <2>3. ASSUME NEW q \in Reqs PROVE Placed(q)'
    <3>1. CASE q = r
      BY <1>0, <1>1, <2>2, <3>1 DEF Parts, TypeOK, Placed
    <3>2. CASE q # r
      <4>1. up'[q] = up[q] /\ down'[q] = down[q] /\ offsets'[q] = offsets[q] /\ Placed(q)
        BY <1>0, <1>1, <3>2 DEF Parts, TypeOK, Places
      <4> QED BY <2>2, <4>1 DEF Placed
    <3> QED BY <3>1, <3>2
  <2> QED BY <1>0, <1>1, <2>1, <2>3 DEF Parts, Places, BandwidthKept
<1>5. \A i \in Inputs : FrontOK(i)'
  BY <1>0, <1>1
     DEF Parts, FrontOK, FrontStalled, StillToScan, BeingDrained, Draining, FrontIs
<1>6. InFlightOwned'
  <2>0. Held' = {ifl} /\ ifl \in Pool /\ Own \notin Pool
    BY <1>0, <1>2, PortFacts DEF Held
  <2>1. ASSUME NEW q \in Reqs
        PROVE  /\ initiator'[q] # Own <=> down'[q] # NoOut /\ ~(~last /\ r = q)
               /\ initiator'[q] # Own => input'[initiator'[q]] = PortOf[q]
               /\ initiator'[q] # Own => initiator'[q] \notin Held'
    <3>1. CASE q = r
      BY <1>0, <1>1, <3>1 DEF Parts, TypeOK
    <3>2. CASE q # r
      <4>1. initiator'[q] = initiator[q] /\ down'[q] = down[q] /\ input' = input
        BY <1>0, <1>1, <3>2 DEF Parts, TypeOK
      <4>2. /\ initiator[q] # Own <=> down[q] # NoOut
            /\ initiator[q] # Own => input[initiator[q]] = PortOf[q]
            /\ initiator[q] # Own => initiator[q] # ifl
        BY <1>0, <3>2 DEF Parts, InFlightOwned
      <4> QED BY <2>0, <3>2, <4>1, <4>2
    <3> QED BY <3>1, <3>2
  <2>2. \A q, s \in Reqs : initiator'[q] = initiator'[s] => q = s \/ initiator'[q] = Own
    BY <1>0, <1>1 DEF Parts, TypeOK, InFlightOwned
  <2> QED BY <1>2, <2>1, <2>2 DEF InFlightOwned
<1>7. HeldComesBack'
  BY <1>0, <1>1, <1>2 DEF HeldComesBack, Parts, TypeOK
<1>8. Parts'
  BY <1>3, <1>4, <1>5, <1>6, <1>7 DEF Parts
<1> QED BY <1>8, PartsIInv

LEMMA RespReturnsIInv ==
    ASSUME IInv, RespReturns PROVE IInv'
<1> PICK r, ifl : r = ctl.req /\ ifl = ctl.ifl
  OBVIOUS
<1>0. /\ Parts /\ ctl.pc = "muxed" /\ ctl' = Idle /\ ctl'.pc = "idle"
      /\ ctl.req = r /\ ctl.ifl = ifl /\ r \in Reqs /\ ifl \in Pool /\ ctl.last \in BOOLEAN
      /\ initiator' = IF ctl.last THEN initiator ELSE [initiator EXCEPT ![r] = ifl]
      /\ UNCHANGED <<queue, stalled, input, ahead, work, offsets, up, down, owes>>
  <2>1. Parts /\ ctl.pc = "muxed"
    BY IInvParts DEF RespReturns
  <2>2. ctl \in [pc : {"muxed"}, req : Reqs, ifl : Pool, last : BOOLEAN]
    BY <2>1, DrainState DEF Parts
  <2>3. ctl.req \in Reqs /\ ctl.ifl \in Pool /\ ctl.last \in BOOLEAN
    BY <2>2
  <2> QED BY <2>1, <2>3 DEF RespReturns, Idle
<1>1. TypeOK'
  <2>1. initiator' \in [Reqs -> Pool \cup {Own}]
    BY <1>0 DEF Parts, TypeOK
  <2> QED BY <1>0, <2>1 DEF Parts, TypeOK
<1>2. Places' /\ BandwidthKept' /\ stalled' = owes'
  BY <1>0 DEF Parts, Places, OwnQueue, Distinct, In, Placed, Waits, BandwidthKept
<1>3. \A i \in Inputs : FrontOK(i)'
  BY <1>0 DEF Parts, FrontOK, FrontStalled, StillToScan, BeingDrained, Draining, FrontIs
<1>4. Held = {ifl} /\ Held' = {} /\ Own \notin Pool
  BY <1>0, PortFacts DEF Held
<1>5. InFlightOwned' /\ HeldComesBack'
  <2>1. CASE ctl.last
    <3>1. initiator' = initiator
      BY <1>0, <2>1
    <3> QED BY <1>0, <1>4, <2>1, <3>1 DEF Parts, InFlightOwned, HeldComesBack
  <2>2. CASE ~ctl.last
    <3>1. /\ initiator'[r] = ifl /\ \A q \in Reqs \ {r} : initiator'[q] = initiator[q]
          /\ down[r] # NoOut /\ input[ifl] = PortOf[r] /\ ifl # Own
          /\ \A q \in Reqs : initiator[q] # Own => initiator[q] # ifl
      BY <1>0, <1>4, <2>2 DEF Parts, TypeOK, HeldComesBack, InFlightOwned
    <3>2. \A q, s \in Reqs : initiator'[q] = initiator'[s] => q = s \/ initiator'[q] = Own
      BY <1>0, <3>1 DEF Parts, InFlightOwned
    <3>3. ASSUME NEW q \in Reqs
          PROVE  /\ initiator'[q] # Own <=> down'[q] # NoOut
                 /\ initiator'[q] # Own => input'[initiator'[q]] = PortOf[q]
      <4>1. CASE q = r
        BY <1>0, <3>1, <4>1
      <4>2. CASE q # r
        BY <1>0, <3>1, <4>2 DEF Parts, InFlightOwned
      <4> QED BY <4>1, <4>2
    <3> QED BY <1>0, <1>4, <3>2, <3>3 DEF InFlightOwned, HeldComesBack
  <2> QED BY <2>1, <2>2
<1>6. Parts'
  BY <1>1, <1>2, <1>3, <1>5 DEF Parts
<1> QED BY <1>6, PartsIInv

(* A cycle goes by: the promise of each port and what it owes shrink       *)
(* together, down to 0.                                                    *)
LEMMA TickIInv ==
    ASSUME IInv, Tick PROVE IInv'
<1>0. /\ Parts /\ UNCHANGED <<queue, stalled, initiator, input, offsets, ctl, up, down, owes>>
      /\ ahead' = [p \in Ports |-> Less(ahead[p])]
      /\ work' = [p \in Ports |-> Less(work[p])]
  BY IInvParts DEF Tick
<1>1. \A m, n \in Nat : Less(m) \in Nat /\ (m <= n => Less(m) <= Less(n))
  BY DEF Less
<1>2. ahead' \in [Ports -> Nat] /\ work' \in [Ports -> Nat] /\ BandwidthKept'
  BY <1>0, <1>1 DEF Parts, TypeOK, BandwidthKept
<1>3. TypeOK'
  BY <1>0, <1>2 DEF Parts, TypeOK
<1>4. Places' /\ stalled' = owes'
  BY <1>0 DEF Parts, Places, OwnQueue, Distinct, In, Placed, Waits
<1>5. \A i \in Inputs : FrontOK(i)'
  BY <1>0 DEF Parts, FrontOK, FrontStalled, StillToScan, BeingDrained, FrontIs
<1>6. InFlightOwned' /\ HeldComesBack'
  BY <1>0, InFlightKept DEF Parts, SameHeld
<1>7. Parts'
  BY <1>2, <1>3, <1>4, <1>5, <1>6 DEF Parts
<1> QED BY <1>7, PartsIInv

LEMMA StutterIInv ==
    ASSUME IInv, UNCHANGED vars PROVE IInv'
<1>0. Parts /\ UNCHANGED vars
  BY IInvParts
<1>1. TypeOK' /\ BandwidthKept' /\ stalled' = owes'
  BY <1>0 DEF Parts, TypeOK, BandwidthKept, vars
<1>2. Places'
  BY <1>0 DEF Parts, Places, OwnQueue, Distinct, In, Placed, Waits, vars
<1>3. \A i \in Inputs : FrontOK(i)'
  BY <1>0 DEF Parts, FrontOK, FrontStalled, StillToScan, BeingDrained, FrontIs, vars
<1>4. InFlightOwned' /\ HeldComesBack'
  BY <1>0, InFlightKept DEF Parts, SameHeld, vars
<1>5. Parts'
  BY <1>1, <1>2, <1>3, <1>4 DEF Parts
<1> QED BY <1>5, PartsIInv

LEMMA NextIInv == IInv /\ [Next]_vars => IInv'
<1> SUFFICES ASSUME IInv, [Next]_vars PROVE IInv'
  OBVIOUS
<1>1. ASSUME NEW r \in Reqs, NEW out \in Outputs, MasterReq(r, out) PROVE IInv'
  BY <1>1, MasterReqIInv
<1>2. CASE (\E out \in Outputs : RetryMuxed(out)) \/ ScanInput \/ DrainStops \/ DrainResumes
  BY <1>2, DrainControlIInv
<1>3. ASSUME NEW st \in IoReqStatus, DrainForwards(st) PROVE IInv'
  BY <1>3, DrainForwardsIInv
<1>4. ASSUME NEW r \in Reqs, NEW last \in BOOLEAN, RespMuxed(r, last) PROVE IInv'
  BY <1>4, RespMuxedIInv
<1>5. CASE RespReturns
  BY <1>5, RespReturnsIInv
<1>6. CASE Tick
  BY <1>6, TickIInv
<1>7. CASE UNCHANGED vars
  BY <1>7, StutterIInv
<1> QED BY <1>1, <1>2, <1>3, <1>4, <1>5, <1>6, <1>7 DEF Next

-----------------------------------------------------------------------------
LEMMA BandwidthRouterSafe == Spec => []IInv
<1>1. Init => IInv
  BY InitIInv
<1>2. IInv /\ [Next]_vars => IInv'
  BY NextIInv
<1> QED BY <1>1, <1>2, PTL DEF Spec

(***************************************************************************)
(* Every field of the bandwidth router, of its masters and of its slaves   *)
(* keeps its type in every handler; the pool of InFlight objects is never  *)
(* exhausted although requests re-enter from inside resp().                *)
(***************************************************************************)
THEOREM BandwidthTypeCorrect == Spec => []TypeOK
<1>1. IInv => TypeOK
  BY DEF IInv
<1> QED BY <1>1, BandwidthRouterSafe, PTL

(***************************************************************************)
(* For any number of inputs, outputs and requests: what req_muxed granted  *)
(* is in the queue of its own input, once and untranslated, or at a slave, *)
(* translated once, under an InFlight nobody shares and that leads back to *)
(* its input, also after a denial in drain_queue and also when the master  *)
(* re-issues it from inside the resp() of resp_muxed.                      *)
(***************************************************************************)
THEOREM BandwidthOnePlace == Spec => []OnePlace
<1>1. IInv => OnePlace
  BY DEF IInv
<1> QED BY <1>1, BandwidthRouterSafe, PTL

(***************************************************************************)
(* retry_muxed forgets no input: a queue that is not being drained starts  *)
(* with a request for an output that is stalled and whose slave owes a     *)
(* retry(), or lies ahead of the scan that will drain it.                  *)
(***************************************************************************)
THEOREM FrontTheorem == Spec => []FrontWaitsForRetry
<1>1. IInv => FrontWaitsForRetry
  BY DEF IInv
<1> QED BY <1>1, BandwidthRouterSafe, PTL

(***************************************************************************)
(* The two watermarks that forward_inline advances never fall behind the   *)
(* transfers charged to their ports, for any transfer lengths.             *)
(***************************************************************************)
THEOREM BandwidthTheorem == Spec => []BandwidthKept
<1>1. IInv => BandwidthKept
  BY DEF IInv
<1> QED BY <1>1, BandwidthRouterSafe, PTL

-----------------------------------------------------------------------------
(***************************************************************************)
(* The width splitter.                                                     *)
(***************************************************************************)
(* Division, for the solver. *)
LEMMA DivBounds ==
    ASSUME NEW b \in Nat, NEW w \in Nat \ {0}
    PROVE  /\ b \div w \in Nat
           /\ (b \div w) * w <= b
           /\ b < (b \div w) * w + w
           /\ b % w = b - (b \div w) * w
  OBVIOUS

LEMMA DivIs ==
    ASSUME NEW b \in Nat, NEW w \in Nat \ {0}, NEW k \in Int, k * w <= b, b < k * w + w
    PROVE  b \div w = k
  OBVIOUS

LEMMA Times ==
    ASSUME NEW w \in Nat, NEW k \in Int
    PROVE  (k + 1) * w = k * w + w /\ k * w \in Int
  OBVIOUS

(* What Min and the assumption on the widths say. *)
LEMMA MinTwo ==
    ASSUME NEW x \in Int, NEW y \in Int
    PROVE  Min({x, y}) = IF x <= y THEN x ELSE y
  BY DEF Min

LEMMA Widths ==
    /\ output_width \in Nat \ {0} /\ nb_outputs \in Nat \ {0}
    /\ input_width = nb_outputs * output_width
    /\ \A i : i \in OutputIds <=> i \in Nat /\ i < nb_outputs
  <1>1. /\ output_width \in Nat \ {0} /\ input_width \in Nat
        /\ nb_outputs * output_width = input_width /\ nb_outputs > 0
    BY SplitterAssumption
  <1>2. input_width \div output_width \in Nat
    BY <1>1, DivBounds
  <1>3. nb_outputs \in Nat
    BY <1>2 DEF nb_outputs
  <1> QED BY <1>1, <1>3 DEF OutputIds

(* Cursor, with lo the boundary the i-th line starts at. *)
CursorAt(a, s, i, w, q, lo) ==
    /\ lo = (q + i) * w
    /\ i = 0 => lo <= a /\ a < lo + w
    /\ i > 0 => a < lo
    /\ Cursor(a, s, i) = IF i = 0 THEN a ELSE IF lo <= a + s THEN lo ELSE a + s
    /\ Cursor(a, s, i + 1) = IF lo + w <= a + s THEN lo + w ELSE a + s

(* The cursors of two successive turns, from the line chunk i lies in. *)
LEMMA CursorIs ==
    ASSUME NEW a \in Nat, NEW s \in Nat, NEW i \in Nat
    PROVE  \E lo \in Nat : CursorAt(a, s, i, output_width, a \div output_width, lo)
  <1>1. PICK w, q : w = output_width /\ q = a \div output_width
    OBVIOUS
  <1>2. w \in Nat \ {0} /\ q \in Nat /\ q * w <= a /\ a < q * w + w
    BY <1>1, Widths, DivBounds
  <1>3. PICK lo : lo = (q + i) * w
    OBVIOUS
  <1>4. lo \in Nat /\ (q + (i + 1)) * w = lo + w
    <2>1. q + i \in Nat /\ q + (i + 1) = (q + i) + 1
      BY <1>2
    <2> QED BY <1>2, <1>3, <2>1, Times
  <1>5. i = 0 => lo <= a /\ a < lo + w
    BY <1>2, <1>3
  <1>6. ASSUME i > 0 PROVE a < lo
    <2>1. PICK j \in Nat : i = j + 1
      <3>1. i - 1 \in Nat /\ i = (i - 1) + 1
        BY <1>6
      <3> QED BY <3>1
    <2>2. (q + i) * w = q * w + i * w /\ i * w = j * w + w /\ j * w >= 0 /\ q * w \in Int
      BY <1>2, <2>1
    <2> QED BY <1>2, <1>3, <2>2
  <1>7. lo \in Int /\ lo + w \in Int /\ a + s \in Int /\ i + 1 # 0
    BY <1>2, <1>4
  <1>8. Min({lo, a + s}) = IF lo <= a + s THEN lo ELSE a + s
    BY <1>7, MinTwo
  <1>9. Min({lo + w, a + s}) = IF lo + w <= a + s THEN lo + w ELSE a + s
    BY <1>7, MinTwo
  <1>10. Cursor(a, s, i) = IF i = 0 THEN a ELSE Min({lo, a + s})
    BY <1>1, <1>3 DEF Cursor
  <1>11. Cursor(a, s, i + 1) = Min({lo + w, a + s})
    BY <1>1, <1>4, <1>7 DEF Cursor
  <1>12. CursorAt(a, s, i, w, q, lo)
    BY <1>3, <1>5, <1>6, <1>8, <1>9, <1>10, <1>11 DEF CursorAt
  <1> QED BY <1>1, <1>4, <1>12

(* The model's Cursor is what the loop of Splitter::issue computes: it     *)
(* starts at the address of the request, and each turn adds to it          *)
(* iter_size = min(ow - (addr & ow_mask), size), size being what is left.  *)
THEOREM CursorIsLoop ==
    ASSUME NEW a \in Nat, NEW s \in Nat, NEW i \in Nat
    PROVE  /\ Cursor(a, s, 0) = a
           /\ Cursor(a, s, i + 1)
                = Cursor(a, s, i) + Min({output_width - (Cursor(a, s, i) % output_width),
                                         (a + s) - Cursor(a, s, i)})
  <1>1. PICK w, q : w = output_width /\ q = a \div output_width
    OBVIOUS
  <1>2. w \in Nat \ {0} /\ q \in Nat
    BY <1>1, Widths, DivBounds
  <1>3. PICK lo \in Nat : CursorAt(a, s, i, output_width, a \div output_width, lo)
    BY CursorIs
  <1>4. PICK k : k = q + i
    OBVIOUS
  <1>5. /\ lo = k * w /\ k \in Int
        /\ i = 0 => lo <= a /\ a < lo + w
        /\ i > 0 => a < lo
        /\ Cursor(a, s, i) = IF i = 0 THEN a ELSE IF lo <= a + s THEN lo ELSE a + s
        /\ Cursor(a, s, i + 1) = IF lo + w <= a + s THEN lo + w ELSE a + s
    BY <1>1, <1>2, <1>3, <1>4 DEF CursorAt
  <1>6. PICK c, d : c = Cursor(a, s, i) /\ d = Cursor(a, s, i + 1)
    OBVIOUS
  <1>7. c \in Nat /\ c <= a + s
    BY <1>5, <1>6
  <1>8. c % w \in Nat /\ c % w < w
    BY <1>2, <1>7
  <1>9. Min({w - (c % w), (a + s) - c})
          = IF w - (c % w) <= (a + s) - c THEN w - (c % w) ELSE (a + s) - c
    BY <1>2, <1>7, <1>8, MinTwo
  <1> SUFFICES d = c + Min({w - (c % w), (a + s) - c})
    BY <1>1, <1>6 DEF Cursor
  <1>10. CASE lo <= c /\ c < lo + w
    <2>1. k * w <= c /\ c < k * w + w
      BY <1>5, <1>10
    <2>2. c \div w = k
      BY <1>2, <1>5, <1>7, <2>1, DivIs
    <2>3. c % w = c - (c \div w) * w
      BY <1>2, <1>7, DivBounds
    <2>4. c % w = c - lo
      BY <1>5, <2>2, <2>3
    <2>5. d = c + (IF w - (c % w) <= (a + s) - c THEN w - (c % w) ELSE (a + s) - c)
      BY <1>2, <1>5, <1>6, <1>7, <1>10, <2>4
    <2> QED BY <1>9, <2>5
  <1>11. CASE c = a + s
    <2>1. d = a + s
      BY <1>2, <1>5, <1>6, <1>11
    <2> QED BY <1>2, <1>7, <1>8, <1>9, <1>11, <2>1
  <1>12. (lo <= c /\ c < lo + w) \/ c = a + s
    BY <1>2, <1>5, <1>6, <1>7
  <1> QED BY <1>10, <1>11, <1>12

(* Chunk i holds the bytes of the request in the i-th line from its start. *)
LEMMA ChunkBytes ==
    ASSUME NEW r, NEW a \in Nat, NEW s \in Nat, NEW i \in Nat, s > 0
    PROVE  /\ Chunk(r, a, s, i).parent = r /\ Chunk(r, a, s, i).id = i
           /\ Chunk(r, a, s, i).addr \in Nat
           /\ Chunk(r, a, s, i).size \in 0 .. output_width
           /\ \A b \in Int : b \in ByteRange(Chunk(r, a, s, i))
                               <=> a <= b /\ b < a + s /\ b \div output_width
                                                            = a \div output_width + i
  <1>1. PICK w, q : w = output_width /\ q = a \div output_width
    OBVIOUS
  <1>2. w \in Nat \ {0} /\ q \in Nat
    BY <1>1, Widths, DivBounds
  <1>3. PICK lo \in Nat : CursorAt(a, s, i, output_width, a \div output_width, lo)
    BY CursorIs
  <1>4. PICK k : k = q + i
    OBVIOUS
  <1>5. /\ lo = k * w /\ k \in Int
        /\ i = 0 => lo <= a /\ a < lo + w
        /\ i > 0 => a < lo
        /\ Cursor(a, s, i) = IF i = 0 THEN a ELSE IF lo <= a + s THEN lo ELSE a + s
        /\ Cursor(a, s, i + 1) = IF lo + w <= a + s THEN lo + w ELSE a + s
    BY <1>1, <1>2, <1>3, <1>4 DEF CursorAt
  <1>6. PICK c, d : c = Cursor(a, s, i) /\ d = Cursor(a, s, i + 1)
    OBVIOUS
  <1>7. c \in Nat /\ d \in Nat /\ c <= d /\ d - c <= w
    BY <1>2, <1>5, <1>6
  <1>8. PICK x : x = Chunk(r, a, s, i)
    OBVIOUS
  <1>9. x.parent = r /\ x.id = i /\ x.addr = c /\ x.size = d - c
    BY <1>6, <1>8 DEF Chunk
  <1>10. ASSUME NEW b \in Int
        PROVE b \in c .. (c + (d - c) - 1) <=> a <= b /\ b < a + s /\ b \div w = q + i
    <2>1. CASE a <= b /\ b < a + s
      <3>1. b \in Nat
        BY <2>1
      <3>2. b \div w = k <=> lo <= b /\ b < lo + w
        <4>1. ASSUME b \div w = k PROVE lo <= b /\ b < lo + w
          BY <1>2, <1>5, <3>1, <4>1, DivBounds
        <4>2. ASSUME lo <= b, b < lo + w PROVE b \div w = k
          <5>1. k * w <= b /\ b < k * w + w
            BY <1>5, <4>2
          <5> QED BY <1>2, <1>5, <3>1, <5>1, DivIs
        <4> QED BY <4>1, <4>2
      <3> QED BY <1>2, <1>5, <1>4, <1>6, <1>7, <2>1, <3>2
    <2>2. CASE ~(a <= b /\ b < a + s)
      <3>1. a <= c /\ d <= a + s
        BY <1>2, <1>5, <1>6
      <3> QED BY <1>7, <2>2, <3>1
    <2> QED BY <2>1, <2>2
  <1> QED BY <1>1, <1>7, <1>8, <1>9, <1>10 DEF ByteRange

LEMMA TimesMono ==
    ASSUME NEW w \in Nat, NEW x \in Int, NEW y \in Int, x <= y
    PROVE  x * w <= y * w
  <1>1. y - x \in Nat
    OBVIOUS
  <1>2. PICK d : d = y - x
    OBVIOUS
  <1>3. d * w >= 0 /\ d \in Nat /\ y = x + d
    BY <1>1, <1>2
  <1>4. y * w = x * w + d * w /\ x * w \in Int /\ d * w \in Int
    BY <1>3
  <1> QED BY <1>3, <1>4

(* The chunk of a byte. *)
LEMMA ByteHasChunk ==
    ASSUME NEW a \in Nat, NEW s \in Nat, Fits(a, s),
           NEW b \in Int, a <= b, b < a + s
    PROVE  \E i \in OutputIds : b \div output_width = a \div output_width + i
  <1>1. PICK w, n, q, k : w = output_width /\ n = nb_outputs /\ q = a \div w /\ k = b \div w
    OBVIOUS
  <1>2. w \in Nat \ {0} /\ n \in Nat \ {0} /\ b \in Nat
    BY <1>1, Widths
  <1>3. /\ q \in Nat /\ q * w <= a /\ a < q * w + w /\ a % w = a - q * w
        /\ k \in Nat /\ k * w <= b /\ b < k * w + w
    BY <1>1, <1>2, DivBounds
  <1>4. (a % w) + s <= n * w
    BY <1>1, Widths DEF Fits
  <1>5. /\ (k + 1) * w = k * w + w /\ (q + n) * w = q * w + n * w
        /\ k * w \in Int /\ q * w \in Int /\ n * w \in Int
    BY <1>2, <1>3
  <1>6. ~(k < q)
    <2>1. ASSUME k < q PROVE FALSE
      <3>1. k + 1 <= q /\ k + 1 \in Int /\ q \in Int
        BY <2>1, <1>3
      <3>2. (k + 1) * w <= q * w
        BY <1>2, <3>1, TimesMono
      <3> QED BY <1>2, <1>3, <1>5, <3>2
    <2> QED BY <2>1
  <1>7. ~(q + n <= k)
    <2>1. ASSUME q + n <= k PROVE FALSE
      <3>1. (q + n) * w <= k * w
        BY <1>2, <1>3, <2>1, TimesMono
      <3> QED BY <1>2, <1>3, <1>4, <1>5, <3>1
    <2> QED BY <2>1
  <1>8. k - q \in Nat /\ k - q < n /\ k = q + (k - q)
    BY <1>2, <1>3, <1>6, <1>7
  <1>9. k - q \in OutputIds
    BY <1>1, <1>8, Widths
  <1> QED BY <1>1, <1>8, <1>9

(* A chunk of a request: its type, and the bytes of its own line. *)
LEMMA ChunkIs ==
    ASSUME NEW r \in Parents, NEW a \in Nat, NEW s \in Nat, s > 0, NEW c \in ChunksOf(r, a, s)
    PROVE  /\ c \in Chunks /\ c.parent = r
           /\ c.id \in OutputIds /\ c.id \in Nat /\ c = Chunk(r, a, s, c.id)
           /\ c.addr \in Nat /\ c.size \in Nat /\ c.size > 0 /\ c.size <= output_width
           /\ \A b \in Int : b \in ByteRange(c)
                               <=> a <= b /\ b < a + s
                                     /\ b \div output_width = a \div output_width + c.id
  <1>1. PICK i \in OutputIds : c = Chunk(r, a, s, i)
    BY DEF ChunksOf
  <1>2. i \in Nat
    BY Widths
  <1>3. c.size > 0
    BY DEF ChunksOf
  <1>4. /\ c.parent = r /\ c.id = i /\ c.addr \in Nat /\ c.size \in 0 .. output_width
        /\ \A b \in Int : b \in ByteRange(c)
                            <=> a <= b /\ b < a + s
                                  /\ b \div output_width = a \div output_width + i
    BY <1>1, <1>2, ChunkBytes
  <1>5. output_width \in Nat
    BY Widths
  <1>6. c.size \in 1 .. output_width /\ c.size \in Nat /\ c.size <= output_width
    BY <1>3, <1>4, <1>5
  <1>7. c = [parent |-> c.parent, id |-> c.id, addr |-> c.addr, size |-> c.size]
    BY <1>1 DEF Chunk
  <1>8. c \in Chunks
    BY <1>4, <1>6, <1>7 DEF Chunks
  <1> QED BY <1>1, <1>2, <1>3, <1>4, <1>6, <1>8

(* Two chunks of a request share neither an output nor a byte. *)
LEMMA ChunksApart ==
    ASSUME NEW r \in Parents, NEW a \in Nat, NEW s \in Nat, s > 0,
           NEW c \in ChunksOf(r, a, s), NEW d \in ChunksOf(r, a, s)
    PROVE  /\ c.id = d.id => c = d
           /\ ByteRange(c) \cap ByteRange(d) # {} => c = d
  <1>1. c.id = d.id => c = d
    BY ChunkIs
  <1>2. ASSUME NEW b \in ByteRange(c), b \in ByteRange(d) PROVE c.id = d.id
    <2>1. b \in Int /\ c.id \in Nat /\ d.id \in Nat
      BY <1>2, ChunkIs DEF ByteRange
    <2>2. /\ b \div output_width = a \div output_width + c.id
          /\ b \div output_width = a \div output_width + d.id
      BY <1>2, <2>1, ChunkIs
    <2>3. a \div output_width \in Nat
      BY Widths, DivBounds
    <2> QED BY <2>1, <2>2, <2>3
  <1> QED BY <1>1, <1>2

(* The chunks of a request tile it. *)
LEMMA ChunksTile ==
    ASSUME NEW r \in Parents, NEW a \in Nat, NEW s \in Nat, s > 0, Fits(a, s)
    PROVE  /\ Covered(ChunksOf(r, a, s)) = a .. (a + s - 1)
           /\ \A c \in ChunksOf(r, a, s) :
                 c.addr \div output_width = (c.addr + c.size - 1) \div output_width
  <1>1. ASSUME NEW c \in ChunksOf(r, a, s), NEW b \in ByteRange(c) PROVE b \in a .. (a + s - 1)
    <2>1. b \in Int
      BY <1>1, ChunkIs DEF ByteRange
    <2>2. a <= b /\ b < a + s
      BY <1>1, <2>1, ChunkIs
    <2> QED BY <2>1, <2>2
  <1>2. ASSUME NEW b \in a .. (a + s - 1)
        PROVE \E c \in ChunksOf(r, a, s) : b \in ByteRange(c)
    <2>1. b \in Int /\ a <= b /\ b < a + s
      OBVIOUS
    <2>2. PICK i \in OutputIds : b \div output_width = a \div output_width + i
      BY <2>1, ByteHasChunk
    <2>3. i \in Nat
      BY Widths
    <2>4. PICK c : c = Chunk(r, a, s, i)
      OBVIOUS
    <2>5. b \in ByteRange(c) /\ c.addr \in Nat /\ c.size \in 0 .. output_width
      BY <2>1, <2>2, <2>3, <2>4, ChunkBytes
    <2>6. c.size > 0
      BY <2>1, <2>5, Widths DEF ByteRange
    <2>7. c \in ChunksOf(r, a, s)
      BY <2>4, <2>6 DEF ChunksOf
    <2> QED BY <2>5, <2>7
  <1>3. ASSUME NEW c \in ChunksOf(r, a, s)
        PROVE c.addr \div output_width = (c.addr + c.size - 1) \div output_width
    <2>1. c.addr \in Nat /\ c.size \in Nat /\ c.size > 0
      BY ChunkIs
    <2>2. c.addr \in ByteRange(c) /\ c.addr + c.size - 1 \in ByteRange(c)
      BY <2>1 DEF ByteRange
    <2>3. c.addr \in Int /\ c.addr + c.size - 1 \in Int
      BY <2>1
    <2> QED BY <2>2, <2>3, ChunkIs
  <1> QED BY <1>1, <1>2, <1>3 DEF Covered

(* Sizes.  A set of chunks of one request has finitely many bytes, and     *)
(* sizes add up.                                                           *)
LEMMA ChunksFinite ==
    ASSUME NEW r \in Parents, NEW a \in Nat, NEW s \in Nat
    PROVE  IsFiniteSet(ChunksOf(r, a, s))
  <1>1. IsFiniteSet(OutputIds)
    <2>1. nb_outputs - 1 \in Int
      BY Widths
    <2> QED BY <2>1, FS_Interval DEF OutputIds
  <1>2. PICK f : f = [i \in OutputIds |-> Chunk(r, a, s, i)]
    OBVIOUS
  <1>3. PICK T : T = {Chunk(r, a, s, i) : i \in OutputIds}
    OBVIOUS
  <1>4. f \in Surjection(OutputIds, T)
    BY <1>2, <1>3 DEF Surjection
  <1>5. IsFiniteSet(T)
    BY <1>1, <1>4, FS_Surjection
  <1>6. ChunksOf(r, a, s) \in SUBSET T
    BY <1>3 DEF ChunksOf
  <1> QED BY <1>5, <1>6, FS_Subset

LEMMA UnitsFinite ==
    ASSUME NEW r \in Parents, NEW a \in Nat, NEW s \in Nat, s > 0,
           NEW S \in SUBSET ChunksOf(r, a, s)
    PROVE  IsFiniteSet(Units(S)) /\ SizeOf(S) \in Nat
  <1>1. IsFiniteSet(S)
    BY ChunksFinite, FS_Subset
  <1>2. IsFiniteSet(1 .. output_width)
    BY Widths, FS_Interval
  <1>3. IsFiniteSet(S \X (1 .. output_width))
    BY <1>1, <1>2, FS_Product
  <1>4. ASSUME NEW u \in Units(S) PROVE u \in S \X (1 .. output_width)
    <2>1. PICK c \in S : u \in {c} \X (1 .. c.size)
      BY <1>4 DEF Units
    <2>2. c.size \in Nat /\ c.size <= output_width /\ output_width \in Nat
      BY ChunkIs, Widths
    <2> QED BY <2>1, <2>2
  <1>5. Units(S) \in SUBSET (S \X (1 .. output_width))
    BY <1>4
  <1>6. IsFiniteSet(Units(S))
    BY <1>3, <1>5, FS_Subset
  <1> QED BY <1>6, FS_CardinalityType DEF SizeOf

LEMMA SizeAdds ==
    ASSUME NEW r \in Parents, NEW a \in Nat, NEW s \in Nat, s > 0,
           NEW S \in SUBSET ChunksOf(r, a, s), NEW T \in SUBSET ChunksOf(r, a, s),
           S \cap T = {}
    PROVE  SizeOf(S \cup T) = SizeOf(S) + SizeOf(T)
  <1>1. IsFiniteSet(Units(S)) /\ IsFiniteSet(Units(T)) /\ SizeOf(S) \in Nat /\ SizeOf(T) \in Nat
    BY UnitsFinite
  <1>2. Units(S \cup T) = Units(S) \cup Units(T)
    BY DEF Units
  <1>3. Units(S) \cap Units(T) = {}
    <2>1. ASSUME NEW u \in Units(S), u \in Units(T) PROVE FALSE
      <3>1. PICK c \in S : u \in {c} \X (1 .. c.size)
        BY <2>1 DEF Units
      <3>2. PICK d \in T : u \in {d} \X (1 .. d.size)
        BY <2>1 DEF Units
      <3> QED BY <3>1, <3>2
    <2> QED BY <2>1
  <1>4. Cardinality(Units(S) \cup Units(T))
          = Cardinality(Units(S)) + Cardinality(Units(T)) - Cardinality(Units(S) \cap Units(T))
    BY <1>1, FS_Union
  <1>5. Cardinality(Units(S) \cap Units(T)) = 0
    BY <1>3, FS_EmptySet
  <1>6. PICK x, y : x = Cardinality(Units(S)) /\ y = Cardinality(Units(T))
    OBVIOUS
  <1>7. x \in Nat /\ y \in Nat /\ Cardinality(Units(S) \cup Units(T)) = x + y - 0
    BY <1>1, <1>4, <1>5, <1>6 DEF SizeOf
  <1>8. Cardinality(Units(S) \cup Units(T)) = x + y
    BY <1>7
  <1> QED BY <1>2, <1>6, <1>8 DEF SizeOf

LEMMA SizeOfOne ==
    ASSUME NEW c, c.size \in Nat
    PROVE  SizeOf({c}) = c.size
  <1>1. Units({c}) = {c} \X (1 .. c.size)
    BY DEF Units
  <1>2. IsFiniteSet({c}) /\ Cardinality({c}) = 1
    BY FS_Singleton
  <1>3. IsFiniteSet(1 .. c.size) /\ Cardinality(1 .. c.size) = c.size
    BY FS_Interval
  <1>4. Cardinality({c} \X (1 .. c.size)) = Cardinality({c}) * Cardinality(1 .. c.size)
    BY <1>2, <1>3, FS_Product
  <1>5. PICK n \in Nat : n = c.size
    OBVIOUS
  <1>6. Cardinality({c} \X (1 .. c.size)) = 1 * n
    BY <1>2, <1>3, <1>4, <1>5
  <1>7. 1 * n = n
    BY <1>5
  <1> QED BY <1>1, <1>5, <1>6, <1>7 DEF SizeOf

LEMMA SizeOfEmpty == SizeOf({}) = 0
  <1>1. Units({}) = {}
    BY DEF Units
  <1> QED BY <1>1, FS_EmptySet DEF SizeOf

LEMMA SizeIsZero ==
    ASSUME NEW r \in Parents, NEW a \in Nat, NEW s \in Nat, s > 0,
           NEW S \in SUBSET ChunksOf(r, a, s), SizeOf(S) = 0
    PROVE  S = {}
  <1>1. Units(S) = {}
    BY UnitsFinite, FS_EmptySet DEF SizeOf
  <1>2. ASSUME NEW c \in S PROVE FALSE
    <2>1. c.size \in Nat /\ c.size > 0
      BY ChunkIs
    <2>2. <<c, 1>> \in {c} \X (1 .. c.size)
      BY <2>1
    <2>3. <<c, 1>> \in Units(S)
      BY <2>2 DEF Units
    <2> QED BY <1>1, <2>3
  <1> QED BY <1>2

(* Each byte of each chunk is a byte of the request, and the only one.     *)
LEMMA SizeOfAll ==
    ASSUME NEW r \in Parents, NEW a \in Nat, NEW s \in Nat, s > 0, Fits(a, s)
    PROVE  SizeOf(ChunksOf(r, a, s)) = s
  <1>1. PICK C, U, B : C = ChunksOf(r, a, s) /\ U = Units(C) /\ B = a .. (a + s - 1)
    OBVIOUS
  <1>2. PICK f : f = [u \in U |-> u[1].addr + u[2] - 1]
    OBVIOUS
  <1>3. ASSUME NEW u \in U
        PROVE /\ u[1] \in C /\ u[2] \in Nat /\ u[1].addr \in Nat /\ u = <<u[1], u[2]>>
              /\ f[u] = u[1].addr + u[2] - 1 /\ f[u] \in ByteRange(u[1])
    <2>1. PICK c \in C : u \in {c} \X (1 .. c.size)
      BY <1>1 DEF Units
    <2>2. c.addr \in Nat /\ c.size \in Nat
      BY <1>1, ChunkIs
    <2>3. u[1] = c /\ u[2] \in 1 .. c.size /\ u = <<u[1], u[2]>>
      BY <2>1
    <2>4. c.addr + u[2] - 1 \in ByteRange(c)
      BY <2>2, <2>3 DEF ByteRange
    <2> QED BY <1>2, <2>1, <2>2, <2>3, <2>4
  <1>4. Covered(C) = B
    BY <1>1, ChunksTile
  <1>5. f \in [U -> B]
    <2>1. ASSUME NEW u \in U PROVE f[u] \in B
      BY <1>3, <1>4 DEF Covered
    <2> QED BY <1>2, <2>1
  <1>6. ASSUME NEW u \in U, NEW v \in U, f[u] = f[v] PROVE u = v
    <2>1. u[1] = v[1]
      <3>1. ByteRange(u[1]) \cap ByteRange(v[1]) # {}
        BY <1>3, <1>6
      <3>2. u[1] \in C /\ v[1] \in C
        BY <1>3
      <3> QED BY <1>1, <3>1, <3>2, ChunksApart
    <2>2. u[2] = v[2]
      BY <1>3, <1>6, <2>1
    <2> QED BY <1>3, <2>1, <2>2
  <1>7. ASSUME NEW b \in B PROVE \E u \in U : f[u] = b
    <2>1. PICK c \in C : b \in ByteRange(c)
      BY <1>4 DEF Covered
    <2>2. c.addr \in Nat /\ c.size \in Nat
      BY <1>1, ChunkIs
    <2>3. b \in Int /\ b - c.addr + 1 \in 1 .. c.size
      BY <2>1, <2>2 DEF ByteRange
    <2>4. <<c, b - c.addr + 1>> \in {c} \X (1 .. c.size)
      BY <2>3
    <2>5. <<c, b - c.addr + 1>> \in U
      BY <1>1, <2>4 DEF Units
    <2>6. f[<<c, b - c.addr + 1>>] = c.addr + (b - c.addr + 1) - 1
      BY <1>2, <2>5
    <2> QED BY <2>2, <2>3, <2>5, <2>6
  <1>8. f \in Injection(U, B) /\ f \in Surjection(U, B)
    BY <1>5, <1>6, <1>7 DEF Injection, Surjection, IsInjective
  <1>9. ExistsBijection(U, B)
    BY <1>8 DEF ExistsBijection, Bijection
  <1>10. IsFiniteSet(U)
    BY <1>1, UnitsFinite
  <1>11. Cardinality(B) = Cardinality(U)
    BY <1>9, <1>10, FS_Bijection
  <1>12. Cardinality(B) = s
    <2>1. /\ a \in Int /\ a + s - 1 \in Int /\ ~(a > a + s - 1) /\ (a + s - 1) - a + 1 = s
      OBVIOUS
    <2> QED BY <1>1, <2>1, FS_Interval
  <1> QED BY <1>1, <1>11, <1>12 DEF SizeOf

(* A finite set of numbers has a largest one. *)
LEMMA MaxExists ==
    ASSUME NEW S \in SUBSET Nat, IsFiniteSet(S), S # {}
    PROVE  \E m \in S : \A x \in S : x <= m
  <1> DEFINE NoMax(T) == T # {} /\ ~\E m \in T : \A x \in T : x <= m
             Sizes == {n \in Nat : \E T \in SUBSET Nat : IsFiniteSet(T) /\ Cardinality(T) = n
                                                           /\ NoMax(T)}
  <1>1. SUFFICES ASSUME NoMax(S) PROVE FALSE
    OBVIOUS
  <1>2. Cardinality(S) \in Sizes
    BY <1>1, FS_CardinalityType
  <1>3. PICK n \in Sizes : \A k \in Sizes : ~(<<k, n>> \in OpToRel(<, Nat))
    <2>1. Sizes \subseteq Nat
      OBVIOUS
    <2> HIDE DEF Sizes
    <2> QED BY <1>2, <2>1, NatLessThanWellFounded, WFMin, Zenon
  <1>4. n \in Nat /\ \A k \in Sizes : ~(k < n)
    BY <1>3, Zenon DEF OpToRel
  <1>5. PICK T \in SUBSET Nat : IsFiniteSet(T) /\ Cardinality(T) = n /\ NoMax(T)
    OBVIOUS
  <1>6. PICK x \in T : TRUE
    BY <1>5
  <1>7. PICK V : V = T \ {x}
    OBVIOUS
  <1>8. IsFiniteSet(V) /\ Cardinality(V) = n - 1 /\ V \in SUBSET Nat /\ n - 1 \in Nat
    <2>1. IsFiniteSet(V) /\ Cardinality(V) = n - 1
      BY <1>5, <1>6, <1>7, FS_RemoveElement
    <2>2. Cardinality(V) \in Nat
      BY <2>1, FS_CardinalityType
    <2> QED BY <1>7, <2>1, <2>2
  <1>9. ~NoMax(V)
    <2>1. n - 1 \notin Sizes
      BY <1>4, <1>8
    <2> QED BY <1>8, <2>1
  <1>10. CASE V = {}
    <2>1. \A y \in T : y <= x
      BY <1>5, <1>6, <1>7, <1>10
    <2> QED BY <1>5, <1>6, <2>1
  <1>11. CASE \E m \in V : \A y \in V : y <= m
    <2>1. PICK m \in V : \A y \in V : y <= m
      BY <1>11
    <2>2. m \in T /\ m \in Nat /\ x \in Nat /\ \A y \in T : y \in Nat /\ (y = x \/ y <= m)
      BY <1>5, <1>6, <1>7, <2>1
    <2>3. (\A y \in T : y <= x) \/ (\A y \in T : y <= m)
      BY <2>2
    <2> QED BY <1>5, <1>6, <2>2, <2>3
  <1> QED BY <1>9, <1>10, <1>11

(* What Max picks, and that it is the only one (MaxOf, below). *)
LEMMA MaxIs ==
    ASSUME NEW S \in SUBSET Nat, IsFiniteSet(S), S # {}
    PROVE  Max(S) \in S /\ \A x \in S : x <= Max(S)
  <1>1. PICK m \in S : \A x \in S : x <= m
    BY MaxExists
  <1>2. m \in S /\ \A y \in S : m >= y
    BY <1>1
  <1>3. Max(S) \in S /\ \A y \in S : Max(S) >= y
    BY <1>2 DEF Max
  <1> QED BY <1>3

(* The chunks that have been answered. *)
Firsts(an) == {p[1] : p \in an}

(* The answer of the parent is the slowest one, and an error when one is.  *)
Agg(an, lat, inv) ==
    /\ \A p \in an : p[2][1] <= lat
    /\ lat = 0 \/ \E p \in an : p[2][1] = lat
    /\ inv <=> \E p \in an : p[2][2]

(***************************************************************************)
(* One parent request r: its parked chunks P, those a slave holds, H, the  *)
(* answered ones with their answers, an, its access, state, and            *)
(* aggregation context; fa is fatal.                                       *)
(***************************************************************************)
ReqState(r, P, H, an, ac, u, rem, lat, inv, fa) ==
    /\ u # "error"
    /\ u # "granted" => P = {} /\ H = {}
    /\ u = "granted" =>
         /\ ac[2] > 0 /\ Fits(ac[1], ac[2])
         /\ P \cap H = {} /\ (P \cup H) \cap Firsts(an) = {}
         /\ P \cup H \cup Firsts(an) = ChunksOf(r, ac[1], ac[2])
         /\ P \cup H # {} /\ rem = SizeOf(P \cup H)
         /\ Agg(an, lat, inv)
    /\ u = "idle" /\ ~fa /\ an # {} /\ ac[2] > 0 =>
         /\ Fits(ac[1], ac[2])
         /\ Firsts(an) = ChunksOf(r, ac[1], ac[2])
         /\ Agg(an, lat, inv)

LEMMA AnswersType == \A x \in Answers : x[1] \in Nat /\ x[2] \in BOOLEAN
  BY SplitterAssumption

(* What account makes of the latency l and the status b of the parent. *)
Slowest(l, pairs)    == Max({l} \cup {p[2][1] : p \in pairs})
AnyInvalid(b, pairs) == b \/ \E p \in pairs : p[2][2]

(* More chunks answered: their answers are aggregated with the others. *)
LEMMA AggMore ==
    ASSUME NEW an \in SUBSET (Chunks \X Answers), NEW lat \in Nat, NEW inv \in BOOLEAN,
           Agg(an, lat, inv),
           NEW pairs \in SUBSET (Chunks \X Answers), IsFiniteSet(pairs),
           NEW m, m = Slowest(lat, pairs),
           NEW iv, iv = AnyInvalid(inv, pairs)
    PROVE  m \in Nat /\ iv \in BOOLEAN /\ Agg(an \cup pairs, m, iv)
  <1>1. \A p \in an \cup pairs : p[2] \in Answers /\ p[2][1] \in Nat
    BY AnswersType
  <1>2. PICK L : L = {p[2][1] : p \in pairs}
    OBVIOUS
  <1>3. IsFiniteSet(L)
    <2>1. PICK f : f = [p \in pairs |-> p[2][1]]
      OBVIOUS
    <2>2. f \in Surjection(pairs, L)
      BY <1>2, <2>1 DEF Surjection
    <2> QED BY <2>2, FS_Surjection
  <1>4. {lat} \cup L \in SUBSET Nat /\ IsFiniteSet({lat} \cup L) /\ {lat} \cup L # {}
    BY <1>1, <1>2, <1>3, FS_AddElement
  <1>5. m \in {lat} \cup L /\ \A x \in {lat} \cup L : x <= m
    BY <1>2, <1>4, MaxIs DEF Slowest
  <1>6. m \in Nat /\ lat <= m
    BY <1>4, <1>5
  <1>7. \A p \in an \cup pairs : p[2][1] <= m
    <2>1. ASSUME NEW p \in an PROVE p[2][1] <= m
      <3>1. p[2][1] \in Nat /\ p[2][1] <= lat
        BY <1>1 DEF Agg
      <3> QED BY <1>6, <3>1
    <2>2. ASSUME NEW p \in pairs PROVE p[2][1] <= m
      BY <1>2, <1>5
    <2> QED BY <2>1, <2>2
  <1>8. m = 0 \/ \E p \in an \cup pairs : p[2][1] = m
    BY <1>2, <1>5 DEF Agg
  <1>9. iv \in BOOLEAN /\ (iv <=> \E p \in an \cup pairs : p[2][2])
    BY Zenon DEF Agg, AnyInvalid
  <1> QED BY <1>6, <1>7, <1>8, <1>9 DEF Agg

LEMMA FirstsAdd ==
    ASSUME NEW an, NEW c, NEW x
    PROVE  Firsts(an \cup {<<c, x>>}) = Firsts(an) \cup {c}
  <1>1. PICK p : p = <<c, x>>
    OBVIOUS
  <1>2. p[1] = c
    BY <1>1
  <1>3. Firsts(an \cup {p}) = Firsts(an) \cup {p[1]}
    BY DEF Firsts
  <1> QED BY <1>1, <1>2, <1>3

(* Chunk c of a granted parent is accounted with answer x. *)
Accounted(r, P, H, an, ac, rem, lat, inv, fa, c, x, m, iv, u) ==
    /\ ReqState(r, P, H, an, ac, "granted", rem, lat, inv, fa) /\ c \in P \cup H
    /\ an \in SUBSET (Chunks \X Answers) /\ ac \in Nat \X Nat
    /\ lat \in Nat /\ inv \in BOOLEAN
    /\ m = Slowest(lat, {<<c, x>>}) /\ iv = AnyInvalid(inv, {<<c, x>>})
    /\ u = IF rem = c.size THEN "idle" ELSE "granted"

(* A granted parent: what is left of it and how it goes on when chunk c of *)
(* it is answered.                                                         *)
LEMMA AnswerOne ==
    ASSUME NEW r \in Parents, NEW P, NEW H, NEW an, NEW ac, NEW rem, NEW lat, NEW inv, NEW fa,
           NEW c, NEW x \in Answers, NEW m, NEW iv, NEW u,
           Accounted(r, P, H, an, ac, rem, lat, inv, fa, c, x, m, iv, u)
    PROVE  /\ c \in Chunks /\ c.parent = r
           /\ rem \in Nat /\ rem - SizeOf({c}) \in Nat /\ m \in Nat /\ iv \in BOOLEAN
           /\ ReqState(r, P \ {c}, H \ {c}, an \cup {<<c, x>>}, ac, u,
                       rem - SizeOf({c}), m, iv, fa)
  <1> USE DEF Accounted
  <1>1. PICK a, s : a = ac[1] /\ s = ac[2]
    OBVIOUS
  <1>2. a \in Nat /\ s \in Nat /\ s > 0 /\ Fits(a, s)
    BY <1>1 DEF ReqState
  <1>3. PICK O, C : O = P \cup H /\ C = ChunksOf(r, a, s)
    OBVIOUS
  <1>4. /\ P \cap H = {} /\ O \cap Firsts(an) = {} /\ O \cup Firsts(an) = C
        /\ rem = SizeOf(O) /\ c \in O /\ Agg(an, lat, inv)
    BY <1>1, <1>3 DEF ReqState
  <1>5. c \in Chunks /\ c.parent = r /\ c.size \in Nat /\ c.size > 0
    BY <1>2, <1>3, <1>4, ChunkIs
  <1>6. PICK R : R = O \ {c}
    OBVIOUS
  <1>7. R \in SUBSET C /\ {c} \in SUBSET C /\ R \cap {c} = {} /\ R \cup {c} = O
    BY <1>4, <1>6
  <1>8. SizeOf(O) = SizeOf(R) + SizeOf({c}) /\ SizeOf({c}) = c.size /\ SizeOf(R) \in Nat
    <2>1. SizeOf(R \cup {c}) = SizeOf(R) + SizeOf({c})
      BY <1>2, <1>3, <1>7, SizeAdds
    <2>2. SizeOf({c}) = c.size
      BY <1>5, SizeOfOne
    <2>3. SizeOf(R) \in Nat
      BY <1>2, <1>3, <1>7, UnitsFinite
    <2> QED BY <1>7, <2>1, <2>2, <2>3
  <1>9. /\ rem \in Nat /\ rem - SizeOf({c}) = SizeOf(R)
        /\ rem = c.size <=> SizeOf(R) = 0
    BY <1>4, <1>5, <1>8
  <1>10. rem = c.size <=> R = {}
    BY <1>2, <1>3, <1>7, <1>9, SizeIsZero, SizeOfEmpty
  <1>11. Firsts(an \cup {<<c, x>>}) = Firsts(an) \cup {c}
    BY FirstsAdd
  <1>12. m \in Nat /\ iv \in BOOLEAN /\ Agg(an \cup {<<c, x>>}, m, iv)
    <2>1. PICK pairs : pairs = {<<c, x>>}
      OBVIOUS
    <2>2. pairs \in SUBSET (Chunks \X Answers)
      BY <1>5, <2>1
    <2>3. IsFiniteSet(pairs) /\ m = Slowest(lat, pairs)
      BY <2>1, FS_Singleton, Zenon
    <2>4. iv = AnyInvalid(inv, pairs)
      BY <2>1, Zenon
    <2>5. m \in Nat /\ iv \in BOOLEAN /\ Agg(an \cup pairs, m, iv)
      BY <1>4, <2>2, <2>3, <2>4, AggMore
    <2> QED BY <2>1, <2>5
  <1>13. /\ (P \ {c}) \cup (H \ {c}) = R /\ (P \ {c}) \cap (H \ {c}) = {}
         /\ R \cap (Firsts(an) \cup {c}) = {} /\ R \cup Firsts(an) \cup {c} = C
    BY <1>3, <1>4, <1>6
  <1>14. PICK y, PP, HH : y = an \cup {<<c, x>>} /\ PP = P \ {c} /\ HH = H \ {c}
    OBVIOUS
  <1>15. CASE R = {}
    <2>1. /\ PP = {} /\ HH = {} /\ Firsts(y) = C /\ Agg(y, m, iv)
      BY <1>11, <1>12, <1>13, <1>14, <1>15
    <2>2. ReqState(r, PP, HH, y, ac, "idle", rem - SizeOf({c}), m, iv, fa)
      BY <1>1, <1>2, <1>3, <2>1 DEF ReqState
    <2> QED BY <1>5, <1>8, <1>9, <1>10, <1>12, <1>14, <1>15, <2>2
  <1>16. CASE R # {}
    <2>1. /\ PP \cup HH = R /\ PP \cap HH = {} /\ (PP \cup HH) \cap Firsts(y) = {}
          /\ PP \cup HH \cup Firsts(y) = C /\ Agg(y, m, iv)
          /\ rem - SizeOf({c}) = SizeOf(PP \cup HH) /\ PP \cup HH # {}
      BY <1>9, <1>11, <1>12, <1>13, <1>14, <1>16
    <2>2. ReqState(r, PP, HH, y, ac, "granted", rem - SizeOf({c}), m, iv, fa)
      BY <1>1, <1>2, <1>3, <2>1 DEF ReqState
    <2> QED BY <1>5, <1>8, <1>9, <1>10, <1>12, <1>14, <1>16, <2>2
  <1> QED BY <1>15, <1>16

(* trace.fatal forgives an unfinished answer. *)
LEMMA ReqStateFatal ==
    ASSUME NEW r, NEW P, NEW H, NEW an, NEW ac, NEW u, NEW rem, NEW lat, NEW inv,
           NEW fa, NEW fb,
           ReqState(r, P, H, an, ac, u, rem, lat, inv, fa), fb \/ fb = fa
    PROVE  ReqState(r, P, H, an, ac, u, rem, lat, inv, fb)
  BY DEF ReqState

(* The same parent when a parked chunk of it goes out. *)
LEMMA ReplayOne ==
    ASSUME NEW r \in Parents, NEW P, NEW H, NEW an, NEW ac, NEW rem, NEW lat, NEW inv,
           NEW fa, NEW u,
           ReqState(r, P, H, an, ac, u, rem, lat, inv, fa), NEW c \in P
    PROVE  ReqState(r, P \ {c}, H \cup {c}, an, ac, u, rem, lat, inv, fa)
  <1>1. u = "granted"
    BY DEF ReqState
  <1>2. PICK PP, HH : PP = P \ {c} /\ HH = H \cup {c}
    OBVIOUS
  <1>3. PP \cup HH = P \cup H /\ (P \cap H = {} => PP \cap HH = {})
    BY <1>2
  <1>4. ReqState(r, PP, HH, an, ac, u, rem, lat, inv, fa)
    BY <1>1, <1>3 DEF ReqState
  <1> QED BY <1>2, <1>4

(* The answers issue collects inline. *)
LEMMA AggFirst ==
    ASSUME NEW pairs \in SUBSET (Chunks \X Answers), IsFiniteSet(pairs),
           NEW lat, lat = Slowest(0, pairs),
           NEW inv, inv = AnyInvalid(FALSE, pairs)
    PROVE  lat \in Nat /\ inv \in BOOLEAN /\ Agg(pairs, lat, inv)
  <1>1. PICK an, z, f : an = {} /\ z = 0 /\ f = FALSE
    OBVIOUS
  <1>2. an \in SUBSET (Chunks \X Answers) /\ z \in Nat /\ f \in BOOLEAN /\ Agg(an, z, f)
    BY <1>1 DEF Agg
  <1>3. lat = Slowest(z, pairs)
    BY <1>1
  <1>4. inv = AnyInvalid(f, pairs)
    BY <1>1, Zenon
  <1>5. lat \in Nat /\ inv \in BOOLEAN /\ Agg(an \cup pairs, lat, inv)
    BY <1>2, <1>3, <1>4, AggMore, Zenon
  <1>6. an \cup pairs = pairs
    BY <1>1
  <1> QED BY <1>5, <1>6

(* The chunks of D with their answers. *)
PairsOf(D, ans) == {<<c, ans[c]>> : c \in D}

(* The state issue leaves the parent in: D answered at once, H taken, P    *)
(* denied.                                                                 *)
Issued(r, ac, P, H, D, ans, pairs, rem, lat, inv, u) ==
    /\ ac[2] > 0 /\ Fits(ac[1], ac[2])
    /\ P \cup H \cup D = ChunksOf(r, ac[1], ac[2])
    /\ P \cap H = {} /\ P \cap D = {} /\ H \cap D = {}
    /\ ans \in [D -> Answers] /\ pairs = PairsOf(D, ans)
    /\ rem = ac[2] - SizeOf(Firsts(pairs))
    /\ lat = Slowest(0, pairs) /\ inv = AnyInvalid(FALSE, pairs)
    /\ u = IF rem = 0 THEN "idle" ELSE "granted"

LEMMA IssueOne ==
    ASSUME NEW r \in Parents, NEW ac \in Nat \X Nat, NEW P, NEW H, NEW D, NEW ans, NEW pairs,
           NEW rem, NEW lat, NEW inv, NEW u, NEW fa,
           Issued(r, ac, P, H, D, ans, pairs, rem, lat, inv, u)
    PROVE  /\ rem \in Nat /\ lat \in Nat /\ inv \in BOOLEAN
           /\ pairs \in SUBSET (Chunks \X Answers)
           /\ ReqState(r, P, H, pairs, ac, u, rem, lat, inv, fa)
  <1> USE DEF Issued
  <1>1. PICK a, s, C : a = ac[1] /\ s = ac[2] /\ C = ChunksOf(r, a, s)
    OBVIOUS
  <1>2. a \in Nat /\ s \in Nat /\ s > 0 /\ Fits(a, s)
    BY <1>1
  <1>3. D \in SUBSET C /\ P \cup H \in SUBSET C
        /\ (P \cup H) \cap D = {} /\ (P \cup H) \cup D = C
    BY <1>1
  <1>4. C \in SUBSET Chunks
    BY <1>1, <1>2, ChunkIs
  <1>5. pairs \in SUBSET (Chunks \X Answers) /\ Firsts(pairs) = D
    <2>1. ASSUME NEW p \in pairs PROVE p \in Chunks \X Answers /\ p[1] \in D
      BY <1>3, <1>4 DEF PairsOf
    <2>2. ASSUME NEW c \in D PROVE \E p \in pairs : p[1] = c
      <3>1. <<c, ans[c]>> \in pairs
        BY DEF PairsOf
      <3>2. <<c, ans[c]>>[1] = c
        OBVIOUS
      <3> QED BY <3>1, <3>2
    <2> QED BY <2>1, <2>2 DEF Firsts
  <1>6. IsFiniteSet(pairs)
    <2>1. IsFiniteSet(D)
      BY <1>1, <1>2, <1>3, ChunksFinite, FS_Subset
    <2>2. PICK f : f = [c \in D |-> <<c, ans[c]>>]
      OBVIOUS
    <2>3. f \in Surjection(D, pairs)
      BY <2>2 DEF Surjection, PairsOf
    <2> QED BY <2>1, <2>3, FS_Surjection
  <1>7. lat \in Nat /\ inv \in BOOLEAN /\ Agg(pairs, lat, inv)
    BY <1>5, <1>6, AggFirst
  <1>8. SizeOf(D) \in Nat /\ SizeOf(P \cup H) \in Nat /\ s = SizeOf(P \cup H) + SizeOf(D)
    <2>1. SizeOf((P \cup H) \cup D) = SizeOf(P \cup H) + SizeOf(D)
      BY <1>1, <1>2, <1>3, SizeAdds
    <2>2. SizeOf(D) \in Nat /\ SizeOf(P \cup H) \in Nat
      BY <1>1, <1>2, <1>3, UnitsFinite
    <2>3. SizeOf(C) = s
      BY <1>1, <1>2, SizeOfAll
    <2> QED BY <1>3, <2>1, <2>2, <2>3
  <1>9. rem = SizeOf(P \cup H) /\ rem \in Nat
    <2>1. PICK x, y : x = SizeOf(D) /\ y = SizeOf(P \cup H)
      OBVIOUS
    <2>2. x \in Nat /\ y \in Nat /\ s = y + x /\ rem = s - x
      BY <1>1, <1>5, <1>8, <2>1
    <2>3. rem = y
      BY <2>2
    <2> QED BY <2>1, <2>2, <2>3
  <1>10. rem = 0 <=> P \cup H = {}
    BY <1>1, <1>2, <1>3, <1>9, SizeIsZero, SizeOfEmpty
  <1>11. CASE rem = 0
    <2>1. ReqState(r, P, H, pairs, ac, "idle", rem, lat, inv, fa)
      BY <1>1, <1>2, <1>3, <1>5, <1>7, <1>10, <1>11 DEF ReqState
    <2> QED BY <1>5, <1>7, <1>9, <1>11, <2>1
  <1>12. CASE rem # 0
    <2>1. ReqState(r, P, H, pairs, ac, "granted", rem, lat, inv, fa)
      BY <1>1, <1>2, <1>3, <1>5, <1>7, <1>9, <1>10, <1>12 DEF ReqState
    <2> QED BY <1>5, <1>7, <1>9, <1>12, <2>1
  <1> QED BY <1>11, <1>12

(***************************************************************************)
(* The inductive invariant: the state of each parent, and the retry() debt.*)
(***************************************************************************)
ReqInv(r) ==
    ReqState(r, StuckOf(r), HeldOf(r), answered[r], acc[r], view[r],
             remaining_size[r], latency[r], invalid[r], fatal)

(* A chunk is parked at its own output. *)
StuckInPlace == \A i \in OutputIds : stuck[i] # None => stuck[i].id = i

(* The debt stands for the one refused parent. *)
RetryDebt ==
    /\ \A q, r \in Parents : view[q] = "denied" /\ view[r] = "denied" => q = r
    /\ splitter_needs_retry => \E r \in Parents : view[r] = "denied"

SplitterInv == SplitterTypeOK /\ StuckInPlace /\ RetryDebt /\ NoLostChunk /\ \A r \in Parents : ReqInv(r)

-----------------------------------------------------------------------------
LEMMA InStuckOf ==
    ASSUME NEW r, NEW c
    PROVE  c \in StuckOf(r) <=> \E i \in OutputIds : stuck[i] = c /\ c # None /\ c.parent = r
  BY DEF StuckOf

LEMMA InStuckOfPrime ==
    ASSUME NEW r, NEW c
    PROVE  c \in StuckOf(r)' <=> \E i \in OutputIds : stuck'[i] = c /\ c # None /\ c.parent = r
  BY DEF StuckOf

LEMMA NotNone == \A c \in Chunks : c # None
  BY SplitterAssumption

(* What does not concern a parent leaves its part of the invariant alone.  *)
LEMMA ParentFrame ==
    ASSUME NEW r \in Parents, ReqInv(r),
           StuckOf(r)' = StuckOf(r), HeldOf(r)' = HeldOf(r),
           answered'[r] = answered[r], acc'[r] = acc[r], view'[r] = view[r],
           remaining_size'[r] = remaining_size[r], latency'[r] = latency[r],
           invalid'[r] = invalid[r], fatal' = fatal
    PROVE  ReqInv(r)'
  BY DEF ReqInv

(* stuck, once issue has parked the chunks of P. *)
ParkedAt(P) == [i \in OutputIds |-> IF \E c \in P : c.id = i
                                     THEN CHOOSE c \in P : c.id = i ELSE stuck[i]]

(* Nothing is parked: StuckOf is empty, and issue parks what was denied.   *)
LEMMA Parking ==
    ASSUME SplitterTypeOK, ~any_stuck, NEW r \in Parents, NEW a \in Nat, NEW s \in Nat, s > 0,
           NEW P \in SUBSET ChunksOf(r, a, s),
           stuck' = ParkedAt(P)
    PROVE  /\ stuck' \in [OutputIds -> Chunks \cup {None}] /\ StuckInPlace'
           /\ StuckOf(r)' = P
           /\ \A q \in Parents : StuckOf(q) = {} /\ (q # r => StuckOf(q)' = {})
  <1>1. \A i \in OutputIds : stuck[i] = None
    BY DEF any_stuck
  <1>2. ASSUME NEW i \in OutputIds
        PROVE \/ stuck'[i] \in P /\ stuck'[i].id = i
              \/ stuck'[i] = None /\ \A c \in P : c.id # i
    <2>1. CASE \E c \in P : c.id = i
      <3>1. stuck'[i] = CHOOSE c \in P : c.id = i
        BY <2>1 DEF ParkedAt
      <3> QED BY <2>1, <3>1
    <2>2. CASE ~\E c \in P : c.id = i
      BY <1>1, <2>2 DEF ParkedAt
    <2> QED BY <2>1, <2>2
  <1>3. \A c \in P : c \in Chunks /\ c # None /\ c.parent = r /\ c.id \in OutputIds
    BY ChunkIs, NotNone
  <1>4. stuck' \in [OutputIds -> Chunks \cup {None}]
    <2>1. \A i \in OutputIds : stuck'[i] \in Chunks \cup {None}
      BY <1>2, <1>3
    <2>2. stuck' = [i \in OutputIds |-> stuck'[i]]
      BY DEF ParkedAt
    <2> QED BY <2>1, <2>2
  <1>5. StuckInPlace'
    BY <1>2 DEF StuckInPlace
  <1>6. ASSUME NEW c PROVE c \in StuckOf(r)' <=> c \in P
    <2>1. ASSUME c \in StuckOf(r)' PROVE c \in P
      BY <1>2, <2>1, InStuckOfPrime
    <2>2. ASSUME c \in P PROVE c \in StuckOf(r)'
      <3>1. c.id \in OutputIds /\ c # None /\ c.parent = r
        BY <1>3, <2>2
      <3>2. stuck'[c.id] \in P /\ stuck'[c.id].id = c.id
        BY <1>2, <2>2, <3>1
      <3>3. stuck'[c.id] = c
        BY <2>2, <3>2, ChunksApart
      <3> QED BY <3>1, <3>3, InStuckOfPrime
    <2> QED BY <2>1, <2>2
  <1>7. ASSUME NEW q \in Parents PROVE StuckOf(q) = {}
    BY <1>1, InStuckOf
  <1>8. ASSUME NEW q \in Parents, q # r PROVE StuckOf(q)' = {}
    <2>1. ASSUME NEW c \in StuckOf(q)' PROVE FALSE
      <3>1. PICK i \in OutputIds : stuck'[i] = c /\ c # None /\ c.parent = q
        BY <2>1, InStuckOfPrime
      <3> QED BY <1>2, <1>3, <1>8, <3>1
    <2> QED BY <2>1
  <1> QED BY <1>4, <1>5, <1>6, <1>7, <1>8

(* issue, with the chunks its outputs denied, took and answered. *)
IssueWith(r, s, P, H, D, ans) ==
    /\ Account(r, s, 0, FALSE, PairsOf(D, ans))
    /\ answered' = [answered EXCEPT ![r] = PairsOf(D, ans)]
    /\ stuck' = ParkedAt(P)
    /\ held' = held \cup H
    /\ view' = [view EXCEPT ![r] = IF remaining_size'[r] = 0 THEN "idle" ELSE "granted"]

(* Splitter::issue. *)
LEMMA IssueInv ==
    ASSUME SplitterInv, ~any_stuck, NEW r \in Parents, view[r] # "granted",
           NEW x \in Nat \X Nat, x[2] > 0, Fits(x[1], x[2]), Issue(r, x[1], x[2]),
           acc' = [acc EXCEPT ![r] = x], fatal' = fatal
    PROVE  /\ stuck' \in [OutputIds -> Chunks \cup {None}] /\ StuckInPlace'
           /\ remaining_size' \in [Parents -> Nat] /\ latency' \in [Parents -> Nat]
           /\ invalid' \in [Parents -> BOOLEAN] /\ held' \subseteq Chunks
           /\ answered' \in [Parents -> SUBSET (Chunks \X Answers)]
           /\ view' = [view EXCEPT ![r] = "idle"] \/ view' = [view EXCEPT ![r] = "granted"]
           /\ \A q \in Parents : ReqInv(q)'
  <1>1. PICK C : C = ChunksOf(r, x[1], x[2])
    OBVIOUS
  <1>2. PICK st \in [ChunksOf(r, x[1], x[2]) -> IoReqStatus] :
          \E ans \in [{c \in ChunksOf(r, x[1], x[2]) : st[c] = IO_REQ_DONE} -> Answers] :
             IssueWith(r, x[2], {c \in ChunksOf(r, x[1], x[2]) : st[c] = IO_REQ_DENIED},
                       {c \in ChunksOf(r, x[1], x[2]) : st[c] = IO_REQ_GRANTED},
                       {c \in ChunksOf(r, x[1], x[2]) : st[c] = IO_REQ_DONE}, ans)
    BY Zenon DEF Issue, IssueWith, ParkedAt, PairsOf
  <1>3. PICK P, H, D : /\ P = {c \in C : st[c] = IO_REQ_DENIED}
                       /\ H = {c \in C : st[c] = IO_REQ_GRANTED}
                       /\ D = {c \in C : st[c] = IO_REQ_DONE}
    OBVIOUS
  <1>4. PICK ans \in [D -> Answers] : IssueWith(r, x[2], P, H, D, ans)
    BY <1>1, <1>2, <1>3
  <1>5. PICK pairs : pairs = PairsOf(D, ans)
    OBVIOUS
  <1>6. /\ Account(r, x[2], 0, FALSE, pairs)
        /\ answered' = [answered EXCEPT ![r] = pairs]
        /\ stuck' = ParkedAt(P)
        /\ held' = held \cup H
        /\ view' = [view EXCEPT ![r] = IF remaining_size'[r] = 0 THEN "idle" ELSE "granted"]
    BY <1>4, <1>5 DEF IssueWith
  <1>7. /\ P \cup H \cup D = C /\ P \cap H = {} /\ P \cap D = {} /\ H \cap D = {}
    BY <1>1, <1>2, <1>3 DEF IoReqStatus, IO_REQ_DONE, IO_REQ_GRANTED, IO_REQ_DENIED
  <1>8. x[1] \in Nat /\ x[2] \in Nat
    OBVIOUS
  <1>9. \A c \in C : c \in Chunks /\ c.parent = r
    BY <1>1, <1>8, ChunkIs
  <1>10. SplitterTypeOK
    BY DEF SplitterInv
  <1>11. /\ stuck' \in [OutputIds -> Chunks \cup {None}] /\ StuckInPlace'
        /\ StuckOf(r)' = P
        /\ \A q \in Parents : StuckOf(q) = {} /\ (q # r => StuckOf(q)' = {})
    BY <1>1, <1>6, <1>7, <1>8, <1>10, Parking
  <1>12. /\ remaining_size' = [remaining_size EXCEPT ![r] = x[2] - SizeOf(Firsts(pairs))]
         /\ latency' = [latency EXCEPT ![r] = Slowest(0, pairs)]
         /\ invalid' = [invalid EXCEPT ![r] = AnyInvalid(FALSE, pairs)]
    BY <1>6 DEF Account, Firsts, Slowest, AnyInvalid
  <1>13. PICK rem, lat, inv, u : /\ rem = x[2] - SizeOf(Firsts(pairs))
                                 /\ lat = Slowest(0, pairs)
                                 /\ inv = AnyInvalid(FALSE, pairs)
                                 /\ u = IF rem = 0 THEN "idle" ELSE "granted"
    OBVIOUS
  <1>14. /\ rem \in Nat /\ lat \in Nat /\ inv \in BOOLEAN
         /\ pairs \in SUBSET (Chunks \X Answers)
         /\ ReqState(r, P, H, pairs, x, u, rem, lat, inv, fatal)
    <2>1. Issued(r, x, P, H, D, ans, pairs, rem, lat, inv, u)
      BY <1>1, <1>7, <1>13, <1>5 DEF Issued
    <2> QED BY <2>1, IssueOne
  <1>15. /\ remaining_size' = [remaining_size EXCEPT ![r] = rem]
         /\ latency' = [latency EXCEPT ![r] = lat]
         /\ invalid' = [invalid EXCEPT ![r] = inv]
    BY <1>12, <1>13
  <1>16. /\ remaining_size' \in [Parents -> Nat] /\ latency' \in [Parents -> Nat]
         /\ invalid' \in [Parents -> BOOLEAN] /\ held' \subseteq Chunks
         /\ answered' \in [Parents -> SUBSET (Chunks \X Answers)]
    <2>1. remaining_size' \in [Parents -> Nat] /\ latency' \in [Parents -> Nat]
      BY <1>10, <1>14, <1>15 DEF SplitterTypeOK
    <2>2. invalid' \in [Parents -> BOOLEAN]
      BY <1>10, <1>14, <1>15 DEF SplitterTypeOK
    <2>3. held' \subseteq Chunks
      BY <1>6, <1>7, <1>9, <1>10 DEF SplitterTypeOK
    <2>4. answered' \in [Parents -> SUBSET (Chunks \X Answers)]
      BY <1>6, <1>10, <1>14 DEF SplitterTypeOK
    <2> QED BY <2>1, <2>2, <2>3, <2>4
  <1>17. /\ answered'[r] = pairs /\ acc'[r] = x
         /\ remaining_size'[r] = rem /\ latency'[r] = lat /\ invalid'[r] = inv
    BY <1>6, <1>10, <1>15 DEF SplitterTypeOK
  <1>18. view'[r] = u
    BY <1>6, <1>10, <1>13, <1>17 DEF SplitterTypeOK
  <1>19. HeldOf(r)' = H
    <2>1. HeldOf(r) = {}
      BY DEF SplitterInv, ReqInv, ReqState
    <2> QED BY <1>6, <1>7, <1>9, <2>1 DEF HeldOf
  <1>20. ReqInv(r)'
    BY <1>11, <1>14, <1>17, <1>18, <1>19 DEF ReqInv
  <1>21. ASSUME NEW q \in Parents, q # r PROVE ReqInv(q)'
    <2>1. HeldOf(q)' = HeldOf(q)
      BY <1>6, <1>7, <1>9, <1>21 DEF HeldOf
    <2>2. /\ answered'[q] = answered[q] /\ acc'[q] = acc[q] /\ view'[q] = view[q]
          /\ remaining_size'[q] = remaining_size[q] /\ latency'[q] = latency[q]
          /\ invalid'[q] = invalid[q]
      BY <1>6, <1>10, <1>15, <1>21 DEF SplitterTypeOK
    <2>3. StuckOf(q)' = StuckOf(q) /\ ReqInv(q)
      BY <1>11, <1>21 DEF SplitterInv
    <2> QED BY <2>1, <2>2, <2>3, ParentFrame
  <1>22. view' = [view EXCEPT ![r] = "idle"] \/ view' = [view EXCEPT ![r] = "granted"]
    BY <1>6
  <1> QED BY <1>11, <1>16, <1>20, <1>21, <1>22

(***************************************************************************)
(* Splitter::input_req, on a fresh request or a re-issued one: what it     *)
(* does to the wake-up state (Admits) and that the rest is kept.           *)
(***************************************************************************)
Admits(r) ==
    \/ /\ any_stuck /\ splitter_needs_retry' = TRUE /\ view' = [view EXCEPT ![r] = "denied"]
       /\ stuck' = stuck /\ fatal' = fatal
    \/ /\ ~any_stuck /\ splitter_needs_retry' = splitter_needs_retry /\ fatal' = fatal
       /\ view' = [view EXCEPT ![r] = "idle"] \/ view' = [view EXCEPT ![r] = "granted"]
    \/ /\ ~any_stuck /\ splitter_needs_retry' = splitter_needs_retry /\ view' = view
       /\ stuck' = stuck /\ fatal' = TRUE

(* Everything but splitter_call and the wake-up state. *)
Kept ==
    /\ stuck \in [OutputIds -> Chunks \cup {None}] /\ StuckInPlace
    /\ remaining_size \in [Parents -> Nat] /\ latency \in [Parents -> Nat]
    /\ invalid \in [Parents -> BOOLEAN] /\ held \subseteq Chunks
    /\ answered \in [Parents -> SUBSET (Chunks \X Answers)]
    /\ acc \in [Parents -> Nat \X Nat]
    /\ \A q \in Parents : ReqInv(q)

LEMMA InputReqInv ==
    ASSUME SplitterInv, NEW r \in Parents, view[r] # "granted",
           NEW x \in Nat \X Nat, SplitterInputReq(r, x[1], x[2]), acc' = [acc EXCEPT ![r] = x]
    PROVE  Kept' /\ Admits(r)
  <1>1. SplitterTypeOK /\ StuckInPlace /\ \A q \in Parents : ReqInv(q)
    BY DEF SplitterInv
  <1>2. /\ acc' \in [Parents -> Nat \X Nat] /\ acc'[r] = x
        /\ \A q \in Parents : q # r => acc'[q] = acc[q]
    BY <1>1 DEF SplitterTypeOK
  <1>3. StuckOf(r) = {} /\ HeldOf(r) = {} /\ view[r] # "error"
    BY <1>1 DEF ReqInv, ReqState
  <1>4. ASSUME UNCHANGED <<stuck, remaining_size, latency, held, answered>>,
               invalid' \in [Parents -> BOOLEAN],
               \A q \in Parents : q # r => view'[q] = view[q] /\ invalid'[q] = invalid[q],
               view'[r] # "granted" /\ view'[r] # "error",
               fatal' \/ (fatal' = fatal /\ (view'[r] = "idle" => x[2] = 0))
        PROVE Kept'
    <2>1. \A q \in Parents : StuckOf(q)' = StuckOf(q) /\ HeldOf(q)' = HeldOf(q)
      BY <1>4 DEF StuckOf, HeldOf
    <2>2. ReqInv(r)'
      <3>1. ReqState(r, {}, {}, answered'[r], x, view'[r], remaining_size'[r], latency'[r],
                     invalid'[r], fatal')
        BY <1>4 DEF ReqState
      <3> QED BY <1>2, <1>3, <2>1, <3>1 DEF ReqInv
    <2>3. ASSUME NEW q \in Parents, q # r PROVE ReqInv(q)'
      <3>1. ReqState(q, StuckOf(q), HeldOf(q), answered[q], acc[q], view[q],
                     remaining_size[q], latency[q], invalid[q], fatal')
        <4>1. ReqState(q, StuckOf(q), HeldOf(q), answered[q], acc[q], view[q],
                       remaining_size[q], latency[q], invalid[q], fatal)
          BY <1>1 DEF ReqInv
        <4>2. fatal' \/ fatal' = fatal
          BY <1>4
        <4> QED BY <4>1, <4>2, ReqStateFatal
      <3> QED BY <1>2, <1>4, <2>1, <2>3, <3>1 DEF ReqInv
    <2>4. StuckInPlace'
      BY <1>1, <1>4 DEF StuckInPlace
    <2> QED BY <1>1, <1>2, <1>4, <2>2, <2>3, <2>4 DEF Kept, SplitterTypeOK
  <1>5. CASE /\ any_stuck
             /\ splitter_needs_retry' = TRUE
             /\ view' = [view EXCEPT ![r] = "denied"]
             /\ UNCHANGED <<stuck, remaining_size, latency, invalid, fatal, held, answered>>
    <2>1. view'[r] = "denied" /\ \A q \in Parents : q # r => view'[q] = view[q]
      BY <1>1, <1>5 DEF SplitterTypeOK
    <2>2. Kept'
      BY <1>1, <1>4, <1>5, <2>1 DEF SplitterTypeOK
    <2> QED BY <1>5, <2>2 DEF Admits
  <1>6. CASE /\ ~any_stuck /\ x[2] = 0
             /\ invalid' = [invalid EXCEPT ![r] = FALSE]
             /\ view' = [view EXCEPT ![r] = "idle"]
             /\ UNCHANGED <<stuck, splitter_needs_retry, remaining_size, latency, fatal, held,
                            answered>>
    <2>1. view'[r] = "idle" /\ \A q \in Parents : q # r => view'[q] = view[q] /\ invalid'[q] = invalid[q]
      BY <1>1, <1>6 DEF SplitterTypeOK
    <2>2. invalid' \in [Parents -> BOOLEAN]
      BY <1>1, <1>6 DEF SplitterTypeOK
    <2>3. Kept'
      BY <1>4, <1>6, <2>1, <2>2
    <2> QED BY <1>6, <2>3 DEF Admits
  <1>7. CASE /\ ~any_stuck /\ x[2] > 0 /\ ~Fits(x[1], x[2])
             /\ fatal' = TRUE
             /\ UNCHANGED <<stuck, splitter_needs_retry, remaining_size, latency, invalid, view, held,
                            answered>>
    <2>1. invalid' \in [Parents -> BOOLEAN]
      BY <1>1, <1>7 DEF SplitterTypeOK
    <2>2. Kept'
      BY <1>3, <1>4, <1>7, <2>1
    <2> QED BY <1>7, <2>2 DEF Admits
  <1>8. CASE /\ ~any_stuck /\ x[2] > 0 /\ Fits(x[1], x[2])
             /\ Issue(r, x[1], x[2])
             /\ UNCHANGED <<splitter_needs_retry, fatal>>
    <2>1. /\ stuck' \in [OutputIds -> Chunks \cup {None}] /\ StuckInPlace'
          /\ remaining_size' \in [Parents -> Nat] /\ latency' \in [Parents -> Nat]
          /\ invalid' \in [Parents -> BOOLEAN] /\ held' \subseteq Chunks
          /\ answered' \in [Parents -> SUBSET (Chunks \X Answers)]
          /\ view' = [view EXCEPT ![r] = "idle"] \/ view' = [view EXCEPT ![r] = "granted"]
          /\ \A q \in Parents : ReqInv(q)'
      BY <1>8, IssueInv
    <2> QED BY <1>2, <1>8, <2>1 DEF Kept, Admits
  <1> QED BY <1>5, <1>6, <1>7, <1>8 DEF SplitterInputReq

(***************************************************************************)
(* Splitter::account on one chunk of a parent that is not complete yet.    *)
(***************************************************************************)
LEMMA AccountOneInv ==
    ASSUME SplitterInv, NEW c, NEW r \in Parents, c \in StuckOf(r) \cup HeldOf(r), r = c.parent,
           NEW x \in Answers, AccountOne(c, x),
           \A q \in Parents : StuckOf(q)' = StuckOf(q) \ {c} /\ HeldOf(q)' = HeldOf(q) \ {c},
           stuck' \in [OutputIds -> Chunks \cup {None}], StuckInPlace', held' \subseteq Chunks,
           acc' = acc, fatal' = fatal
    PROVE  /\ Kept' /\ view[r] = "granted"
           /\ view' = [view EXCEPT ![r] = "idle"] \/ view' = view
  <1>1. SplitterTypeOK /\ ReqInv(r)
    BY DEF SplitterInv
  <1>2. view[r] = "granted"
    BY <1>1 DEF ReqInv, ReqState
  <1>3. PICK m, iv, u, rem, lat, inv, an, ac :
          /\ rem = remaining_size[r] /\ lat = latency[r] /\ inv = invalid[r]
          /\ an = answered[r] /\ ac = acc[r]
          /\ m = Slowest(lat, {<<c, x>>}) /\ iv = AnyInvalid(inv, {<<c, x>>})
          /\ u = IF rem = c.size THEN "idle" ELSE "granted"
    OBVIOUS
  <1>4. /\ lat \in Nat /\ an \in SUBSET (Chunks \X Answers) /\ ac \in Nat \X Nat
    BY <1>1, <1>3 DEF SplitterTypeOK
  <1>5. inv \in BOOLEAN
    BY <1>1, <1>3 DEF SplitterTypeOK
  <1>6. PICK P, H, fa : P = StuckOf(r) /\ H = HeldOf(r) /\ fa = fatal
    OBVIOUS
  <1>7. ReqState(r, P, H, an, ac, "granted", rem, lat, inv, fa) /\ c \in P \cup H
    BY <1>1, <1>2, <1>3, <1>6 DEF ReqInv
  <1>8. Accounted(r, P, H, an, ac, rem, lat, inv, fa, c, x, m, iv, u)
    BY <1>3, <1>4, <1>5, <1>7 DEF Accounted
  <1>9. /\ c \in Chunks /\ c.parent = r
        /\ rem \in Nat /\ rem - SizeOf({c}) \in Nat /\ m \in Nat /\ iv \in BOOLEAN
        /\ ReqState(r, P \ {c}, H \ {c}, an \cup {<<c, x>>}, ac, u,
                    rem - SizeOf({c}), m, iv, fa)
    BY <1>8, AnswerOne
  <1>10. {p[1] : p \in {<<c, x>>}} = {c}
    OBVIOUS
  <1>11. /\ remaining_size' = [remaining_size EXCEPT ![r] = rem - SizeOf({c})]
         /\ latency' = [latency EXCEPT ![r] = m]
         /\ answered' = [answered EXCEPT ![r] = an \cup {<<c, x>>}]
    BY <1>1, <1>3, <1>10 DEF AccountOne, Account, Slowest, SplitterTypeOK
  <1>12. invalid' = [invalid EXCEPT ![r] = iv]
    BY <1>3 DEF AccountOne, Account, AnyInvalid
  <1>13. view' = [view EXCEPT ![r] = u]
    BY <1>1, <1>2, <1>3 DEF AccountOne, AfterResp, SplitterTypeOK
  <1>14. /\ remaining_size' \in [Parents -> Nat] /\ latency' \in [Parents -> Nat]
         /\ answered' \in [Parents -> SUBSET (Chunks \X Answers)] /\ acc' \in [Parents -> Nat \X Nat]
    <2>1. <<c, x>> \in Chunks \X Answers
      BY <1>9
    <2> QED BY <1>1, <1>4, <1>9, <1>11, <2>1 DEF SplitterTypeOK
  <1>15. invalid' \in [Parents -> BOOLEAN]
    BY <1>1, <1>9, <1>12 DEF SplitterTypeOK
  <1>16. ReqInv(r)'
    <2>1. /\ answered'[r] = an \cup {<<c, x>>} /\ acc'[r] = ac /\ view'[r] = u
          /\ remaining_size'[r] = rem - SizeOf({c}) /\ latency'[r] = m /\ invalid'[r] = iv
      BY <1>1, <1>3, <1>11, <1>12, <1>13 DEF SplitterTypeOK
    <2>2. StuckOf(r)' = P \ {c} /\ HeldOf(r)' = H \ {c} /\ fatal' = fa
      BY <1>6
    <2> QED BY <1>9, <2>1, <2>2 DEF ReqInv
  <1>17. ASSUME NEW q \in Parents, q # r PROVE ReqInv(q)'
    <2>1. /\ answered'[q] = answered[q] /\ view'[q] = view[q]
          /\ remaining_size'[q] = remaining_size[q] /\ latency'[q] = latency[q]
          /\ invalid'[q] = invalid[q]
      BY <1>1, <1>11, <1>12, <1>13, <1>17 DEF SplitterTypeOK
    <2>2. c \notin StuckOf(q) /\ c \notin HeldOf(q)
      BY <1>9, <1>17, InStuckOf DEF HeldOf
    <2>3. StuckOf(q)' = StuckOf(q) /\ HeldOf(q)' = HeldOf(q) /\ ReqInv(q)
      BY <2>2 DEF SplitterInv
    <2> QED BY <2>1, <2>3, ParentFrame
  <1>18. view' = [view EXCEPT ![r] = "idle"] \/ view' = view
    BY <1>1, <1>2, <1>3, <1>13 DEF SplitterTypeOK
  <1> QED BY <1>2, <1>14, <1>15, <1>16, <1>17, <1>18 DEF Kept

(* splitter_call and the wake-up state: with Kept, the whole of SplitterInv. *)
Wakes ==
    /\ view \in [Parents -> MasterStates] /\ splitter_needs_retry \in BOOLEAN /\ fatal \in BOOLEAN
    /\ splitter_call \in {"idle", "resp", "tail", "retry", "retried"}
    /\ RetryDebt /\ NoLostChunk

LEMMA SplitterParts == SplitterInv <=> Kept /\ Wakes
  BY DEF SplitterInv, SplitterTypeOK, Kept, Wakes

LEMMA SplitterJoin == Kept' /\ Wakes' => SplitterInv'
  BY DEF SplitterInv, SplitterTypeOK, Kept, Wakes

LEMMA StatesAre == MasterStates = {"idle", "granted", "denied", "error"}
  BY DEF MasterStates

(* One lemma per action. *)
LEMMA ParentReqInv == ASSUME SplitterInv, NEW r \in Parents, ParentReq(r) PROVE SplitterInv'
  <1>1. PICK x \in Accesses : SplitterInputReq(r, x[1], x[2]) /\ acc' = [acc EXCEPT ![r] = x]
    BY DEF ParentReq
  <1>2. x \in Nat \X Nat
    BY SplitterAssumption
  <1>3. /\ ~fatal /\ view[r] = "idle" /\ NoneDenied(view, Parents)
        /\ splitter_call' = splitter_call /\ splitter_call \in {"idle", "resp", "retried"}
    BY DEF ParentReq
  <1>4. Kept' /\ Admits(r)
    BY <1>1, <1>2, <1>3, InputReqInv
  <1>5. Wakes
    BY SplitterParts
  <1>6. \A q \in Parents : view[q] # "denied"
    BY <1>3 DEF NoneDenied
  <1>7. CASE /\ any_stuck /\ splitter_needs_retry' = TRUE /\ view' = [view EXCEPT ![r] = "denied"]
             /\ stuck' = stuck /\ fatal' = fatal
    <2>1. any_stuck' = any_stuck
      BY <1>7 DEF any_stuck
    <2>2. view'[r] = "denied" /\ \A q \in Parents : q # r => view'[q] = view[q]
      BY <1>5, <1>7 DEF Wakes
    <2>3. view' \in [Parents -> MasterStates]
      BY <1>5, <1>7, StatesAre DEF Wakes
    <2>4. RetryDebt' /\ NoLostChunk'
      BY <1>3, <1>6, <1>7, <2>1, <2>2 DEF RetryDebt, NoLostChunk
    <2>5. Wakes'
      BY <1>3, <1>5, <1>7, <2>3, <2>4 DEF Wakes
    <2> QED BY <1>4, <2>5, SplitterJoin
  <1>8. CASE /\ ~any_stuck /\ splitter_needs_retry' = splitter_needs_retry /\ fatal' = fatal
             /\ view' = [view EXCEPT ![r] = "idle"] \/ view' = [view EXCEPT ![r] = "granted"]
    <2>1. \A q \in Parents : view'[q] # "denied"
      BY <1>5, <1>6, <1>8 DEF Wakes
    <2>2. view' \in [Parents -> MasterStates]
      BY <1>5, <1>8, StatesAre DEF Wakes
    <2>3. ~splitter_needs_retry
      BY <1>5, <1>6 DEF Wakes, RetryDebt
    <2>4. RetryDebt' /\ NoLostChunk'
      BY <1>3, <1>8, <2>1, <2>3 DEF RetryDebt, NoLostChunk
    <2>5. Wakes'
      BY <1>3, <1>5, <1>8, <2>2, <2>4 DEF Wakes
    <2> QED BY <1>4, <2>5, SplitterJoin
  <1>9. CASE /\ ~any_stuck /\ splitter_needs_retry' = splitter_needs_retry /\ view' = view
             /\ stuck' = stuck /\ fatal' = TRUE
    <2>1. any_stuck' = any_stuck
      BY <1>9 DEF any_stuck
    <2>2. RetryDebt' /\ NoLostChunk'
      BY <1>3, <1>5, <1>9, <2>1 DEF Wakes, RetryDebt, NoLostChunk
    <2>3. Wakes'
      BY <1>3, <1>5, <1>9, <2>2 DEF Wakes
    <2> QED BY <1>4, <2>3, SplitterJoin
  <1> QED BY <1>4, <1>7, <1>8, <1>9 DEF Admits

LEMMA ParentReissueInv == ASSUME SplitterInv, NEW r \in Parents, ParentReissue(r) PROVE SplitterInv'
  <1>1. /\ ~fatal /\ view[r] = "denied" /\ SplitterInputReq(r, acc[r][1], acc[r][2])
        /\ splitter_call = "retry" /\ splitter_call' = "retried" /\ acc' = acc
    BY DEF ParentReissue
  <1>2. PICK x : x = acc[r]
    OBVIOUS
  <1>3. x \in Nat \X Nat /\ acc' = [acc EXCEPT ![r] = x] /\ SplitterInputReq(r, x[1], x[2])
    BY <1>1, <1>2 DEF SplitterInv, SplitterTypeOK
  <1>4. Kept' /\ Admits(r)
    BY <1>1, <1>3, InputReqInv
  <1>5. Wakes
    BY SplitterParts
  <1>6. /\ ~any_stuck /\ ~splitter_needs_retry
        /\ \A q \in Parents : view[q] = "denied" => q = r
    BY <1>1, <1>5 DEF Wakes, RetryDebt, NoLostChunk
  <1>7. CASE /\ splitter_needs_retry' = splitter_needs_retry /\ fatal' = fatal
             /\ view' = [view EXCEPT ![r] = "idle"] \/ view' = [view EXCEPT ![r] = "granted"]
    <2>1. \A q \in Parents : view'[q] # "denied"
      BY <1>5, <1>6, <1>7 DEF Wakes
    <2>2. view' \in [Parents -> MasterStates]
      BY <1>5, <1>7, StatesAre DEF Wakes
    <2>3. RetryDebt' /\ NoLostChunk'
      BY <1>1, <1>6, <1>7, <2>1 DEF RetryDebt, NoLostChunk
    <2>4. Wakes'
      BY <1>1, <1>5, <1>7, <2>2, <2>3 DEF Wakes
    <2> QED BY <1>4, <2>4, SplitterJoin
  <1>8. CASE /\ splitter_needs_retry' = splitter_needs_retry /\ view' = view
             /\ stuck' = stuck /\ fatal' = TRUE
    <2>1. RetryDebt' /\ NoLostChunk'
      BY <1>1, <1>5, <1>6, <1>8 DEF Wakes, RetryDebt, NoLostChunk
    <2>2. Wakes'
      BY <1>1, <1>5, <1>8, <2>1 DEF Wakes
    <2> QED BY <1>4, <2>2, SplitterJoin
  <1> QED BY <1>4, <1>6, <1>7, <1>8 DEF Admits

(* A step that answers chunks refuses nobody. *)
LEMMA AnswerWakes ==
    ASSUME Wakes, NEW r \in Parents, view[r] = "granted", splitter_call = "idle",
           view' = [view EXCEPT ![r] = "idle"] \/ view' = view,
           UNCHANGED <<splitter_needs_retry, fatal>>,
           splitter_call' \in {"resp", "tail"} \/ (splitter_call' = "idle" /\ stuck' = stuck)
    PROVE  Wakes'
  <1>1. \A q \in Parents : view'[q] = "denied" <=> view[q] = "denied"
    BY DEF Wakes
  <1>2. view' \in [Parents -> MasterStates]
    BY StatesAre DEF Wakes
  <1>3. RetryDebt'
    BY <1>1 DEF Wakes, RetryDebt
  <1>4. NoLostChunk'
    <2>1. CASE splitter_call' \in {"resp", "tail"}
      BY <1>1, <2>1 DEF Wakes, NoLostChunk
    <2>2. CASE splitter_call' = "idle" /\ stuck' = stuck
      <3>1. any_stuck' = any_stuck
        BY <2>2 DEF any_stuck
      <3> QED BY <1>1, <2>2, <3>1 DEF Wakes, NoLostChunk
    <2> QED BY <2>1, <2>2
  <1> QED BY <1>2, <1>3, <1>4 DEF Wakes

LEMMA OutputRespInv == ASSUME SplitterInv, NEW c, SplitterOutputResp(c) PROVE SplitterInv'
  <1>1. PICK x \in Answers : AccountOne(c, x)
    BY DEF SplitterOutputResp
  <1>2. /\ splitter_call = "idle" /\ c \in held /\ held' = held \ {c}
        /\ UNCHANGED <<stuck, splitter_needs_retry, splitter_call, fatal, acc>>
    BY DEF SplitterOutputResp
  <1>3. SplitterTypeOK /\ StuckInPlace /\ \A q \in Parents : ReqInv(q)
    BY DEF SplitterInv
  <1>4. PICK r : r = c.parent
    OBVIOUS
  <1>5. c \in Chunks /\ r \in Parents
    BY <1>2, <1>3, <1>4 DEF SplitterTypeOK, Chunks
  <1>6. c \in HeldOf(r) /\ c \notin StuckOf(r)
    <2>1. c \in HeldOf(r)
      BY <1>2, <1>4 DEF HeldOf
    <2>2. ReqInv(r)
      BY <1>3, <1>5
    <2> QED BY <2>1, <2>2 DEF ReqInv, ReqState
  <1>7. ASSUME NEW q \in Parents
        PROVE StuckOf(q)' = StuckOf(q) \ {c} /\ HeldOf(q)' = HeldOf(q) \ {c}
    <2>1. StuckOf(q)' = StuckOf(q)
      BY <1>2 DEF StuckOf
    <2>2. c \notin StuckOf(q)
      BY <1>4, <1>6, InStuckOf
    <2>3. HeldOf(q)' = HeldOf(q) \ {c}
      BY <1>2 DEF HeldOf
    <2> QED BY <2>1, <2>2, <2>3
  <1>8. stuck' \in [OutputIds -> Chunks \cup {None}] /\ StuckInPlace' /\ held' \subseteq Chunks
    BY <1>2, <1>3 DEF SplitterTypeOK, StuckInPlace
  <1>9. Kept' /\ view[r] = "granted" /\ (view' = [view EXCEPT ![r] = "idle"] \/ view' = view)
    BY <1>1, <1>2, <1>4, <1>5, <1>6, <1>7, <1>8, AccountOneInv
  <1>10. Wakes'
    BY <1>2, <1>5, <1>9, SplitterParts, AnswerWakes
  <1> QED BY <1>9, <1>10, SplitterJoin

(* Unparking the chunk of output i. *)
LEMMA Unpark ==
    ASSUME SplitterTypeOK, StuckInPlace, NEW i \in OutputIds, stuck[i] # None,
           stuck' = [stuck EXCEPT ![i] = None]
    PROVE  /\ stuck[i] \in Chunks /\ stuck[i].parent \in Parents
           /\ stuck[i] \in StuckOf(stuck[i].parent)
           /\ stuck' \in [OutputIds -> Chunks \cup {None}] /\ StuckInPlace'
           /\ \A q \in Parents : StuckOf(q)' = StuckOf(q) \ {stuck[i]}
  <1>1. PICK c : c = stuck[i]
    OBVIOUS
  <1>2. c \in Chunks /\ c.parent \in Parents /\ c # None
    BY <1>1 DEF SplitterTypeOK, Chunks
  <1>3. c \in StuckOf(c.parent)
    BY <1>1, <1>2, InStuckOf
  <1>4. /\ stuck' \in [OutputIds -> Chunks \cup {None}] /\ stuck'[i] = None
        /\ \A j \in OutputIds : j # i => stuck'[j] = stuck[j]
    BY DEF SplitterTypeOK
  <1>5. StuckInPlace'
    BY <1>4 DEF StuckInPlace
  <1>6. ASSUME NEW q \in Parents, NEW d PROVE d \in StuckOf(q)' <=> d \in StuckOf(q) \ {c}
    <2>1. ASSUME d \in StuckOf(q)' PROVE d \in StuckOf(q) \ {c}
      <3>1. PICK j \in OutputIds : stuck'[j] = d /\ d # None /\ d.parent = q
        BY <2>1, InStuckOfPrime
      <3>2. j # i /\ stuck[j] = d
        BY <1>4, <3>1
      <3>3. d.id = j /\ c.id = i
        BY <1>1, <1>2, <3>1, <3>2 DEF StuckInPlace
      <3>4. d \in StuckOf(q)
        BY <3>1, <3>2, InStuckOf
      <3> QED BY <3>2, <3>3, <3>4
    <2>2. ASSUME d \in StuckOf(q) \ {c} PROVE d \in StuckOf(q)'
      <3>1. PICK j \in OutputIds : stuck[j] = d /\ d # None /\ d.parent = q
        BY <2>2, InStuckOf
      <3>2. stuck'[j] = d
        BY <1>1, <1>4, <2>2, <3>1
      <3> QED BY <3>1, <3>2, InStuckOfPrime
    <2> QED BY <2>1, <2>2
  <1>7. ASSUME NEW q \in Parents PROVE StuckOf(q)' = StuckOf(q) \ {c}
    BY <1>6
  <1> QED BY <1>1, <1>2, <1>3, <1>4, <1>5, <1>7

LEMMA OutputRetryInv ==
    ASSUME SplitterInv, NEW i \in OutputIds, NEW st \in IoReqStatus, SplitterOutputRetry(i, st)
    PROVE  SplitterInv'
  <1>1. /\ splitter_call = "idle" /\ stuck[i] # None /\ UNCHANGED <<splitter_needs_retry, fatal, acc>>
    BY DEF SplitterOutputRetry
  <1>2. SplitterTypeOK /\ StuckInPlace /\ \A q \in Parents : ReqInv(q)
    BY DEF SplitterInv
  <1>3. PICK c, r : c = stuck[i] /\ r = c.parent
    OBVIOUS
  <1>4. CASE UNCHANGED <<stuck, remaining_size, latency, invalid, splitter_call, view, held, answered>>
    <2>1. Kept'
      <3>1. \A q \in Parents : StuckOf(q)' = StuckOf(q) /\ HeldOf(q)' = HeldOf(q)
        BY <1>4 DEF StuckOf, HeldOf
      <3>2. \A q \in Parents : ReqInv(q)'
        BY <1>1, <1>2, <1>4, <3>1 DEF ReqInv
      <3>3. StuckInPlace'
        BY <1>2, <1>4 DEF StuckInPlace
      <3> QED BY <1>1, <1>2, <1>4, <3>2, <3>3 DEF Kept, SplitterTypeOK
    <2>2. any_stuck' = any_stuck
      BY <1>4 DEF any_stuck
    <2>3. Wakes
      BY SplitterParts
    <2>4. Wakes'
      BY <1>1, <1>4, <2>2, <2>3 DEF Wakes, RetryDebt, NoLostChunk
    <2> QED BY <2>1, <2>4, SplitterJoin
  <1>5. ASSUME stuck' = [stuck EXCEPT ![i] = None]
        PROVE /\ c \in Chunks /\ r \in Parents /\ c \in StuckOf(r) /\ c \notin HeldOf(r)
              /\ view[r] = "granted"
              /\ stuck' \in [OutputIds -> Chunks \cup {None}] /\ StuckInPlace'
              /\ \A q \in Parents : StuckOf(q)' = StuckOf(q) \ {c}
              /\ \A q \in Parents : q # r => c \notin StuckOf(q) /\ c \notin HeldOf(q)
    <2>1. /\ c \in Chunks /\ r \in Parents /\ c \in StuckOf(r)
          /\ stuck' \in [OutputIds -> Chunks \cup {None}] /\ StuckInPlace'
          /\ \A q \in Parents : StuckOf(q)' = StuckOf(q) \ {c}
      BY <1>1, <1>2, <1>3, <1>5, Unpark
    <2>2. ReqInv(r)
      BY <1>2, <2>1
    <2>3. c \notin HeldOf(r) /\ view[r] = "granted"
      BY <2>1, <2>2 DEF ReqInv, ReqState
    <2>4. \A q \in Parents : q # r => c \notin StuckOf(q) /\ c \notin HeldOf(q)
      BY <1>3, InStuckOf DEF HeldOf
    <2> QED BY <2>1, <2>3, <2>4
  <1>6. CASE /\ stuck' = [stuck EXCEPT ![i] = None]
             /\ \E x \in Answers : AccountOne(stuck[i], x)
             /\ splitter_call' \in {"resp", "tail"}
             /\ UNCHANGED held
    <2>1. PICK x \in Answers : AccountOne(c, x)
      BY <1>3, <1>6
    <2>2. ASSUME NEW q \in Parents
          PROVE StuckOf(q)' = StuckOf(q) \ {c} /\ HeldOf(q)' = HeldOf(q) \ {c}
      <3>1. HeldOf(q)' = HeldOf(q)
        BY <1>6 DEF HeldOf
      <3>2. c \notin HeldOf(q) /\ StuckOf(q)' = StuckOf(q) \ {c}
        BY <1>5, <1>6
      <3> QED BY <3>1, <3>2
    <2>3. held' \subseteq Chunks /\ acc' = acc /\ fatal' = fatal
      BY <1>1, <1>2, <1>6 DEF SplitterTypeOK
    <2>4. /\ r \in Parents /\ c \in StuckOf(r) \cup HeldOf(r) /\ r = c.parent
          /\ stuck' \in [OutputIds -> Chunks \cup {None}] /\ StuckInPlace'
      BY <1>3, <1>5, <1>6
    <2>5. Kept' /\ view[r] = "granted" /\ (view' = [view EXCEPT ![r] = "idle"] \/ view' = view)
      BY <2>1, <2>2, <2>3, <2>4, AccountOneInv
    <2>6. Wakes'
      BY <1>1, <1>6, <2>4, <2>5, SplitterParts, AnswerWakes
    <2> QED BY <2>5, <2>6, SplitterJoin
  <1>7. CASE /\ stuck' = [stuck EXCEPT ![i] = None]
             /\ held' = held \cup {stuck[i]}
             /\ splitter_call' = "tail"
             /\ UNCHANGED <<remaining_size, latency, invalid, view, answered>>
    <2>1. ASSUME NEW q \in Parents PROVE ReqInv(q)'
      <3>1. CASE q = r
        <4>1. HeldOf(r)' = HeldOf(r) \cup {c}
          BY <1>3, <1>7 DEF HeldOf
        <4>2. StuckOf(r)' = StuckOf(r) \ {c}
          BY <1>5, <1>7
        <4>3. ReqState(r, StuckOf(r), HeldOf(r), answered[r], acc[r], view[r],
                       remaining_size[r], latency[r], invalid[r], fatal)
          BY <1>2, <3>1 DEF ReqInv
        <4>4. ReqState(r, StuckOf(r) \ {c}, HeldOf(r) \cup {c}, answered[r], acc[r], view[r],
                       remaining_size[r], latency[r], invalid[r], fatal)
          BY <1>5, <1>7, <4>3, ReplayOne
        <4> QED BY <1>1, <1>7, <3>1, <4>1, <4>2, <4>4 DEF ReqInv
      <3>2. CASE q # r
        <4>1. HeldOf(q)' = HeldOf(q)
          BY <1>3, <1>7, <3>2 DEF HeldOf
        <4>2. StuckOf(q)' = StuckOf(q)
          BY <1>5, <1>7, <3>2
        <4> QED BY <1>1, <1>2, <1>7, <4>1, <4>2, ParentFrame
      <3> QED BY <3>1, <3>2
    <2>2. Kept'
      BY <1>1, <1>2, <1>3, <1>5, <1>7, <2>1 DEF Kept, SplitterTypeOK
    <2>3. Wakes'
      BY <1>1, <1>5, <1>7, SplitterParts, AnswerWakes
    <2> QED BY <2>2, <2>3, SplitterJoin
  <1>8. CASE st = IO_REQ_DENIED
    BY <1>4, <1>8 DEF SplitterOutputRetry, IO_REQ_DONE, IO_REQ_GRANTED, IO_REQ_DENIED
  <1>9. CASE st = IO_REQ_DONE
    BY <1>6, <1>9 DEF SplitterOutputRetry, IO_REQ_DONE, IO_REQ_GRANTED, IO_REQ_DENIED
  <1>10. CASE st = IO_REQ_GRANTED
    BY <1>7, <1>10 DEF SplitterOutputRetry, IO_REQ_DONE, IO_REQ_GRANTED, IO_REQ_DENIED
  <1> QED BY <1>8, <1>9, <1>10 DEF IoReqStatus

(* A step that only moves call and the debt. *)
LEMMA OnlyControl ==
    ASSUME SplitterInv,
           UNCHANGED <<stuck, remaining_size, latency, invalid, fatal, view, acc, held, answered>>
    PROVE  Kept' /\ Wakes /\ any_stuck' = any_stuck
  <1>1. SplitterTypeOK /\ StuckInPlace /\ \A q \in Parents : ReqInv(q)
    BY DEF SplitterInv
  <1>2. \A q \in Parents : StuckOf(q)' = StuckOf(q) /\ HeldOf(q)' = HeldOf(q)
    BY DEF StuckOf, HeldOf
  <1>3. \A q \in Parents : ReqInv(q)'
    BY <1>1, <1>2 DEF ReqInv
  <1>4. StuckInPlace'
    BY <1>1 DEF StuckInPlace
  <1>5. any_stuck' = any_stuck
    BY DEF any_stuck
  <1>6. Kept'
    BY <1>1, <1>3, <1>4 DEF Kept, SplitterTypeOK
  <1>7. Wakes
    BY SplitterParts
  <1> QED BY <1>5, <1>6, <1>7

LEMMA RetryTailInv == ASSUME SplitterInv, RetryTail PROVE SplitterInv'
  <1>1. Kept' /\ Wakes /\ any_stuck' = any_stuck
    BY OnlyControl DEF RetryTail
  <1>2. splitter_call \in {"resp", "tail"} /\ fatal' = fatal /\ view' = view
    BY DEF RetryTail
  <1>3. CASE splitter_needs_retry /\ ~any_stuck
    <2>1. splitter_needs_retry' = FALSE /\ splitter_call' = "retry"
      BY <1>3 DEF RetryTail
    <2>2. \E r \in Parents : view[r] = "denied"
      BY <1>1, <1>3 DEF Wakes, RetryDebt
    <2>3. RetryDebt' /\ NoLostChunk'
      BY <1>1, <1>2, <1>3, <2>1, <2>2 DEF Wakes, RetryDebt, NoLostChunk
    <2>4. Wakes'
      BY <1>1, <1>2, <2>1, <2>3 DEF Wakes
    <2> QED BY <1>1, <2>4, SplitterJoin
  <1>4. CASE ~(splitter_needs_retry /\ ~any_stuck)
    <2>1. splitter_needs_retry' = splitter_needs_retry /\ splitter_call' = "idle"
      BY <1>4 DEF RetryTail
    <2>2. RetryDebt' /\ NoLostChunk'
      BY <1>1, <1>2, <1>4, <2>1 DEF Wakes, RetryDebt, NoLostChunk
    <2>3. Wakes'
      BY <1>1, <1>2, <2>1, <2>2 DEF Wakes
    <2> QED BY <1>1, <2>3, SplitterJoin
  <1> QED BY <1>3, <1>4

LEMMA RetryReturnsInv == ASSUME SplitterInv, SplitterRetryReturns PROVE SplitterInv'
  <1>1. Kept' /\ Wakes /\ any_stuck' = any_stuck
    BY OnlyControl DEF SplitterRetryReturns
  <1>2. /\ splitter_call = "retried" /\ splitter_call' = "idle" /\ fatal' = fatal /\ view' = view
        /\ splitter_needs_retry' = splitter_needs_retry
    BY DEF SplitterRetryReturns
  <1>3. RetryDebt' /\ NoLostChunk'
    BY <1>1, <1>2 DEF Wakes, RetryDebt, NoLostChunk
  <1>4. Wakes'
    BY <1>1, <1>2, <1>3 DEF Wakes
  <1> QED BY <1>1, <1>4, SplitterJoin

(* Nothing parked, held, answered or refused: the state reset returns to.  *)
Quiet ==
    /\ stuck = [i \in OutputIds |-> None] /\ splitter_needs_retry = FALSE
    /\ view = [r \in Parents |-> "idle"] /\ acc = [r \in Parents |-> <<0, 0>>]
    /\ held = {} /\ answered = [r \in Parents |-> {}]
    /\ remaining_size \in [Parents -> Nat] /\ latency \in [Parents -> Nat]
    /\ invalid \in [Parents -> BOOLEAN] /\ fatal \in BOOLEAN /\ splitter_call = "idle"

LEMMA QuietInv == Quiet => SplitterInv
  <1> SUFFICES ASSUME Quiet PROVE SplitterInv
    OBVIOUS
  <1> USE DEF Quiet
  <1>1. ~any_stuck /\ StuckInPlace
    BY DEF any_stuck, StuckInPlace
  <1>2. \A r \in Parents : view[r] = "idle" /\ answered[r] = {} /\ acc[r] = <<0, 0>>
    OBVIOUS
  <1>3. SplitterTypeOK
    <2>1. <<0, 0>> \in Nat \X Nat
      OBVIOUS
    <2>2. acc \in [Parents -> Nat \X Nat]
      BY <2>1
    <2>3. view \in [Parents -> MasterStates]
      BY StatesAre
    <2> QED BY <2>2, <2>3 DEF SplitterTypeOK
  <1>4. RetryDebt /\ NoLostChunk
    BY <1>2 DEF RetryDebt, NoLostChunk
  <1>5. ASSUME NEW r \in Parents PROVE ReqInv(r)
    <2>1. StuckOf(r) = {} /\ HeldOf(r) = {}
      BY DEF StuckOf, HeldOf
    <2>2. ReqState(r, {}, {}, {}, <<0, 0>>, "idle", remaining_size[r], latency[r], invalid[r],
                   fatal)
      BY DEF ReqState
    <2> QED BY <1>2, <2>1, <2>2 DEF ReqInv
  <1> QED BY <1>1, <1>3, <1>4, <1>5 DEF SplitterInv

LEMMA SplitterInitInv == SplitterInit => SplitterInv
  <1>1. SUFFICES ASSUME SplitterInit PROVE Quiet
    BY QuietInv
  <1>2. /\ remaining_size \in [Parents -> Nat] /\ latency \in [Parents -> Nat]
        /\ splitter_call = "idle"
    BY <1>1 DEF SplitterInit
  <1>3. invalid \in [Parents -> BOOLEAN] /\ fatal \in BOOLEAN
    BY <1>1 DEF SplitterInit
  <1> QED BY <1>1, <1>2, <1>3 DEF SplitterInit, Quiet

LEMMA ResetInv == SplitterInv /\ SplitterReset => SplitterInv'
  <1>1. SplitterInv /\ SplitterReset => Quiet'
    BY DEF SplitterInv, SplitterTypeOK, SplitterReset, Quiet
  <1> QED BY <1>1, QuietInv, PTL

LEMMA SplitterStutter == ASSUME SplitterInv, UNCHANGED SplitterVars PROVE SplitterInv'
  <1>1. UNCHANGED <<stuck, remaining_size, latency, invalid, fatal, view, acc, held, answered>>
    BY DEF SplitterVars
  <1>2. Kept' /\ Wakes /\ any_stuck' = any_stuck
    BY <1>1, OnlyControl
  <1>3. RetryDebt' /\ NoLostChunk'
    BY <1>2 DEF SplitterVars, Wakes, RetryDebt, NoLostChunk
  <1>4. Wakes'
    BY <1>2, <1>3 DEF SplitterVars, Wakes
  <1> QED BY <1>2, <1>4, SplitterJoin

LEMMA SplitterNextInv == SplitterInv /\ [SplitterNext]_SplitterVars => SplitterInv'
  <1>1. SUFFICES ASSUME SplitterInv, [SplitterNext]_SplitterVars PROVE SplitterInv'
    OBVIOUS
  <1>2. ASSUME NEW r \in Parents, ParentReq(r) \/ ParentReissue(r) PROVE SplitterInv'
    BY <1>1, <1>2, ParentReqInv, ParentReissueInv
  <1>3. ASSUME NEW c \in held, SplitterOutputResp(c) PROVE SplitterInv'
    BY <1>1, <1>3, OutputRespInv
  <1>4. ASSUME NEW i \in OutputIds, NEW st \in IoReqStatus, SplitterOutputRetry(i, st) PROVE SplitterInv'
    BY <1>1, <1>4, OutputRetryInv
  <1>5. CASE RetryTail
    BY <1>1, <1>5, RetryTailInv
  <1>6. CASE SplitterRetryReturns
    BY <1>1, <1>6, RetryReturnsInv
  <1>7. CASE SplitterReset
    BY <1>1, <1>7, ResetInv
  <1>8. CASE Halted \/ UNCHANGED SplitterVars
    BY <1>1, <1>8, SplitterStutter DEF Halted
  <1> QED BY <1>1, <1>2, <1>3, <1>4, <1>5, <1>6, <1>7, <1>8 DEF SplitterNext

(***************************************************************************)
(* What the invariant says of the checked properties.                      *)
(***************************************************************************)
LEMMA MaxOf ==
    ASSUME NEW S, NEW m \in S, m \in Nat, \A x \in S : x \in Nat /\ x <= m
    PROVE  Max(S) = m
  <1>1. m \in S /\ \A y \in S : m >= y
    OBVIOUS
  <1>2. Max(S) \in S /\ \A y \in S : Max(S) >= y
    BY <1>1 DEF Max
  <1>3. PICK M : M = Max(S)
    OBVIOUS
  <1>4. M \in Nat /\ M <= m /\ M >= m
    BY <1>2, <1>3
  <1> QED BY <1>3, <1>4

LEMMA AggIsMax ==
    ASSUME NEW an \in SUBSET (Chunks \X Answers), an # {}, NEW lat \in Nat, NEW inv,
           Agg(an, lat, inv)
    PROVE  lat = Max({p[2][1] : p \in an})
  <1>1. \A p \in an : p[2][1] \in Nat /\ p[2][1] <= lat
    BY AnswersType DEF Agg
  <1>2. \E p \in an : p[2][1] = lat
    <2>1. CASE lat = 0
      BY <1>1, <2>1
    <2>2. CASE lat # 0
      BY <2>2 DEF Agg
    <2> QED BY <2>1, <2>2
  <1>3. PICK S : S = {p[2][1] : p \in an}
    OBVIOUS
  <1>4. lat \in S /\ \A x \in S : x \in Nat /\ x <= lat
    BY <1>1, <1>2, <1>3
  <1>5. Max(S) = lat
    BY <1>4, MaxOf
  <1> QED BY <1>3, <1>5

LEMMA InvTiles == ASSUME SplitterInv, NEW r \in Parents PROVE TilesRequest(r)
  <1>1. SUFFICES ASSUME view[r] = "granted"
                 PROVE TilesRequest(r)
    BY DEF TilesRequest
  <1>2. PICK a, s, open, C : /\ a = acc[r][1] /\ s = acc[r][2]
                             /\ open = StuckOf(r) \cup HeldOf(r) /\ C = ChunksOf(r, a, s)
    OBVIOUS
  <1>3. a \in Nat /\ s \in Nat
    BY <1>2 DEF SplitterInv, SplitterTypeOK
  <1>4. ReqState(r, StuckOf(r), HeldOf(r), answered[r], acc[r], "granted",
                 remaining_size[r], latency[r], invalid[r], fatal)
    BY <1>1 DEF SplitterInv, ReqInv
  <1>5. /\ s > 0 /\ Fits(a, s) /\ open \cup DoneOf(r) = C
        /\ open # {} /\ remaining_size[r] = SizeOf(open)
    BY <1>2, <1>4 DEF ReqState, DoneOf, Firsts
  <1>6. /\ Covered(C) = a .. (a + s - 1)
        /\ \A c \in C : c.addr \div output_width = (c.addr + c.size - 1) \div output_width
    BY <1>2, <1>3, <1>5, ChunksTile
  <1>7. SizeOf(C) = s
    BY <1>2, <1>3, <1>5, SizeOfAll
  <1> QED BY <1>2, <1>5, <1>6, <1>7, Zenon DEF TilesRequest

LEMMA InvComplete == ASSUME SplitterInv, NEW r \in Parents PROVE AnswerIsComplete(r)
  <1>1. ReqState(r, StuckOf(r), HeldOf(r), answered[r], acc[r], view[r],
                 remaining_size[r], latency[r], invalid[r], fatal)
    BY DEF SplitterInv, ReqInv
  <1>2. view[r] # "error"
    BY <1>1 DEF ReqState
  <1>3. ASSUME view[r] = "idle", ~fatal, answered[r] # {}, acc[r][2] > 0
        PROVE /\ Covered(DoneOf(r)) = acc[r][1] .. (acc[r][1] + acc[r][2] - 1)
              /\ latency[r] = Max({p[2][1] : p \in answered[r]})
              /\ invalid[r] <=> \E p \in answered[r] : p[2][2]
    <2>1. PICK a, s, an, lat, inv : /\ a = acc[r][1] /\ s = acc[r][2] /\ an = answered[r]
                                    /\ lat = latency[r] /\ inv = invalid[r]
      OBVIOUS
    <2>2. a \in Nat /\ s \in Nat /\ an \in SUBSET (Chunks \X Answers) /\ lat \in Nat
      BY <2>1 DEF SplitterInv, SplitterTypeOK
    <2>3. Fits(a, s) /\ DoneOf(r) = ChunksOf(r, a, s) /\ Agg(an, lat, inv)
      BY <1>1, <1>3, <2>1 DEF ReqState, DoneOf, Firsts
    <2>4. Covered(DoneOf(r)) = a .. (a + s - 1)
      BY <1>3, <2>1, <2>2, <2>3, ChunksTile
    <2>5. lat = Max({p[2][1] : p \in an})
      BY <1>3, <2>1, <2>2, <2>3, AggIsMax
    <2>6. inv <=> \E p \in an : p[2][2]
      BY <2>3 DEF Agg
    <2> QED BY <2>1, <2>4, <2>5, <2>6
  <1> QED BY <1>2, <1>3 DEF AnswerIsComplete

(* The state keeps its type through every call, answer and reset of        *)
(* Splitter: in particular remaining_size is never taken below zero by     *)
(* account.                                                                *)
THEOREM SplitterTypeCorrect == SplitterSpec => []SplitterTypeOK
  <1>1. SplitterInv => SplitterTypeOK
    BY DEF SplitterInv
  <1> QED BY <1>1, SplitterInitInv, SplitterNextInv, PTL DEF SplitterSpec

(* For every width, access and answer: the chunks of a granted parent,     *)
(* parked, held by a slave or answered, tile exactly its bytes, each       *)
(* inside one output line, and remaining_size is what is unanswered; a     *)
(* parent goes back with all of its bytes answered, the latency of its     *)
(* slowest chunk, and an error exactly when one of them had one.           *)
THEOREM TilingTheorem == SplitterSpec => []ChunksTileRequest
  <1>1. SplitterInv => ChunksTileRequest
    BY InvTiles, InvComplete DEF ChunksTileRequest
  <1> QED BY <1>1, SplitterInitInv, SplitterNextInv, PTL DEF SplitterSpec

(* A refused master is owed a retry(), and an output is stuck whose own    *)
(* retry() will fire it or the handler that fires it is running.           *)
THEOREM SplitterWakeup == SplitterSpec => []NoLostChunk
  <1>1. SplitterInv => NoLostChunk
    BY DEF SplitterInv
  <1> QED BY <1>1, SplitterInitInv, SplitterNextInv, PTL DEF SplitterSpec

-----------------------------------------------------------------------------
(* The port: input_req is a req() of it or aborts, account is a resp() of  *)
(* it or leaves the parent with the splitter.                              *)
LEMMA InputReqSimulation ==
    ASSUME SplitterInv, NEW r \in Parents, NEW x \in Nat \X Nat, SplitterInputReq(r, x[1], x[2]),
           acc' = [acc EXCEPT ![r] = x],
           view[r] = "denied" \/ (view[r] = "idle" /\ NoneDenied(view, Parents))
    PROVE  view' = view \/ SplitterPort!Req(r)
  <1>1. view[r] # "granted"
    OBVIOUS
  <1>2. Admits(r)
    BY <1>1, InputReqInv
  <1>3. \/ view' = [view EXCEPT ![r] = "denied"] \/ view' = [view EXCEPT ![r] = "granted"]
        \/ view' = [view EXCEPT ![r] = "idle"] \/ view' = view
    BY <1>2 DEF Admits
  <1>4. /\ SplitterPort!AfterReq("denied") = "denied" /\ SplitterPort!AfterReq("granted") = "granted"
        /\ SplitterPort!AfterReq("done") = "idle" /\ SplitterPort!IoReqStatus = {"done", "granted", "denied"}
    BY DEF SplitterPort!AfterReq, SplitterPort!IoReqStatus, SplitterPort!IO_REQ_DONE, SplitterPort!IO_REQ_GRANTED,
           SplitterPort!IO_REQ_DENIED
  <1>5. NoneDenied(view, Parents) => SplitterPort!NoneDenied(view, Parents)
    BY DEF NoneDenied, SplitterPort!NoneDenied
  <1> QED BY <1>3, <1>4, <1>5 DEF SplitterPort!Req

LEMMA AnswerSimulation ==
    ASSUME SplitterInv, NEW c, NEW r \in Parents, r = c.parent, c \in StuckOf(r) \cup HeldOf(r),
           NEW x, AccountOne(c, x)
    PROVE  view' = view \/ SplitterPort!Resp(r)
  <1>1. ReqInv(r) /\ view \in [Parents -> MasterStates]
    BY DEF SplitterInv, SplitterTypeOK
  <1>2. view[r] = "granted"
    BY <1>1 DEF ReqInv, ReqState
  <1>3. view' = [view EXCEPT ![r] = "idle"] \/ view' = view
    BY <1>1, <1>2 DEF AccountOne, AfterResp
  <1> QED BY <1>2, <1>3 DEF SplitterPort!Resp

LEMMA SplitterSimulation ==
    ASSUME SplitterInv, [SplitterNext]_SplitterVars
    PROVE  [SplitterPort!Next]_(SplitterPort!vars)
  <1> USE DEF SplitterPort!vars, SplitterPort!Next, SplitterPort!Reset
  <1>1. ASSUME NEW r \in Parents, ParentReq(r) PROVE [SplitterPort!Next]_(SplitterPort!vars)
    <2>1. PICK x \in Accesses : SplitterInputReq(r, x[1], x[2]) /\ acc' = [acc EXCEPT ![r] = x]
      BY <1>1 DEF ParentReq
    <2>2. x \in Nat \X Nat
      BY SplitterAssumption
    <2>3. view[r] = "idle" /\ NoneDenied(view, Parents)
      BY <1>1 DEF ParentReq
    <2> QED BY <2>1, <2>2, <2>3, InputReqSimulation
  <1>2. ASSUME NEW r \in Parents, ParentReissue(r) PROVE [SplitterPort!Next]_(SplitterPort!vars)
    <2>1. PICK x : x = acc[r]
      OBVIOUS
    <2>2. x \in Nat \X Nat /\ acc' = [acc EXCEPT ![r] = x] /\ SplitterInputReq(r, x[1], x[2])
      BY <1>2, <2>1 DEF ParentReissue, SplitterInv, SplitterTypeOK
    <2>3. view[r] = "denied"
      BY <1>2 DEF ParentReissue
    <2> QED BY <2>2, <2>3, InputReqSimulation
  <1>3. ASSUME NEW c \in held, SplitterOutputResp(c) PROVE [SplitterPort!Next]_(SplitterPort!vars)
    <2>1. PICK x \in Answers : AccountOne(c, x)
      BY <1>3 DEF SplitterOutputResp
    <2>2. c.parent \in Parents /\ c \in HeldOf(c.parent)
      BY <1>3 DEF SplitterInv, SplitterTypeOK, Chunks, HeldOf
    <2> QED BY <2>1, <2>2, AnswerSimulation
  <1>4. ASSUME NEW i \in OutputIds, NEW st \in IoReqStatus, SplitterOutputRetry(i, st)
        PROVE [SplitterPort!Next]_(SplitterPort!vars)
    <2>1. view' = view \/ \E x \in Answers : AccountOne(stuck[i], x)
      BY <1>4 DEF SplitterOutputRetry
    <2>2. PICK c : c = stuck[i]
      OBVIOUS
    <2>3. c.parent \in Parents /\ c \in StuckOf(c.parent)
      <3>1. c \in Chunks /\ c # None
        BY <1>4, <2>2 DEF SplitterOutputRetry, SplitterInv, SplitterTypeOK
      <3> QED BY <2>2, <3>1, InStuckOf DEF Chunks
    <2> QED BY <2>1, <2>2, <2>3, AnswerSimulation
  <1>5. CASE RetryTail \/ SplitterRetryReturns \/ Halted \/ UNCHANGED SplitterVars
    BY <1>5 DEF RetryTail, SplitterRetryReturns, Halted, SplitterVars
  <1>6. CASE SplitterReset
    BY <1>6 DEF SplitterReset
  <1> QED BY <1>1, <1>2, <1>3, <1>4, <1>5, <1>6 DEF SplitterNext

(* The safety half of the io_v2 promise to the master: a fresh request     *)
(* only while none is refused, one resp() for a request that was granted   *)
(* and none for another.                                                   *)
THEOREM SplitterPortSafety == SplitterSpec => SplitterPort!Safety
  <1>1. SplitterInit => SplitterPort!Init
    BY DEF SplitterInit, SplitterPort!Init
  <1>2. SplitterSpec => []SplitterInv
    BY SplitterInitInv, SplitterNextInv, PTL DEF SplitterSpec
  <1>3. SplitterInv /\ [SplitterNext]_SplitterVars => [SplitterPort!Next]_(SplitterPort!vars)
    BY SplitterSimulation
  <1> QED BY <1>1, <1>2, <1>3, PTL DEF SplitterSpec, SplitterPort!Safety
=============================================================================
