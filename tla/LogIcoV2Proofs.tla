--------------------------- MODULE LogIcoV2Proofs ---------------------------
(***************************************************************************)
(* The safety of the interleaved crossbar, for any number of masters and   *)
(* banks, any interleaving granule and any set of requests.                *)
(***************************************************************************)
EXTENDS LogIcoV2, WellFoundedInduction, TLAPS

(***************************************************************************)
(* The strengthening.  A master holds one refused request; the FSM is in a *)
(* state its code can be in and remembers every bank it left with inputs   *)
(* waiting; what a bank served is the decoded address.  For the fairness   *)
(* of the election: the elections an input has lost, and the inputs the    *)
(* rotor of its bank comes to before it, make less than a full round.      *)
(***************************************************************************)
OneDenied ==
    \A r, q \in IcoReqs : PortOf[r] = PortOf[q] /\ ico_up[r] = "denied" /\ ico_up[q] = "denied" => r = q

CtlShape ==
    /\ ico_ctl.pc = "idle" => ico_ctl = IcoIdle
    /\ ico_ctl.pc \in {"retry", "retried"} => ico_ctl.bank < nb_slaves

LoopRemembers ==
    ico_ctl.pc # "idle" =>
        \A b \in Banks : b < ico_ctl.bank /\ pending_mask[b] # {} => ico_ctl.any_remaining

HitsDecoded ==
    \A i \in 1 .. Len(hits) : /\ hits[i].addr \in Nat
                              /\ hits[i].bank = decode_bank(hits[i].addr)
                              /\ hits[i].offset = decode_offset(hits[i].addr)

Ahead(rr, m) == (m + nb_masters - rr) % nb_masters

RoundNotOver ==
    \A b \in Banks : \A m \in pending_mask[b] :
        passed[m] + Ahead(rr_next[b], m) < nb_masters

IInv ==
    /\ IcoTypeOK /\ OneDenied /\ CtlShape /\ MasksAreRefusals /\ ElectionComing /\ LoopRemembers
    /\ HitsDecoded /\ RoundNotOver /\ BoundedWait

-----------------------------------------------------------------------------
(* Division and remainder, as the interleaving uses them. *)
LEMMA Quotient ==
    ASSUME NEW n \in Nat \ {0}, NEW a \in Nat
    PROVE  a = (a \div n) * n + (a % n) /\ a % n \in 0 .. n - 1 /\ a \div n \in Nat
OBVIOUS

LEMMA QuotientUnique ==
    ASSUME NEW n \in Nat \ {0}, NEW p \in Nat, NEW q \in Nat,
           NEW r \in 0 .. n - 1, NEW s \in 0 .. n - 1, p * n + r = q * n + s
    PROVE  p = q /\ r = s
OBVIOUS

LEMMA QuotientOfQuotient ==
    ASSUME NEW g \in Nat \ {0}, NEW n \in Nat \ {0}, NEW a \in Nat
    PROVE  a \div (n * g) = (a \div g) \div n
<1> DEFINE q == a \div g
           p == q \div n
           r == a % g
           s == q % n
<1>1. /\ a = q * g + r /\ r \in 0 .. g - 1 /\ q \in Nat
      /\ q = p * n + s /\ s \in 0 .. n - 1 /\ p \in Nat
  BY Quotient
<1> HIDE DEF p, q, r, s
<1>2. a = p * (n * g) + (s * g + r)
  BY <1>1
<1>3. s * g + r \in 0 .. (n * g) - 1
  <2>1. s * g <= (n - 1) * g
    BY <1>1
  <2> QED BY <1>1, <2>1
<1>4. n * g \in Nat \ {0}
  OBVIOUS
<1>5. a \div (n * g) = p
  BY <1>1, <1>2, <1>3, <1>4
<1> QED BY <1>5 DEF p, q

(* decode_bank and decode_offset land inside the crossbar... *)
LEMMA DecodeType ==
    ASSUME NEW a \in Nat PROVE decode_bank(a) \in Banks /\ decode_offset(a) \in Nat
<1>1. /\ a \div Granule \in Nat /\ a % Granule \in Nat
      /\ nb_slaves * Granule \in Nat \ {0}
  BY LogIcoAssumption, Quotient
<1>2. (a \div Granule) % nb_slaves \in 0 .. nb_slaves - 1
  BY <1>1, LogIcoAssumption, Quotient
<1>3. a \div (nb_slaves * Granule) \in Nat
  BY <1>1, Quotient
<1> DEFINE p == a \div (nb_slaves * Granule)
           r == a % Granule
<1>4. decode_offset(a) = p * Granule + r
  BY DEF decode_offset
<1> HIDE DEF p, r
<1>5. p \in Nat /\ r \in Nat
  BY <1>1, <1>3 DEF p, r
<1> QED BY <1>2, <1>4, <1>5, LogIcoAssumption DEF decode_bank, Banks

(* ... and no two addresses at the same place. *)
LEMMA DecodeInjective ==
    ASSUME NEW a \in Nat, NEW c \in Nat,
           decode_bank(a) = decode_bank(c), decode_offset(a) = decode_offset(c)
    PROVE  a = c
<1> DEFINE g == Granule
           n == nb_slaves
<1>0. g \in Nat \ {0} /\ n \in Nat \ {0}
  BY LogIcoAssumption
<1>1. /\ a \div (n * g) = (a \div g) \div n /\ c \div (n * g) = (c \div g) \div n
      /\ a \div g \in Nat /\ c \div g \in Nat
  <2> HIDE DEF g, n
  <2>1. a \div (n * g) = (a \div g) \div n
    BY <1>0, QuotientOfQuotient
  <2>2. c \div (n * g) = (c \div g) \div n
    BY <1>0, QuotientOfQuotient
  <2>3. a \div g \in Nat /\ c \div g \in Nat
    BY <1>0, Quotient
  <2> QED BY <2>1, <2>2, <2>3
<1>2. /\ ((a \div g) \div n) * g + (a % g) = ((c \div g) \div n) * g + (c % g)
      /\ (a \div g) % n = (c \div g) % n
  BY <1>1 DEF decode_bank, decode_offset
<1> HIDE DEF g, n
<1>3. /\ a % g \in 0 .. g - 1 /\ c % g \in 0 .. g - 1
      /\ (a \div g) \div n \in Nat /\ (c \div g) \div n \in Nat
  BY <1>0, <1>1, Quotient
<1>4. (a \div g) \div n = (c \div g) \div n /\ a % g = c % g
  <2> DEFINE p == (a \div g) \div n
             q == (c \div g) \div n
             r == a % g
             s == c % g
  <2>1. p \in Nat /\ q \in Nat /\ r \in 0 .. g - 1 /\ s \in 0 .. g - 1
    BY <1>3
  <2>2. p * g + r = q * g + s
    BY <1>2
  <2> HIDE DEF p, q, r, s
  <2>3. p = q /\ r = s
    BY <1>0, <2>1, <2>2, QuotientUnique
  <2> QED BY <2>3 DEF p, q, r, s
<1>5. a \div g = c \div g
  <2>1. /\ a \div g = ((a \div g) \div n) * n + ((a \div g) % n)
        /\ c \div g = ((c \div g) \div n) * n + ((c \div g) % n)
    BY <1>0, <1>1, Quotient
  <2> QED BY <1>2, <1>4, <2>1
<1>6. a = (a \div g) * g + (a % g) /\ c = (c \div g) * g + (c % g)
  BY <1>0, Quotient
<1> QED BY <1>4, <1>5, <1>6

-----------------------------------------------------------------------------
(* A set of naturals that is not empty has a least element. *)
LEMMA LeastElement ==
    ASSUME NEW S \in SUBSET Nat, S # {} PROVE Min(S) \in S /\ \A y \in S : Min(S) <= y
<1>1. PICK x \in S : \A y \in S : ~(<<y, x>> \in OpToRel(<, Nat))
  BY NatLessThanWellFounded, WFMin, Zenon
<1>2. \A y \in S : ~(y < x)
  BY <1>1 DEF OpToRel
<1>3. \E z \in S : \A y \in S : z <= y
  BY <1>2
<1> QED BY <1>3 DEF Min

LEMMA AheadCases ==
    ASSUME NEW rr \in Masters, NEW m \in Masters
    PROVE  /\ Ahead(rr, m) = IF rr <= m THEN m - rr ELSE m + nb_masters - rr
           /\ Ahead(rr, m) \in 0 .. nb_masters - 1
<1>0. /\ nb_masters \in Nat \ {0} /\ rr \in 0 .. nb_masters - 1 /\ m \in 0 .. nb_masters - 1
  BY LogIcoAssumption DEF Masters
<1>1. CASE rr <= m
  <2>1. m - rr \in 0 .. nb_masters - 1 /\ m + nb_masters - rr = (m - rr) + nb_masters
    BY <1>0, <1>1
  <2>2. ((m - rr) + nb_masters) % nb_masters = m - rr
    BY <1>0, <2>1
  <2> QED BY <1>1, <2>1, <2>2 DEF Ahead
<1>2. CASE ~(rr <= m)
  <2>1. m + nb_masters - rr \in 0 .. nb_masters - 1
    BY <1>0, <1>2
  <2>2. (m + nb_masters - rr) % nb_masters = m + nb_masters - rr
    BY <1>0, <2>1
  <2> QED BY <1>2, <2>1, <2>2 DEF Ahead
<1> QED BY <1>1, <1>2

LEMMA RotorCases ==
    ASSUME NEW w \in Masters
    PROVE  Rotor(w) = (IF w + 1 = nb_masters THEN 0 ELSE w + 1) /\ Rotor(w) \in Masters
<1>0. nb_masters \in Nat \ {0} /\ w \in 0 .. nb_masters - 1
  BY LogIcoAssumption DEF Masters
<1>1. CASE w + 1 = nb_masters
  <2>1. (0 + nb_masters) % nb_masters = 0
    BY <1>0
  <2>2. Rotor(w) = 0
    BY <1>0, <1>1, <2>1 DEF Rotor
  <2> QED BY <1>0, <1>1, <2>2 DEF Masters
<1>2. CASE w + 1 # nb_masters
  <2>1. w + 1 \in 0 .. nb_masters - 1
    BY <1>0, <1>2
  <2>2. (w + 1) % nb_masters = w + 1
    BY <1>0, <2>1
  <2> QED BY <1>2, <2>1, <2>2 DEF Rotor, Masters
<1> QED BY <1>1, <1>2

(***************************************************************************)
(* pick_winner: the winner is one of the inputs that wait, and for each    *)
(* input that loses, the rotor moved past the winner is strictly nearer.   *)
(***************************************************************************)
LEMMA WinnerWaits ==
    ASSUME NEW mask \in SUBSET Masters, mask # {}, NEW rr \in Masters
    PROVE  /\ pick_winner(mask, rr) \in mask
           /\ \A m \in mask \ {pick_winner(mask, rr)} :
                 Ahead(Rotor(pick_winner(mask, rr)), m) < Ahead(rr, m)
<1> DEFINE D == {Ahead(rr, m) : m \in mask}
<1>0. nb_masters \in Nat \ {0} /\ Masters = 0 .. nb_masters - 1
  BY LogIcoAssumption DEF Masters
<1>1. D \in SUBSET Nat /\ D # {}
  <2>1. ASSUME NEW m \in mask PROVE Ahead(rr, m) \in Nat
    <3>1. m \in Masters
      OBVIOUS
    <3>2. Ahead(rr, m) \in 0 .. nb_masters - 1
      BY <3>1, AheadCases
    <3> QED BY <1>0, <3>2
  <2> QED BY <2>1
<1>2. Min(D) \in D /\ \A y \in D : Min(D) <= y
  <2> HIDE DEF D
  <2> QED BY <1>1, LeastElement
<1>3. PICK w \in mask : Min(D) = Ahead(rr, w)
  BY <1>2
<1>4. \A m \in mask : Ahead(rr, w) <= Ahead(rr, m)
  BY <1>2, <1>3
<1>5. pick_winner(mask, rr) = w
  <2>1. pick_winner(mask, rr) = (rr + Ahead(rr, w)) % nb_masters
    BY <1>3 DEF pick_winner, Ahead
  <2>2. /\ w \in 0 .. nb_masters - 1 /\ rr \in 0 .. nb_masters - 1
        /\ Ahead(rr, w) = IF rr <= w THEN w - rr ELSE w + nb_masters - rr
    BY <1>0, AheadCases
  <2>3. rr + Ahead(rr, w) = w \/ rr + Ahead(rr, w) = w + nb_masters
    BY <1>0, <2>2
  <2>4. w % nb_masters = w /\ (w + nb_masters) % nb_masters = w
    BY <1>0, <2>2
  <2> QED BY <2>1, <2>3, <2>4
<1>6. ASSUME NEW m \in mask, m # w PROVE Ahead(Rotor(w), m) < Ahead(rr, m)
  <2>1. /\ m \in 0 .. nb_masters - 1 /\ w \in 0 .. nb_masters - 1 /\ rr \in 0 .. nb_masters - 1
        /\ Ahead(rr, m) = IF rr <= m THEN m - rr ELSE m + nb_masters - rr
        /\ Ahead(rr, w) = IF rr <= w THEN w - rr ELSE w + nb_masters - rr
    BY <1>0, AheadCases
  <2>2. Rotor(w) = (IF w + 1 = nb_masters THEN 0 ELSE w + 1) /\ Rotor(w) \in Masters
    BY RotorCases
  <2>3. Ahead(Rotor(w), m)
          = IF Rotor(w) <= m THEN m - Rotor(w) ELSE m + nb_masters - Rotor(w)
    BY <2>2, AheadCases
  <2>4. Ahead(rr, w) <= Ahead(rr, m)
    BY <1>4
  <2> QED BY <1>0, <1>6, <2>1, <2>2, <2>3, <2>4
<1> QED BY <1>5, <1>6

-----------------------------------------------------------------------------
LEMMA MineOf ==
    /\ \A r \in IcoReqs : PortOf[r] \in Masters /\ r \in Mine(PortOf[r])
    /\ \A m : Mine(m) \subseteq IcoReqs /\ \A r \in Mine(m) : PortOf[r] = m
BY LogIcoAssumption DEF Mine

LEMMA InitIInv == IcoInit => IInv
<1> SUFFICES ASSUME IcoInit PROVE IInv
  OBVIOUS
<1>1. 0 \in Masters /\ nb_slaves \in Nat
  BY LogIcoAssumption DEF Masters
<1>2. IcoTypeOK
  BY <1>1 DEF IcoInit, IcoTypeOK, IcoIdle, MasterStates
<1>3. OneDenied /\ CtlShape /\ MasksAreRefusals /\ ElectionComing /\ LoopRemembers
  BY MineOf DEF IcoInit, OneDenied, CtlShape, MasksAreRefusals, ElectionComing, LoopRemembers, IcoIdle
<1>4. HitsDecoded /\ RoundNotOver /\ BoundedWait
  BY LogIcoAssumption DEF IcoInit, HitsDecoded, RoundNotOver, BoundedWait, Masters
<1> QED BY <1>2, <1>3, <1>4 DEF IInv

(* What a bank serves during an election is recorded with its decoding. *)
LEMMA ServedHits ==
    ASSUME IInv, NEW a \in Nat,
           hits' = Append(hits, [addr |-> a, bank |-> decode_bank(a), offset |-> decode_offset(a)])
    PROVE  hits' \in Seq([addr : Nat, bank : Banks, offset : Nat]) /\ HitsDecoded'
<1> DEFINE h == [addr |-> a, bank |-> decode_bank(a), offset |-> decode_offset(a)]
           T == [addr : Nat, bank : Banks, offset : Nat]
<1>1. h \in T /\ hits \in Seq(T) /\ hits' = Append(hits, h)
  BY DecodeType DEF IInv, IcoTypeOK
<1>2. h.addr = a /\ h.bank = decode_bank(a) /\ h.offset = decode_offset(a)
  OBVIOUS
<1> HIDE DEF h, T
<1>3. /\ hits' \in Seq(T) /\ Len(hits') = Len(hits) + 1 /\ Len(hits) \in Nat
      /\ \A i \in 1 .. Len(hits) : hits'[i] = hits[i]
      /\ hits'[Len(hits) + 1] = h
  BY <1>1
<1>4. HitsDecoded'
  <2> SUFFICES ASSUME NEW i \in 1 .. Len(hits')
               PROVE  /\ hits'[i].addr \in Nat
                      /\ hits'[i].bank = decode_bank(hits'[i].addr)
                      /\ hits'[i].offset = decode_offset(hits'[i].addr)
    BY DEF HitsDecoded, decode_bank, decode_offset
  <2>1. CASE i = Len(hits) + 1
    BY <1>2, <1>3, <2>1
  <2>2. CASE i # Len(hits) + 1
    <3>1. i \in 1 .. Len(hits) /\ hits'[i] = hits[i]
      BY <1>3, <2>2
    <3> QED BY <3>1 DEF IInv, HitsDecoded
  <2> QED BY <2>1, <2>2
<1> QED BY <1>3, <1>4 DEF T

(* input_req during an election: the request goes straight to its bank. *)
LEMMA ServeIInv ==
    ASSUME IInv, NEW r \in IcoReqs, NEW a \in Nat, IcoInputReq(r, a), in_election,
           \A q \in Mine(PortOf[r]) : ico_up[q] = "denied" => q = r,
           \/ ico_ctl.pc = "retried" /\ ico_ctl' = ico_ctl /\ passed' = [passed EXCEPT ![PortOf[r]] = 0]
              /\ ico_up[r] = "idle"
           \/ /\ ico_ctl.pc = "retry" /\ ico_ctl.winner = PortOf[r] /\ ico_ctl' = [ico_ctl EXCEPT !.pc = "retried"]
              /\ passed' = passed,
           rr_next' = rr_next
    PROVE  IInv'
<1>1. /\ hits' = Append(hits, [addr |-> a, bank |-> decode_bank(a), offset |-> decode_offset(a)])
      /\ ico_up' = [ico_up EXCEPT ![r] = "idle"] /\ addr' = [addr EXCEPT ![r] = 0]
      /\ UNCHANGED <<pending_mask, fsm_event>>
  BY DEF IcoInputReq
<1>2. /\ ico_ctl'.pc = "retried" /\ ico_ctl'.bank = ico_ctl.bank /\ ico_ctl'.any_remaining = ico_ctl.any_remaining
      /\ ico_ctl'.winner = ico_ctl.winner /\ ico_ctl' # IcoIdle
      /\ ico_ctl' \in [pc : {"idle", "loop", "retry", "retried"}, bank : 0 .. nb_slaves,
                   any_remaining : BOOLEAN, winner : Masters]
      /\ ico_ctl.pc \in {"retry", "retried"}
  BY DEF IInv, IcoTypeOK, IcoIdle
<1>3. /\ hits' \in Seq([addr : Nat, bank : Banks, offset : Nat]) /\ HitsDecoded'
  BY <1>1, ServedHits
<1>4. /\ passed' \in [Masters -> Nat] /\ \A m \in Masters : passed'[m] <= passed[m]
      /\ BoundedWait'
  <2>1. PortOf[r] \in Masters /\ passed \in [Masters -> Nat] /\ nb_masters \in Nat
    BY MineOf, LogIcoAssumption DEF IInv, IcoTypeOK
  <2>2. passed' = passed \/ passed' = [passed EXCEPT ![PortOf[r]] = 0]
    OBVIOUS
  <2>3. passed' \in [Masters -> Nat] /\ \A m \in Masters : passed'[m] <= passed[m]
    BY <2>1, <2>2
  <2> QED BY <2>1, <2>3 DEF IInv, BoundedWait
<1>5. IcoTypeOK'
  BY <1>1, <1>2, <1>3, <1>4 DEF IInv, IcoTypeOK, MasterStates
<1>6. \A q \in IcoReqs : ico_up'[q] = "denied" <=> ico_up[q] = "denied" /\ q # r
  BY <1>1 DEF IInv, IcoTypeOK
<1>7. OneDenied' /\ CtlShape' /\ ElectionComing' /\ LoopRemembers'
  BY <1>1, <1>2, <1>6
     DEF IInv, OneDenied, CtlShape, ElectionComing, LoopRemembers
<1>8. MasksAreRefusals'
  <2> SUFFICES ASSUME NEW m \in Masters, NEW b \in Banks
               PROVE  m \in pending_mask[b]
                        <=> \E q \in Mine(m) : ico_up'[q] = "denied" /\ decode_bank(addr'[q]) = b
    BY <1>1, <1>2 DEF MasksAreRefusals, decode_bank
  <2>1. m \in pending_mask[b]
          <=> /\ \E q \in Mine(m) : ico_up[q] = "denied" /\ decode_bank(addr[q]) = b
              /\ ~(ico_ctl.pc = "retry" /\ ico_ctl.winner = m)
    BY DEF IInv, MasksAreRefusals
  <2>2. \A q \in Mine(m) : q \in IcoReqs /\ (q # r => addr'[q] = addr[q])
    BY <1>1, MineOf DEF IInv, IcoTypeOK
  <2>3. CASE m = PortOf[r]
    <3>1. \A q \in Mine(m) : ico_up'[q] # "denied"
      BY <1>6, <2>2, <2>3
    <3>2. m \notin pending_mask[b]
      BY <2>1, <2>3
    <3> QED BY <3>1, <3>2
  <2>4. CASE m # PortOf[r]
    <3>1. \A q \in Mine(m) : q # r
      BY <2>4, MineOf
    <3> QED BY <1>6, <2>1, <2>2, <2>4, <3>1
  <2> QED BY <2>3, <2>4
<1>9. RoundNotOver'
  <2> SUFFICES ASSUME NEW b \in Banks, NEW m \in pending_mask[b]
               PROVE  passed'[m] + Ahead(rr_next[b], m) < nb_masters
    BY <1>1 DEF RoundNotOver, Ahead
  <2>1. /\ passed[m] + Ahead(rr_next[b], m) < nb_masters /\ m \in Masters /\ rr_next[b] \in Masters
        /\ passed[m] \in Nat /\ passed'[m] \in Nat /\ passed'[m] <= passed[m]
    BY <1>4 DEF IInv, RoundNotOver, IcoTypeOK
  <2>2. Ahead(rr_next[b], m) \in 0 .. nb_masters - 1 /\ nb_masters \in Nat
    BY <2>1, AheadCases, LogIcoAssumption
  <2> QED BY <2>1, <2>2
<1> QED BY <1>3, <1>4, <1>5, <1>7, <1>8, <1>9 DEF IInv

(* input_req in the idle state: the refusal sets the bit and the event. *)
LEMMA RefuseIInv ==
    ASSUME IInv, NEW r \in IcoReqs, NEW a \in Nat, IcoInputReq(r, a), ico_ctl.pc = "idle",
           ico_up[r] = "idle", \A q \in Mine(PortOf[r]) : ico_up[q] # "denied",
           passed' = [passed EXCEPT ![PortOf[r]] = 0], UNCHANGED <<rr_next, ico_ctl>>
    PROVE  IInv'
<1> DEFINE in == PortOf[r]
           bank == decode_bank(a)
<1>1. /\ pending_mask' = [pending_mask EXCEPT ![bank] = @ \cup {in}]
      /\ fsm_event' = "now" /\ hits' = hits
      /\ ico_up' = [ico_up EXCEPT ![r] = "denied"] /\ addr' = [addr EXCEPT ![r] = a]
  BY DEF IcoInputReq, in_election
<1>2. in \in Masters /\ bank \in Banks /\ nb_masters \in Nat \ {0} /\ r \in Mine(in)
  BY MineOf, DecodeType, LogIcoAssumption
<1>3. IcoTypeOK'
  BY <1>1, <1>2 DEF IInv, IcoTypeOK, MasterStates
<1>4. \A q \in IcoReqs : ico_up'[q] = "denied" <=> ico_up[q] = "denied" \/ q = r
  BY <1>1 DEF IInv, IcoTypeOK
<1>5. OneDenied'
  <2>1. \A q \in IcoReqs : PortOf[q] = in => ico_up[q] # "denied"
    BY MineOf
  <2> QED BY <1>4, <2>1 DEF IInv, OneDenied
<1>6. CtlShape' /\ LoopRemembers' /\ ElectionComing' /\ HitsDecoded'
  BY <1>1 DEF IInv, CtlShape, LoopRemembers, ElectionComing, HitsDecoded, decode_bank, decode_offset
<1>7. MasksAreRefusals'
  <2> SUFFICES ASSUME NEW m \in Masters, NEW b \in Banks
               PROVE  m \in pending_mask'[b]
                        <=> \E q \in Mine(m) : ico_up'[q] = "denied" /\ decode_bank(addr'[q]) = b
    BY DEF MasksAreRefusals, decode_bank
  <2>1. m \in pending_mask[b] <=> \E q \in Mine(m) : ico_up[q] = "denied" /\ decode_bank(addr[q]) = b
    BY DEF IInv, MasksAreRefusals
  <2>2. \A q \in Mine(m) : q \in IcoReqs /\ (q # r => addr'[q] = addr[q])
    BY <1>1, MineOf DEF IInv, IcoTypeOK
  <2>3. addr'[r] = a /\ ico_up'[r] = "denied"
    BY <1>1 DEF IInv, IcoTypeOK
  <2>4. CASE m = in
    <3>1. m \in pending_mask'[b] <=> b = bank
      BY <1>1, <2>1, <2>4, <1>2 DEF IInv, IcoTypeOK
    <3>2. \A q \in Mine(m) : ico_up'[q] = "denied" <=> q = r
      BY <1>4, <2>2, <2>4
    <3> QED BY <1>2, <2>3, <2>4, <3>1, <3>2
  <2>5. CASE m # in
    <3>1. m \in pending_mask'[b] <=> m \in pending_mask[b]
      BY <1>1, <2>5 DEF IInv, IcoTypeOK
    <3>2. \A q \in Mine(m) : q # r
      BY <2>5, MineOf
    <3> QED BY <1>4, <2>1, <2>2, <3>1, <3>2
  <2> QED BY <2>4, <2>5
<1>8. RoundNotOver'
  <2> SUFFICES ASSUME NEW b \in Banks, NEW m \in pending_mask'[b]
               PROVE  passed'[m] + Ahead(rr_next[b], m) < nb_masters
    BY DEF RoundNotOver, Ahead
  <2>0. m \in Masters /\ rr_next[b] \in Masters
    BY <1>3 DEF IcoTypeOK, IInv
  <2>1. Ahead(rr_next[b], m) \in 0 .. nb_masters - 1
    BY <2>0, AheadCases
  <2>2. CASE m = in
    <3>1. passed'[m] = 0
      BY <1>2, <2>2 DEF IInv, IcoTypeOK
    <3> QED BY <1>2, <2>1, <3>1
  <2>3. CASE m # in
    <3>1. m \in pending_mask[b] /\ passed'[m] = passed[m]
      BY <1>1, <2>0, <2>3 DEF IInv, IcoTypeOK
    <3> QED BY <3>1 DEF IInv, RoundNotOver
  <2> QED BY <2>2, <2>3
<1>9. BoundedWait'
  BY <1>2 DEF IInv, BoundedWait, IcoTypeOK
<1> QED BY <1>3, <1>5, <1>6, <1>7, <1>8, <1>9 DEF IInv

LEMMA MasterReqIInv ==
    ASSUME IInv, NEW r \in IcoReqs, IcoMasterReq(r) PROVE IInv'
<1>1. PICK a \in Addrs : IcoInputReq(r, a)
  BY DEF IcoMasterReq
<1>2. a \in Nat
  BY LogIcoAssumption
<1>3. /\ ico_ctl.pc = "idle" \/ ico_ctl.pc = "retried"
      /\ ico_up[r] = "idle" /\ \A q \in Mine(PortOf[r]) : ico_up[q] # "denied"
      /\ passed' = [passed EXCEPT ![PortOf[r]] = 0] /\ UNCHANGED <<rr_next, ico_ctl>>
  BY DEF IcoMasterReq, NoneDenied
<1>4. CASE ico_ctl.pc = "idle"
  BY <1>1, <1>2, <1>3, <1>4, RefuseIInv
<1>5. CASE ico_ctl.pc = "retried"
  BY <1>1, <1>2, <1>3, <1>5, ServeIInv DEF in_election
<1> QED BY <1>3, <1>4, <1>5

LEMMA MasterReissueIInv ==
    ASSUME IInv, NEW r \in IcoReqs, IcoMasterReissue(r) PROVE IInv'
<1>1. /\ ico_ctl.pc = "retry" /\ ico_ctl.winner = PortOf[r] /\ ico_up[r] = "denied" /\ IcoInputReq(r, addr[r])
      /\ ico_ctl' = [ico_ctl EXCEPT !.pc = "retried"] /\ UNCHANGED <<rr_next, passed>>
  BY DEF IcoMasterReissue
<1>2. addr[r] \in Nat /\ in_election
  BY <1>1 DEF IInv, IcoTypeOK, in_election
<1>3. \A q \in Mine(PortOf[r]) : ico_up[q] = "denied" => q = r
  BY <1>1, MineOf DEF IInv, OneDenied
<1> QED BY <1>1, <1>2, <1>3, ServeIInv

-----------------------------------------------------------------------------
(* One bank of the FSM loop.  The winner waits for no other bank, so that  *)
(* its retry() leaves no bit behind.                                       *)
LEMMA FsmBankIInv ==
    ASSUME IInv, FsmBank PROVE IInv'
<1> PICK b : b = ico_ctl.bank
  OBVIOUS
<1>0. /\ b = ico_ctl.bank /\ b \in Banks /\ ico_ctl.pc = "loop" /\ nb_slaves \in Nat /\ nb_masters \in Nat
      /\ UNCHANGED <<fsm_event, ico_up, addr, hits>> /\ HitsDecoded' /\ OneDenied'
  BY LogIcoAssumption
     DEF FsmBank, IInv, IcoTypeOK, Banks, HitsDecoded, decode_bank, decode_offset, OneDenied
<1>1. CASE pending_mask[b] = {}
  <2>1. ico_ctl' = [ico_ctl EXCEPT !.bank = @ + 1] /\ UNCHANGED <<pending_mask, rr_next, passed>>
    BY <1>0, <1>1 DEF FsmBank
  <2>2. /\ ico_ctl'.pc = "loop" /\ ico_ctl'.bank = b + 1 /\ ico_ctl'.any_remaining = ico_ctl.any_remaining
        /\ ico_ctl'.winner = ico_ctl.winner /\ b + 1 \in 0 .. nb_slaves /\ ico_ctl' # IcoIdle
    BY <1>0, <2>1 DEF IInv, IcoTypeOK, Banks, IcoIdle
  <2>3. IcoTypeOK'
    BY <1>0, <2>1, <2>2 DEF IInv, IcoTypeOK
  <2>4. \A c \in Banks : c < b + 1 => c < b \/ c = b
    BY <1>0 DEF Banks
  <2>5. CtlShape' /\ ElectionComing' /\ LoopRemembers'
    BY <1>0, <1>1, <2>1, <2>2, <2>4 DEF IInv, CtlShape, ElectionComing, LoopRemembers
  <2>6. MasksAreRefusals'
    BY <1>0, <2>1, <2>2 DEF IInv, MasksAreRefusals, decode_bank
  <2>7. RoundNotOver' /\ BoundedWait'
    BY <2>1 DEF IInv, RoundNotOver, BoundedWait, Ahead
  <2> QED BY <1>0, <2>3, <2>5, <2>6, <2>7 DEF IInv
<1>2. CASE pending_mask[b] # {}
  <2> PICK mask, w : mask = pending_mask[b] /\ w = pick_winner(mask, rr_next[b])
    OBVIOUS
  <2>0. /\ mask = pending_mask[b] /\ mask \in SUBSET Masters /\ rr_next[b] \in Masters
        /\ w = pick_winner(mask, rr_next[b])
    BY <1>0 DEF IInv, IcoTypeOK
  <2>1. /\ pending_mask' = [pending_mask EXCEPT ![b] = mask \ {w}]
        /\ rr_next' = [rr_next EXCEPT ![b] = Rotor(w)]
        /\ passed' = [m \in Masters |-> IF m \in mask \ {w} THEN passed[m] + 1 ELSE passed[m]]
        /\ ico_ctl' = [ico_ctl EXCEPT !.pc = "retry", !.winner = w]
    BY <1>0, <1>2, <2>0 DEF FsmBank, Losers
  <2>2. w \in mask /\ w \in Masters /\ \A m \in mask \ {w} : Ahead(Rotor(w), m) < Ahead(rr_next[b], m)
    BY <1>2, <2>0, WinnerWaits
  <2>3. /\ ico_ctl'.pc = "retry" /\ ico_ctl'.bank = b /\ ico_ctl'.any_remaining = ico_ctl.any_remaining
        /\ ico_ctl'.winner = w /\ ico_ctl' # IcoIdle
        /\ ico_ctl' \in [pc : {"idle", "loop", "retry", "retried"}, bank : 0 .. nb_slaves,
                     any_remaining : BOOLEAN, winner : Masters]
    BY <1>0, <2>1, <2>2 DEF IInv, IcoTypeOK, IcoIdle
  <2>4. Rotor(w) \in Masters
    BY <2>2, RotorCases
  <2>5. IcoTypeOK'
    BY <1>0, <2>0, <2>1, <2>3, <2>4 DEF IInv, IcoTypeOK
  <2>6. \A c \in Banks : c < b => c # b
    BY <1>0 DEF Banks
  <2>7. \A c \in Banks : c < b => pending_mask'[c] = pending_mask[c]
    BY <2>1, <2>6 DEF IInv, IcoTypeOK
  <2>8. CtlShape' /\ ElectionComing' /\ LoopRemembers'
    BY <1>0, <2>3, <2>7 DEF IInv, CtlShape, ElectionComing, LoopRemembers, Banks
  <2>9. \A m \in Masters, c \in Banks : m \in pending_mask[c] /\ m \in mask => c = b
    <3> SUFFICES ASSUME NEW m \in Masters, NEW c \in Banks, m \in pending_mask[c], m \in mask
                 PROVE  c = b
      OBVIOUS
    <3>1. PICK q \in Mine(m) : ico_up[q] = "denied" /\ decode_bank(addr[q]) = c
      BY DEF IInv, MasksAreRefusals
    <3>2. PICK s \in Mine(m) : ico_up[s] = "denied" /\ decode_bank(addr[s]) = b
      BY <1>0, <2>0 DEF IInv, MasksAreRefusals
    <3>3. q = s
      BY <3>1, <3>2, MineOf DEF IInv, OneDenied
    <3> QED BY <3>1, <3>2, <3>3
  <2>10. \A m \in Masters, c \in Banks : m \in pending_mask'[c] <=> m \in pending_mask[c] /\ m # w
    BY <1>0, <2>0, <2>1, <2>2, <2>9 DEF IInv, IcoTypeOK
  <2>11. MasksAreRefusals'
    <3> SUFFICES ASSUME NEW m \in Masters, NEW c \in Banks
                 PROVE  m \in pending_mask'[c]
                          <=> /\ \E q \in Mine(m) : ico_up[q] = "denied" /\ decode_bank(addr[q]) = c
                              /\ m # w
      BY <1>0, <2>3 DEF MasksAreRefusals, decode_bank
    <3> QED BY <1>0, <2>10 DEF IInv, MasksAreRefusals
  <2>12. ASSUME NEW m \in Masters
         PROVE  /\ passed[m] \in Nat /\ passed[m] < nb_masters
                /\ passed'[m] = IF m \in mask \ {w} THEN passed[m] + 1 ELSE passed[m]
    BY <2>1 DEF IInv, IcoTypeOK, BoundedWait
  <2>13. ASSUME NEW m \in mask \ {w}
         PROVE  /\ passed'[m] + Ahead(Rotor(w), m) < nb_masters /\ passed'[m] < nb_masters
    <3>1. m \in Masters /\ passed[m] \in Nat /\ passed'[m] = passed[m] + 1
      BY <2>0, <2>12, <2>13
    <3>2. /\ Ahead(rr_next[b], m) \in 0 .. nb_masters - 1
          /\ Ahead(Rotor(w), m) \in 0 .. nb_masters - 1
      BY <2>0, <2>4, <3>1, AheadCases
    <3>3. passed[m] + Ahead(rr_next[b], m) < nb_masters /\ Ahead(Rotor(w), m) < Ahead(rr_next[b], m)
      BY <1>0, <2>0, <2>2 DEF IInv, RoundNotOver
    <3> QED BY <1>0, <3>1, <3>2, <3>3
  <2>14. BoundedWait'
    BY <2>12, <2>13 DEF BoundedWait
  <2>15. RoundNotOver'
    <3> SUFFICES ASSUME NEW c \in Banks, NEW m \in pending_mask'[c]
                 PROVE  passed'[m] + Ahead(rr_next'[c], m) < nb_masters
      BY DEF RoundNotOver, Ahead
    <3>0. m \in Masters /\ m \in pending_mask[c] /\ m # w
      BY <2>5, <2>10 DEF IcoTypeOK
    <3>1. CASE c = b
      <4>1. rr_next'[c] = Rotor(w) /\ m \in mask \ {w}
        BY <1>0, <2>0, <2>1, <3>0, <3>1 DEF IInv, IcoTypeOK
      <4> QED BY <2>13, <4>1
    <3>2. CASE c # b
      <4>1. rr_next'[c] = rr_next[c] /\ m \notin mask
        BY <2>1, <2>9, <3>0, <3>2 DEF IInv, IcoTypeOK
      <4>2. passed'[m] = passed[m]
        BY <2>12, <3>0, <4>1
      <4> QED BY <3>0, <4>1, <4>2 DEF IInv, RoundNotOver
    <3> QED BY <3>1, <3>2
  <2> QED BY <1>0, <2>5, <2>8, <2>11, <2>14, <2>15 DEF IInv
<1> QED BY <1>1, <1>2

(* The other steps of fsm_handler, and the clock, leave the masks and the  *)
(* masters alone.                                                          *)
LEMMA FsmControlIInv ==
    ASSUME IInv, FsmHandler \/ IcoRetryReturns \/ FsmEnds \/ IcoTick PROVE IInv'
<1>0. nb_slaves \in Nat \ {0}
  BY LogIcoAssumption
<1>1. UNCHANGED <<pending_mask, rr_next, ico_up, addr, passed>>
  BY DEF FsmHandler, IcoRetryReturns, FsmEnds, IcoTick
<1>2. hits' \in Seq([addr : Nat, bank : Banks, offset : Nat]) /\ HitsDecoded'
  <2>1. CASE hits' = <<>>
    BY <2>1 DEF HitsDecoded
  <2>2. CASE hits' = hits
    BY <2>2 DEF IInv, IcoTypeOK, HitsDecoded, decode_bank, decode_offset
  <2> QED BY <2>1, <2>2 DEF FsmHandler, IcoRetryReturns, FsmEnds, IcoTick
<1>3. OneDenied' /\ RoundNotOver' /\ BoundedWait'
  BY <1>1 DEF IInv, OneDenied, RoundNotOver, BoundedWait, Ahead
<1>4. /\ ico_ctl' \in [pc : {"idle", "loop", "retry", "retried"}, bank : 0 .. nb_slaves,
                   any_remaining : BOOLEAN, winner : Masters]
      /\ fsm_event' \in {"off", "next", "now"}
      /\ CtlShape' /\ ElectionComing' /\ LoopRemembers'
      /\ ico_ctl.pc # "retry" /\ ico_ctl'.pc # "retry"
  <2>0. 0 \in Masters /\ \A c \in Banks : c < nb_slaves /\ c \in Int
    BY <1>0, LogIcoAssumption DEF Masters, Banks
  <2>1. CASE FsmHandler
    <3>1. /\ ico_ctl = IcoIdle /\ ico_ctl'.pc = "loop" /\ ico_ctl'.bank = 0 /\ fsm_event' = "off"
          /\ ico_ctl' \in [pc : {"idle", "loop", "retry", "retried"}, bank : 0 .. nb_slaves,
                       any_remaining : BOOLEAN, winner : Masters]
      <4>1. ico_ctl' = [pc |-> "loop", bank |-> 0, any_remaining |-> FALSE, winner |-> 0]
        BY <2>1 DEF FsmHandler, IcoIdle
      <4>2. FALSE \in BOOLEAN /\ 0 \in 0 .. nb_slaves
        BY <1>0
      <4>3. ico_ctl' \in [pc : {"idle", "loop", "retry", "retried"}, bank : 0 .. nb_slaves,
                      any_remaining : BOOLEAN, winner : Masters]
        BY <2>0, <4>1, <4>2, Zenon
      <4>4. ico_ctl'.pc = "loop" /\ ico_ctl'.bank = 0
        BY <4>1
      <4> QED BY <2>1, <4>3, <4>4 DEF FsmHandler
    <3>2. \A c \in Banks : ~(c < 0)
      BY DEF Banks
    <3> QED BY <3>1, <3>2 DEF IcoIdle, CtlShape, ElectionComing, LoopRemembers
  <2>2. CASE IcoRetryReturns
    <3>1. /\ ico_ctl.pc = "retried" /\ ico_ctl.bank \in Banks /\ ico_ctl.bank \in 0 .. nb_slaves - 1
          /\ ico_ctl' = [ico_ctl EXCEPT !.pc = "loop", !.bank = @ + 1,
                                !.any_remaining = @ \/ pending_mask[ico_ctl.bank] # {}]
          /\ fsm_event' = fsm_event
      BY <1>0, <2>2 DEF IcoRetryReturns, IInv, IcoTypeOK, CtlShape, Banks
    <3>2. /\ ico_ctl'.pc = "loop" /\ ico_ctl'.bank = ico_ctl.bank + 1
          /\ ico_ctl'.any_remaining = (ico_ctl.any_remaining \/ pending_mask[ico_ctl.bank] # {})
          /\ ico_ctl' \in [pc : {"idle", "loop", "retry", "retried"}, bank : 0 .. nb_slaves,
                       any_remaining : BOOLEAN, winner : Masters]
      <4> DEFINE left == ico_ctl.any_remaining \/ pending_mask[ico_ctl.bank] # {}
      <4>1. left \in BOOLEAN
        OBVIOUS
      <4>2. /\ ico_ctl' = [ico_ctl EXCEPT !.pc = "loop", !.bank = ico_ctl.bank + 1, !.any_remaining = left]
            /\ ico_ctl.bank + 1 \in 0 .. nb_slaves
            /\ ico_ctl \in [pc : {"idle", "loop", "retry", "retried"}, bank : 0 .. nb_slaves,
                        any_remaining : BOOLEAN, winner : Masters]
        BY <1>0, <3>1 DEF IInv, IcoTypeOK
      <4>3. left = (ico_ctl.any_remaining \/ pending_mask[ico_ctl.bank] # {})
        OBVIOUS
      <4> HIDE DEF left
      <4> QED BY <4>1, <4>2, <4>3
    <3>3. \A c \in Banks : c < ico_ctl.bank + 1 => c < ico_ctl.bank \/ c = ico_ctl.bank
      BY <2>0, <3>1
    <3>4. \A c \in Banks : c < ico_ctl'.bank /\ pending_mask'[c] # {} => ico_ctl'.any_remaining
      BY <1>1, <3>1, <3>2, <3>3 DEF IInv, LoopRemembers
    <3> QED BY <3>1, <3>2, <3>4 DEF CtlShape, ElectionComing, LoopRemembers, IcoIdle, IInv, IcoTypeOK
  <2>3. CASE FsmEnds
    <3>1. /\ ico_ctl.pc = "loop" /\ ico_ctl.bank = nb_slaves /\ ico_ctl' = IcoIdle
          /\ fsm_event' = IF ico_ctl.any_remaining THEN "next" ELSE fsm_event
      BY <2>3 DEF FsmEnds
    <3>2. (\E c \in Banks : pending_mask[c] # {}) => fsm_event' # "off"
      BY <2>0, <3>1 DEF IInv, LoopRemembers
    <3> QED BY <1>0, <1>1, <2>0, <3>1, <3>2
            DEF CtlShape, ElectionComing, LoopRemembers, IcoIdle, IInv, IcoTypeOK
  <2>4. CASE IcoTick
    BY <1>1, <2>4 DEF IcoTick, CtlShape, ElectionComing, LoopRemembers, IcoIdle, IInv, IcoTypeOK
  <2> QED BY <2>1, <2>2, <2>3, <2>4
<1>5. IcoTypeOK'
  BY <1>1, <1>2, <1>4 DEF IInv, IcoTypeOK
<1>6. MasksAreRefusals'
  BY <1>1, <1>4 DEF IInv, MasksAreRefusals, decode_bank
<1> QED BY <1>2, <1>3, <1>4, <1>5, <1>6 DEF IInv

LEMMA ResetIInv ==
    ASSUME IInv, IcoReset PROVE IInv'
<1>1. /\ ico_ctl = IcoIdle /\ UNCHANGED <<fsm_event, ico_ctl, hits>>
      /\ pending_mask' = [c \in Banks |-> {}] /\ rr_next' = [c \in Banks |-> 0]
      /\ ico_up' = [r \in IcoReqs |-> "idle"] /\ addr' = [r \in IcoReqs |-> 0]
      /\ passed' = [m \in Masters |-> 0]
  BY DEF IcoReset
<1>2. 0 \in Masters /\ nb_masters \in Nat \ {0}
  BY LogIcoAssumption DEF Masters
<1>3. IcoTypeOK' /\ HitsDecoded'
  BY <1>1, <1>2 DEF IInv, IcoTypeOK, HitsDecoded, decode_bank, decode_offset, MasterStates
<1>4. OneDenied' /\ CtlShape' /\ ElectionComing' /\ LoopRemembers'
  BY <1>1 DEF IInv, OneDenied, CtlShape, ElectionComing, LoopRemembers
<1>5. MasksAreRefusals' /\ RoundNotOver' /\ BoundedWait'
  BY <1>1, <1>2, MineOf DEF MasksAreRefusals, RoundNotOver, BoundedWait
<1> QED BY <1>3, <1>4, <1>5 DEF IInv

LEMMA StutterIInv ==
    ASSUME IInv, UNCHANGED IcoVars PROVE IInv'
<1> USE DEF IcoVars
<1>1. IcoTypeOK' /\ OneDenied' /\ CtlShape' /\ ElectionComing' /\ LoopRemembers'
  BY DEF IInv, IcoTypeOK, OneDenied, CtlShape, ElectionComing, LoopRemembers
<1>2. MasksAreRefusals' /\ HitsDecoded' /\ RoundNotOver' /\ BoundedWait'
  BY DEF IInv, MasksAreRefusals, HitsDecoded, RoundNotOver, BoundedWait, Ahead,
         decode_bank, decode_offset
<1> QED BY <1>1, <1>2 DEF IInv

LEMMA CrossbarSafe == IcoSpec => []IInv
<1>1. IcoInit => IInv
  BY InitIInv
<1>2. IInv /\ [IcoNext]_IcoVars => IInv'
  <2> SUFFICES ASSUME IInv, [IcoNext]_IcoVars PROVE IInv'
    OBVIOUS
  <2>1. ASSUME NEW r \in IcoReqs, IcoMasterReq(r) \/ IcoMasterReissue(r) PROVE IInv'
    BY <2>1, MasterReqIInv, MasterReissueIInv
  <2>2. CASE FsmHandler \/ IcoRetryReturns \/ FsmEnds \/ IcoTick
    BY <2>2, FsmControlIInv
  <2>3. CASE FsmBank
    BY <2>3, FsmBankIInv
  <2>4. CASE IcoReset
    BY <2>4, ResetIInv
  <2>5. CASE UNCHANGED IcoVars
    BY <2>5, StutterIInv
  <2> QED BY <2>1, <2>2, <2>3, <2>4, <2>5 DEF IcoNext
<1> QED BY <1>1, <1>2, PTL DEF IcoSpec

-----------------------------------------------------------------------------
(* The masks, rotors, the FSM state and the recorded accesses keep their   *)
(* types: every elected input and every decoded bank is one that exists.   *)
THEOREM CrossbarTypeCorrect == IcoSpec => []IcoTypeOK
<1>1. IInv => IcoTypeOK
  BY DEF IInv
<1> QED BY <1>1, CrossbarSafe, PTL

(***************************************************************************)
(* pending_mask and the refused requests agree, and a mask that is not     *)
(* empty always has an election coming: fsm_event is enqueued, or the loop *)
(* of fsm_handler is running and knows that an input of a bank it has      *)
(* passed is left.  No refused master is forgotten, whatever it issues     *)
(* from inside its retry().                                                *)
(***************************************************************************)
THEOREM RefusalsTheorem == IcoSpec => []RefusalsAreElected
<1>1. IInv => RefusalsAreElected
  BY DEF IInv, RefusalsAreElected
<1> QED BY <1>1, CrossbarSafe, PTL

(***************************************************************************)
(* pick_winner is fair: for any number of masters an input loses fewer     *)
(* elections than there are masters before it is retried, although every   *)
(* other master may come back at once.                                     *)
(***************************************************************************)
THEOREM BoundedWaitTheorem == IcoSpec => []BoundedWait
<1>1. IInv => BoundedWait
  BY DEF IInv
<1> QED BY <1>1, CrossbarSafe, PTL

(***************************************************************************)
(* decode_bank and decode_offset never send two addresses to the same      *)
(* place of the same bank, for every granule and number of banks.          *)
(***************************************************************************)
THEOREM NoAliasingTheorem == IcoSpec => []NoAliasing
<1>1. IInv => NoAliasing
  <2> SUFFICES ASSUME IInv, NEW i \in 1 .. Len(hits), NEW j \in 1 .. Len(hits),
                      hits[i].bank = hits[j].bank, hits[i].offset = hits[j].offset
               PROVE  hits[i].addr = hits[j].addr
    BY DEF NoAliasing
  <2>1. /\ hits[i].addr \in Nat /\ hits[j].addr \in Nat
        /\ decode_bank(hits[i].addr) = decode_bank(hits[j].addr)
        /\ decode_offset(hits[i].addr) = decode_offset(hits[j].addr)
    BY DEF IInv, HitsDecoded
  <2> QED BY <2>1, DecodeInjective
<1> QED BY <1>1, CrossbarSafe, PTL
=============================================================================
