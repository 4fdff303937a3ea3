------------------------- MODULE ClockBridgeProofs -------------------------
(***************************************************************************)
(* The safety of the clock-domain bridge, for any requests and any         *)
(* latencies and depth, at any ratio of the two clocks.                    *)
(***************************************************************************)
EXTENDS ClockBridge, WellFoundedInduction, TLAPS

(***************************************************************************)
(* The inductive invariant, as predicates on a state [c = cfg, qq = q,     *)
(* rq = resp_queue, e = ev, o = retry_owed, t = ctl, u = up, dn = down,    *)
(* w = owes].                                                              *)
(***************************************************************************)
Par(c)     == c.k_src > 0 \/ c.k_dst > 0
KOf(c, s)  == IF s \in {"fwd_src", "rev_src"} THEN c.k_src ELSE c.k_dst
Controls   == [pc : {"idle", "resp", "retry", "retried"},
               of : {"none", "rev_dst", "resp", "retry", "out_retry"}]

Types(c, qq, rq, e, o, t, u, dn, w) ==
    /\ c \in Configs /\ qq \in [Stages -> Seq(Entry)] /\ rq \in Seq(Reqs)
    /\ e \in [Events -> Nat \cup {Off}] /\ o \in BOOLEAN /\ t \in Controls
    /\ u \in [Reqs -> MasterStates] /\ dn \subseteq Reqs /\ w \in BOOLEAN

(* With k = 0 the stages are not used, and otherwise resp_event is not. *)
Mode(c, qq, rq, o, w) ==
    /\ Par(c) => rq = <<>> /\ ~w
    /\ ~Par(c) => qq = Drained /\ ~o

(* The handlers a call on the master is made from. *)
CtlShape(t) ==
    /\ t.pc = "idle" => t = Idle
    /\ t.pc = "resp" => t.of \in {"rev_dst", "resp"}
    /\ t.pc \in {"retry", "retried"} => t.of \in {"rev_dst", "retry", "out_retry"}

(* Request r is in a queue of entries, or of requests. *)
Has(d, r)    == \E i \in DOMAIN d : d[i].req = r
HasR(rs, r)  == \E i \in DOMAIN rs : rs[i] = r
Distinct(d)  == \A i, j \in DOMAIN d : d[i].req = d[j].req => i = j
DistinctR(rs) == \A i, j \in DOMAIN rs : rs[i] = rs[j] => i = j

Placed(qq, rq, u, dn, r) ==
    /\ \A s, t \in Stages : Has(qq[s], r) /\ Has(qq[t], r) => s = t
    /\ \A s \in Stages : Has(qq[s], r) => ~HasR(rq, r) /\ r \notin dn
    /\ HasR(rq, r) => r \notin dn /\ r \in RoundTrip
    /\ Has(qq["rev_src"], r) \/ Has(qq["rev_dst"], r) => r \in RoundTrip
    /\ u[r] # "error"
    /\ u[r] = "granted" <=> (\E s \in Stages : Has(qq[s], r)) \/ HasR(rq, r) \/ r \in dn

Places(qq, rq, u, dn) ==
    /\ \A s \in Stages : Distinct(qq[s])
    /\ DistinctR(rq)
    /\ \A r \in Reqs : Placed(qq, rq, u, dn, r)

(* The event of a stage, and the one of the responses. *)
Tracked(d, x) ==
    /\ d = <<>> <=> x = Off
    /\ d # <<>> => x = d[1].left \/ (x \in {0, 1} /\ d[1].left < x)

Tracks(qq, rq, e, t) ==
    /\ \A s \in Stages : t.of # s => Tracked(qq[s], e[s])
    /\ t.of # "resp" => (rq = <<>> <=> e["resp"] = Off)

(* The deadlines of a stage of k cycles.  An entry waits k cycles, or one  *)
(* more than the entry before it; stated for any two entries, it survives  *)
(* the removal of those in front.                                          *)
Spaced(d, k) ==
    /\ \A i, j \in DOMAIN d : i < j =>
          /\ d[i].left < d[j].left
          /\ d[j].left < k + (j - i) \/ d[j].left <= d[i].left + (j - i)
    /\ 1 \in DOMAIN d => d[1].left <= Larger(1, k)

Spacing(c, qq) == \A s \in Stages : Spaced(qq[s], KOf(c, s))

(* A refused request is noted, until its retry() is under way; a note has  *)
(* somebody left to act on it.                                             *)
Denied(u) == \E r \in Reqs : u[r] = "denied"

Noted(o, t, u, w) ==
    /\ \A p, r \in Reqs : u[p] = "denied" /\ u[r] = "denied" => p = r
    /\ t.pc = "retry" => ~o /\ ~w
    /\ t.pc # "retry" => (o \/ w <=> Denied(u))

Gate(c, qq, e, o, t) ==
    /\ o => \/ Occupancy(qq) >= c.depth \/ e["retry"] # Off
            \/ t = [pc |-> "resp", of |-> "rev_dst"]
    /\ Len(qq["fwd_src"]) + Len(qq["fwd_dst"]) <= c.depth

State(c, qq, rq, e, o, t, u, dn, w) ==
    /\ Types(c, qq, rq, e, o, t, u, dn, w)
    /\ Mode(c, qq, rq, o, w)
    /\ CtlShape(t)
    /\ Places(qq, rq, u, dn)
    /\ Tracks(qq, rq, e, t)
    /\ Spacing(c, qq)
    /\ Noted(o, t, u, w)
    /\ Gate(c, qq, e, o, t)

IInv == State(cfg, q, resp_queue, ev, retry_owed, ctl, up, down, owes)

-----------------------------------------------------------------------------
LEMMA Constants ==
    /\ \A c \in Configs : c.k_src \in Nat /\ c.k_dst \in Nat /\ c.depth \in Nat \ {0}
    /\ \A s \in Stages, c \in Configs : KOf(c, s) \in Nat
    /\ Stages \subseteq Events /\ {"retry", "resp"} \subseteq Events
    /\ \A s \in Stages : s \notin {"retry", "resp"}
    /\ Off \notin Nat
  BY BridgeAssumption DEF KOf, Stages, Events, MasterSide, SlaveSide, Off

LEMMA Largest ==
    ASSUME NEW a \in Int, NEW b \in Int
    PROVE  /\ Larger(a, b) \in Int /\ Larger(a, b) >= a /\ Larger(a, b) >= b
           /\ Larger(a, b) = a \/ Larger(a, b) = b
  BY DEF Larger

(* The first n entries of queue d are taken off, x is left. *)
Dropped(d, n, x) ==
    /\ n \in 0 .. Len(d) /\ x \in Seq(Entry) /\ Len(x) = Len(d) - n
    /\ \A i \in DOMAIN x : i + n \in DOMAIN d /\ x[i] = d[i + n]

LEMMA DropTail ==
    ASSUME NEW d \in Seq(Entry), d # <<>>
    PROVE  Dropped(d, 1, Tail(d))
  <1>1. PICK x : x = Tail(d)
    OBVIOUS
  <1>2. /\ x \in Seq(Entry) /\ Len(x) = Len(d) - 1 /\ Len(d) \in Nat /\ Len(d) > 0
        /\ \A i \in 1 .. Len(x) : x[i] = d[i + 1]
    BY <1>1
  <1>3. \A i \in DOMAIN x : i + 1 \in DOMAIN d /\ x[i] = d[i + 1]
    BY <1>2
  <1> QED BY <1>1, <1>2, <1>3 DEF Dropped

LEMMA DropSub ==
    ASSUME NEW d \in Seq(Entry), NEW n \in 0 .. Len(d)
    PROVE  Dropped(d, n, SubSeq(d, n + 1, Len(d)))
  <1>1. PICK x, m : x = SubSeq(d, n + 1, Len(d)) /\ m = Len(d)
    OBVIOUS
  <1>2. m \in Nat /\ n \in 0 .. m /\ DOMAIN d = 1 .. m
    BY <1>1
  <1>3. /\ x \in Seq(Entry) /\ Len(x) = m - n
        /\ \A i \in 1 .. (m - n) : x[i] = d[i + n]
    BY <1>1, <1>2
  <1>4. DOMAIN x = 1 .. (m - n)
    BY <1>2, <1>3
  <1>5. \A i \in DOMAIN x : i + n \in DOMAIN d /\ x[i] = d[i + n]
    BY <1>2, <1>3, <1>4
  <1> QED BY <1>1, <1>2, <1>3, <1>5 DEF Dropped

LEMMA EntryTypes ==
    ASSUME NEW d \in Seq(Entry)
    PROVE  /\ DOMAIN d = 1 .. Len(d) /\ Len(d) \in Nat /\ DOMAIN d \subseteq Int
           /\ d # <<>> <=> 1 \in DOMAIN d
           /\ \A i \in DOMAIN d : d[i] \in Entry /\ d[i].req \in Reqs /\ d[i].left \in Int
  <1>1. \A i \in DOMAIN d : d[i] \in Entry
    OBVIOUS
  <1>2. \A i \in DOMAIN d : d[i].req \in Reqs /\ d[i].left \in Int
    BY <1>1 DEF Entry
  <1>3. DOMAIN d = 1 .. Len(d) /\ Len(d) \in Nat /\ DOMAIN d \subseteq Int
    OBVIOUS
  <1>4. d # <<>> <=> Len(d) > 0
    BY <1>3
  <1> QED BY <1>1, <1>2, <1>3, <1>4

(* What is left is spaced as before. *)
LEMMA DropSpaced ==
    ASSUME NEW d \in Seq(Entry), NEW n, NEW x, Dropped(d, n, x), NEW k \in Nat, Spaced(d, k),
           n > 0 => d[n].left <= 0
    PROVE  Spaced(x, k)
  <1>1. /\ n \in Nat /\ n <= Len(d) /\ Len(d) \in Nat /\ x \in Seq(Entry) /\ DOMAIN x \subseteq Int
        /\ DOMAIN d = 1 .. Len(d)
        /\ \A i \in DOMAIN x : i + n \in DOMAIN d /\ x[i] = d[i + n]
    BY DEF Dropped
  <1>2. \A i \in DOMAIN d : d[i].left \in Int
    BY EntryTypes
  <1>3. ASSUME NEW i \in DOMAIN x, NEW j \in DOMAIN x, i < j
        PROVE  /\ x[i].left < x[j].left
               /\ x[j].left < k + (j - i) \/ x[j].left <= x[i].left + (j - i)
    <2>1. PICK a, b : a = i + n /\ b = j + n
      OBVIOUS
    <2>2. /\ a \in DOMAIN d /\ b \in DOMAIN d /\ a < b /\ b - a = j - i
          /\ x[i] = d[a] /\ x[j] = d[b]
      BY <2>1, <1>1, <1>3
    <2> QED BY <2>2 DEF Spaced
  <1>4. ASSUME 1 \in DOMAIN x PROVE x[1].left <= Larger(1, k)
    <2>1. CASE n = 0
      <3>1. 1 \in DOMAIN d /\ x[1] = d[1]
        BY <2>1, <1>1, <1>4
      <3> QED BY <3>1 DEF Spaced
    <2>2. CASE n > 0
      <3>1. PICK b : b = 1 + n
        OBVIOUS
      <3>2. /\ b \in DOMAIN d /\ n \in DOMAIN d /\ n < b /\ b - n = 1 /\ x[1] = d[b]
        BY <3>1, <2>2, <1>1, <1>4
      <3>3. d[b].left < k + 1 \/ d[b].left <= d[n].left + 1
        BY <3>2 DEF Spaced
      <3>4. d[b].left <= k \/ d[b].left <= 1
        BY <3>2, <3>3, <2>2, <1>2
      <3>5. Larger(1, k) \in Int /\ Larger(1, k) >= 1 /\ Larger(1, k) >= k
        BY Largest
      <3>6. d[b].left \in Int
        BY <3>2, <1>2
      <3> QED BY <3>2, <3>4, <3>5, <3>6
    <2> QED BY <2>1, <2>2, <1>1
  <1> QED BY <1>3, <1>4 DEF Spaced

(* The loop of a stage handler. *)
LEMMA NbDueFacts ==
    ASSUME NEW d \in Seq(Entry)
    PROVE  /\ NbDue(d) \in 0 .. Len(d)
           /\ \A i \in 1 .. NbDue(d) : d[i].left <= 0
           /\ NbDue(d) < Len(d) => d[NbDue(d) + 1].left > 0
  <1>1. PICK m : m = Len(d)
    OBVIOUS
  <1>2. m \in Nat /\ \A i \in 1 .. m : d[i].left \in Int
    BY <1>1, EntryTypes
  <1>3. PICK T : T = {n \in 0 .. m : n = m \/ d[n + 1].left > 0}
    OBVIOUS
  <1>4. T \subseteq Nat /\ m \in T
    BY <1>2, <1>3
  <1>5. PICK n \in T : \A y \in T : ~(<<y, n>> \in OpToRel(<, Nat))
    BY <1>4, NatLessThanWellFounded, WFMin, Zenon
  <1>6. n \in Nat /\ \A y \in T : ~(y < n)
    BY <1>4, <1>5 DEF OpToRel
  <1>7. ASSUME NEW i \in 1 .. n PROVE d[i].left <= 0
    <2>1. i - 1 \in 0 .. m /\ i - 1 < n /\ i - 1 # m /\ (i - 1) + 1 = i /\ i \in 1 .. m
      BY <1>2, <1>3, <1>6
    <2>2. i - 1 \notin T
      BY <2>1, <1>6
    <2>3. ~(d[(i - 1) + 1].left > 0)
      BY <2>1, <2>2, <1>3
    <2> QED BY <2>1, <2>3, <1>2
  <1>8. n \in 0 .. m /\ (n = m \/ d[n + 1].left > 0)
    BY <1>3, <1>5
  <1>9. n \in 0 .. Len(d) /\ (n < Len(d) => d[n + 1].left > 0)
    BY <1>1, <1>2, <1>8
  <1> QED BY <1>7, <1>9 DEF NbDue

-----------------------------------------------------------------------------
(* Which requests are in what is left. *)
LEMMA DropHas ==
    ASSUME NEW d \in Seq(Entry), NEW n, NEW x, Dropped(d, n, x)
    PROVE  /\ \A r : Has(x, r) <=> \E i \in DOMAIN d : i > n /\ d[i].req = r
           /\ Distinct(d) => Distinct(x)
  <1>1. /\ n \in Nat /\ n <= Len(d) /\ Len(d) \in Nat /\ x \in Seq(Entry)
        /\ DOMAIN d = 1 .. Len(d) /\ DOMAIN x = 1 .. (Len(d) - n)
        /\ \A i \in DOMAIN x : i + n \in DOMAIN d /\ x[i] = d[i + n]
    BY DEF Dropped
  <1>2. ASSUME NEW r, NEW i \in DOMAIN x, x[i].req = r
        PROVE  \E j \in DOMAIN d : j > n /\ d[j].req = r
    <2>1. i + n \in DOMAIN d /\ i + n > n /\ d[i + n].req = r
      BY <1>1, <1>2
    <2> QED BY <2>1
  <1>3. ASSUME NEW r, NEW j \in DOMAIN d, j > n, d[j].req = r
        PROVE  \E i \in DOMAIN x : x[i].req = r
    <2>1. j - n \in DOMAIN x /\ (j - n) + n = j
      BY <1>1, <1>3
    <2>2. x[j - n] = d[(j - n) + n]
      BY <2>1, <1>1
    <2>3. x[j - n].req = r
      BY <2>1, <2>2, <1>3
    <2> QED BY <2>1, <2>3
  <1>4. ASSUME Distinct(d), NEW i \in DOMAIN x, NEW j \in DOMAIN x, x[i].req = x[j].req
        PROVE  i = j
    <2>1. PICK a, b : a = i + n /\ b = j + n
      OBVIOUS
    <2>2. a \in DOMAIN d /\ b \in DOMAIN d /\ x[i] = d[a] /\ x[j] = d[b]
      BY <2>1, <1>1
    <2>3. a = b
      BY <2>2, <1>4 DEF Distinct
    <2> QED BY <2>1, <2>3, <1>1
  <1> QED BY <1>2, <1>3, <1>4 DEF Has, Distinct

(* What the loop of a stage handler takes off its queue, and leaves in it. *)
LEMMA DueFacts ==
    ASSUME NEW d \in Seq(Entry), Distinct(d), NEW k \in Nat, Spaced(d, k),
           NEW rs, rs = DueReqs(d), NEW x, x = Later(d)
    PROVE  /\ rs \in Seq(Reqs) /\ x \in Seq(Entry) /\ Len(x) + Len(rs) = Len(d)
           /\ Distinct(x) /\ DistinctR(rs) /\ Spaced(x, k)
           /\ \A r : Has(d, r) <=> Has(x, r) \/ HasR(rs, r)
           /\ \A r : ~(Has(x, r) /\ HasR(rs, r))
  <1>1. PICK n : n = NbDue(d)
    OBVIOUS
  <1>2. /\ n \in 0 .. Len(d) /\ \A i \in 1 .. n : d[i].left <= 0
    BY <1>1, NbDueFacts
  <1>3. Dropped(d, n, x)
    BY <1>1, <1>2, DropSub DEF Later
  <1>4. /\ DOMAIN d = 1 .. Len(d) /\ Len(d) \in Nat
        /\ \A i \in DOMAIN d : d[i].req \in Reqs
    BY EntryTypes
  <1>5. n \in Nat /\ n <= Len(d) /\ 1 .. n \subseteq DOMAIN d
    BY <1>2, <1>4
  <1>6. rs = [i \in 1 .. n |-> d[i].req]
    BY <1>1 DEF DueReqs
  <1>7. rs \in Seq(Reqs) /\ Len(rs) = n /\ DOMAIN rs = 1 .. n /\ \A i \in 1 .. n : rs[i] = d[i].req
    BY <1>4, <1>5, <1>6
  <1>8. x \in Seq(Entry) /\ Len(x) + Len(rs) = Len(d)
    BY <1>3, <1>4, <1>5, <1>7 DEF Dropped
  <1>9. /\ \A r : Has(x, r) <=> \E i \in DOMAIN d : i > n /\ d[i].req = r
        /\ Distinct(x)
    BY <1>3, DropHas
  <1>10. DistinctR(rs)
    BY <1>5, <1>7 DEF DistinctR, Distinct
  <1>11. Spaced(x, k)
    <2>1. n > 0 => d[n].left <= 0
      BY <1>2, <1>5
    <2> QED BY <2>1, <1>3, DropSpaced
  <1>12. \A r : HasR(rs, r) <=> \E i \in DOMAIN d : i <= n /\ d[i].req = r
    <2>1. \A i \in DOMAIN d : i <= n <=> i \in 1 .. n
      BY <1>4, <1>5
    <2> QED BY <2>1, <1>5, <1>7 DEF HasR
  <1>13. \A i \in DOMAIN d : (i <= n \/ i > n) /\ ~(i <= n /\ i > n)
    BY <1>4, <1>5
  <1>14. \A r : Has(d, r) <=> Has(x, r) \/ HasR(rs, r)
    BY <1>9, <1>12, <1>13 DEF Has
  <1>15. ASSUME NEW r, Has(x, r), HasR(rs, r) PROVE FALSE
    <2>1. PICK i \in DOMAIN d : i > n /\ d[i].req = r
      BY <1>9, <1>15
    <2>2. PICK j \in DOMAIN d : j <= n /\ d[j].req = r
      BY <1>12, <1>15
    <2>3. i = j
      BY <2>1, <2>2 DEF Distinct
    <2> QED BY <2>1, <2>2, <2>3, <1>13
  <1> QED BY <1>7, <1>8, <1>9, <1>10, <1>11, <1>14, <1>15

(* The requests rs join queue d, the first one due in b cycles; x results. *)
Enqueued(d, rs, b, x) ==
    /\ x \in Seq(Entry) /\ Len(x) = Len(d) + Len(rs) /\ b \in Int
    /\ \A i \in DOMAIN d : i \in DOMAIN x /\ x[i] = d[i]
    /\ \A i \in DOMAIN rs : /\ Len(d) + i \in DOMAIN x /\ x[Len(d) + i].req = rs[i]
                            /\ x[Len(d) + i].left = b + i - 1
    /\ \A i \in DOMAIN x : i \in DOMAIN d \/ (i - Len(d) \in DOMAIN rs /\ i > Len(d))

LEMMA EnqueueRaw ==
    ASSUME cfg \in Configs, NEW s \in Stages, NEW d \in Seq(Entry), NEW rs \in Seq(Reqs)
    PROVE  Enqueued(d, rs, FirstSlot(d, s), EnqueueIn(d, rs, s))
  <1>0. PICK x : x = EnqueueIn(d, rs, s)
    OBVIOUS
  <1>1. K(s) \in Nat
    BY Constants DEF K, KOf
  <1>2. PICK b : b = FirstSlot(d, s)
    OBVIOUS
  <1>3. b \in Int
    <2>1. CASE d = <<>>
      BY <2>1, <1>1, <1>2 DEF FirstSlot
    <2>2. CASE d # <<>>
      <3>1. Len(d) \in DOMAIN d
        BY <2>2
      <3>2. Last(d).left \in Int
        BY <3>1, EntryTypes DEF Last
      <3>3. PICK z : z = Last(d).left + 1
        OBVIOUS
      <3>4. z \in Int
        BY <3>2, <3>3
      <3>5. Larger(K(s), z) \in Int
        BY <3>4, <1>1, Largest
      <3> QED BY <2>2, <3>3, <3>5, <1>2 DEF FirstSlot
    <2> QED BY <2>1, <2>2
  <1>4. PICK y : y = [i \in DOMAIN rs |-> [req |-> rs[i], left |-> b + i - 1]]
    OBVIOUS
  <1>5. PICK m, n : m = Len(d) /\ n = Len(rs)
    OBVIOUS
  <1>6. m \in Nat /\ n \in Nat /\ DOMAIN d = 1 .. m /\ DOMAIN rs = 1 .. n
    BY <1>5
  <1>7. \A i \in 1 .. n : [req |-> rs[i], left |-> b + i - 1] \in Entry
    BY <1>3, <1>5, <1>6 DEF Entry
  <1>8. /\ y \in Seq(Entry) /\ Len(y) = n /\ DOMAIN y = 1 .. n
        /\ \A i \in 1 .. n : y[i].req = rs[i] /\ y[i].left = b + i - 1
    BY <1>4, <1>6, <1>7
  <1>9. x = d \o y
    BY <1>0, <1>2, <1>4 DEF EnqueueIn
  <1>10. /\ x \in Seq(Entry) /\ Len(x) = m + n
         /\ \A i \in 1 .. m + n : x[i] = IF i <= m THEN d[i] ELSE y[i - m]
    <2>1. y \in Seq(Entry)
      BY <1>8
    <2>2. /\ d \o y \in Seq(Entry) /\ Len(d \o y) = Len(d) + Len(y)
          /\ \A i \in 1 .. Len(d) + Len(y) : (d \o y)[i] = IF i <= Len(d) THEN d[i] ELSE y[i - Len(d)]
      BY <2>1
    <2> QED BY <2>2, <1>5, <1>8, <1>9
  <1>11. DOMAIN x = 1 .. m + n
    BY <1>6, <1>10
  <1>12. \A i \in 1 .. m : i \in 1 .. m + n /\ x[i] = d[i]
    BY <1>6, <1>10
  <1>13. ASSUME NEW i \in 1 .. n
         PROVE  m + i \in 1 .. m + n /\ x[m + i] = y[i]
    <2>1. m + i \in 1 .. m + n /\ ~(m + i <= m) /\ (m + i) - m = i
      BY <1>6
    <2> QED BY <2>1, <1>10
  <1>14. \A i \in 1 .. m + n : i \in 1 .. m \/ (i - m \in 1 .. n /\ i > m)
    BY <1>6
  <1>15. \A i \in DOMAIN d : i \in DOMAIN x /\ x[i] = d[i]
    BY <1>6, <1>11, <1>12
  <1>16. \A i \in DOMAIN rs : /\ m + i \in DOMAIN x /\ x[m + i].req = rs[i]
                              /\ x[m + i].left = b + i - 1
    BY <1>6, <1>8, <1>11, <1>13
  <1>17. \A i \in DOMAIN x : i \in DOMAIN d \/ (i - m \in DOMAIN rs /\ i > m)
    BY <1>6, <1>11, <1>14
  <1>18. Enqueued(d, rs, b, x)
    BY <1>3, <1>5, <1>10, <1>15, <1>16, <1>17 DEF Enqueued
  <1> QED BY <1>0, <1>2, <1>18

(* The requests of the queue are joined by those of rs, in places of their *)
(* own.                                                                    *)
LEMMA EnqueueHas ==
    ASSUME cfg \in Configs, NEW s \in Stages, NEW d \in Seq(Entry), NEW rs \in Seq(Reqs),
           NEW x, x = EnqueueIn(d, rs, s)
    PROVE  /\ \A r : Has(x, r) <=> Has(d, r) \/ HasR(rs, r)
           /\ Distinct(d) /\ DistinctR(rs) /\ (\A r : ~(Has(d, r) /\ HasR(rs, r))) => Distinct(x)
  <1>1. PICK m : m = Len(d)
    OBVIOUS
  <1>2. /\ \A i \in DOMAIN d : i \in DOMAIN x /\ x[i] = d[i]
        /\ \A i \in DOMAIN rs : m + i \in DOMAIN x /\ x[m + i].req = rs[i]
        /\ \A i \in DOMAIN x : i \in DOMAIN d \/ i - m \in DOMAIN rs
        /\ DOMAIN x \subseteq Int /\ m \in Nat
    <2>1. /\ x \in Seq(Entry) /\ \A i \in DOMAIN d : i \in DOMAIN x /\ x[i] = d[i]
          /\ \A i \in DOMAIN rs : Len(d) + i \in DOMAIN x /\ x[Len(d) + i].req = rs[i]
          /\ \A i \in DOMAIN x : i \in DOMAIN d \/ i - Len(d) \in DOMAIN rs
      <3>1. Enqueued(d, rs, FirstSlot(d, s), x)
        BY EnqueueRaw
      <3> QED BY <3>1 DEF Enqueued
    <2>2. DOMAIN x \subseteq Int /\ m \in Nat
      BY <2>1, <1>1, EntryTypes
    <2> QED BY <2>1, <2>2, <1>1
  <1>3. ASSUME NEW i \in DOMAIN x, i - m \in DOMAIN rs
        PROVE  x[i].req = rs[i - m]
    <2>1. m + (i - m) = i
      BY <1>2
    <2> QED BY <2>1, <1>2, <1>3
  <1>4. ASSUME NEW r, NEW i \in DOMAIN x, x[i].req = r PROVE Has(d, r) \/ HasR(rs, r)
    BY <1>2, <1>3, <1>4 DEF Has, HasR
  <1>5. ASSUME NEW r, Has(d, r) \/ HasR(rs, r) PROVE \E i \in DOMAIN x : x[i].req = r
    <2>1. CASE Has(d, r)
      BY <2>1, <1>2 DEF Has
    <2>2. CASE HasR(rs, r)
      BY <2>2, <1>2 DEF HasR
    <2> QED BY <2>1, <2>2, <1>5
  <1>6. ASSUME Distinct(d), DistinctR(rs), \A r : ~(Has(d, r) /\ HasR(rs, r)),
               NEW i \in DOMAIN x, NEW j \in DOMAIN x, x[i].req = x[j].req
        PROVE  i = j
    <2>1. CASE i \in DOMAIN d /\ j \in DOMAIN d
      BY <2>1, <1>2, <1>6 DEF Distinct
    <2>2. CASE i - m \in DOMAIN rs /\ j - m \in DOMAIN rs
      <3>1. rs[i - m] = rs[j - m]
        BY <2>2, <1>3, <1>6
      <3>2. i - m = j - m
        BY <3>1, <2>2, <1>6 DEF DistinctR
      <3> QED BY <3>2, <1>2
    <2>3. CASE i \in DOMAIN d /\ j - m \in DOMAIN rs
      <3>1. d[i].req = rs[j - m]
        BY <2>3, <1>2, <1>3, <1>6
      <3>2. Has(d, d[i].req) /\ HasR(rs, d[i].req)
        BY <3>1, <2>3 DEF Has, HasR
      <3> QED BY <3>2, <1>6
    <2>4. CASE j \in DOMAIN d /\ i - m \in DOMAIN rs
      <3>1. d[j].req = rs[i - m]
        BY <2>4, <1>2, <1>3, <1>6
      <3>2. Has(d, d[j].req) /\ HasR(rs, d[j].req)
        BY <3>1, <2>4 DEF Has, HasR
      <3> QED BY <3>2, <1>6
    <2> QED BY <2>1, <2>2, <2>3, <2>4, <1>2
  <1>7. \A r : Has(x, r) <=> Has(d, r) \/ HasR(rs, r)
    BY <1>4, <1>5 DEF Has
  <1> QED BY <1>6, <1>7 DEF Distinct

(* The new entries are due one after the other, after those in front of    *)
(* them.                                                                   *)
LEMMA EnqueueSpaced ==
    ASSUME cfg \in Configs, NEW s \in Stages, NEW d \in Seq(Entry), NEW rs \in Seq(Reqs),
           NEW x, x = EnqueueIn(d, rs, s), NEW k, k = KOf(cfg, s), Spaced(d, k)
    PROVE  Spaced(x, k)
  <1>1. PICK m, b : m = Len(d) /\ b = FirstSlot(d, s)
    OBVIOUS
  <1>2. k \in Nat /\ k = K(s)
    BY Constants DEF K, KOf
  <1>3. /\ x \in Seq(Entry) /\ b \in Int
        /\ \A i \in DOMAIN d : i \in DOMAIN x /\ x[i] = d[i]
        /\ \A i \in DOMAIN rs : m + i \in DOMAIN x /\ x[m + i].left = b + i - 1
        /\ \A i \in DOMAIN x : i \in DOMAIN d \/ (i - m \in DOMAIN rs /\ i > m)
    <2>1. /\ x \in Seq(Entry) /\ FirstSlot(d, s) \in Int
          /\ \A i \in DOMAIN d : i \in DOMAIN x /\ x[i] = d[i]
          /\ \A i \in DOMAIN rs : /\ Len(d) + i \in DOMAIN x
                                  /\ x[Len(d) + i].left = FirstSlot(d, s) + i - 1
          /\ \A i \in DOMAIN x : i \in DOMAIN d \/ (i - Len(d) \in DOMAIN rs /\ i > Len(d))
      <3>1. Enqueued(d, rs, FirstSlot(d, s), x)
        BY EnqueueRaw
      <3> QED BY <3>1 DEF Enqueued
    <2> QED BY <2>1, <1>1
  <1>4. /\ m \in Nat /\ DOMAIN d = 1 .. m /\ DOMAIN x \subseteq Int
        /\ \A i \in DOMAIN d : d[i].left \in Int
    BY <1>1, <1>3, EntryTypes
  <1>5. ASSUME NEW i \in DOMAIN x, i > m
        PROVE  x[i].left = b + (i - m) - 1
    <2>1. m + (i - m) = i /\ i \notin DOMAIN d
      BY <1>4, <1>5
    <2>2. i - m \in DOMAIN rs
      BY <2>1, <1>3
    <2> QED BY <2>1, <2>2, <1>3
  <1>6. CASE d = <<>>
    <2>1. m = 0 /\ b = k
      BY <1>6, <1>1, <1>2 DEF FirstSlot
    <2>2. \A i \in DOMAIN x : i > 0 /\ x[i].left = k + i - 1
      <3>1. ASSUME NEW i \in DOMAIN x PROVE i > 0 /\ i \in Int
        BY <1>3
      <3> QED BY <3>1, <2>1, <1>2, <1>5
    <2>3. ASSUME NEW i \in DOMAIN x, NEW j \in DOMAIN x, i < j
          PROVE  /\ x[i].left < x[j].left
                 /\ x[j].left < k + (j - i) \/ x[j].left <= x[i].left + (j - i)
      BY <2>2, <2>3, <1>2, <1>4
    <2>4. 1 \in DOMAIN x => x[1].left <= Larger(1, k)
      <3>1. Larger(1, k) \in Int /\ Larger(1, k) >= k
        BY <1>2, Largest
      <3>2. 1 \in DOMAIN x => x[1].left = k
        BY <2>2, <1>2
      <3> QED BY <3>1, <3>2, <1>2
    <2> QED BY <2>3, <2>4 DEF Spaced
  <1>7. CASE d # <<>>
    <2>1. PICK l : l = d[m].left
      OBVIOUS
    <2>2. m \in DOMAIN d /\ l \in Int /\ m >= 1
      BY <2>1, <1>7, <1>1, <1>4
    <2>3. PICK z : z = l + 1
      OBVIOUS
    <2>4. b = Larger(k, z) /\ z \in Int
      BY <2>1, <2>2, <2>3, <1>1, <1>2, <1>7 DEF FirstSlot, Last
    <2>5. b >= k /\ b >= l + 1 /\ (b = k \/ b = l + 1)
      <3>1. Larger(k, z) >= k /\ Larger(k, z) >= z /\ (Larger(k, z) = k \/ Larger(k, z) = z)
        BY <2>4, <1>2, Largest
      <3> QED BY <3>1, <2>3, <2>4
    <2>6. ASSUME NEW i \in DOMAIN x, NEW j \in DOMAIN x, i < j
          PROVE  /\ x[i].left < x[j].left
                 /\ x[j].left < k + (j - i) \/ x[j].left <= x[i].left + (j - i)
      <3>1. i \in Int /\ j \in Int
        BY <1>4
      <3>2. CASE j \in DOMAIN d
        <4>1. i \in DOMAIN d
          BY <3>1, <3>2, <2>6, <1>3, <1>4
        <4> QED BY <4>1, <3>2, <2>6, <1>3 DEF Spaced
      <3>3. CASE i > m
        <4>1. j > m
          BY <3>1, <3>3, <2>6, <1>4
        <4>2. x[i].left = b + (i - m) - 1 /\ x[j].left = b + (j - m) - 1
          BY <4>1, <3>3, <1>5
        <4> QED BY <4>2, <3>1, <2>6, <1>3, <1>4
      <3>4. CASE i \in DOMAIN d /\ j > m
        <4>1. PICK y : y = d[i].left
          OBVIOUS
        <4>2. y \in Int /\ x[i].left = y /\ x[j].left = b + (j - m) - 1 /\ i <= m
          BY <4>1, <3>4, <1>3, <1>4, <1>5
        <4>3. (i = m /\ y = l) \/ (i < m /\ y < l /\ (l < k + (m - i) \/ l <= y + (m - i)))
          <5>1. CASE i = m
            BY <5>1, <4>1, <2>1
          <5>2. CASE i < m
            BY <5>2, <4>1, <3>4, <2>1, <2>2 DEF Spaced
          <5> QED BY <5>1, <5>2, <4>2, <3>1, <1>4
        <4>4. CASE b = k
          BY <4>2, <4>3, <4>4, <3>1, <3>4, <2>2, <2>5, <1>2, <1>4
        <4>5. CASE b = l + 1
          <5>0. l \in Int /\ i \in Int /\ j \in Int /\ m \in Int /\ y \in Int /\ k \in Int /\ j > m
            BY <4>2, <3>1, <3>4, <2>2, <1>2, <1>4
          <5>1. x[j].left = l + (j - m)
            <6>1. x[j].left = (l + 1) + (j - m) - 1
              BY <4>2, <4>5
            <6>2. (l + 1) + (j - m) - 1 = l + (j - m)
              BY <5>0
            <6> QED BY <6>1, <6>2
          <5>2. PICK v : v = x[j].left
            OBVIOUS
          <5>3. /\ v = l + (j - m) /\ y < v
                /\ v < k + (j - i) \/ v <= y + (j - i)
            <6>1. CASE i = m /\ y = l
              BY <6>1, <5>0, <5>1, <5>2
            <6>2. CASE i < m /\ y < l /\ l < k + (m - i)
              BY <6>2, <5>0, <5>1, <5>2
            <6>3. CASE i < m /\ y < l /\ l <= y + (m - i)
              BY <6>3, <5>0, <5>1, <5>2
            <6> QED BY <6>1, <6>2, <6>3, <4>3
          <5> QED BY <5>2, <5>3, <4>2
        <4> QED BY <4>4, <4>5, <2>5
      <3> QED BY <3>1, <3>2, <3>3, <3>4, <1>3, <1>4
    <2>7. 1 \in DOMAIN x => x[1].left <= Larger(1, k)
      <3>1. 1 \in DOMAIN d
        BY <2>2, <1>4
      <3> QED BY <3>1, <1>3 DEF Spaced
    <2> QED BY <2>6, <2>7 DEF Spaced
  <1> QED BY <1>6, <1>7

-----------------------------------------------------------------------------
(* Two sequences of requests, one after the other. *)
LEMMA Joined ==
    ASSUME NEW a \in Seq(Reqs), NEW b \in Seq(Reqs)
    PROVE  /\ a \o b \in Seq(Reqs)
           /\ \A r : HasR(a \o b, r) <=> HasR(a, r) \/ HasR(b, r)
           /\ DistinctR(a) /\ DistinctR(b) /\ (\A r \in Reqs : ~(HasR(a, r) /\ HasR(b, r)))
                => DistinctR(a \o b)
  <1>1. PICK m, n, x : m = Len(a) /\ n = Len(b) /\ x = a \o b
    OBVIOUS
  <1>2. m \in Nat /\ n \in Nat /\ DOMAIN a = 1 .. m /\ DOMAIN b = 1 .. n
    BY <1>1
  <1>3. /\ x \in Seq(Reqs) /\ DOMAIN x = 1 .. m + n
        /\ \A i \in 1 .. m + n : x[i] = IF i <= m THEN a[i] ELSE b[i - m]
    <2>1. /\ a \o b \in Seq(Reqs) /\ Len(a \o b) = Len(a) + Len(b)
          /\ \A i \in 1 .. Len(a) + Len(b) : (a \o b)[i] = IF i <= Len(a) THEN a[i] ELSE b[i - Len(a)]
      OBVIOUS
    <2>2. x \in Seq(Reqs) /\ Len(x) = m + n
      BY <2>1, <1>1
    <2>3. DOMAIN x = 1 .. m + n
      BY <2>2
    <2> QED BY <2>1, <2>2, <2>3, <1>1
  <1>4. \A i \in 1 .. m : i \in 1 .. m + n /\ x[i] = a[i]
    BY <1>2, <1>3
  <1>5. ASSUME NEW i \in 1 .. n
        PROVE  m + i \in 1 .. m + n /\ x[m + i] = b[i]
    <2>1. m + i \in 1 .. m + n /\ ~(m + i <= m) /\ (m + i) - m = i
      BY <1>2
    <2> QED BY <2>1, <1>3
  <1>6. ASSUME NEW i \in 1 .. m + n
        PROVE  (i \in 1 .. m /\ x[i] = a[i]) \/ (i - m \in 1 .. n /\ x[i] = b[i - m])
    <2>1. i <= m => i \in 1 .. m
      BY <1>2
    <2>2. ~(i <= m) => i - m \in 1 .. n
      BY <1>2
    <2> QED BY <2>1, <2>2, <1>3
  <1>7. ASSUME NEW r, HasR(x, r) PROVE HasR(a, r) \/ HasR(b, r)
    BY <1>7, <1>2, <1>3, <1>6 DEF HasR
  <1>8. ASSUME NEW r, HasR(a, r) PROVE HasR(x, r)
    BY <1>8, <1>2, <1>3, <1>4 DEF HasR
  <1>9. ASSUME NEW r, HasR(b, r) PROVE HasR(x, r)
    BY <1>9, <1>2, <1>3, <1>5 DEF HasR
  <1>10. ASSUME DistinctR(a), DistinctR(b), \A r \in Reqs : ~(HasR(a, r) /\ HasR(b, r)),
                NEW i \in DOMAIN x, NEW j \in DOMAIN x, x[i] = x[j]
         PROVE  i = j
    <2>1. CASE i \in 1 .. m /\ x[i] = a[i] /\ j \in 1 .. m /\ x[j] = a[j]
      BY <2>1, <1>2, <1>10 DEF DistinctR
    <2>2. CASE i - m \in 1 .. n /\ x[i] = b[i - m] /\ j - m \in 1 .. n /\ x[j] = b[j - m]
      <3>1. i - m = j - m
        BY <2>2, <1>2, <1>10 DEF DistinctR
      <3> QED BY <3>1, <1>2, <1>3
    <2>3. CASE i \in 1 .. m /\ x[i] = a[i] /\ j - m \in 1 .. n /\ x[j] = b[j - m]
      <3>1. HasR(a, x[i]) /\ HasR(b, x[i]) /\ x[i] \in Reqs
        BY <2>3, <1>2, <1>3, <1>10 DEF HasR
      <3> QED BY <3>1, <1>10
    <2>4. CASE j \in 1 .. m /\ x[j] = a[j] /\ i - m \in 1 .. n /\ x[i] = b[i - m]
      <3>1. HasR(a, x[j]) /\ HasR(b, x[j]) /\ x[j] \in Reqs
        BY <2>4, <1>2, <1>3, <1>10 DEF HasR
      <3> QED BY <3>1, <1>10
    <2> QED BY <2>1, <2>2, <2>3, <2>4, <1>3, <1>6, <1>10
  <1>11. x \in Seq(Reqs) /\ \A r : HasR(x, r) <=> HasR(a, r) \/ HasR(b, r)
    BY <1>3, <1>7, <1>8, <1>9
  <1>12. DistinctR(a) /\ DistinctR(b) /\ (\A r \in Reqs : ~(HasR(a, r) /\ HasR(b, r)))
           => DistinctR(x)
    BY <1>10 DEF DistinctR
  <1> QED BY <1>1, <1>11, <1>12

(* The invariant implies the run's invariants. *)
LEMMA TypesFollow == IInv => TypeOK
  BY DEF IInv, State, Types, Mode, Controls, TypeOK, parametric, Par

LEMMA GateFollows == IInv => DepthGate
  <1> SUFFICES ASSUME IInv PROVE DepthGate
    OBVIOUS
  <1>1. Noted(retry_owed, ctl, up, owes) /\ Gate(cfg, q, ev, retry_owed, ctl)
    BY DEF IInv, State
  <1>2. ctl = Idle => (~NoneDenied(up, Reqs) <=> retry_owed \/ owes)
    BY <1>1 DEF Noted, Denied, Idle, NoneDenied
  <1>3. ctl = [pc |-> "resp", of |-> "rev_dst"] => ctl.of = "rev_dst"
    OBVIOUS
  <1>4. /\ retry_owed => \/ Occupancy(q) >= cfg.depth \/ ev["retry"] # Off
                         \/ ctl.of = "rev_dst"
        /\ Len(q["fwd_src"]) + Len(q["fwd_dst"]) <= cfg.depth
    BY <1>1, <1>3 DEF Gate
  <1> QED BY <1>2, <1>4, Zenon DEF DepthGate

LEMMA EventFollows == IInv => EventTracksHead
  <1> SUFFICES ASSUME IInv PROVE EventTracksHead
    OBVIOUS
  <1>1. /\ q \in [Stages -> Seq(Entry)] /\ cfg \in Configs
        /\ Tracks(q, resp_queue, ev, ctl) /\ Spacing(cfg, q)
    BY DEF IInv, State, Types
  <1>2. ASSUME NEW s \in Stages, ctl.of # s
        PROVE  /\ q[s] = <<>> <=> ev[s] = Off
               /\ q[s] # <<>> => \/ ev[s] = Head(q[s]).left
                                 \/ ev[s] \in {0, 1} /\ Head(q[s]).left < ev[s]
    <2>1. Tracked(q[s], ev[s])
      BY <1>1, <1>2 DEF Tracks
    <2>2. q[s] # <<>> => Head(q[s]) = q[s][1]
      BY <1>1
    <2> QED BY <2>1, <2>2 DEF Tracked
  <1>3. ASSUME NEW s \in Stages, NEW i \in DOMAIN q[s], NEW j \in DOMAIN q[s], i < j
        PROVE  q[s][i].left < q[s][j].left /\ q[s][j].left < Larger(1, K(s)) + j
    <2>1. PICK d, k : d = q[s] /\ k = K(s)
      OBVIOUS
    <2>2. d \in Seq(Entry) /\ k \in Nat /\ Spaced(d, k)
      BY <2>1, <1>1, Constants DEF Spacing, K, KOf
    <2>3. /\ DOMAIN d = 1 .. Len(d) /\ i \in DOMAIN d /\ j \in DOMAIN d
          /\ \A a \in DOMAIN d : d[a].left \in Int
      BY <2>1, <2>2, EntryTypes
    <2>4. 1 \in DOMAIN d /\ 1 < j /\ j \in Int
      BY <2>3, <1>3
    <2>5. PICK f, l, b : f = d[1].left /\ l = d[j].left /\ b = Larger(1, k)
      OBVIOUS
    <2>6. /\ f \in Int /\ l \in Int /\ b \in Int /\ b >= 1 /\ b >= k /\ f <= b
          /\ l < k + (j - 1) \/ l <= f + (j - 1)
      <3>1. Larger(1, k) \in Int /\ Larger(1, k) >= 1 /\ Larger(1, k) >= k
        BY <2>2, Largest
      <3>2. l < k + (j - 1) \/ l <= f + (j - 1)
        BY <2>2, <2>3, <2>4, <2>5 DEF Spaced
      <3>3. f <= b
        BY <2>2, <2>4, <2>5 DEF Spaced
      <3> QED BY <3>1, <3>2, <3>3, <2>3, <2>4, <2>5
    <2>7. l < b + j
      BY <2>2, <2>4, <2>6
    <2>8. d[i].left < l
      BY <2>2, <2>3, <2>5, <1>3 DEF Spaced
    <2> QED BY <2>1, <2>5, <2>7, <2>8
  <1>4. ctl = Idle => (resp_queue = <<>> <=> ev["resp"] = Off)
    BY <1>1 DEF Tracks, Idle
  <1> QED BY <1>2, <1>3, <1>4 DEF EventTracksHead

LEMMA PlaceFollows == IInv => OnePlace
  <1> SUFFICES ASSUME IInv PROVE OnePlace
    OBVIOUS
  <1>1. /\ q \in [Stages -> Seq(Entry)] /\ resp_queue \in Seq(Reqs) /\ Places(q, resp_queue, up, down)
        /\ down \subseteq Reqs
    BY DEF IInv, State, Types
  <1>2. ASSUME NEW s \in Stages
        PROVE  /\ ReqsIn(s) \in Seq(Reqs) /\ DistinctR(ReqsIn(s))
               /\ \A r : HasR(ReqsIn(s), r) <=> Has(q[s], r)
    <2>1. PICK d, x : d = q[s] /\ x = ReqsIn(s)
      OBVIOUS
    <2>2. d \in Seq(Entry) /\ Distinct(d)
      BY <2>1, <1>1 DEF Places
    <2>3. DOMAIN d = 1 .. Len(d) /\ Len(d) \in Nat /\ \A i \in DOMAIN d : d[i].req \in Reqs
      BY <2>2, EntryTypes
    <2>4. x = [i \in 1 .. Len(d) |-> d[i].req]
      BY <2>1, <2>3 DEF ReqsIn
    <2>5. x \in Seq(Reqs) /\ DOMAIN x = DOMAIN d /\ \A i \in DOMAIN d : x[i] = d[i].req
      BY <2>3, <2>4
    <2>6. DistinctR(x) /\ \A r : HasR(x, r) <=> Has(d, r)
      BY <2>2, <2>5 DEF DistinctR, Distinct, HasR, Has
    <2> QED BY <2>1, <2>5, <2>6
  <1>3. PICK a, b, c, d, e : /\ a = ReqsIn("fwd_src") /\ b = ReqsIn("fwd_dst") /\ c = ReqsIn("rev_src")
                             /\ d = ReqsIn("rev_dst") /\ e = resp_queue
    OBVIOUS
  <1>4. /\ a \in Seq(Reqs) /\ b \in Seq(Reqs) /\ c \in Seq(Reqs) /\ d \in Seq(Reqs) /\ e \in Seq(Reqs)
        /\ DistinctR(a) /\ DistinctR(b) /\ DistinctR(c) /\ DistinctR(d) /\ DistinctR(e)
    BY <1>1, <1>2, <1>3 DEF Stages, Places
  <1>5. ASSUME NEW r \in Reqs
        PROVE  /\ ~(HasR(a, r) /\ HasR(b, r)) /\ ~(HasR(a, r) /\ HasR(c, r))
               /\ ~(HasR(a, r) /\ HasR(d, r)) /\ ~(HasR(b, r) /\ HasR(c, r))
               /\ ~(HasR(b, r) /\ HasR(d, r)) /\ ~(HasR(c, r) /\ HasR(d, r))
               /\ HasR(a, r) \/ HasR(b, r) \/ HasR(c, r) \/ HasR(d, r) => ~HasR(e, r) /\ r \notin down
               /\ HasR(e, r) => r \notin down
               /\ HasR(c, r) \/ HasR(d, r) \/ HasR(e, r) => r \in RoundTrip
               /\ up[r] # "error"
               /\ up[r] = "granted" <=> \/ HasR(a, r) \/ HasR(b, r) \/ HasR(c, r) \/ HasR(d, r)
                                        \/ HasR(e, r) \/ r \in down
    <2>1. Placed(q, resp_queue, up, down, r)
      BY <1>1 DEF Places
    <2>2. /\ HasR(a, r) <=> Has(q["fwd_src"], r)
          /\ HasR(b, r) <=> Has(q["fwd_dst"], r)
          /\ HasR(c, r) <=> Has(q["rev_src"], r)
          /\ HasR(d, r) <=> Has(q["rev_dst"], r)
      BY <1>2, <1>3 DEF Stages
    <2> QED BY <2>1, <2>2, <1>3 DEF Placed, Stages
  <1>6. PICK f, g, h : f = a \o b /\ g = f \o c /\ h = g \o d
    OBVIOUS
  <1>7. f \in Seq(Reqs) /\ DistinctR(f) /\ \A r : HasR(f, r) <=> HasR(a, r) \/ HasR(b, r)
    BY <1>4, <1>5, <1>6, Joined
  <1>8. g \in Seq(Reqs) /\ DistinctR(g) /\ \A r : HasR(g, r) <=> HasR(f, r) \/ HasR(c, r)
    <2>1. \A r \in Reqs : ~(HasR(f, r) /\ HasR(c, r))
      BY <1>5, <1>7
    <2> QED BY <2>1, <1>4, <1>6, <1>7, Joined
  <1>9. h \in Seq(Reqs) /\ DistinctR(h) /\ \A r : HasR(h, r) <=> HasR(g, r) \/ HasR(d, r)
    <2>1. \A r \in Reqs : ~(HasR(g, r) /\ HasR(d, r))
      BY <1>5, <1>7, <1>8
    <2> QED BY <2>1, <1>4, <1>6, <1>8, Joined
  <1>10. PICK x : x = InBridge
    OBVIOUS
  <1>11. x = h \o e
    BY <1>3, <1>6, <1>10 DEF InBridge
  <1>12. x \in Seq(Reqs) /\ DistinctR(x) /\ \A r : HasR(x, r) <=> HasR(h, r) \/ HasR(e, r)
    <2>1. \A r \in Reqs : ~(HasR(h, r) /\ HasR(e, r))
      BY <1>5, <1>7, <1>8, <1>9
    <2> QED BY <2>1, <1>4, <1>9, <1>11, Joined
  <1>13. \A r \in Reqs : HasR(x, r) <=> \/ HasR(a, r) \/ HasR(b, r) \/ HasR(c, r)
                                       \/ HasR(d, r) \/ HasR(e, r)
    BY <1>7, <1>8, <1>9, <1>12
  <1>14. Range(x) \subseteq Reqs /\ \A r : r \in Range(x) <=> HasR(x, r)
    BY <1>12 DEF Range, HasR
  <1>15. IsInjective(x)
    BY <1>12 DEF IsInjective, DistinctR
  <1>16. PICK v, y : v = c \o d /\ y = v \o e
    OBVIOUS
  <1>17. v \in Seq(Reqs) /\ \A r : HasR(v, r) <=> HasR(c, r) \/ HasR(d, r)
    BY <1>4, <1>16, Joined
  <1>18. y \in Seq(Reqs) /\ \A r : HasR(y, r) <=> HasR(v, r) \/ HasR(e, r)
    BY <1>4, <1>16, <1>17, Joined
  <1>19. \A r \in Range(y) : r \in Reqs /\ HasR(y, r)
    BY <1>18 DEF Range, HasR
  <1>20. Range(y) \subseteq RoundTrip
    BY <1>5, <1>17, <1>18, <1>19
  <1>21. Range(x) \cap down = {}
    BY <1>5, <1>13, <1>14
  <1>22. \A r \in Reqs : up[r] # "error" /\ (up[r] = "granted" <=> r \in Range(x) \cup down)
    BY <1>5, <1>13, <1>14
  <1>23. Range(ReqsIn("rev_src") \o ReqsIn("rev_dst") \o resp_queue) \subseteq RoundTrip
    BY <1>3, <1>16, <1>20
  <1> QED BY <1>10, <1>15, <1>21, <1>22, <1>23 DEF OnePlace

-----------------------------------------------------------------------------
(* reschedule_event puts the event of the stage right and leaves the other *)
(* ones alone.                                                             *)
LEMMA RescheduleFacts ==
    ASSUME NEW e \in [Events -> Nat \cup {Off}], NEW s \in Stages,
           NEW qq \in [Stages -> Seq(Entry)], NEW x, x = Reschedule(e, s, qq)
    PROVE  /\ x \in [Events -> Nat \cup {Off}] /\ Tracked(qq[s], x[s])
           /\ \A a \in Events : a # s => x[a] = e[a]
  <1>1. PICK d : d = qq[s]
    OBVIOUS
  <1>2. d \in Seq(Entry) /\ s \in Events
    BY <1>1, Constants
  <1>3. PICK y : y = IF d = <<>> THEN Off ELSE Larger(1, Head(d).left)
    OBVIOUS
  <1>4. x = [e EXCEPT ![s] = y]
    BY <1>1, <1>3 DEF Reschedule
  <1>5. y \in Nat \cup {Off} /\ Tracked(d, y)
    <2>1. CASE d = <<>>
      BY <2>1, <1>3 DEF Tracked
    <2>2. CASE d # <<>>
      <3>1. PICK z : z = d[1].left
        OBVIOUS
      <3>2. z \in Int /\ Head(d) = d[1]
        BY <3>1, <2>2, <1>2, EntryTypes
      <3>3. y = Larger(1, z)
        BY <3>1, <3>2, <2>2, <1>3
      <3>4. y \in Nat /\ (y = z \/ (y = 1 /\ z < 1))
        BY <3>2, <3>3 DEF Larger
      <3>5. y # Off
        BY <3>4, Constants
      <3> QED BY <3>1, <3>4, <3>5, <2>2 DEF Tracked
    <2> QED BY <2>1, <2>2
  <1> QED BY <1>1, <1>2, <1>4, <1>5

(* A bridge that has just been reset. *)
LEMMA FreshState ==
    ASSUME NEW c \in Configs
    PROVE  State(c, Drained, <<>>, NoEvent, FALSE, Idle, [r \in Reqs |-> "idle"], {}, FALSE)
  <1>1. PICK qq, u : qq = Drained /\ u = [r \in Reqs |-> "idle"]
    OBVIOUS
  <1>2. /\ qq \in [Stages -> Seq(Entry)] /\ \A s \in Stages : qq[s] = <<>>
        /\ u \in [Reqs -> MasterStates] /\ \A r \in Reqs : u[r] = "idle"
    BY <1>1 DEF Drained, MasterStates
  <1>3. Types(c, qq, <<>>, NoEvent, FALSE, Idle, u, {}, FALSE)
    <2>1. NoEvent \in [Events -> Nat \cup {Off}] /\ Idle \in Controls
      BY DEF NoEvent, Idle, Controls
    <2> QED BY <2>1, <1>2 DEF Types
  <1>4. Mode(c, qq, <<>>, FALSE, FALSE) /\ CtlShape(Idle)
    BY <1>1 DEF Mode, CtlShape, Idle
  <1>5. Places(qq, <<>>, u, {})
    <2>1. DOMAIN <<>> = {}
      OBVIOUS
    <2>2. \A r : ~HasR(<<>>, r) /\ ~Has(<<>>, r)
      BY <2>1 DEF HasR, Has
    <2>3. Distinct(<<>>) /\ DistinctR(<<>>)
      BY <2>1 DEF Distinct, DistinctR
    <2>4. ASSUME NEW r \in Reqs PROVE Placed(qq, <<>>, u, {}, r)
      <3>1. \A s \in Stages : ~Has(qq[s], r)
        BY <2>2, <1>2
      <3> QED BY <3>1, <2>2, <1>2 DEF Placed, Stages
    <2> QED BY <2>3, <2>4, <1>2 DEF Places
  <1>6. Tracks(qq, <<>>, NoEvent, Idle)
    <2>1. \A a \in Events : NoEvent[a] = Off
      BY DEF NoEvent
    <2> QED BY <2>1, <1>2, Constants DEF Tracks, Tracked
  <1>7. Spacing(c, qq)
    <2>1. DOMAIN <<>> = {}
      OBVIOUS
    <2>2. \A k : Spaced(<<>>, k)
      BY <2>1 DEF Spaced
    <2> QED BY <2>2, <1>2 DEF Spacing
  <1>8. Noted(FALSE, Idle, u, FALSE)
    BY <1>2 DEF Noted, Denied, Idle
  <1>9. Gate(c, qq, NoEvent, FALSE, Idle)
    <2>1. Len(qq["fwd_src"]) = 0 /\ Len(qq["fwd_dst"]) = 0
      BY <1>2 DEF Stages
    <2>2. c.depth \in Nat
      BY Constants
    <2> QED BY <2>1, <2>2 DEF Gate
  <1> QED BY <1>1, <1>3, <1>4, <1>5, <1>6, <1>7, <1>8, <1>9 DEF State

LEMMA InitInv == Init => IInv
  BY FreshState DEF Init, IInv

LEMMA ResetInv ==
    ASSUME IInv, Reset
    PROVE  IInv'
  <1>1. cfg \in Configs
    BY DEF IInv, State, Types
  <1>2. /\ cfg' = cfg /\ q' = Drained /\ resp_queue' = <<>> /\ ev' = NoEvent /\ retry_owed' = FALSE
        /\ ctl' = Idle /\ up' = [r \in Reqs |-> "idle"] /\ down' = {} /\ owes' = FALSE
    BY DEF Reset
  <1> QED BY <1>1, <1>2, FreshState DEF IInv

(* The parts of the invariant, in this state and in the next one. *)
LEMMA Unfold ==
    ASSUME IInv
    PROVE  /\ Types(cfg, q, resp_queue, ev, retry_owed, ctl, up, down, owes)
           /\ Mode(cfg, q, resp_queue, retry_owed, owes) /\ CtlShape(ctl)
           /\ Places(q, resp_queue, up, down) /\ Tracks(q, resp_queue, ev, ctl)
           /\ Spacing(cfg, q) /\ Noted(retry_owed, ctl, up, owes)
           /\ Gate(cfg, q, ev, retry_owed, ctl)
  BY DEF IInv, State

LEMMA Fold ==
    ASSUME NEW c, c = cfg', NEW qq, qq = q', NEW rq, rq = resp_queue', NEW e, e = ev',
           NEW o, o = retry_owed', NEW t, t = ctl', NEW u, u = up', NEW dn, dn = down',
           NEW w, w = owes',
           Types(c, qq, rq, e, o, t, u, dn, w), Mode(c, qq, rq, o, w), CtlShape(t),
           Places(qq, rq, u, dn), Tracks(qq, rq, e, t), Spacing(c, qq), Noted(o, t, u, w),
           Gate(c, qq, e, o, t)
    PROVE  IInv'
  BY DEF IInv, State

LEMMA StutterInv ==
    ASSUME IInv, UNCHANGED vars
    PROVE  IInv'
  BY DEF IInv, vars

-----------------------------------------------------------------------------
(* Nothing changes for the refused requests. *)
LEMMA NotedSame ==
    ASSUME NEW o, NEW t, NEW u, NEW w, Noted(o, t, u, w), NEW v,
           \A r \in Reqs : u[r] = "denied" <=> v[r] = "denied", NEW s,
           t.pc = "retry" <=> s.pc = "retry"
    PROVE  Noted(o, s, v, w)
  <1>1. Denied(u) <=> Denied(v)
    BY DEF Denied
  <1>2. \A p, r \in Reqs : v[p] = "denied" /\ v[r] = "denied" => p = r
    BY DEF Noted
  <1>3. /\ s.pc = "retry" => ~o /\ ~w
        /\ s.pc # "retry" => (o \/ w <=> Denied(v))
    BY <1>1 DEF Noted
  <1> QED BY <1>2, <1>3 DEF Noted

LEMMA SlaveFreesInv ==
    ASSUME IInv, NEW r \in Reqs, SlaveFrees(r)
    PROVE  IInv'
  <1>1. /\ Types(cfg, q, resp_queue, ev, retry_owed, ctl, up, down, owes)
        /\ Places(q, resp_queue, up, down) /\ Noted(retry_owed, ctl, up, owes)
    BY Unfold
  <1>2. PICK u, dn : u = up' /\ dn = down'
    OBVIOUS
  <1>3. r \in down /\ dn = down \ {r} /\ u = [up EXCEPT ![r] = AfterResp(@)]
    BY <1>2 DEF SlaveFrees
  <1>4. up \in [Reqs -> MasterStates] /\ up[r] = "granted"
    BY <1>1, <1>3 DEF Types, Places, Placed
  <1>5. /\ u \in [Reqs -> MasterStates] /\ u[r] = "idle" /\ \A p \in Reqs : p # r => u[p] = up[p]
        /\ \A p \in Reqs : up[p] = "denied" <=> u[p] = "denied"
    BY <1>3, <1>4 DEF AfterResp, MasterStates
  <1>6. Places(q, resp_queue, u, dn)
    <2>1. ASSUME NEW p \in Reqs PROVE Placed(q, resp_queue, u, dn, p)
      <3>1. Placed(q, resp_queue, up, down, p)
        BY <1>1 DEF Places
      <3>2. CASE p = r
        BY <3>1, <3>2, <1>3, <1>5 DEF Placed
      <3>3. CASE p # r
        BY <3>1, <3>3, <1>3, <1>5 DEF Placed
      <3> QED BY <3>2, <3>3
    <2> QED BY <2>1, <1>1 DEF Places
  <1>7. Noted(retry_owed, ctl, u, owes)
    BY <1>1, <1>5, NotedSame
  <1>8. Types(cfg, q, resp_queue, ev, retry_owed, ctl, u, dn, owes)
    BY <1>1, <1>3, <1>5 DEF Types
  <1>9. /\ cfg' = cfg /\ q' = q /\ resp_queue' = resp_queue /\ ev' = ev /\ retry_owed' = retry_owed
        /\ ctl' = ctl /\ owes' = owes
    BY DEF SlaveFrees
  <1> QED BY <1>2, <1>6, <1>7, <1>8, <1>9, Unfold, Fold

LEMMA OutRetryInv ==
    ASSUME IInv, OutRetry
    PROVE  IInv'
  <1>1. /\ Types(cfg, q, resp_queue, ev, retry_owed, ctl, up, down, owes)
        /\ Mode(cfg, q, resp_queue, retry_owed, owes)
        /\ Tracks(q, resp_queue, ev, ctl) /\ Noted(retry_owed, ctl, up, owes)
        /\ Gate(cfg, q, ev, retry_owed, ctl)
    BY Unfold
  <1>2. PICK t : t = [pc |-> "retry", of |-> "out_retry"]
    OBVIOUS
  <1>3. t.pc = "retry" /\ t.of = "out_retry" /\ t \in Controls
    BY <1>2 DEF Controls
  <1>4. /\ cfg' = cfg /\ q' = q /\ resp_queue' = resp_queue /\ ev' = ev /\ retry_owed' = retry_owed
        /\ ctl' = t /\ up' = up /\ down' = down /\ owes' = FALSE /\ ctl = Idle /\ owes
    BY <1>2 DEF OutRetry
  <1>5. ~retry_owed /\ Mode(cfg, q, resp_queue, retry_owed, FALSE)
    BY <1>1, <1>4 DEF Mode
  <1>6. Types(cfg, q, resp_queue, ev, retry_owed, t, up, down, FALSE)
    BY <1>1, <1>3 DEF Types
  <1>7. CtlShape(t)
    BY <1>3 DEF CtlShape
  <1>8. Tracks(q, resp_queue, ev, t)
    BY <1>1, <1>3, <1>4 DEF Tracks, Idle, Stages
  <1>9. Noted(retry_owed, t, up, FALSE)
    BY <1>1, <1>3, <1>5 DEF Noted
  <1>10. Gate(cfg, q, ev, retry_owed, t)
    BY <1>1, <1>5 DEF Gate
  <1> QED BY <1>4, <1>5, <1>6, <1>7, <1>8, <1>9, <1>10, Unfold, Fold

LEMMA RetryReturnsInv ==
    ASSUME IInv, RetryReturns
    PROVE  IInv'
  <1>1. /\ Types(cfg, q, resp_queue, ev, retry_owed, ctl, up, down, owes)
        /\ CtlShape(ctl)
        /\ Tracks(q, resp_queue, ev, ctl) /\ Noted(retry_owed, ctl, up, owes)
        /\ Gate(cfg, q, ev, retry_owed, ctl)
    BY Unfold
  <1>2. PICK e : e = ev'
    OBVIOUS
  <1>3. /\ cfg' = cfg /\ q' = q /\ resp_queue' = resp_queue /\ retry_owed' = retry_owed
        /\ ctl' = Idle /\ up' = up /\ down' = down /\ owes' = owes /\ ctl.pc = "retried"
        /\ e = IF ctl.of = "rev_dst" THEN Reschedule(ev, "rev_dst", q) ELSE ev
    BY <1>2 DEF RetryReturns
  <1>4. Idle \in Controls /\ CtlShape(Idle) /\ Idle.pc = "idle" /\ Idle.of = "none"
    BY DEF Idle, Controls, CtlShape
  <1>5. ctl.of # "resp" /\ (ctl.of = "rev_dst" \/ ctl.of \in {"retry", "out_retry"})
    BY <1>1, <1>3 DEF CtlShape
  <1>6. ev \in [Events -> Nat \cup {Off}] /\ q \in [Stages -> Seq(Entry)] /\ "rev_dst" \in Stages
    BY <1>1 DEF Types, Stages
  <1>7. /\ e \in [Events -> Nat \cup {Off}] /\ Tracks(q, resp_queue, e, Idle)
        /\ e["retry"] = ev["retry"]
    <2>1. CASE ctl.of = "rev_dst"
      <3>1. e = Reschedule(ev, "rev_dst", q)
        BY <2>1, <1>3
      <3>2. /\ e \in [Events -> Nat \cup {Off}] /\ Tracked(q["rev_dst"], e["rev_dst"])
            /\ \A a \in Events : a # "rev_dst" => e[a] = ev[a]
        BY <3>1, <1>6, RescheduleFacts
      <3>3. ASSUME NEW s \in Stages PROVE Tracked(q[s], e[s])
        <4>1. CASE s = "rev_dst"
          BY <4>1, <3>2
        <4>2. CASE s # "rev_dst"
          <5>1. Tracked(q[s], ev[s]) /\ e[s] = ev[s]
            BY <4>2, <3>2, <2>1, <1>1, Constants DEF Tracks
          <5> QED BY <5>1
        <4> QED BY <4>1, <4>2
      <3>4. e["resp"] = ev["resp"] /\ e["retry"] = ev["retry"]
        BY <3>2, Constants
      <3> QED BY <3>2, <3>3, <3>4, <1>1, <1>5 DEF Tracks
    <2>2. CASE ctl.of \in {"retry", "out_retry"}
      <3>1. e = ev
        BY <2>2, <1>3
      <3>2. \A s \in Stages : ctl.of # s
        BY <2>2 DEF Stages
      <3> QED BY <3>1, <3>2, <1>1, <1>5, <1>6 DEF Tracks
    <2> QED BY <2>1, <2>2, <1>5
  <1>8. Types(cfg, q, resp_queue, e, retry_owed, Idle, up, down, owes)
    BY <1>1, <1>4, <1>7 DEF Types
  <1>9. Noted(retry_owed, Idle, up, owes)
    BY <1>1, <1>3, <1>4, NotedSame
  <1>10. Gate(cfg, q, e, retry_owed, Idle)
    <2>1. ctl # [pc |-> "resp", of |-> "rev_dst"]
      BY <1>3
    <2> QED BY <2>1, <1>1, <1>7 DEF Gate
  <1> QED BY <1>2, <1>3, <1>4, <1>7, <1>8, <1>9, <1>10, Unfold, Fold

(* maybe_retry, at the end of the handler of retry_event or of the         *)
(* response drain.                                                         *)
LEMMA MaybeRetryInv ==
    ASSUME IInv, NEW h \in {"retry", "rev_dst"}, NEW x \in [Events -> Nat \cup {Off}],
           MaybeRetry(h, x), Tracks(q, resp_queue, x, Idle),
           ctl = Idle \/ (h = "rev_dst" /\ ctl = [pc |-> "resp", of |-> "rev_dst"]),
           UNCHANGED <<cfg, q, resp_queue, up, down, owes>>
    PROVE  IInv'
  <1>1. /\ Types(cfg, q, resp_queue, ev, retry_owed, ctl, up, down, owes)
        /\ Mode(cfg, q, resp_queue, retry_owed, owes)
        /\ Tracks(q, resp_queue, ev, ctl) /\ Noted(retry_owed, ctl, up, owes)
        /\ Gate(cfg, q, ev, retry_owed, ctl)
    BY Unfold
  <1>2. /\ cfg' = cfg /\ q' = q /\ resp_queue' = resp_queue /\ up' = up /\ down' = down /\ owes' = owes
    OBVIOUS
  <1>3. /\ ctl.pc # "retry" /\ ctl.of # "resp" /\ \A s \in Stages : ctl.of = s => s = h
    BY DEF Idle, Stages
  <1>4. h \in Events /\ h # "resp"
    BY Constants DEF Stages
  <1>5. CASE retry_owed /\ Occupancy(q) < cfg.depth
    <2>1. PICK t, e : t = [pc |-> "retry", of |-> h] /\ e = [ev EXCEPT ![h] = Off]
      OBVIOUS
    <2>2. retry_owed' = FALSE /\ ctl' = t /\ ev' = e
      BY <2>1, <1>5 DEF MaybeRetry
    <2>3. /\ t.pc = "retry" /\ t.of = h /\ t \in Controls /\ CtlShape(t)
      BY <2>1 DEF Controls, CtlShape
    <2>4. e \in [Events -> Nat \cup {Off}] /\ \A a \in Events : a # h => e[a] = ev[a]
      BY <2>1, <1>1, <1>4 DEF Types
    <2>5. ~owes /\ Mode(cfg, q, resp_queue, FALSE, owes)
      BY <1>1, <1>5 DEF Mode
    <2>6. Types(cfg, q, resp_queue, e, FALSE, t, up, down, owes)
      BY <2>3, <2>4, <1>1 DEF Types
    <2>7. Tracks(q, resp_queue, e, t)
      <3>1. ASSUME NEW s \in Stages, t.of # s PROVE Tracked(q[s], e[s])
        <4>1. s # h /\ s \in Events /\ ctl.of # s
          BY <3>1, <2>3, <1>3, Constants
        <4>2. Tracked(q[s], ev[s]) /\ e[s] = ev[s]
          BY <4>1, <2>4, <1>1 DEF Tracks
        <4> QED BY <4>2
      <3>2. e["resp"] = ev["resp"]
        BY <2>4, <1>4, Constants
      <3> QED BY <3>1, <3>2, <1>1, <1>3 DEF Tracks
    <2>8. Noted(FALSE, t, up, owes)
      BY <2>3, <2>5, <1>1 DEF Noted
    <2>9. Gate(cfg, q, e, FALSE, t)
      BY <1>1 DEF Gate
    <2> QED BY <2>2, <2>3, <2>5, <2>6, <2>7, <2>8, <2>9, <1>2, Unfold, Fold
  <1>6. CASE ~(retry_owed /\ Occupancy(q) < cfg.depth)
    <2>1. retry_owed' = retry_owed /\ ctl' = Idle /\ ev' = x
      BY <1>6 DEF MaybeRetry
    <2>2. Idle \in Controls /\ CtlShape(Idle) /\ Idle.pc = "idle"
      BY DEF Idle, Controls, CtlShape
    <2>3. Types(cfg, q, resp_queue, x, retry_owed, Idle, up, down, owes)
      BY <2>2, <1>1 DEF Types
    <2>4. Noted(retry_owed, Idle, up, owes)
      BY <2>2, <1>1, <1>3, NotedSame
    <2>5. Gate(cfg, q, x, retry_owed, Idle)
      <3>1. Occupancy(q) \in Nat /\ cfg.depth \in Nat
        <4>1. \A s \in Stages : Len(q[s]) \in Nat
          BY <1>1, EntryTypes DEF Types
        <4> QED BY <4>1, <1>1, Constants DEF Occupancy, Stages, Types
      <3>2. ~(Occupancy(q) < cfg.depth) => Occupancy(q) >= cfg.depth
        BY <3>1
      <3> QED BY <3>2, <1>1, <1>6 DEF Gate
    <2> QED BY <2>1, <2>2, <2>3, <2>4, <2>5, <1>2, Unfold, Fold
  <1> QED BY <1>5, <1>6

LEMMA RetryEventInv ==
    ASSUME IInv, RetryEvent
    PROVE  IInv'
  <1>1. PICK x : x = [ev EXCEPT !["retry"] = Off]
    OBVIOUS
  <1>2. /\ Types(cfg, q, resp_queue, ev, retry_owed, ctl, up, down, owes)
        /\ Tracks(q, resp_queue, ev, ctl)
    BY Unfold
  <1>3. ctl = Idle /\ MaybeRetry("retry", x) /\ UNCHANGED <<cfg, q, resp_queue, up, down, owes>>
    BY <1>1 DEF RetryEvent
  <1>4. x \in [Events -> Nat \cup {Off}] /\ \A a \in Events : a # "retry" => x[a] = ev[a]
    BY <1>1, <1>2 DEF Types
  <1>5. /\ x["resp"] = ev["resp"] /\ \A s \in Stages : x[s] = ev[s]
    BY <1>4, Constants
  <1>6. Tracks(q, resp_queue, x, Idle)
    BY <1>2, <1>3, <1>5 DEF Tracks
  <1>7. "retry" \in {"retry", "rev_dst"}
    OBVIOUS
  <1> QED BY <1>3, <1>4, <1>6, <1>7, MaybeRetryInv

(* Requests leave the bridge from the front of rev_dst, one resp() at a    *)
(* time.                                                                   *)
LEMMA RevDstDoneInv ==
    ASSUME IInv, RevDstDone
    PROVE  IInv'
  <1>1. /\ Types(cfg, q, resp_queue, ev, retry_owed, ctl, up, down, owes)
        /\ Mode(cfg, q, resp_queue, retry_owed, owes) /\ CtlShape(ctl)
        /\ Places(q, resp_queue, up, down) /\ Tracks(q, resp_queue, ev, ctl)
        /\ Spacing(cfg, q) /\ Noted(retry_owed, ctl, up, owes)
        /\ Gate(cfg, q, ev, retry_owed, ctl)
    BY Unfold
  <1>2. /\ (ctl = Idle /\ ev["rev_dst"] = 0) \/ ctl = [pc |-> "resp", of |-> "rev_dst"]
        /\ UNCHANGED <<cfg, resp_queue, down, owes>>
    BY DEF RevDstDone
  <1>3. PICK d : d = q["rev_dst"]
    OBVIOUS
  <1>4. /\ q \in [Stages -> Seq(Entry)] /\ ev \in [Events -> Nat \cup {Off}] /\ "rev_dst" \in Stages
        /\ d \in Seq(Entry) /\ "rev_dst" \in Events /\ up \in [Reqs -> MasterStates]
        /\ cfg \in Configs /\ cfg.depth \in Nat
    BY <1>1, <1>3, Constants DEF Types, Stages
  <1>5. /\ ctl.pc # "retry" /\ ctl.of # "resp" /\ \A s \in Stages : ctl.of = s => s = "rev_dst"
    BY <1>2 DEF Idle, Stages
  <1>6. CASE ~(NbDue(d) > 0)
    <2>1. PICK x : x = Reschedule(ev, "rev_dst", q)
      OBVIOUS
    <2>2. MaybeRetry("rev_dst", x) /\ UNCHANGED <<cfg, q, resp_queue, up, down, owes>>
      BY <2>1, <1>2, <1>3, <1>6 DEF RevDstDone
    <2>3. /\ x \in [Events -> Nat \cup {Off}] /\ Tracked(q["rev_dst"], x["rev_dst"])
          /\ \A a \in Events : a # "rev_dst" => x[a] = ev[a]
      <3>1. /\ ev \in [Events -> Nat \cup {Off}] /\ q \in [Stages -> Seq(Entry)]
            /\ "rev_dst" \in Stages
        BY <1>4
      <3> QED BY <3>1, <2>1, RescheduleFacts
    <2>4. Tracks(q, resp_queue, x, Idle)
      <3>1. ASSUME NEW s \in Stages PROVE Tracked(q[s], x[s])
        <4>1. CASE s = "rev_dst"
          BY <4>1, <2>3
        <4>2. CASE s # "rev_dst"
          <5>1. Tracked(q[s], ev[s]) /\ x[s] = ev[s]
            BY <4>2, <2>3, <1>1, <1>5, Constants DEF Tracks
          <5> QED BY <5>1
        <4> QED BY <4>1, <4>2
      <3>2. x["resp"] = ev["resp"]
        BY <2>3, Constants
      <3> QED BY <3>1, <3>2, <1>1, <1>5 DEF Tracks
    <2>5. "rev_dst" \in {"retry", "rev_dst"}
      OBVIOUS
    <2> QED BY <2>2, <2>3, <2>4, <2>5, <1>2, MaybeRetryInv
  <1>7. CASE NbDue(d) > 0
    <2>1. PICK qq, e, u, t, h : /\ qq = q' /\ e = ev' /\ u = up' /\ h = Head(d).req
                                /\ t = [pc |-> "resp", of |-> "rev_dst"]
      OBVIOUS
    <2>2. /\ qq = [q EXCEPT !["rev_dst"] = Tail(d)] /\ e = [ev EXCEPT !["rev_dst"] = Off]
          /\ u = [up EXCEPT ![h] = AfterResp(@)] /\ ctl' = t /\ retry_owed' = retry_owed
          /\ cfg' = cfg /\ resp_queue' = resp_queue /\ down' = down /\ owes' = owes
      BY <2>1, <1>3, <1>7 DEF RevDstDone
    <2>3. d # <<>> /\ d[1].left <= 0 /\ Head(d) = d[1] /\ 1 \in DOMAIN d /\ h \in Reqs /\ d[1].req = h
      <3>1. NbDue(d) \in 0 .. Len(d) /\ \A i \in 1 .. NbDue(d) : d[i].left <= 0
        BY <1>4, NbDueFacts
      <3>2. Len(d) \in Nat /\ Len(d) > 0 /\ 1 \in 1 .. NbDue(d)
        BY <3>1, <1>4, <1>7
      <3>3. d # <<>> /\ d[1].left <= 0 /\ Head(d) = d[1] /\ 1 \in DOMAIN d
        BY <3>1, <3>2, <1>4
      <3> QED BY <3>3, <2>1, <1>4, EntryTypes
    <2>4. PICK y : y = Tail(d)
      OBVIOUS
    <2>5. Dropped(d, 1, y) /\ y \in Seq(Entry) /\ Len(y) = Len(d) - 1
      <3>1. Dropped(d, 1, y)
        BY <2>3, <2>4, <1>4, DropTail
      <3> QED BY <3>1 DEF Dropped
    <2>6. /\ qq \in [Stages -> Seq(Entry)] /\ qq["rev_dst"] = y
          /\ \A s \in Stages : s # "rev_dst" => qq[s] = q[s]
      BY <2>2, <2>4, <2>5, <1>4
    <2>7. Distinct(d) /\ Distinct(y) /\ \A r : Has(y, r) <=> \E i \in DOMAIN d : i > 1 /\ d[i].req = r
      <3>1. Distinct(d)
        BY <1>1, <1>3, <1>4 DEF Places
      <3>2. d \in Seq(Entry) /\ Dropped(d, 1, y)
        BY <2>5, <1>4
      <3>3. \A r : Has(y, r) <=> \E i \in DOMAIN d : i > 1 /\ d[i].req = r
        BY <3>2, DropHas
      <3>4. Distinct(y)
        BY <3>1, <3>2, DropHas
      <3> QED BY <3>1, <3>3, <3>4
    <2>8. Has(d, h) /\ ~Has(y, h) /\ \A r : r # h => (Has(y, r) <=> Has(d, r))
      <3>1. Has(d, h)
        BY <2>3 DEF Has
      <3>2. \A i \in DOMAIN d : i \in Int /\ (i = 1 \/ i > 1) /\ ~(i = 1 /\ i > 1)
        BY <1>4
      <3>3. ~Has(y, h)
        BY <3>2, <2>3, <2>7 DEF Distinct
      <3>4. \A r : r # h => (Has(y, r) <=> Has(d, r))
        BY <3>2, <2>3, <2>7 DEF Has
      <3> QED BY <3>1, <3>3, <3>4
    <2>9. up[h] = "granted"
      BY <2>3, <2>8, <1>1, <1>3, <1>4 DEF Places, Placed
    <2>10. /\ u \in [Reqs -> MasterStates] /\ u[h] = "idle" /\ \A p \in Reqs : p # h => u[p] = up[p]
           /\ \A p \in Reqs : up[p] = "denied" <=> u[p] = "denied"
      BY <2>2, <2>3, <2>9, <1>4 DEF AfterResp, MasterStates
    <2>11. Places(qq, resp_queue, u, down)
      <3>1. ASSUME NEW p \in Reqs PROVE Placed(qq, resp_queue, u, down, p)
        <4>1. Placed(q, resp_queue, up, down, p)
          BY <1>1 DEF Places
        <4>2. CASE p = h
          <5>1. \A s \in Stages : ~Has(qq[s], p)
            BY <4>1, <4>2, <2>6, <2>8, <1>3, <1>4 DEF Placed
          <5>2. ~HasR(resp_queue, p) /\ p \notin down
            BY <4>1, <4>2, <2>8, <1>3, <1>4 DEF Placed
          <5> QED BY <5>1, <5>2, <4>2, <2>10 DEF Placed, Stages
        <4>3. CASE p # h
          <5>1. \A s \in Stages : Has(qq[s], p) <=> Has(q[s], p)
            BY <4>3, <2>6, <2>8, <1>3
          <5>2. u[p] = up[p]
            BY <4>3, <2>10
          <5> QED BY <5>1, <5>2, <4>1 DEF Placed, Stages
        <4> QED BY <4>2, <4>3
      <3>2. ASSUME NEW s \in Stages PROVE Distinct(qq[s])
        BY <2>6, <2>7, <1>1 DEF Places
      <3> QED BY <3>1, <3>2, <1>1 DEF Places
    <2>12. e \in [Events -> Nat \cup {Off}] /\ \A a \in Events : a # "rev_dst" => e[a] = ev[a]
      BY <2>2, <1>4
    <2>13. t.pc = "resp" /\ t.of = "rev_dst" /\ t \in Controls /\ CtlShape(t)
      BY <2>1 DEF Controls, CtlShape
    <2>14. Tracks(qq, resp_queue, e, t)
      <3>1. ASSUME NEW s \in Stages, t.of # s PROVE Tracked(qq[s], e[s])
        <4>1. s # "rev_dst" /\ s \in Events /\ ctl.of # s
          BY <3>1, <2>13, <1>5, Constants
        <4>2. Tracked(q[s], ev[s]) /\ e[s] = ev[s] /\ qq[s] = q[s]
          BY <4>1, <2>6, <2>12, <1>1 DEF Tracks
        <4> QED BY <4>2
      <3>2. e["resp"] = ev["resp"]
        BY <2>12, Constants
      <3> QED BY <3>1, <3>2, <1>1, <1>5 DEF Tracks
    <2>15. Spacing(cfg, qq)
      <3>1. ASSUME NEW s \in Stages PROVE Spaced(qq[s], KOf(cfg, s))
        <4>1. CASE s = "rev_dst"
          <5>1. KOf(cfg, s) \in Nat /\ Spaced(d, KOf(cfg, s))
            BY <4>1, <1>1, <1>3, <1>4, Constants DEF Spacing
          <5>2. Spaced(y, KOf(cfg, s))
            BY <5>1, <2>3, <2>5, <1>4, DropSpaced
          <5> QED BY <5>2, <4>1, <2>6
        <4>2. CASE s # "rev_dst"
          BY <4>2, <2>6, <1>1 DEF Spacing
        <4> QED BY <4>1, <4>2
      <3> QED BY <3>1 DEF Spacing
    <2>16. Noted(retry_owed, t, u, owes)
      BY <2>10, <2>13, <1>1, <1>5, NotedSame
    <2>17. Gate(cfg, qq, e, retry_owed, t)
      <3>1. qq["fwd_src"] = q["fwd_src"] /\ qq["fwd_dst"] = q["fwd_dst"]
        BY <2>6 DEF Stages
      <3> QED BY <3>1, <2>1, <1>1 DEF Gate
    <2>18. Types(cfg, qq, resp_queue, e, retry_owed, t, u, down, owes)
      BY <2>6, <2>10, <2>12, <2>13, <1>1 DEF Types
    <2>19. Mode(cfg, qq, resp_queue, retry_owed, owes)
      <3>1. ~Par(cfg) => FALSE
        <4>1. ~Par(cfg) => d = <<>>
          BY <1>1, <1>3, <1>4 DEF Mode, Drained
        <4> QED BY <4>1, <2>3
      <3> QED BY <3>1, <1>1 DEF Mode
    <2> QED BY <2>1, <2>2, <2>11, <2>13, <2>14, <2>15, <2>16, <2>17, <2>18, <2>19, Fold
  <1> QED BY <1>6, <1>7

-----------------------------------------------------------------------------
(* The front of the response queue, and its back. *)
LEMMA TailReqs ==
    ASSUME NEW rs \in Seq(Reqs), rs # <<>>, DistinctR(rs), NEW h, h = Head(rs), NEW y, y = Tail(rs)
    PROVE  /\ h \in Reqs /\ HasR(rs, h) /\ y \in Seq(Reqs) /\ DistinctR(y)
           /\ \A p : HasR(y, p) <=> HasR(rs, p) /\ p # h
  <1>1. PICK m : m = Len(rs)
    OBVIOUS
  <1>2. m \in Nat /\ m > 0 /\ DOMAIN rs = 1 .. m /\ h = rs[1] /\ 1 \in 1 .. m /\ h \in Reqs
    BY <1>1
  <1>3. y \in Seq(Reqs) /\ Len(y) = m - 1 /\ \A i \in 1 .. (m - 1) : y[i] = rs[i + 1]
    <2>1. /\ Tail(rs) \in Seq(Reqs) /\ Len(Tail(rs)) = Len(rs) - 1
          /\ \A i \in 1 .. (Len(rs) - 1) : Tail(rs)[i] = rs[i + 1]
      OBVIOUS
    <2> QED BY <2>1, <1>1
  <1>4. DOMAIN y = 1 .. (m - 1)
    BY <1>2, <1>3
  <1>5. \A i \in DOMAIN y : i \in Int /\ i + 1 \in DOMAIN rs /\ i + 1 # 1 /\ y[i] = rs[i + 1]
    BY <1>2, <1>3, <1>4
  <1>6. ASSUME NEW i \in DOMAIN y, NEW j \in DOMAIN y, y[i] = y[j] PROVE i = j
    <2>1. i + 1 = j + 1
      BY <1>5, <1>6 DEF DistinctR
    <2> QED BY <2>1, <1>5
  <1>7. ASSUME NEW p, HasR(y, p) PROVE HasR(rs, p) /\ p # h
    <2>1. PICK i \in DOMAIN y : y[i] = p
      BY <1>7 DEF HasR
    <2>2. PICK j : j = i + 1
      OBVIOUS
    <2>3. j \in DOMAIN rs /\ rs[j] = p /\ j # 1
      BY <2>1, <2>2, <1>5
    <2> QED BY <2>3, <1>2 DEF HasR, DistinctR
  <1>8. ASSUME NEW p, HasR(rs, p), p # h PROVE HasR(y, p)
    <2>1. PICK j \in DOMAIN rs : rs[j] = p
      BY <1>8 DEF HasR
    <2>2. j - 1 \in 1 .. (m - 1) /\ (j - 1) + 1 = j
      BY <2>1, <1>2, <1>8
    <2>3. y[j - 1] = p
      BY <2>1, <2>2, <1>3
    <2> QED BY <2>2, <2>3, <1>4 DEF HasR
  <1>9. HasR(rs, h)
    BY <1>2 DEF HasR
  <1>10. DistinctR(y)
    BY <1>6 DEF DistinctR
  <1> QED BY <1>2, <1>3, <1>7, <1>8, <1>9, <1>10

LEMMA OneReq ==
    ASSUME NEW r \in Reqs
    PROVE  /\ <<r>> \in Seq(Reqs) /\ Len(<<r>>) = 1 /\ DistinctR(<<r>>)
           /\ \A p : HasR(<<r>>, p) <=> p = r
  <1>1. <<r>> \in Seq(Reqs) /\ Len(<<r>>) = 1 /\ DOMAIN <<r>> = {1} /\ <<r>>[1] = r
    OBVIOUS
  <1> QED BY <1>1 DEF DistinctR, HasR

LEMMA AppendReqs ==
    ASSUME NEW rs \in Seq(Reqs), DistinctR(rs), NEW r \in Reqs, ~HasR(rs, r),
           NEW y, y = Append(rs, r)
    PROVE  /\ y \in Seq(Reqs) /\ y # <<>> /\ DistinctR(y)
           /\ \A p : HasR(y, p) <=> HasR(rs, p) \/ p = r
  <1>1. PICK m : m = Len(rs)
    OBVIOUS
  <1>2. m \in Nat /\ DOMAIN rs = 1 .. m
    BY <1>1
  <1>3. y \in Seq(Reqs) /\ Len(y) = m + 1 /\ y[m + 1] = r /\ \A i \in 1 .. m : y[i] = rs[i]
    <2>1. /\ Append(rs, r) \in Seq(Reqs) /\ Len(Append(rs, r)) = Len(rs) + 1
          /\ Append(rs, r)[Len(rs) + 1] = r
          /\ \A i \in 1 .. Len(rs) : Append(rs, r)[i] = rs[i]
      OBVIOUS
    <2> QED BY <2>1, <1>1
  <1>4. DOMAIN y = 1 .. (m + 1) /\ y # <<>>
    BY <1>2, <1>3
  <1>5. \A i \in DOMAIN y : (i \in DOMAIN rs /\ y[i] = rs[i]) \/ (i = m + 1 /\ y[i] = r)
    BY <1>2, <1>3, <1>4
  <1>6. \A i \in DOMAIN rs : i \in DOMAIN y /\ y[i] = rs[i] /\ rs[i] # r
    BY <1>2, <1>3, <1>4 DEF HasR
  <1>7. m + 1 \in DOMAIN y
    BY <1>2, <1>4
  <1>8. DistinctR(y)
    BY <1>5, <1>6 DEF DistinctR
  <1>9. \A p : HasR(y, p) <=> HasR(rs, p) \/ p = r
    BY <1>3, <1>5, <1>6, <1>7 DEF HasR
  <1> QED BY <1>3, <1>4, <1>8, <1>9

(* resp_event_handler gives the responses back one at a time. *)
LEMMA RespEventInv ==
    ASSUME IInv, RespEvent
    PROVE  IInv'
  <1>1. /\ Types(cfg, q, resp_queue, ev, retry_owed, ctl, up, down, owes)
        /\ Mode(cfg, q, resp_queue, retry_owed, owes) /\ CtlShape(ctl)
        /\ Places(q, resp_queue, up, down) /\ Tracks(q, resp_queue, ev, ctl)
        /\ Spacing(cfg, q) /\ Noted(retry_owed, ctl, up, owes)
        /\ Gate(cfg, q, ev, retry_owed, ctl)
    BY Unfold
  <1>2. PICK rq, e, u, t : rq = resp_queue' /\ e = ev' /\ u = up' /\ t = ctl'
    OBVIOUS
  <1>3. /\ (ctl = Idle /\ ev["resp"] = 0) \/ ctl = [pc |-> "resp", of |-> "resp"]
        /\ e = [ev EXCEPT !["resp"] = Off]
        /\ cfg' = cfg /\ q' = q /\ retry_owed' = retry_owed /\ down' = down /\ owes' = owes
    BY <1>2 DEF RespEvent
  <1>4. /\ ctl.pc # "retry" /\ ctl # [pc |-> "resp", of |-> "rev_dst"]
        /\ \A s \in Stages : ctl.of # s
    BY <1>3 DEF Idle, Stages
  <1>5. /\ e \in [Events -> Nat \cup {Off}] /\ e["resp"] = Off /\ e["retry"] = ev["retry"]
        /\ \A s \in Stages : e[s] = ev[s]
    <2>1. "resp" \in Events /\ "retry" \in Events /\ \A s \in Stages : s \in Events /\ s # "resp"
      BY Constants
    <2>2. ev \in [Events -> Nat \cup {Off}]
      BY <1>1 DEF Types
    <2> QED BY <2>1, <2>2, <1>3
  <1>6. \A s \in Stages : Tracked(q[s], e[s])
    BY <1>1, <1>4, <1>5 DEF Tracks
  <1>7. \A v : Gate(cfg, q, e, retry_owed, v)
    BY <1>1, <1>4, <1>5 DEF Gate
  <1>8. CASE resp_queue = <<>>
    <2>1. rq = resp_queue /\ u = up /\ t = Idle
      BY <1>2, <1>8 DEF RespEvent
    <2>2. Idle \in Controls /\ CtlShape(Idle) /\ Idle.pc = "idle"
      BY DEF Idle, Controls, CtlShape
    <2>3. Types(cfg, q, rq, e, retry_owed, t, u, down, owes)
      BY <2>1, <2>2, <1>1, <1>5 DEF Types
    <2>4. Tracks(q, rq, e, t)
      BY <2>1, <1>5, <1>6, <1>8 DEF Tracks
    <2>5. Noted(retry_owed, t, u, owes)
      BY <2>1, <2>2, <1>1, <1>4, NotedSame
    <2> QED BY <2>1, <2>2, <2>3, <2>4, <2>5, <1>1, <1>2, <1>3, <1>7, Fold
  <1>9. CASE resp_queue # <<>>
    <2>1. PICK h : h = Head(resp_queue)
      OBVIOUS
    <2>2. /\ rq = Tail(resp_queue) /\ u = [up EXCEPT ![h] = AfterResp(@)]
          /\ t = [pc |-> "resp", of |-> "resp"]
      BY <2>1, <1>2, <1>9 DEF RespEvent
    <2>3. /\ h \in Reqs /\ HasR(resp_queue, h) /\ rq \in Seq(Reqs) /\ DistinctR(rq)
          /\ \A p : HasR(rq, p) <=> HasR(resp_queue, p) /\ p # h
      <3>1. resp_queue \in Seq(Reqs) /\ DistinctR(resp_queue)
        BY <1>1 DEF Types, Places
      <3> QED BY <3>1, <2>1, <2>2, <1>9, TailReqs
    <2>4. up \in [Reqs -> MasterStates] /\ up[h] = "granted"
      BY <2>3, <1>1 DEF Types, Places, Placed
    <2>5. /\ u \in [Reqs -> MasterStates] /\ u[h] = "idle" /\ \A p \in Reqs : p # h => u[p] = up[p]
          /\ \A p \in Reqs : up[p] = "denied" <=> u[p] = "denied"
      BY <2>2, <2>3, <2>4 DEF AfterResp, MasterStates
    <2>6. Places(q, rq, u, down)
      <3>1. ASSUME NEW p \in Reqs PROVE Placed(q, rq, u, down, p)
        <4>1. Placed(q, resp_queue, up, down, p)
          BY <1>1 DEF Places
        <4>2. CASE p = h
          <5>1. (\A s \in Stages : ~Has(q[s], p)) /\ ~HasR(rq, p) /\ p \notin down
            BY <4>1, <4>2, <2>3 DEF Placed
          <5> QED BY <5>1, <4>2, <2>5 DEF Placed, Stages
        <4>3. CASE p # h
          <5>1. u[p] = up[p] /\ (HasR(rq, p) <=> HasR(resp_queue, p))
            BY <4>3, <2>3, <2>5
          <5> QED BY <5>1, <4>1 DEF Placed
        <4> QED BY <4>2, <4>3
      <3> QED BY <3>1, <2>3, <1>1 DEF Places
    <2>7. t.pc = "resp" /\ t.of = "resp" /\ t \in Controls /\ CtlShape(t)
      BY <2>2 DEF Controls, CtlShape
    <2>8. Types(cfg, q, rq, e, retry_owed, t, u, down, owes)
      BY <2>3, <2>5, <2>7, <1>1, <1>5 DEF Types
    <2>9. Tracks(q, rq, e, t)
      BY <2>7, <1>6 DEF Tracks
    <2>10. Noted(retry_owed, t, u, owes)
      BY <2>5, <2>7, <1>1, <1>4, NotedSame
    <2>11. Mode(cfg, q, rq, retry_owed, owes)
      BY <1>1, <1>9 DEF Mode
    <2> QED BY <2>6, <2>7, <2>8, <2>9, <2>10, <2>11, <1>1, <1>2, <1>3, <1>7, Fold
  <1> QED BY <1>8, <1>9

-----------------------------------------------------------------------------
(* A stage of the bridge that requests rs, which it does not hold, join. *)
LEMMA EnqueueFacts ==
    ASSUME cfg \in Configs, NEW s \in Stages, NEW d \in Seq(Entry), NEW rs \in Seq(Reqs),
           Distinct(d), DistinctR(rs), \A r : ~(Has(d, r) /\ HasR(rs, r)),
           Spaced(d, KOf(cfg, s)), NEW x, x = EnqueueIn(d, rs, s)
    PROVE  /\ x \in Seq(Entry) /\ Len(x) = Len(d) + Len(rs) /\ Distinct(x)
           /\ Spaced(x, KOf(cfg, s))
           /\ \A r : Has(x, r) <=> Has(d, r) \/ HasR(rs, r)
  <1>1. x \in Seq(Entry) /\ Len(x) = Len(d) + Len(rs)
    <2>1. Enqueued(d, rs, FirstSlot(d, s), x)
      BY EnqueueRaw
    <2> QED BY <2>1 DEF Enqueued
  <1>2. \A r : Has(x, r) <=> Has(d, r) \/ HasR(rs, r)
    BY EnqueueHas
  <1>3. Distinct(x)
    BY EnqueueHas
  <1>4. Spaced(x, KOf(cfg, s))
    BY EnqueueSpaced
  <1> QED BY <1>1, <1>2, <1>3, <1>4

(* A response of the slave comes in. *)
LEMMA OutRespInv ==
    ASSUME IInv, NEW r \in Reqs, OutResp(r)
    PROVE  IInv'
  <1>1. /\ Types(cfg, q, resp_queue, ev, retry_owed, ctl, up, down, owes)
        /\ Mode(cfg, q, resp_queue, retry_owed, owes) /\ CtlShape(ctl)
        /\ Places(q, resp_queue, up, down) /\ Tracks(q, resp_queue, ev, ctl)
        /\ Spacing(cfg, q) /\ Noted(retry_owed, ctl, up, owes)
        /\ Gate(cfg, q, ev, retry_owed, ctl)
    BY Unfold
  <1>2. PICK qq, rq, e, dn : qq = q' /\ rq = resp_queue' /\ e = ev' /\ dn = down'
    OBVIOUS
  <1>3. /\ ctl = Idle /\ r \in down /\ r \in RoundTrip /\ dn = down \ {r}
        /\ cfg' = cfg /\ retry_owed' = retry_owed /\ ctl' = ctl /\ up' = up /\ owes' = owes
    BY <1>2 DEF OutResp
  <1>4. ctl.of = "none"
    BY <1>3 DEF Idle
  <1>5. /\ q \in [Stages -> Seq(Entry)] /\ ev \in [Events -> Nat \cup {Off}]
        /\ resp_queue \in Seq(Reqs) /\ cfg \in Configs /\ "rev_src" \in Stages
    BY <1>1 DEF Types, Stages
  <1>6. Placed(q, resp_queue, up, down, r)
    BY <1>1 DEF Places
  <1>7. (\A s \in Stages : ~Has(q[s], r)) /\ ~HasR(resp_queue, r) /\ up[r] = "granted"
    BY <1>3, <1>6 DEF Placed
  <1>8. CASE parametric
    <2>1. PICK d, rs, x : d = q["rev_src"] /\ rs = <<r>> /\ x = EnqueueIn(d, rs, "rev_src")
      OBVIOUS
    <2>2. qq = [q EXCEPT !["rev_src"] = x] /\ e = Reschedule(ev, "rev_src", qq) /\ rq = resp_queue
      BY <2>1, <1>2, <1>8 DEF OutResp
    <2>3. /\ rs \in Seq(Reqs) /\ Len(rs) = 1 /\ DistinctR(rs)
          /\ \A p : HasR(rs, p) <=> p = r
      BY <2>1, OneReq
    <2>4. d \in Seq(Entry) /\ Distinct(d) /\ Spaced(d, KOf(cfg, "rev_src"))
      BY <2>1, <1>1, <1>5 DEF Places, Spacing
    <2>5. \A p : ~(Has(d, p) /\ HasR(rs, p))
      BY <2>1, <2>3, <1>5, <1>7
    <2>6. /\ x \in Seq(Entry) /\ Len(x) = Len(d) + Len(rs) /\ Distinct(x)
          /\ Spaced(x, KOf(cfg, "rev_src"))
          /\ \A p : Has(x, p) <=> Has(d, p) \/ HasR(rs, p)
      <3>1. x = EnqueueIn(d, rs, "rev_src") /\ cfg \in Configs /\ "rev_src" \in Stages
        BY <2>1, <1>5
      <3>2. rs \in Seq(Reqs) /\ DistinctR(rs)
        BY <2>3
      <3> QED BY <3>1, <3>2, <2>4, <2>5, EnqueueFacts
    <2>7. /\ qq \in [Stages -> Seq(Entry)] /\ qq["rev_src"] = x
          /\ \A s \in Stages : s # "rev_src" => qq[s] = q[s]
      BY <2>2, <2>6, <1>5
    <2>8. /\ e \in [Events -> Nat \cup {Off}] /\ Tracked(qq["rev_src"], e["rev_src"])
          /\ \A a \in Events : a # "rev_src" => e[a] = ev[a]
      <3>1. ev \in [Events -> Nat \cup {Off}] /\ qq \in [Stages -> Seq(Entry)] /\ "rev_src" \in Stages
        BY <2>7, <1>5
      <3>2. e = Reschedule(ev, "rev_src", qq)
        BY <2>2
      <3> QED BY <3>1, <3>2, RescheduleFacts
    <2>9. e["resp"] = ev["resp"] /\ e["retry"] = ev["retry"]
      BY <2>8, Constants
    <2>10. Types(cfg, qq, rq, e, retry_owed, ctl, up, dn, owes)
      BY <2>2, <2>7, <2>8, <1>1, <1>3 DEF Types
    <2>11. Mode(cfg, qq, rq, retry_owed, owes)
      BY <2>2, <1>1, <1>8 DEF Mode, Par, parametric
    <2>12. Places(qq, rq, up, dn)
      <3>1. ASSUME NEW p \in Reqs PROVE Placed(qq, rq, up, dn, p)
        <4>1. Placed(q, resp_queue, up, down, p)
          BY <1>1 DEF Places
        <4>2. CASE p = r
          <5>1. \A s \in Stages : Has(qq[s], p) <=> s = "rev_src"
            BY <4>2, <2>3, <2>6, <2>7, <1>7
          <5>2. p \notin dn /\ ~HasR(rq, p) /\ p \in RoundTrip /\ up[p] = "granted"
            BY <4>2, <2>2, <1>3, <1>7
          <5> QED BY <5>1, <5>2, <1>5 DEF Placed
        <4>3. CASE p # r
          <5>1. \A s \in Stages : Has(qq[s], p) <=> Has(q[s], p)
            BY <4>3, <2>1, <2>3, <2>6, <2>7
          <5>2. p \in dn <=> p \in down
            BY <4>3, <1>3
          <5> QED BY <5>1, <5>2, <4>1, <2>2 DEF Placed, Stages
        <4> QED BY <4>2, <4>3
      <3>2. ASSUME NEW s \in Stages PROVE Distinct(qq[s])
        BY <2>6, <2>7, <1>1 DEF Places
      <3> QED BY <3>1, <3>2, <2>2, <1>1 DEF Places
    <2>13. Tracks(qq, rq, e, ctl)
      <3>1. ASSUME NEW s \in Stages PROVE Tracked(qq[s], e[s])
        <4>1. CASE s = "rev_src"
          BY <4>1, <2>8
        <4>2. CASE s # "rev_src"
          <5>1. Tracked(q[s], ev[s]) /\ e[s] = ev[s] /\ qq[s] = q[s]
            BY <4>2, <2>7, <2>8, <1>1, <1>4, Constants DEF Tracks, Stages
          <5> QED BY <5>1
        <4> QED BY <4>1, <4>2
      <3> QED BY <3>1, <2>2, <2>9, <1>1 DEF Tracks
    <2>14. Spacing(cfg, qq)
      <3>1. ASSUME NEW s \in Stages PROVE Spaced(qq[s], KOf(cfg, s))
        <4>1. CASE s = "rev_src"
          BY <4>1, <2>6, <2>7
        <4>2. CASE s # "rev_src"
          BY <4>2, <2>7, <1>1 DEF Spacing
        <4> QED BY <4>1, <4>2
      <3> QED BY <3>1 DEF Spacing
    <2>15. Gate(cfg, qq, e, retry_owed, ctl)
      <3>1. /\ qq["fwd_src"] = q["fwd_src"] /\ qq["fwd_dst"] = q["fwd_dst"]
            /\ qq["rev_dst"] = q["rev_dst"]
        BY <2>7 DEF Stages
      <3>2. /\ Len(q["fwd_src"]) \in Nat /\ Len(q["fwd_dst"]) \in Nat /\ Len(q["rev_src"]) \in Nat
            /\ Len(q["rev_dst"]) \in Nat /\ Len(qq["rev_src"]) = Len(q["rev_src"]) + 1
        BY <2>1, <2>3, <2>6, <2>7, <1>5, EntryTypes DEF Stages
      <3>3. Occupancy(qq) = Occupancy(q) + 1 /\ Occupancy(q) \in Nat /\ cfg.depth \in Nat
        <4>1. cfg.depth \in Nat
          BY <1>5, Constants
        <4>2. PICK i, j, k, l : /\ i = Len(q["fwd_src"]) /\ j = Len(q["fwd_dst"])
                                /\ k = Len(q["rev_src"]) /\ l = Len(q["rev_dst"])
          OBVIOUS
        <4>3. i \in Nat /\ j \in Nat /\ k \in Nat /\ l \in Nat
          BY <4>2, <3>2
        <4>4. Occupancy(q) = i + j + k + l /\ Occupancy(qq) = i + j + (k + 1) + l
          BY <4>2, <3>1, <3>2 DEF Occupancy
        <4> QED BY <4>1, <4>3, <4>4
      <3>4. Occupancy(q) >= cfg.depth => Occupancy(qq) >= cfg.depth
        BY <3>3
      <3> QED BY <3>1, <3>4, <2>9, <1>1 DEF Gate
    <2> QED BY <2>10, <2>11, <2>12, <2>13, <2>14, <2>15, <1>1, <1>2, <1>3, Fold
  <1>9. CASE ~parametric
    <2>1. /\ qq = q /\ rq = Append(resp_queue, r)
          /\ e = [ev EXCEPT !["resp"] = IF @ = Off THEN 1 ELSE @]
      BY <1>2, <1>9 DEF OutResp
    <2>2. /\ rq \in Seq(Reqs) /\ rq # <<>> /\ DistinctR(rq)
          /\ \A p : HasR(rq, p) <=> HasR(resp_queue, p) \/ p = r
      <3>1. DistinctR(resp_queue)
        BY <1>1 DEF Places
      <3> QED BY <3>1, <2>1, <1>5, <1>7, AppendReqs
    <2>3. /\ e \in [Events -> Nat \cup {Off}] /\ e["resp"] # Off /\ e["retry"] = ev["retry"]
          /\ \A s \in Stages : e[s] = ev[s]
      <3>1. "resp" \in Events /\ "retry" \in Events /\ \A s \in Stages : s \in Events /\ s # "resp"
        BY Constants
      <3>2. 1 # Off /\ 1 \in Nat
        BY DEF Off
      <3> QED BY <3>1, <3>2, <2>1, <1>5
    <2>4. Types(cfg, qq, rq, e, retry_owed, ctl, up, dn, owes)
      BY <2>1, <2>2, <2>3, <1>1, <1>3 DEF Types
    <2>5. Mode(cfg, qq, rq, retry_owed, owes)
      BY <2>1, <1>1, <1>9 DEF Mode, Par, parametric
    <2>6. Places(qq, rq, up, dn)
      <3>1. ASSUME NEW p \in Reqs PROVE Placed(qq, rq, up, dn, p)
        <4>1. Placed(q, resp_queue, up, down, p)
          BY <1>1 DEF Places
        <4>2. CASE p = r
          <5>1. /\ \A s \in Stages : ~Has(qq[s], p)
                /\ p \notin dn /\ HasR(rq, p) /\ p \in RoundTrip /\ up[p] = "granted"
            BY <4>2, <2>1, <2>2, <1>3, <1>7
          <5> QED BY <5>1 DEF Placed, Stages
        <4>3. CASE p # r
          <5>1. /\ p \in dn <=> p \in down
                /\ HasR(rq, p) <=> HasR(resp_queue, p)
            BY <4>3, <2>2, <1>3
          <5> QED BY <5>1, <4>1, <2>1 DEF Placed
        <4> QED BY <4>2, <4>3
      <3> QED BY <3>1, <2>1, <2>2, <1>1 DEF Places
    <2>7. Tracks(qq, rq, e, ctl)
      BY <2>1, <2>2, <2>3, <1>1 DEF Tracks
    <2>8. Gate(cfg, qq, e, retry_owed, ctl)
      BY <2>1, <2>3, <1>1 DEF Gate
    <2> QED BY <2>1, <2>4, <2>5, <2>6, <2>7, <2>8, <1>1, <1>2, <1>3, Fold
  <1> QED BY <1>8, <1>9

-----------------------------------------------------------------------------
(* A cycle of the stage's domain: the requests stay, each entry is one     *)
(* cycle closer to its deadline, and the event keeps up.                   *)
Older(d) == [i \in DOMAIN d |-> [d[i] EXCEPT !.left = @ - 1]]

LEMMA OlderFacts ==
    ASSUME NEW d \in Seq(Entry), NEW x, x = Older(d)
    PROVE  /\ x \in Seq(Entry) /\ Len(x) = Len(d) /\ DOMAIN x = DOMAIN d
           /\ \A i \in DOMAIN d : x[i].req = d[i].req /\ x[i].left = d[i].left - 1
  <1>1. /\ DOMAIN d = 1 .. Len(d) /\ Len(d) \in Nat
        /\ \A i \in DOMAIN d : d[i] \in Entry /\ d[i].left \in Int
    BY EntryTypes
  <1>2. ASSUME NEW i \in DOMAIN d
        PROVE  /\ [d[i] EXCEPT !.left = @ - 1] \in Entry
               /\ [d[i] EXCEPT !.left = @ - 1].req = d[i].req
               /\ [d[i] EXCEPT !.left = @ - 1].left = d[i].left - 1
    BY <1>1 DEF Entry
  <1>3. x = [i \in 1 .. Len(d) |-> [d[i] EXCEPT !.left = @ - 1]]
    BY <1>1 DEF Older
  <1>4. \A i \in 1 .. Len(d) : x[i] = [d[i] EXCEPT !.left = @ - 1] /\ x[i] \in Entry
    BY <1>1, <1>2, <1>3
  <1>5. x \in Seq(Entry) /\ Len(x) = Len(d) /\ DOMAIN x = DOMAIN d
    BY <1>1, <1>3, <1>4
  <1> QED BY <1>1, <1>2, <1>4, <1>5

LEMMA OlderSpaced ==
    ASSUME NEW d \in Seq(Entry), NEW x, DOMAIN x = DOMAIN d, NEW k \in Nat, Spaced(d, k),
           \A i \in DOMAIN d : x[i].req = d[i].req /\ x[i].left = d[i].left - 1
    PROVE  Spaced(x, k)
  <1>1. \A i \in DOMAIN d : i \in Int /\ d[i].left \in Int
    BY EntryTypes
  <1>2. ASSUME NEW i \in DOMAIN x, NEW j \in DOMAIN x, i < j
        PROVE  /\ x[i].left < x[j].left
               /\ x[j].left < k + (j - i) \/ x[j].left <= x[i].left + (j - i)
    <2>1. PICK a, b : a = d[i].left /\ b = d[j].left
      OBVIOUS
    <2>2. /\ a \in Int /\ b \in Int /\ i \in Int /\ j \in Int
          /\ x[i].left = a - 1 /\ x[j].left = b - 1
      BY <2>1, <1>1
    <2>3. a < b /\ (b < k + (j - i) \/ b <= a + (j - i))
      BY <2>1, <1>2 DEF Spaced
    <2>4. PICK m : m = j - i
      OBVIOUS
    <2>5. m \in Int /\ a \in Int /\ b \in Int
      BY <2>2, <2>4
    <2>6. a < b /\ (b < k + m \/ b <= a + m)
      BY <2>3, <2>4
    <2>7. a - 1 < b - 1
      BY <2>5, <2>6
    <2>8. b - 1 < k + m \/ b - 1 <= (a - 1) + m
      <3>1. b < k + m => b - 1 < k + m
        BY <2>5
      <3>2. b <= a + m => b - 1 <= (a - 1) + m
        BY <2>5
      <3> QED BY <3>1, <3>2, <2>6
    <2> QED BY <2>2, <2>4, <2>7, <2>8
  <1>3. ASSUME 1 \in DOMAIN x PROVE x[1].left <= Larger(1, k)
    <2>1. d[1].left \in Int /\ x[1].left = d[1].left - 1 /\ d[1].left <= Larger(1, k)
      BY <1>1, <1>3 DEF Spaced
    <2>2. Larger(1, k) \in Int
      BY Largest
    <2> QED BY <2>1, <2>2
  <1> QED BY <1>2, <1>3 DEF Spaced

LEMMA OlderTracked ==
    ASSUME NEW d \in Seq(Entry), NEW x \in Seq(Entry), DOMAIN x = DOMAIN d,
           \A i \in DOMAIN d : x[i].left = d[i].left - 1,
           NEW a \in Nat \cup {Off}, a # 0, Tracked(d, a), NEW b, b = IF a # Off THEN a - 1 ELSE a
    PROVE  Tracked(x, b)
  <1>1. (d # <<>> <=> 1 \in DOMAIN d) /\ (x # <<>> <=> 1 \in DOMAIN d)
    BY EntryTypes
  <1>2. CASE d = <<>>
    <2>1. x = <<>> /\ b = Off
      BY <1>1, <1>2 DEF Tracked
    <2> QED BY <2>1 DEF Tracked
  <1>3. CASE d # <<>>
    <2>1. PICK l : l = d[1].left
      OBVIOUS
    <2>2. x # <<>> /\ l \in Int /\ x[1].left = l - 1
      BY <2>1, <1>1, <1>3, EntryTypes
    <2>3. a \in Nat /\ a # Off /\ (a = l \/ (a \in {0, 1} /\ l < a))
      BY <2>1, <1>3 DEF Tracked
    <2>4. b = a - 1 /\ b \in Nat /\ (b = l - 1 \/ (b \in {0, 1} /\ l - 1 < b))
      BY <2>2, <2>3
    <2>5. b # Off
      BY <2>4, Constants
    <2> QED BY <2>2, <2>4, <2>5 DEF Tracked
  <1> QED BY <1>2, <1>3

LEMMA TickInv ==
    ASSUME IInv, NEW side, Tick(side)
    PROVE  IInv'
  <1>1. /\ Types(cfg, q, resp_queue, ev, retry_owed, ctl, up, down, owes)
        /\ Mode(cfg, q, resp_queue, retry_owed, owes) /\ CtlShape(ctl)
        /\ Places(q, resp_queue, up, down) /\ Tracks(q, resp_queue, ev, ctl)
        /\ Spacing(cfg, q) /\ Noted(retry_owed, ctl, up, owes)
        /\ Gate(cfg, q, ev, retry_owed, ctl)
    BY Unfold
  <1>2. PICK qq, e : qq = q' /\ e = ev'
    OBVIOUS
  <1>3. /\ ctl = Idle /\ \A a \in side : ev[a] # 0
        /\ e = [a \in Events |-> IF a \in side /\ ev[a] # Off THEN ev[a] - 1 ELSE ev[a]]
        /\ qq = [s \in Stages |-> IF s \in side
                                  THEN [i \in DOMAIN q[s] |-> [q[s][i] EXCEPT !.left = @ - 1]]
                                  ELSE q[s]]
        /\ cfg' = cfg /\ resp_queue' = resp_queue /\ retry_owed' = retry_owed /\ ctl' = ctl
        /\ up' = up /\ down' = down /\ owes' = owes
    BY <1>2 DEF Tick
  <1>4. /\ q \in [Stages -> Seq(Entry)] /\ ev \in [Events -> Nat \cup {Off}] /\ cfg \in Configs
        /\ ctl.of = "none"
    BY <1>1, <1>3 DEF Types, Idle
  <1>5. ASSUME NEW a \in Events
        PROVE  /\ e[a] \in Nat \cup {Off} /\ (e[a] = Off <=> ev[a] = Off)
               /\ a \in side => ev[a] # 0 /\ e[a] = IF ev[a] # Off THEN ev[a] - 1 ELSE ev[a]
               /\ a \notin side => e[a] = ev[a]
    <2>1. ev[a] \in Nat \cup {Off} /\ e[a] = IF a \in side /\ ev[a] # Off THEN ev[a] - 1 ELSE ev[a]
      BY <1>3, <1>4
    <2>2. CASE a \in side /\ ev[a] # Off
      <3>1. ev[a] \in Nat /\ ev[a] # 0
        BY <2>1, <2>2, <1>3
      <3>2. e[a] = ev[a] - 1 /\ e[a] \in Nat
        BY <3>1, <2>1, <2>2
      <3>3. e[a] # Off
        BY <3>2, Constants
      <3> QED BY <3>1, <3>2, <3>3, <2>2
    <2>3. CASE ~(a \in side /\ ev[a] # Off)
      BY <2>1, <2>3, <1>3
    <2> QED BY <2>2, <2>3
  <1>6. ASSUME NEW s \in Stages
        PROVE  /\ qq[s] \in Seq(Entry) /\ Len(qq[s]) = Len(q[s]) /\ Distinct(qq[s])
               /\ \A r : Has(qq[s], r) <=> Has(q[s], r)
               /\ Spaced(qq[s], KOf(cfg, s)) /\ Tracked(qq[s], e[s])
    <2>1. PICK d, x, k : d = q[s] /\ x = qq[s] /\ k = KOf(cfg, s)
      OBVIOUS
    <2>2. /\ d \in Seq(Entry) /\ Distinct(d) /\ k \in Nat /\ Spaced(d, k) /\ s \in Events
          /\ Tracked(d, ev[s])
      <3>1. ctl.of # s /\ s \in Events /\ k \in Nat /\ d \in Seq(Entry)
        BY <2>1, <1>4, Constants DEF Stages
      <3> QED BY <3>1, <2>1, <1>1 DEF Places, Spacing, Tracks
    <2>3. CASE s \notin side
      <3>1. x = d /\ e[s] = ev[s]
        BY <2>1, <2>2, <2>3, <1>3, <1>5
      <3> QED BY <3>1, <2>1, <2>2
    <2>4. CASE s \in side
      <3>1. x = Older(d)
        BY <2>1, <2>4, <1>3 DEF Older
      <3>2. /\ x \in Seq(Entry) /\ Len(x) = Len(d) /\ DOMAIN x = DOMAIN d
            /\ \A i \in DOMAIN d : x[i].req = d[i].req /\ x[i].left = d[i].left - 1
        BY <3>1, <2>2, OlderFacts
      <3>3. Spaced(x, k)
        BY <3>2, <2>2, OlderSpaced
      <3>4. Distinct(x) /\ \A r : Has(x, r) <=> Has(d, r)
        BY <3>2, <2>2 DEF Distinct, Has
      <3>5. Tracked(x, e[s])
        <4>1. PICK a, b : a = ev[s] /\ b = e[s]
          OBVIOUS
        <4>2. a \in Nat \cup {Off} /\ a # 0 /\ b = IF a # Off THEN a - 1 ELSE a
          BY <4>1, <2>2, <2>4, <1>4, <1>5
        <4>3. Tracked(d, a) /\ d \in Seq(Entry)
          BY <4>1, <2>2
        <4>4. Tracked(x, b)
          BY <4>2, <4>3, <3>2, OlderTracked
        <4> QED BY <4>1, <4>4
      <3> QED BY <3>2, <3>3, <3>4, <3>5, <2>1
    <2> QED BY <2>3, <2>4
  <1>7. qq \in [Stages -> Seq(Entry)]
    <2>1. DOMAIN qq = Stages /\ qq = [s \in Stages |-> qq[s]]
      BY <1>3
    <2> QED BY <2>1, <1>6
  <1>8. e \in [Events -> Nat \cup {Off}] /\ (e["retry"] = Off <=> ev["retry"] = Off)
        /\ (e["resp"] = Off <=> ev["resp"] = Off)
    <2>1. e = [a \in Events |-> e[a]]
      BY <1>3
    <2>2. e \in [Events -> Nat \cup {Off}]
      BY <2>1, <1>5
    <2> QED BY <2>2, <1>5, Constants
  <1>9. Types(cfg, qq, resp_queue, e, retry_owed, ctl, up, down, owes)
    BY <1>1, <1>7, <1>8 DEF Types
  <1>10. Mode(cfg, qq, resp_queue, retry_owed, owes)
    <2>1. ASSUME ~Par(cfg) PROVE qq = Drained
      <3>1. \A s \in Stages : q[s] = <<>>
        BY <2>1, <1>1 DEF Mode, Drained
      <3>2. \A s \in Stages : Len(qq[s]) = 0 /\ qq[s] \in Seq(Entry)
        BY <3>1, <1>6
      <3>3. \A s \in Stages : qq[s] = <<>>
        BY <3>2
      <3> QED BY <3>3, <1>7 DEF Drained
    <2> QED BY <2>1, <1>1 DEF Mode
  <1>11. Places(qq, resp_queue, up, down)
    <2>1. ASSUME NEW p \in Reqs PROVE Placed(qq, resp_queue, up, down, p)
      <3>1. Placed(q, resp_queue, up, down, p)
        BY <1>1 DEF Places
      <3> QED BY <3>1, <1>6 DEF Placed, Stages
    <2> QED BY <2>1, <1>1, <1>6 DEF Places
  <1>12. Tracks(qq, resp_queue, e, ctl)
    BY <1>1, <1>6, <1>8 DEF Tracks
  <1>13. Spacing(cfg, qq)
    BY <1>6 DEF Spacing
  <1>14. Gate(cfg, qq, e, retry_owed, ctl)
    <2>1. /\ Len(qq["fwd_src"]) = Len(q["fwd_src"]) /\ Len(qq["fwd_dst"]) = Len(q["fwd_dst"])
          /\ Occupancy(qq) = Occupancy(q)
      BY <1>6 DEF Stages, Occupancy
    <2> QED BY <2>1, <1>1, <1>8 DEF Gate
  <1> QED BY <1>1, <1>2, <1>3, <1>9, <1>10, <1>11, <1>12, <1>13, <1>14, Fold

-----------------------------------------------------------------------------
(* Two queues change, and their events follow. *)
LEMMA TwoStages ==
    ASSUME NEW e \in [Events -> Nat \cup {Off}], NEW s \in Stages, NEW t \in Stages, s # t,
           NEW qq \in [Stages -> Seq(Entry)],
           NEW x, x = Reschedule(Reschedule(e, s, qq), t, qq)
    PROVE  /\ x \in [Events -> Nat \cup {Off}] /\ Tracked(qq[s], x[s]) /\ Tracked(qq[t], x[t])
           /\ \A a \in Events : a # s /\ a # t => x[a] = e[a]
  <1>1. PICK y : y = Reschedule(e, s, qq)
    OBVIOUS
  <1>2. /\ y \in [Events -> Nat \cup {Off}] /\ Tracked(qq[s], y[s])
        /\ \A a \in Events : a # s => y[a] = e[a]
    BY <1>1, RescheduleFacts
  <1>3. x = Reschedule(y, t, qq)
    BY <1>1
  <1>4. /\ x \in [Events -> Nat \cup {Off}] /\ Tracked(qq[t], x[t])
        /\ \A a \in Events : a # t => x[a] = y[a]
    BY <1>2, <1>3, RescheduleFacts
  <1>5. s \in Events
    BY Constants
  <1> QED BY <1>2, <1>4, <1>5

(* A stage hands what is due to the stage after it. *)
LEMMA CrossInv ==
    ASSUME IInv, NEW s \in Stages, NEW t \in Stages, Cross(s, t),
           (s = "fwd_src" /\ t = "fwd_dst") \/ (s = "rev_src" /\ t = "rev_dst")
    PROVE  IInv'
  <1>1. /\ Types(cfg, q, resp_queue, ev, retry_owed, ctl, up, down, owes)
        /\ Mode(cfg, q, resp_queue, retry_owed, owes) /\ CtlShape(ctl)
        /\ Places(q, resp_queue, up, down) /\ Tracks(q, resp_queue, ev, ctl)
        /\ Spacing(cfg, q) /\ Noted(retry_owed, ctl, up, owes)
        /\ Gate(cfg, q, ev, retry_owed, ctl)
    BY Unfold
  <1>2. PICK qq, e : qq = q' /\ e = ev'
    OBVIOUS
  <1>3. PICK d, f, rs, x, y : /\ d = q[s] /\ f = q[t] /\ rs = DueReqs(d) /\ x = Later(d)
                              /\ y = EnqueueIn(f, rs, t)
    OBVIOUS
  <1>4. s # t
    OBVIOUS
  <1>5. /\ q \in [Stages -> Seq(Entry)] /\ ev \in [Events -> Nat \cup {Off}] /\ cfg \in Configs
        /\ d \in Seq(Entry) /\ f \in Seq(Entry)
    BY <1>1, <1>3 DEF Types
  <1>6. /\ ctl = Idle /\ ev[s] = 0 /\ qq = [q EXCEPT ![s] = x, ![t] = y]
        /\ e = Reschedule(Reschedule(ev, s, qq), t, qq)
        /\ cfg' = cfg /\ resp_queue' = resp_queue /\ retry_owed' = retry_owed /\ ctl' = ctl
        /\ up' = up /\ down' = down /\ owes' = owes
    <2>1. [q EXCEPT ![s] = Later(@), ![t] = EnqueueIn(@, DueReqs(q[s]), t)] = [q EXCEPT ![s] = x, ![t] = y]
      BY <1>3, <1>4, <1>5
    <2> QED BY <2>1, <1>2 DEF Cross
  <1>7. KOf(cfg, s) \in Nat
    BY <1>5, Constants
  <1>8. /\ rs \in Seq(Reqs) /\ x \in Seq(Entry) /\ Len(x) + Len(rs) = Len(d)
        /\ Distinct(x) /\ DistinctR(rs) /\ Spaced(x, KOf(cfg, s))
        /\ \A r : Has(d, r) <=> Has(x, r) \/ HasR(rs, r)
        /\ \A r : ~(Has(x, r) /\ HasR(rs, r))
    <2>1. Distinct(d) /\ Spaced(d, KOf(cfg, s))
      BY <1>1, <1>3 DEF Places, Spacing
    <2>2. d \in Seq(Entry) /\ rs = DueReqs(d) /\ x = Later(d)
      BY <1>3, <1>5
    <2> QED BY <2>1, <2>2, <1>7, DueFacts
  <1>9. ASSUME NEW r, Has(d, r) PROVE ~Has(f, r)
    <2>1. r \in Reqs
      BY <1>5, <1>9, EntryTypes DEF Has
    <2> QED BY <2>1, <1>1, <1>3, <1>4, <1>9 DEF Places, Placed
  <1>10. /\ y \in Seq(Entry) /\ Len(y) = Len(f) + Len(rs) /\ Distinct(y)
         /\ Spaced(y, KOf(cfg, t))
         /\ \A r : Has(y, r) <=> Has(f, r) \/ HasR(rs, r)
    <2>1. f \in Seq(Entry) /\ Distinct(f) /\ Spaced(f, KOf(cfg, t))
      BY <1>1, <1>3, <1>5 DEF Places, Spacing
    <2>2. rs \in Seq(Reqs) /\ DistinctR(rs) /\ \A r : ~(Has(f, r) /\ HasR(rs, r))
      BY <1>8, <1>9
    <2>3. cfg \in Configs /\ y = EnqueueIn(f, rs, t)
      BY <1>3, <1>5
    <2> QED BY <2>1, <2>2, <2>3, EnqueueFacts
  <1>11. /\ qq \in [Stages -> Seq(Entry)] /\ qq[s] = x /\ qq[t] = y
         /\ \A a \in Stages : a # s /\ a # t => qq[a] = q[a]
    BY <1>4, <1>5, <1>6, <1>8, <1>10
  <1>12. /\ e \in [Events -> Nat \cup {Off}] /\ Tracked(qq[s], e[s]) /\ Tracked(qq[t], e[t])
         /\ \A a \in Events : a # s /\ a # t => e[a] = ev[a]
    <2>1. qq \in [Stages -> Seq(Entry)] /\ ev \in [Events -> Nat \cup {Off}]
      BY <1>5, <1>11
    <2>2. e = Reschedule(Reschedule(ev, s, qq), t, qq)
      BY <1>6
    <2> QED BY <2>1, <2>2, <1>4, TwoStages
  <1>13. e["resp"] = ev["resp"] /\ e["retry"] = ev["retry"]
    BY <1>12, Constants
  <1>14. Types(cfg, qq, resp_queue, e, retry_owed, ctl, up, down, owes)
    BY <1>1, <1>11, <1>12 DEF Types
  <1>15. Par(cfg)
    <2>1. ctl.of # s
      BY <1>6 DEF Idle, Stages
    <2>2. Tracked(d, ev[s]) /\ 0 # Off
      BY <2>1, <1>1, <1>3 DEF Tracks, Off
    <2>3. d # <<>>
      BY <2>2, <1>6 DEF Tracked
    <2> QED BY <2>3, <1>1, <1>3 DEF Mode, Drained
  <1>16. Mode(cfg, qq, resp_queue, retry_owed, owes)
    BY <1>1, <1>15 DEF Mode
  <1>17. Places(qq, resp_queue, up, down)
    <2>1. ASSUME NEW p \in Reqs PROVE Placed(qq, resp_queue, up, down, p)
      <3>1. Placed(q, resp_queue, up, down, p)
        BY <1>1 DEF Places
      <3>2. CASE HasR(rs, p)
        <4>1. Has(q[s], p)
          BY <3>2, <1>3, <1>8
        <4>2. \A a \in Stages : Has(qq[a], p) <=> a = t
          <5>1. ~Has(qq[s], p) /\ Has(qq[t], p)
            BY <3>2, <1>8, <1>10, <1>11
          <5>2. ASSUME NEW a \in Stages, a # s, a # t PROVE ~Has(qq[a], p)
            <6>1. ~Has(q[a], p)
              BY <5>2, <4>1, <3>1 DEF Placed
            <6> QED BY <6>1, <5>2, <1>11
          <5> QED BY <5>1, <5>2
        <4>3. ~HasR(resp_queue, p) /\ p \notin down /\ up[p] = "granted"
          BY <4>1, <3>1 DEF Placed
        <4>4. t \in {"rev_src", "rev_dst"} => p \in RoundTrip
          BY <4>1, <3>1 DEF Placed
        <4>5. Has(qq["rev_src"], p) \/ Has(qq["rev_dst"], p) => p \in RoundTrip
          BY <4>2, <4>4 DEF Stages
        <4> QED BY <4>2, <4>3, <4>5 DEF Placed
      <3>3. CASE ~HasR(rs, p)
        <4>1. \A a \in Stages : Has(qq[a], p) <=> Has(q[a], p)
          BY <3>3, <1>3, <1>8, <1>10, <1>11
        <4> QED BY <4>1, <3>1 DEF Placed, Stages
      <3> QED BY <3>2, <3>3
    <2>2. ASSUME NEW a \in Stages PROVE Distinct(qq[a])
      BY <1>1, <1>8, <1>10, <1>11 DEF Places
    <2> QED BY <2>1, <2>2, <1>1 DEF Places
  <1>18. Tracks(qq, resp_queue, e, ctl)
    <2>1. ASSUME NEW a \in Stages, ctl.of # a PROVE Tracked(qq[a], e[a])
      <3>1. CASE a = s \/ a = t
        BY <3>1, <1>12
      <3>2. CASE a # s /\ a # t
        <4>1. Tracked(q[a], ev[a]) /\ e[a] = ev[a] /\ qq[a] = q[a]
          BY <3>2, <2>1, <1>1, <1>11, <1>12, Constants DEF Tracks
        <4> QED BY <4>1
      <3> QED BY <3>1, <3>2
    <2> QED BY <2>1, <1>1, <1>13 DEF Tracks
  <1>19. Spacing(cfg, qq)
    <2>1. ASSUME NEW a \in Stages PROVE Spaced(qq[a], KOf(cfg, a))
      <3>1. CASE a = s
        BY <3>1, <1>8, <1>11
      <3>2. CASE a = t
        BY <3>2, <1>10, <1>11
      <3>3. CASE a # s /\ a # t
        BY <3>3, <1>1, <1>11 DEF Spacing
      <3> QED BY <3>1, <3>2, <3>3
    <2> QED BY <2>1 DEF Spacing
  <1>20. Gate(cfg, qq, e, retry_owed, ctl)
    <2>1. \A a \in Stages : Len(q[a]) \in Nat /\ Len(qq[a]) \in Nat
      BY <1>5, <1>11, EntryTypes
    <2>2. Len(qq[s]) + Len(qq[t]) = Len(q[s]) + Len(q[t])
      <3>1. PICK i, j, k, l : i = Len(x) /\ j = Len(rs) /\ k = Len(d) /\ l = Len(f)
        OBVIOUS
      <3>2. i \in Nat /\ j \in Nat /\ k \in Nat /\ l \in Nat
        BY <3>1, <1>5, <1>8
      <3>3. i + j = k /\ Len(y) = l + j
        BY <3>1, <1>8, <1>10
      <3>4. i + (l + j) = k + l
        BY <3>2, <3>3
      <3> QED BY <3>1, <3>3, <3>4, <1>3, <1>11
    <2>3. /\ Len(qq["fwd_src"]) + Len(qq["fwd_dst"]) = Len(q["fwd_src"]) + Len(q["fwd_dst"])
          /\ Len(qq["rev_src"]) + Len(qq["rev_dst"]) = Len(q["rev_src"]) + Len(q["rev_dst"])
      <3>1. CASE s = "fwd_src" /\ t = "fwd_dst"
        <4>1. qq["rev_src"] = q["rev_src"] /\ qq["rev_dst"] = q["rev_dst"]
          BY <3>1, <1>11 DEF Stages
        <4> QED BY <4>1, <3>1, <2>2
      <3>2. CASE s = "rev_src" /\ t = "rev_dst"
        <4>1. qq["fwd_src"] = q["fwd_src"] /\ qq["fwd_dst"] = q["fwd_dst"]
          BY <3>2, <1>11 DEF Stages
        <4> QED BY <4>1, <3>2, <2>2
      <3> QED BY <3>1, <3>2
    <2>4. Occupancy(qq) = Occupancy(q)
      <3>1. PICK i, j, k, l : /\ i = Len(q["fwd_src"]) /\ j = Len(q["fwd_dst"])
                              /\ k = Len(q["rev_src"]) /\ l = Len(q["rev_dst"])
        OBVIOUS
      <3>2. PICK i2, j2, k2, l2 : /\ i2 = Len(qq["fwd_src"]) /\ j2 = Len(qq["fwd_dst"])
                                  /\ k2 = Len(qq["rev_src"]) /\ l2 = Len(qq["rev_dst"])
        OBVIOUS
      <3>3. /\ i \in Nat /\ j \in Nat /\ k \in Nat /\ l \in Nat
            /\ i2 \in Nat /\ j2 \in Nat /\ k2 \in Nat /\ l2 \in Nat
        BY <3>1, <3>2, <2>1 DEF Stages
      <3>4. i2 + j2 = i + j /\ k2 + l2 = k + l
        BY <3>1, <3>2, <2>3
      <3>5. i2 + j2 + k2 + l2 = i + j + k + l
        BY <3>3, <3>4
      <3> QED BY <3>1, <3>2, <3>5 DEF Occupancy
    <2> QED BY <2>3, <2>4, <1>1, <1>13 DEF Gate
  <1> QED BY <1>1, <1>2, <1>6, <1>14, <1>16, <1>17, <1>18, <1>19, <1>20, Fold

-----------------------------------------------------------------------------
(* The responses of a forward drain: each request of S once. *)
LEMMA InOrderFacts ==
    ASSUME NEW rs \in Seq(Reqs), NEW S \in SUBSET Reqs, NEW b \in InOrderOf(rs, S)
    PROVE  /\ b \in Seq(Reqs) /\ DistinctR(b)
           /\ \A r : HasR(b, r) <=> r \in S
  <1>1. b \in UNION {Bijection(1 .. n, S) : n \in 0 .. Len(rs)}
    BY DEF InOrderOf
  <1>2. PICK n \in 0 .. Len(rs) : b \in Bijection(1 .. n, S)
    BY <1>1
  <1>3. /\ b \in [1 .. n -> S] /\ IsInjective(b) /\ \A r \in S : \E i \in 1 .. n : b[i] = r
    BY <1>2 DEF Bijection, Injection, Surjection
  <1>4. n \in Nat
    OBVIOUS
  <1>5. b \in [1 .. n -> Reqs]
    BY <1>3
  <1>6. b \in Seq(Reqs)
    BY <1>4, <1>5
  <1>7. DOMAIN b = 1 .. n
    BY <1>3
  <1>8. DistinctR(b)
    BY <1>3 DEF IsInjective, DistinctR
  <1>9. \A r : HasR(b, r) <=> r \in S
    BY <1>3, <1>7 DEF HasR
  <1> QED BY <1>6, <1>8, <1>9

(* schedule_retry arms retry_event when the window is open. *)
LEMMA ScheduleRetryFacts ==
    ASSUME NEW e \in [Events -> Nat \cup {Off}], NEW qq, NEW x, x = ScheduleRetry(e, qq)
    PROVE  /\ x \in [Events -> Nat \cup {Off}]
           /\ \A a \in Events : a # "retry" => x[a] = e[a]
           /\ retry_owed /\ Occupancy(qq) < cfg.depth => x["retry"] # Off
  <1>1. "retry" \in Events /\ 1 # Off /\ 1 \in Nat
    BY Constants DEF Off
  <1>2. CASE retry_owed /\ Occupancy(qq) < cfg.depth
    <2>1. x = [e EXCEPT !["retry"] = IF @ = Off THEN 1 ELSE @]
      BY <1>2 DEF ScheduleRetry
    <2> QED BY <2>1, <1>1
  <1>3. CASE ~(retry_owed /\ Occupancy(qq) < cfg.depth)
    <2>1. x = e
      BY <1>3 DEF ScheduleRetry
    <2> QED BY <2>1, <1>3
  <1> QED BY <1>2, <1>3

LEMMA OccupancyNat ==
    ASSUME NEW qq \in [Stages -> Seq(Entry)]
    PROVE  Occupancy(qq) \in Nat
  <1>1. PICK i, j, k, l : /\ i = Len(qq["fwd_src"]) /\ j = Len(qq["fwd_dst"])
                          /\ k = Len(qq["rev_src"]) /\ l = Len(qq["rev_dst"])
    OBVIOUS
  <1>2. i \in Nat /\ j \in Nat /\ k \in Nat /\ l \in Nat
    BY <1>1, EntryTypes DEF Stages
  <1>3. Occupancy(qq) = i + j + k + l
    BY <1>1 DEF Occupancy
  <1> QED BY <1>2, <1>3

(* The forward drain sends what is due to the slave. *)
LEMMA FwdDstDoneInv ==
    ASSUME IInv, NEW Done \in SUBSET Reqs, FwdDstDone(Done)
    PROVE  IInv'
  <1>1. /\ Types(cfg, q, resp_queue, ev, retry_owed, ctl, up, down, owes)
        /\ Mode(cfg, q, resp_queue, retry_owed, owes) /\ CtlShape(ctl)
        /\ Places(q, resp_queue, up, down) /\ Tracks(q, resp_queue, ev, ctl)
        /\ Spacing(cfg, q) /\ Noted(retry_owed, ctl, up, owes)
        /\ Gate(cfg, q, ev, retry_owed, ctl)
    BY Unfold
  <1>2. PICK qq, e, u, dn : qq = q' /\ e = ev' /\ u = up' /\ dn = down'
    OBVIOUS
  <1>3. PICK s, t : s = "fwd_dst" /\ t = "rev_src"
    OBVIOUS
  <1>4. PICK d, f, rs, x, B : /\ d = q[s] /\ f = q[t] /\ rs = DueReqs(d) /\ x = Later(d)
                              /\ B = Done \cap RoundTrip
    OBVIOUS
  <1>5. s # t /\ s \in Stages /\ t \in Stages
    BY <1>3 DEF Stages
  <1>6. /\ q \in [Stages -> Seq(Entry)] /\ ev \in [Events -> Nat \cup {Off}] /\ cfg \in Configs
        /\ d \in Seq(Entry) /\ f \in Seq(Entry) /\ up \in [Reqs -> MasterStates] /\ down \subseteq Reqs
    BY <1>1, <1>4, <1>5 DEF Types
  <1>7. /\ ctl = Idle /\ ev[s] = 0 /\ Done \subseteq Range(rs)
        /\ e = ScheduleRetry(Reschedule(Reschedule(ev, s, qq), t, qq), qq)
        /\ u = [r \in Reqs |-> IF r \in Done \ RoundTrip THEN AfterResp(up[r]) ELSE up[r]]
        /\ dn = down \cup (Range(rs) \ Done)
        /\ cfg' = cfg /\ resp_queue' = resp_queue /\ retry_owed' = retry_owed /\ ctl' = ctl
        /\ owes' = owes
    BY <1>2, <1>3, <1>4 DEF FwdDstDone
  <1>8. PICK b : b \in InOrderOf(rs, B) /\ qq = [q EXCEPT ![s] = x, ![t] = EnqueueIn(f, b, t)]
    <2>1. \E back \in InOrderOf(rs, B) : qq = [q EXCEPT ![s] = Later(@), ![t] = EnqueueIn(@, back, t)]
      BY <1>2, <1>3, <1>4 DEF FwdDstDone
    <2>2. PICK back \in InOrderOf(rs, B) : qq = [q EXCEPT ![s] = Later(@), ![t] = EnqueueIn(@, back, t)]
      BY <2>1
    <2>3. [q EXCEPT ![s] = Later(@), ![t] = EnqueueIn(@, back, t)]
            = [q EXCEPT ![s] = x, ![t] = EnqueueIn(f, back, t)]
      BY <1>4, <1>5, <1>6
    <2> QED BY <2>2, <2>3
  <1>9. KOf(cfg, s) \in Nat
    BY <1>5, <1>6, Constants
  <1>10. /\ rs \in Seq(Reqs) /\ x \in Seq(Entry) /\ Len(x) + Len(rs) = Len(d)
         /\ Distinct(x) /\ DistinctR(rs) /\ Spaced(x, KOf(cfg, s))
         /\ \A r : Has(d, r) <=> Has(x, r) \/ HasR(rs, r)
         /\ \A r : ~(Has(x, r) /\ HasR(rs, r))
    <2>1. Distinct(d) /\ Spaced(d, KOf(cfg, s))
      BY <1>1, <1>4, <1>5 DEF Places, Spacing
    <2>2. d \in Seq(Entry) /\ rs = DueReqs(d) /\ x = Later(d)
      BY <1>4, <1>6
    <2> QED BY <2>1, <2>2, <1>9, DueFacts
  <1>11. Range(rs) \subseteq Reqs /\ \A r : r \in Range(rs) <=> HasR(rs, r)
    BY <1>10 DEF Range, HasR
  <1>12. b \in Seq(Reqs) /\ DistinctR(b) /\ \A r : HasR(b, r) <=> r \in B
    <2>1. B \in SUBSET Reqs
      BY <1>4
    <2> QED BY <2>1, <1>8, <1>10, InOrderFacts
  <1>13. ASSUME NEW r, Has(d, r) PROVE ~Has(f, r)
    <2>1. r \in Reqs
      BY <1>6, <1>13, EntryTypes DEF Has
    <2> QED BY <2>1, <1>1, <1>4, <1>5, <1>13 DEF Places, Placed
  <1>14. PICK y : y = EnqueueIn(f, b, t)
    OBVIOUS
  <1>15. /\ y \in Seq(Entry) /\ Len(y) = Len(f) + Len(b) /\ Distinct(y)
         /\ Spaced(y, KOf(cfg, t))
         /\ \A r : Has(y, r) <=> Has(f, r) \/ HasR(b, r)
    <2>1. f \in Seq(Entry) /\ Distinct(f) /\ Spaced(f, KOf(cfg, t))
      BY <1>1, <1>4, <1>5, <1>6 DEF Places, Spacing
    <2>2. \A r \in B : HasR(rs, r)
      BY <1>4, <1>7, <1>11
    <2>3. b \in Seq(Reqs) /\ DistinctR(b) /\ \A r : ~(Has(f, r) /\ HasR(b, r))
      BY <2>2, <1>10, <1>12, <1>13
    <2>4. cfg \in Configs /\ y = EnqueueIn(f, b, t)
      BY <1>6, <1>14
    <2> QED BY <2>1, <2>3, <2>4, <1>5, EnqueueFacts
  <1>16. /\ qq \in [Stages -> Seq(Entry)] /\ qq[s] = x /\ qq[t] = y
         /\ \A a \in Stages : a # s /\ a # t => qq[a] = q[a]
    BY <1>5, <1>6, <1>8, <1>10, <1>14, <1>15
  <1>17. /\ e \in [Events -> Nat \cup {Off}] /\ Tracked(qq[s], e[s]) /\ Tracked(qq[t], e[t])
         /\ \A a \in Events : a # s /\ a # t /\ a # "retry" => e[a] = ev[a]
         /\ retry_owed /\ Occupancy(qq) < cfg.depth => e["retry"] # Off
    <2>1. qq \in [Stages -> Seq(Entry)] /\ ev \in [Events -> Nat \cup {Off}]
      BY <1>6, <1>16
    <2>2. PICK z : z = Reschedule(Reschedule(ev, s, qq), t, qq)
      OBVIOUS
    <2>3. /\ z \in [Events -> Nat \cup {Off}] /\ Tracked(qq[s], z[s]) /\ Tracked(qq[t], z[t])
          /\ \A a \in Events : a # s /\ a # t => z[a] = ev[a]
      BY <2>1, <2>2, <1>5, TwoStages
    <2>4. e = ScheduleRetry(z, qq)
      BY <2>2, <1>7
    <2>5. /\ e \in [Events -> Nat \cup {Off}] /\ \A a \in Events : a # "retry" => e[a] = z[a]
          /\ retry_owed /\ Occupancy(qq) < cfg.depth => e["retry"] # Off
      BY <2>3, <2>4, ScheduleRetryFacts
    <2>6. e[s] = z[s] /\ e[t] = z[t]
      BY <2>5, <1>5, Constants
    <2> QED BY <2>3, <2>5, <2>6
  <1>18. e["resp"] = ev["resp"]
    BY <1>5, <1>17, Constants
  <1>19. ASSUME NEW r \in Reqs, HasR(rs, r)
         PROVE  up[r] = "granted" /\ \A a \in Stages : Has(q[a], r) <=> a = s
    <2>1. Placed(q, resp_queue, up, down, r) /\ Has(q[s], r)
      BY <1>1, <1>4, <1>10, <1>19 DEF Places
    <2> QED BY <2>1, <1>5 DEF Placed
  <1>20. /\ u \in [Reqs -> MasterStates]
         /\ \A r \in Reqs : u[r] = IF r \in Done /\ r \notin RoundTrip THEN "idle" ELSE up[r]
         /\ \A r \in Reqs : up[r] = "denied" <=> u[r] = "denied"
    <2>1. ASSUME NEW r \in Reqs
          PROVE  /\ u[r] = IF r \in Done /\ r \notin RoundTrip THEN "idle" ELSE up[r]
                 /\ u[r] \in MasterStates /\ (up[r] = "denied" <=> u[r] = "denied")
      <3>1. u[r] = IF r \in Done \ RoundTrip THEN AfterResp(up[r]) ELSE up[r]
        BY <1>7
      <3>2. r \in Done => up[r] = "granted"
        BY <1>7, <1>11, <1>19
      <3>3. up[r] \in MasterStates
        BY <1>6
      <3> QED BY <3>1, <3>2, <3>3 DEF AfterResp, MasterStates
    <2>2. u = [r \in Reqs |-> u[r]]
      BY <1>7
    <2> QED BY <2>1, <2>2
  <1>21. dn \subseteq Reqs
    BY <1>6, <1>7, <1>11
  <1>22. Types(cfg, qq, resp_queue, e, retry_owed, ctl, u, dn, owes)
    BY <1>1, <1>16, <1>17, <1>20, <1>21 DEF Types
  <1>23. Par(cfg)
    <2>1. ctl.of # s
      BY <1>3, <1>7 DEF Idle
    <2>2. Tracked(d, ev[s]) /\ 0 # Off
      BY <2>1, <1>1, <1>4, <1>5 DEF Tracks, Off
    <2>3. d # <<>>
      BY <2>2, <1>7 DEF Tracked
    <2> QED BY <2>3, <1>1, <1>4, <1>5 DEF Mode, Drained
  <1>24. Mode(cfg, qq, resp_queue, retry_owed, owes)
    BY <1>1, <1>23 DEF Mode
  <1>25. Places(qq, resp_queue, u, dn)
    <2>1. ASSUME NEW p \in Reqs PROVE Placed(qq, resp_queue, u, dn, p)
      <3>1. Placed(q, resp_queue, up, down, p)
        BY <1>1 DEF Places
      <3>2. CASE ~HasR(rs, p)
        <4>1. p \notin Done /\ (p \in dn <=> p \in down) /\ ~HasR(b, p)
          BY <3>2, <1>4, <1>7, <1>11, <1>12
        <4>2. \A a \in Stages : Has(qq[a], p) <=> Has(q[a], p)
          BY <4>1, <3>2, <1>4, <1>10, <1>15, <1>16
        <4>3. u[p] = up[p]
          BY <4>1, <1>20
        <4> QED BY <4>1, <4>2, <4>3, <3>1 DEF Placed, Stages
      <3>3. CASE HasR(rs, p)
        <4>1. up[p] = "granted" /\ \A a \in Stages : Has(q[a], p) <=> a = s
          BY <3>3, <1>19
        <4>2. ~HasR(resp_queue, p) /\ p \notin down
          BY <4>1, <3>1, <1>5 DEF Placed
        <4>3. \A a \in Stages : Has(qq[a], p) <=> a = t /\ HasR(b, p)
          BY <4>1, <3>3, <1>4, <1>5, <1>10, <1>15, <1>16
        <4>4. p \in dn <=> p \notin Done
          BY <4>2, <3>3, <1>7, <1>11
        <4>5. HasR(b, p) <=> p \in Done /\ p \in RoundTrip
          BY <1>4, <1>12
        <4>6. u[p] = IF p \in Done /\ p \notin RoundTrip THEN "idle" ELSE "granted"
          BY <4>1, <1>20
        <4> QED BY <4>2, <4>3, <4>4, <4>5, <4>6, <1>5 DEF Placed, Stages
      <3> QED BY <3>2, <3>3
    <2>2. ASSUME NEW a \in Stages PROVE Distinct(qq[a])
      BY <1>1, <1>10, <1>15, <1>16 DEF Places
    <2> QED BY <2>1, <2>2, <1>1 DEF Places
  <1>26. Tracks(qq, resp_queue, e, ctl)
    <2>1. ASSUME NEW a \in Stages, ctl.of # a PROVE Tracked(qq[a], e[a])
      <3>1. CASE a = s \/ a = t
        BY <3>1, <1>17
      <3>2. CASE a # s /\ a # t
        <4>1. Tracked(q[a], ev[a]) /\ e[a] = ev[a] /\ qq[a] = q[a]
          BY <3>2, <2>1, <1>1, <1>16, <1>17, Constants DEF Tracks
        <4> QED BY <4>1
      <3> QED BY <3>1, <3>2
    <2> QED BY <2>1, <1>1, <1>18 DEF Tracks
  <1>27. Spacing(cfg, qq)
    <2>1. ASSUME NEW a \in Stages PROVE Spaced(qq[a], KOf(cfg, a))
      <3>1. CASE a = s
        BY <3>1, <1>10, <1>16
      <3>2. CASE a = t
        BY <3>2, <1>15, <1>16
      <3>3. CASE a # s /\ a # t
        BY <3>3, <1>1, <1>16 DEF Spacing
      <3> QED BY <3>1, <3>2, <3>3
    <2> QED BY <2>1 DEF Spacing
  <1>28. Noted(retry_owed, ctl, u, owes)
    BY <1>1, <1>20, NotedSame
  <1>29. Gate(cfg, qq, e, retry_owed, ctl)
    <2>1. \A a \in Stages : Len(q[a]) \in Nat /\ Len(qq[a]) \in Nat
      BY <1>6, <1>16, EntryTypes
    <2>2. qq["fwd_src"] = q["fwd_src"]
      BY <1>3, <1>16 DEF Stages
    <2>3. Len(qq["fwd_dst"]) <= Len(q["fwd_dst"])
      <3>1. Len(x) \in Nat /\ Len(rs) \in Nat /\ Len(d) \in Nat
        BY <1>6, <1>10
      <3>2. Len(x) <= Len(d)
        BY <3>1, <1>10
      <3> QED BY <3>2, <1>3, <1>4, <1>16
    <2>4. cfg.depth \in Nat
      BY <1>6, Constants
    <2>5. Len(qq["fwd_src"]) + Len(qq["fwd_dst"]) <= cfg.depth
      <3>1. Len(q["fwd_src"]) + Len(q["fwd_dst"]) <= cfg.depth
        BY <1>1 DEF Gate
      <3>2. Len(q["fwd_src"]) \in Nat /\ Len(q["fwd_dst"]) \in Nat /\ Len(qq["fwd_dst"]) \in Nat
        BY <2>1 DEF Stages
      <3>3. PICK i, j, k, n : /\ i = Len(q["fwd_src"]) /\ j = Len(q["fwd_dst"])
                              /\ k = Len(qq["fwd_dst"]) /\ n = cfg.depth
        OBVIOUS
      <3>4. i \in Nat /\ j \in Nat /\ k \in Nat /\ n \in Nat /\ k <= j /\ i + j <= n
        BY <3>1, <3>2, <3>3, <2>3, <2>4
      <3>5. i + k <= n
        BY <3>4
      <3> QED BY <3>3, <3>5, <2>2
    <2>6. Occupancy(qq) \in Nat
      BY <1>16, OccupancyNat
    <2>7. Occupancy(qq) < cfg.depth \/ Occupancy(qq) >= cfg.depth
      BY <2>4, <2>6
    <2> QED BY <2>5, <2>7, <1>17 DEF Gate
  <1> QED BY <1>1, <1>2, <1>7, <1>22, <1>24, <1>25, <1>26, <1>27, <1>28, <1>29, Fold

-----------------------------------------------------------------------------
(* in_req_handler, for a request its master holds while no other one is    *)
(* refused and no retry() is owed.                                         *)
LEMMA InReqInv ==
    ASSUME IInv, NEW r \in Reqs, InReq(r), NEW t \in Controls, t = ctl', CtlShape(t),
           t.of = ctl.of, t.pc # "retry", ~retry_owed, ~owes, up[r] \in {"idle", "denied"},
           \A p \in Reqs : p # r => up[p] # "denied"
    PROVE  IInv'
  <1>1. /\ Types(cfg, q, resp_queue, ev, retry_owed, ctl, up, down, owes)
        /\ Mode(cfg, q, resp_queue, retry_owed, owes)
        /\ Places(q, resp_queue, up, down) /\ Tracks(q, resp_queue, ev, ctl)
        /\ Spacing(cfg, q) /\ Gate(cfg, q, ev, retry_owed, ctl)
    BY Unfold
  <1>2. PICK u : u = up'
    OBVIOUS
  <1>3. cfg' = cfg /\ resp_queue' = resp_queue
    BY DEF InReq
  <1>4. /\ q \in [Stages -> Seq(Entry)] /\ ev \in [Events -> Nat \cup {Off}] /\ cfg \in Configs
        /\ up \in [Reqs -> MasterStates] /\ down \subseteq Reqs
        /\ cfg.depth \in Nat /\ Occupancy(q) \in Nat
    BY <1>1, Constants, OccupancyNat DEF Types
  <1>5. (\A s \in Stages : ~Has(q[s], r)) /\ ~HasR(resp_queue, r) /\ r \notin down
    <2>1. Placed(q, resp_queue, up, down, r) /\ up[r] # "granted"
      BY <1>1 DEF Places
    <2> QED BY <2>1 DEF Placed
  <1>6. Tracks(q, resp_queue, ev, t)
    BY <1>1 DEF Tracks
  <1>7. ASSUME NEW st \in {"idle", "granted", "denied"}, u = [up EXCEPT ![r] = st]
        PROVE  /\ u \in [Reqs -> MasterStates] /\ u[r] = st
               /\ \A p \in Reqs : p # r => u[p] = up[p]
    BY <1>4, <1>7 DEF MasterStates
  <1>8. ASSUME NEW st \in {"idle", "denied"}, u = [up EXCEPT ![r] = st]
        PROVE  Places(q, resp_queue, u, down)
    <2>1. ASSUME NEW p \in Reqs PROVE Placed(q, resp_queue, u, down, p)
      <3>1. Placed(q, resp_queue, up, down, p)
        BY <1>1 DEF Places
      <3>2. CASE p = r
        <4>1. u[p] # "granted" /\ u[p] # "error"
          BY <3>2, <1>7, <1>8
        <4> QED BY <4>1, <3>2, <1>5 DEF Placed, Stages
      <3>3. CASE p # r
        <4>1. u[p] = up[p]
          BY <3>3, <1>7, <1>8
        <4> QED BY <4>1, <3>1 DEF Placed
      <3> QED BY <3>2, <3>3
    <2> QED BY <2>1, <1>1 DEF Places
  <1>9. CASE parametric /\ Occupancy(q) >= cfg.depth
    <2>1. /\ retry_owed' = TRUE /\ u = [up EXCEPT ![r] = "denied"]
          /\ q' = q /\ ev' = ev /\ down' = down /\ owes' = owes
      BY <1>2, <1>9 DEF InReq, Admit, Relay
    <2>2. /\ u \in [Reqs -> MasterStates] /\ u[r] = "denied"
          /\ \A p \in Reqs : p # r => u[p] = up[p]
      BY <2>1, <1>7
    <2>3. Types(cfg, q, resp_queue, ev, TRUE, t, u, down, owes)
      BY <2>2, <1>1 DEF Types
    <2>4. Mode(cfg, q, resp_queue, TRUE, owes)
      BY <1>1, <1>9 DEF Mode, Par, parametric
    <2>5. Places(q, resp_queue, u, down)
      BY <2>1, <1>8
    <2>6. Noted(TRUE, t, u, owes)
      BY <2>2 DEF Noted, Denied
    <2>7. Gate(cfg, q, ev, TRUE, t)
      BY <1>1, <1>9 DEF Gate
    <2> QED BY <2>1, <2>3, <2>4, <2>5, <2>6, <2>7, <1>1, <1>2, <1>3, <1>6, Fold
  <1>10. CASE parametric /\ ~(Occupancy(q) >= cfg.depth)
    <2>0. PICK s, qq, e : s = "fwd_src" /\ qq = q' /\ e = ev'
      OBVIOUS
    <2>1. PICK d, rs, x : d = q[s] /\ rs = <<r>> /\ x = EnqueueIn(d, rs, s)
      OBVIOUS
    <2>2. /\ qq = [q EXCEPT ![s] = x] /\ e = Reschedule(ev, s, qq) /\ u = [up EXCEPT ![r] = "granted"]
          /\ retry_owed' = retry_owed /\ down' = down /\ owes' = owes
      BY <2>0, <2>1, <1>2, <1>10 DEF InReq, Admit, Relay
    <2>3. /\ rs \in Seq(Reqs) /\ Len(rs) = 1 /\ DistinctR(rs)
          /\ \A p : HasR(rs, p) <=> p = r
      BY <2>1, OneReq
    <2>4. s \in Stages /\ s \notin {"rev_src", "rev_dst"} /\ s # "resp"
      BY <2>0 DEF Stages
    <2>5. d \in Seq(Entry) /\ Distinct(d) /\ Spaced(d, KOf(cfg, s))
      BY <2>1, <2>4, <1>1, <1>4 DEF Places, Spacing
    <2>6. \A p : ~(Has(d, p) /\ HasR(rs, p))
      BY <2>1, <2>3, <2>4, <1>5
    <2>7. /\ x \in Seq(Entry) /\ Len(x) = Len(d) + Len(rs) /\ Distinct(x)
          /\ Spaced(x, KOf(cfg, s))
          /\ \A p : Has(x, p) <=> Has(d, p) \/ HasR(rs, p)
      <3>1. x = EnqueueIn(d, rs, s) /\ cfg \in Configs
        BY <2>1, <1>4
      <3>2. rs \in Seq(Reqs) /\ DistinctR(rs)
        BY <2>3
      <3> QED BY <3>1, <3>2, <2>4, <2>5, <2>6, EnqueueFacts
    <2>8. /\ qq \in [Stages -> Seq(Entry)] /\ qq[s] = x
          /\ \A a \in Stages : a # s => qq[a] = q[a]
      BY <2>2, <2>4, <2>7, <1>4
    <2>9. /\ e \in [Events -> Nat \cup {Off}] /\ Tracked(qq[s], e[s])
          /\ \A a \in Events : a # s => e[a] = ev[a]
      <3>1. ev \in [Events -> Nat \cup {Off}] /\ qq \in [Stages -> Seq(Entry)] /\ s \in Stages
        BY <2>4, <2>8, <1>4
      <3>2. e = Reschedule(ev, s, qq)
        BY <2>2
      <3> QED BY <3>1, <3>2, RescheduleFacts
    <2>10. e["resp"] = ev["resp"]
      BY <2>4, <2>9, Constants
    <2>11. /\ u \in [Reqs -> MasterStates] /\ u[r] = "granted"
           /\ \A p \in Reqs : p # r => u[p] = up[p]
      BY <2>2, <1>7
    <2>12. Types(cfg, qq, resp_queue, e, retry_owed, t, u, down, owes)
      BY <2>8, <2>9, <2>11, <1>1 DEF Types
    <2>13. Mode(cfg, qq, resp_queue, retry_owed, owes)
      BY <1>1, <1>10 DEF Mode, Par, parametric
    <2>14. Places(qq, resp_queue, u, down)
      <3>1. ASSUME NEW p \in Reqs PROVE Placed(qq, resp_queue, u, down, p)
        <4>1. Placed(q, resp_queue, up, down, p)
          BY <1>1 DEF Places
        <4>2. CASE p = r
          <5>1. \A a \in Stages : Has(qq[a], p) <=> a = s
            BY <4>2, <2>3, <2>7, <2>8, <1>5
          <5>2. p \notin down /\ ~HasR(resp_queue, p) /\ u[p] = "granted"
            BY <4>2, <2>11, <1>5
          <5> QED BY <5>1, <5>2, <2>4 DEF Placed, Stages
        <4>3. CASE p # r
          <5>1. \A a \in Stages : Has(qq[a], p) <=> Has(q[a], p)
            BY <4>3, <2>1, <2>3, <2>7, <2>8
          <5>2. u[p] = up[p]
            BY <4>3, <2>11
          <5> QED BY <5>1, <5>2, <4>1 DEF Placed, Stages
        <4> QED BY <4>2, <4>3
      <3>2. ASSUME NEW a \in Stages PROVE Distinct(qq[a])
        BY <2>7, <2>8, <1>1 DEF Places
      <3> QED BY <3>1, <3>2, <1>1 DEF Places
    <2>15. Tracks(qq, resp_queue, e, t)
      <3>1. ASSUME NEW a \in Stages, t.of # a PROVE Tracked(qq[a], e[a])
        <4>1. CASE a = s
          BY <4>1, <2>9
        <4>2. CASE a # s
          <5>1. Tracked(q[a], ev[a]) /\ e[a] = ev[a] /\ qq[a] = q[a]
            BY <4>2, <3>1, <2>8, <2>9, <1>6, Constants DEF Tracks
          <5> QED BY <5>1
        <4> QED BY <4>1, <4>2
      <3> QED BY <3>1, <2>10, <1>6 DEF Tracks
    <2>16. Spacing(cfg, qq)
      <3>1. ASSUME NEW a \in Stages PROVE Spaced(qq[a], KOf(cfg, a))
        <4>1. CASE a = s
          BY <4>1, <2>7, <2>8
        <4>2. CASE a # s
          BY <4>2, <2>8, <1>1 DEF Spacing
        <4> QED BY <4>1, <4>2
      <3> QED BY <3>1 DEF Spacing
    <2>17. Noted(retry_owed, t, u, owes)
      BY <2>11 DEF Noted, Denied
    <2>18. Gate(cfg, qq, e, retry_owed, t)
      <3>1. PICK i, j, k, l : /\ i = Len(q["fwd_src"]) /\ j = Len(q["fwd_dst"])
                              /\ k = Len(q["rev_src"]) /\ l = Len(q["rev_dst"])
        OBVIOUS
      <3>2. i \in Nat /\ j \in Nat /\ k \in Nat /\ l \in Nat
        BY <3>1, <1>4, EntryTypes DEF Stages
      <3>3. Occupancy(q) = i + j + k + l
        BY <3>1 DEF Occupancy
      <3>4. (i + 1) + j <= cfg.depth
        BY <3>2, <3>3, <1>4, <1>10
      <3>5. Len(qq["fwd_src"]) = i + 1 /\ Len(qq["fwd_dst"]) = j
        BY <3>1, <2>0, <2>1, <2>3, <2>7, <2>8 DEF Stages
      <3> QED BY <3>4, <3>5 DEF Gate
    <2> QED BY <2>0, <2>2, <2>12, <2>13, <2>14, <2>15, <2>16, <2>17, <2>18, <1>2, <1>3, Fold
  <1>11. CASE ~parametric
    <2>1. PICK st \in IoReqStatus : Relay(r, st)
      BY <1>11 DEF InReq, Admit
    <2>2. PICK dn, w, v : dn = down' /\ w = owes' /\ v = AfterReq(st)
      OBVIOUS
    <2>3. /\ u = [up EXCEPT ![r] = v] /\ dn = IF st = IO_REQ_GRANTED THEN down \cup {r} ELSE down
          /\ w = (owes \/ st = IO_REQ_DENIED) /\ q' = q /\ ev' = ev /\ retry_owed' = retry_owed
      BY <2>1, <2>2, <1>2 DEF Relay
    <2>4. /\ v \in {"idle", "granted", "denied"}
          /\ v = "granted" <=> st = IO_REQ_GRANTED
          /\ v = "denied" <=> st = IO_REQ_DENIED
      BY <2>2 DEF AfterReq, IoReqStatus, IO_REQ_DONE, IO_REQ_GRANTED, IO_REQ_DENIED
    <2>5. /\ u \in [Reqs -> MasterStates] /\ u[r] = v
          /\ \A p \in Reqs : p # r => u[p] = up[p]
      BY <2>3, <2>4, <1>7
    <2>6. w \in BOOLEAN /\ (w <=> v = "denied")
      BY <2>3, <2>4
    <2>7. dn \subseteq Reqs /\ (v = "granted" => dn = down \cup {r}) /\ (v # "granted" => dn = down)
      BY <2>3, <2>4, <1>4
    <2>8. Types(cfg, q, resp_queue, ev, retry_owed, t, u, dn, w)
      BY <2>5, <2>6, <2>7, <1>1 DEF Types
    <2>9. Mode(cfg, q, resp_queue, retry_owed, w)
      BY <1>1, <1>11 DEF Mode, Par, parametric
    <2>10. Places(q, resp_queue, u, dn)
      <3>1. CASE v = "granted"
        <4>1. ASSUME NEW p \in Reqs PROVE Placed(q, resp_queue, u, dn, p)
          <5>1. Placed(q, resp_queue, up, down, p)
            BY <1>1 DEF Places
          <5>2. CASE p = r
            <6>1. u[p] = "granted" /\ p \in dn /\ ~HasR(resp_queue, p) /\ \A a \in Stages : ~Has(q[a], p)
              BY <5>2, <3>1, <2>5, <2>7, <1>5
            <6> QED BY <6>1 DEF Placed, Stages
          <5>3. CASE p # r
            <6>1. u[p] = up[p] /\ (p \in dn <=> p \in down)
              BY <5>3, <3>1, <2>5, <2>7
            <6> QED BY <6>1, <5>1 DEF Placed
          <5> QED BY <5>2, <5>3
        <4> QED BY <4>1, <1>1 DEF Places
      <3>2. CASE v # "granted"
        <4>1. v \in {"idle", "denied"} /\ dn = down /\ u = [up EXCEPT ![r] = v]
          BY <3>2, <2>3, <2>4, <2>7
        <4> QED BY <4>1, <1>8
      <3> QED BY <3>1, <3>2
    <2>11. Noted(retry_owed, t, u, w)
      <3>1. Denied(u) <=> v = "denied"
        BY <2>5 DEF Denied
      <3>2. \A p, n \in Reqs : u[p] = "denied" /\ u[n] = "denied" => p = n
        BY <2>5
      <3> QED BY <3>1, <3>2, <2>6 DEF Noted
    <2>12. Gate(cfg, q, ev, retry_owed, t)
      BY <1>1 DEF Gate
    <2> QED BY <2>2, <2>3, <2>8, <2>9, <2>10, <2>11, <2>12, <1>1, <1>2, <1>3, <1>6, Fold
  <1> QED BY <1>9, <1>10, <1>11

LEMMA MasterReqInv ==
    ASSUME IInv, NEW r \in Reqs, MasterReq(r)
    PROVE  IInv'
  <1>1. /\ Types(cfg, q, resp_queue, ev, retry_owed, ctl, up, down, owes)
        /\ CtlShape(ctl) /\ Noted(retry_owed, ctl, up, owes)
    BY Unfold
  <1>2. /\ ctl.pc # "retry" /\ up[r] = "idle" /\ \A p \in Reqs : up[p] # "denied"
        /\ InReq(r) /\ ctl' = ctl
    BY DEF MasterReq, NoneDenied
  <1>3. ~Denied(up)
    BY <1>2 DEF Denied
  <1>4. ~retry_owed /\ ~owes
    BY <1>1, <1>2, <1>3 DEF Noted
  <1>5. ctl \in Controls
    BY <1>1 DEF Types
  <1> QED BY <1>1, <1>2, <1>4, <1>5, InReqInv

LEMMA MasterReissueInv ==
    ASSUME IInv, NEW r \in Reqs, MasterReissue(r)
    PROVE  IInv'
  <1>1. /\ Types(cfg, q, resp_queue, ev, retry_owed, ctl, up, down, owes)
        /\ CtlShape(ctl) /\ Noted(retry_owed, ctl, up, owes)
    BY Unfold
  <1>2. PICK t : t = ctl'
    OBVIOUS
  <1>3. ctl.pc = "retry" /\ up[r] = "denied" /\ InReq(r) /\ t = [ctl EXCEPT !.pc = "retried"]
    BY <1>2 DEF MasterReissue
  <1>4. ctl \in Controls
    BY <1>1 DEF Types
  <1>5. t \in Controls /\ t.pc = "retried" /\ t.of = ctl.of
    BY <1>3, <1>4 DEF Controls
  <1>6. CtlShape(t)
    BY <1>1, <1>3, <1>5 DEF CtlShape
  <1>7. ~retry_owed /\ ~owes /\ \A p \in Reqs : p # r => up[p] # "denied"
    BY <1>1, <1>3 DEF Noted
  <1> QED BY <1>2, <1>3, <1>5, <1>6, <1>7, InReqInv

-----------------------------------------------------------------------------
LEMMA NextInv ==
    ASSUME IInv, [Next]_vars
    PROVE  IInv'
  <1>1. ASSUME NEW r \in Reqs, MasterReq(r) \/ MasterReissue(r) \/ OutResp(r) \/ SlaveFrees(r)
        PROVE  IInv'
    BY <1>1, MasterReqInv, MasterReissueInv, OutRespInv, SlaveFreesInv
  <1>2. CASE FwdSrcDone
    <2>1. Cross("fwd_src", "fwd_dst") /\ "fwd_src" \in Stages /\ "fwd_dst" \in Stages
      BY <1>2 DEF FwdSrcDone, Stages
    <2> QED BY <2>1, CrossInv
  <1>3. CASE RevSrcDone
    <2>1. Cross("rev_src", "rev_dst") /\ "rev_src" \in Stages /\ "rev_dst" \in Stages
      BY <1>3 DEF RevSrcDone, Stages
    <2> QED BY <2>1, CrossInv
  <1>4. CASE RevDstDone
    BY <1>4, RevDstDoneInv
  <1>5. CASE RespEvent
    BY <1>5, RespEventInv
  <1>6. ASSUME NEW Done \in SUBSET Reqs, FwdDstDone(Done)
        PROVE  IInv'
    BY <1>6, FwdDstDoneInv
  <1>7. CASE OutRetry
    BY <1>7, OutRetryInv
  <1>8. CASE RetryEvent
    BY <1>8, RetryEventInv
  <1>9. CASE RetryReturns
    BY <1>9, RetryReturnsInv
  <1>10. CASE Tick(MasterSide) \/ Tick(SlaveSide)
    BY <1>10, TickInv
  <1>11. CASE Reset
    BY <1>11, ResetInv
  <1>12. CASE UNCHANGED vars
    BY <1>12, StutterInv
  <1> QED
    BY <1>1, <1>2, <1>3, <1>4, <1>5, <1>6, <1>7, <1>8, <1>9, <1>10, <1>11, <1>12 DEF Next

LEMMA InvHolds == Spec => []IInv
  <1>1. Init => IInv
    BY InitInv
  <1>2. IInv /\ [Next]_vars => IInv'
    BY NextInv
  <1> QED BY <1>1, <1>2, PTL DEF Spec

(* Every variable of the bridge keeps its type, and the stages are used    *)
(* with a latency only, resp_queue without one only.                       *)
THEOREM BridgeTypeCorrect == Spec => []TypeOK
  BY InvHolds, TypesFollow, PTL

(* A granted request is in one place, once, from in_req_handler to its     *)
(* response or to its release, however the two clocks interleave.          *)
THEOREM BridgeOnePlaceTheorem == Spec => []OnePlace
  BY InvHolds, PlaceFollows, PTL

(* reschedule_event keeps the event of each stage at the deadline of its   *)
(* head, and enqueue_in keeps the deadlines of a stage apart and bounded.  *)
THEOREM EventTheorem == Spec => []EventTracksHead
  BY InvHolds, EventFollows, PTL

(* A refused request is owed a retry() that somebody is left to give:      *)
(* schedule_retry and maybe_retry lose no opening of the accept window.    *)
THEOREM DepthGateTheorem == Spec => []DepthGate
  BY InvHolds, GateFollows, PTL
=============================================================================
