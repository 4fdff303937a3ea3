--------------------------- MODULE LimiterV2Proofs ---------------------------
(***************************************************************************)
(* The safety of the bandwidth limiter, for any requests, sizes and        *)
(* bandwidth.                                                              *)
(***************************************************************************)
EXTENDS LimiterV2, FiniteSetTheorems, TLAPS

(* What is in emission or in a chunk belongs to a granted request, and     *)
(* neither an emission nor a request is ever empty.                        *)
NothingStale ==
    /\ pending_req # None => up[pending_req] = "granted" /\ pending_size > 0
    /\ denied_sub # None => up[denied_sub.parent] = "granted" /\ denied_sub.fill = 0
    /\ denied_sub \notin out
    /\ \A c \in out : up[c.parent] = "granted"
    /\ \A r \in Reqs : up[r] = "denied" => size[r] > 0

(* A replay and an emission may share a cycle, two emissions may not: one  *)
(* needs an event due now, and only the next cycle brings another one.     *)
Pace == sent + (IF denied_sub # None THEN 1 ELSE 0) + (IF event = "now" THEN 1 ELSE 0) <= 2

OneDenied == \A p, r \in Reqs : up[p] = "denied" /\ up[r] = "denied" => p = r

(* Who is left to re-arm the event and to fire the retry() that is owed,   *)
(* inside a handler too.                                                   *)
Movers ==
    /\ ctl.k = "end" /\ pending_req # None => event # "off" \/ denied_sub # None
    /\ input_needs_retry => /\ \E r \in Reqs : up[r] = "denied"
                            /\ ctl.pc # "resp" => \E r \in Reqs : up[r] = "granted"
                            /\ ctl.pc # "retry"
    /\ ctl.pc = "idle" => ctl.k = "end"

IInv == /\ TypeOK /\ EveryByteAccounted /\ NoLostWakeup
        /\ NothingStale /\ Pace /\ OneDenied /\ Movers

-----------------------------------------------------------------------------
(***************************************************************************)
(* The bytes of one request, apart from the variables they are kept in:    *)
(* n bytes of which those of F are answered, those of E are still to be    *)
(* emitted, and the others are in the chunks C.                            *)
(***************************************************************************)
Tiles(n, F, E, C) ==
    /\ \A b : b \in 0 .. (n - 1) <=> b \in F \/ b \in E \/ \E c \in C : b \in Unanswered(c)
    /\ \A b \in F : b \notin E
    /\ \A c \in C : \A b \in Unanswered(c) : b \notin F /\ b \notin E
    /\ \A c, d \in C : c # d => \A b \in Unanswered(c) : b \notin Unanswered(d)

Owed(n, m, F, E, C) == m = n - Cardinality(F) /\ m > 0 /\ Tiles(n, F, E, C)

Emitting(r, q, a, p) == IF q = r THEN a .. (a + p - 1) ELSE {}
Open(r, o, d) == {c \in o \cup ({d} \ {None}) : c.parent = r}

LEMMA TilesNow ==
    ASSUME NEW r
    PROVE  UnansweredBytes(r) <=>
             (up[r] = "granted" =>
                Owed(size[r], remaining_size[r], filled[r],
                     Emitting(r, pending_req, pending_addr, pending_size),
                     Open(r, out, denied_sub)))
  <1> DEFINE F == filled[r]
             E == InEmission(r)
             C == OpenOf(r)
             n == size[r]
  <1>1. E = Emitting(r, pending_req, pending_addr, pending_size) /\ C = Open(r, out, denied_sub)
    BY DEF InEmission, Emitting, OpenOf, Open
  <1>2. (/\ 0 .. (n - 1) = F \cup E \cup UNION {Unanswered(c) : c \in C}
         /\ F \cap E = {}
         /\ \A c \in C : /\ Unanswered(c) \cap (F \cup E) = {}
                         /\ \A d \in C \ {c} : Unanswered(c) \cap Unanswered(d) = {})
        <=> Tiles(n, F, E, C)
    <2> HIDE DEF F, E, C, n
    <2>1. (0 .. (n - 1) = F \cup E \cup UNION {Unanswered(c) : c \in C}) <=>
          (\A b : b \in 0 .. (n - 1) <=>
                    b \in F \/ b \in E \/ \E c \in C : b \in Unanswered(c))
      OBVIOUS
    <2>2. (F \cap E = {}) <=> \A b \in F : b \notin E
      OBVIOUS
    <2>3. ASSUME NEW c \in C
          PROVE  /\ (Unanswered(c) \cap (F \cup E) = {}) <=>
                       \A b \in Unanswered(c) : b \notin F /\ b \notin E
                 /\ \A d : (Unanswered(c) \cap Unanswered(d) = {}) <=>
                       \A b \in Unanswered(c) : b \notin Unanswered(d)
      OBVIOUS
    <2> QED BY <2>1, <2>2, <2>3 DEF Tiles
  <1> HIDE DEF E, C
  <1> QED BY <1>1, <1>2 DEF UnansweredBytes, Owed, E, C

(* The same, after a step. *)
LEMMA TilesNext ==
    ASSUME NEW r
    PROVE  UnansweredBytes(r)' <=>
             (up'[r] = "granted" =>
                Owed(size'[r], remaining_size'[r], filled'[r],
                     Emitting(r, pending_req', pending_addr', pending_size'),
                     Open(r, out', denied_sub')))
  <1> DEFINE F == filled'[r]
             E == Emitting(r, pending_req', pending_addr', pending_size')
             C == Open(r, out', denied_sub')
             n == size'[r]
  <1>2. (/\ 0 .. (n - 1) = F \cup E \cup UNION {Unanswered(c) : c \in C}
         /\ F \cap E = {}
         /\ \A c \in C : /\ Unanswered(c) \cap (F \cup E) = {}
                         /\ \A d \in C \ {c} : Unanswered(c) \cap Unanswered(d) = {})
        <=> Tiles(n, F, E, C)
    <2> HIDE DEF F, E, C, n
    <2>1. (0 .. (n - 1) = F \cup E \cup UNION {Unanswered(c) : c \in C}) <=>
          (\A b : b \in 0 .. (n - 1) <=>
                    b \in F \/ b \in E \/ \E c \in C : b \in Unanswered(c))
      OBVIOUS
    <2>2. (F \cap E = {}) <=> \A b \in F : b \notin E
      OBVIOUS
    <2>3. ASSUME NEW c \in C
          PROVE  /\ (Unanswered(c) \cap (F \cup E) = {}) <=>
                       \A b \in Unanswered(c) : b \notin F /\ b \notin E
                 /\ \A d : (Unanswered(c) \cap Unanswered(d) = {}) <=>
                       \A b \in Unanswered(c) : b \notin Unanswered(d)
      OBVIOUS
    <2> QED BY <2>1, <2>2, <2>3 DEF Tiles
  <1> QED BY <1>2 DEF UnansweredBytes, Owed, InEmission, OpenOf, Emitting, Open, Unanswered

-----------------------------------------------------------------------------
(* Cutting a chunk moves its bytes from the emission to the chunks. *)
LEMMA CutTiles ==
    ASSUME NEW n, NEW F, NEW E, NEW C, NEW G, NEW c, Tiles(n, F, E, C),
           \A b : b \in E <=> b \in Unanswered(c) \/ b \in G,
           \A b \in Unanswered(c) : b \notin G
    PROVE  Tiles(n, F, G, C \cup {c})
  BY DEF Tiles

(* A chunk answered inline moves its bytes from the emission to the answers. *)
LEMMA InlineTiles ==
    ASSUME NEW n, NEW F, NEW E, NEW C, NEW G, NEW X, Tiles(n, F, E, C),
           \A b : b \in E <=> b \in X \/ b \in G,
           \A b \in X : b \notin G
    PROVE  /\ Tiles(n, F \cup X, G, C)
           /\ \A b \in X : b \notin F
  BY DEF Tiles

(* A beat moves its bytes from a chunk to the answers, the last one too. *)
LEMMA BeatTiles ==
    ASSUME NEW n, NEW F, NEW E, NEW C, NEW c \in C, NEW R, NEW X, Tiles(n, F, E, C),
           \A b : b \in Unanswered(c) <=> b \in X \/ \E d \in R : b \in Unanswered(d),
           \A d \in R : \A b \in Unanswered(d) : b \notin X,
           \A d, e \in R : d = e
    PROVE  /\ Tiles(n, F \cup X, E, (C \ {c}) \cup R)
           /\ \A b \in X : b \notin F
  BY DEF Tiles

-----------------------------------------------------------------------------
LEMMA CountBelow ==
    ASSUME NEW n \in Nat
    PROVE  IsFiniteSet(0 .. (n - 1)) /\ Cardinality(0 .. (n - 1)) = n
  BY FS_Interval

(* Answering the bytes of X, all of N and none of them in F, counts them. *)
LEMMA AnsweredCount ==
    ASSUME NEW N, IsFiniteSet(N), NEW F, F \subseteq N, NEW X, X \subseteq N, F \cap X = {}
    PROVE  /\ Cardinality(F) \in Nat
           /\ Cardinality(F \cup X) = Cardinality(F) + Cardinality(X)
           /\ Cardinality(F \cup X) <= Cardinality(N)
           /\ Cardinality(F \cup X) = Cardinality(N) => F \cup X = N
  <1>1. /\ IsFiniteSet(F) /\ Cardinality(F) \in Nat
        /\ IsFiniteSet(X) /\ Cardinality(X) \in Nat
    BY FS_Subset, FS_CardinalityType
  <1>2. Cardinality(F \cup X) = Cardinality(F) + Cardinality(X) - Cardinality(F \cap X)
    BY <1>1, FS_Union
  <1>3. Cardinality(F \cap X) = 0
    BY FS_EmptySet
  <1>4. F \cup X \subseteq N
    OBVIOUS
  <1>5. /\ Cardinality(F \cup X) <= Cardinality(N)
        /\ Cardinality(F \cup X) = Cardinality(N) => F \cup X = N
    BY <1>4, FS_Subset
  <1> QED BY <1>1, <1>2, <1>3, <1>5

(* What the pacing bound says of the chunks of a cycle. *)
LEMMA PaceBound ==
    ASSUME IInv
    PROVE  sent \in 0 .. 2
  <1>1. sent \in Nat /\ Pace
    BY DEF IInv, TypeOK
  <1> QED BY <1>1 DEF Pace

(* The bytes of the next chunk: some, and no more than there are. *)
LEMMA ChunkSizeFacts ==
    ASSUME pending_size \in Nat, pending_size > 0
    PROVE  /\ ChunkSize \in 1 .. Bandwidth
           /\ ChunkSize <= pending_size
  <1>1. ASSUME NEW a \in Nat, NEW b \in Nat PROVE Min({a, b}) = IF a <= b THEN a ELSE b
    BY DEF Min
  <1> QED BY <1>1, LimiterAssumption DEF ChunkSize

-----------------------------------------------------------------------------
Data == TypeOK /\ EveryByteAccounted /\ NothingStale

CtlType == [pc : {"idle", "resp", "retry", "retried", "tail"}, k : {"event", "retry", "end"}]

(* A request whose bytes nobody touches keeps its account. *)
LEMMA OtherBytes ==
    ASSUME NEW q, UnansweredBytes(q), up'[q] = up[q], size'[q] = size[q],
           remaining_size'[q] = remaining_size[q], filled'[q] = filled[q],
           Emitting(q, pending_req', pending_addr', pending_size') =
               Emitting(q, pending_req, pending_addr, pending_size),
           Open(q, out', denied_sub') = Open(q, out, denied_sub)
    PROVE  UnansweredBytes(q)'
  BY TilesNow, TilesNext

(* finish_chunk and check_last_chunk: the parent keeps its account, or has *)
(* every byte answered and nothing left in emission or in a chunk.         *)
Finished(r, k, E, C) ==
    /\ remaining_size' \in [Reqs -> Nat] /\ filled' \in [Reqs -> SUBSET Nat]
    /\ \A q \in Reqs \ {r} : remaining_size'[q] = remaining_size[q] /\ filled'[q] = filled[q]
    /\ \/ /\ up' = up /\ ctl' = [pc |-> "tail", k |-> k]
          /\ Owed(size[r], remaining_size'[r], filled'[r], E, C)
       \/ /\ up' = [up EXCEPT ![r] = "idle"] /\ ctl' = [pc |-> "resp", k |-> k]
          /\ filled'[r] = 0 .. (size[r] - 1)
          /\ \A b : b \notin E
          /\ \A d \in C : \A b : b \notin Unanswered(d)

LEMMA FinishFacts ==
    ASSUME TypeOK, NEW r \in Reqs, UnansweredBytes(r), up[r] = "granted",
           NEW c, NEW m \in Nat \ {0}, NEW k, c.parent = r, c.off + c.fill \in Nat,
           FinishChunk(c, m, k),
           NEW E, NEW C, Tiles(size[r], filled[r] \cup Bytes(c, m), E, C),
           \A b \in Bytes(c, m) : b \notin filled[r]
    PROVE  Finished(r, k, E, C)
  <1>0. PICK X : X = Bytes(c, m)
    OBVIOUS
  <1>1. PICK i : i = c.off + c.fill
    OBVIOUS
  <1>2. i \in Nat /\ i + m \in Nat /\ i < i + m /\ X = i .. ((i + m) - 1)
    BY <1>0, <1>1 DEF Bytes
  <1>3. /\ size[r] \in Nat /\ remaining_size[r] \in Nat /\ filled[r] \subseteq Nat
        /\ remaining_size \in [Reqs -> Nat] /\ filled \in [Reqs -> SUBSET Nat]
        /\ up \in [Reqs -> MasterStates]
    BY DEF TypeOK
  <1>4. remaining_size[r] = size[r] - Cardinality(filled[r]) /\ remaining_size[r] > 0
    BY TilesNow DEF Owed
  <1>5. Tiles(size[r], filled[r] \cup X, E, C)
    BY <1>0
  <1>6. \A b \in filled[r] \cup X : b \in 0 .. (size[r] - 1)
    BY <1>5 DEF Tiles
  <1>7. /\ Cardinality(filled[r]) \in Nat
        /\ Cardinality(filled[r] \cup X) = Cardinality(filled[r]) + m
        /\ Cardinality(filled[r] \cup X) <= size[r]
        /\ Cardinality(filled[r] \cup X) = size[r] => filled[r] \cup X = 0 .. (size[r] - 1)
    <2>1. PICK N : N = 0 .. (size[r] - 1)
      OBVIOUS
    <2>2. filled[r] \subseteq N /\ X \subseteq N
      BY <1>6, <2>1
    <2>3. filled[r] \cap X = {}
      BY <1>0
    <2>4. /\ IsFiniteSet(N) /\ Cardinality(N) = size[r]
          /\ Cardinality(X) = m
      <3>1. IsFiniteSet(N) /\ Cardinality(N) = size[r]
        BY <2>1, <1>3, CountBelow
      <3>2. i \in Int /\ (i + m) - 1 \in Int /\ ~(i > (i + m) - 1)
        BY <1>2
      <3>3. Cardinality(i .. ((i + m) - 1)) = ((i + m) - 1) - i + 1
        BY <3>2, FS_Interval
      <3> QED BY <1>2, <3>1, <3>3
    <2>5. /\ Cardinality(filled[r]) \in Nat
          /\ Cardinality(filled[r] \cup X) = Cardinality(filled[r]) + Cardinality(X)
          /\ Cardinality(filled[r] \cup X) <= Cardinality(N)
          /\ Cardinality(filled[r] \cup X) = Cardinality(N) => filled[r] \cup X = N
      BY <2>2, <2>3, <2>4, AnsweredCount
    <2> QED BY <2>1, <2>4, <2>5
  <1>8. /\ remaining_size' = [remaining_size EXCEPT ![r] = @ - m]
        /\ filled' = [filled EXCEPT ![r] = @ \cup X]
    BY <1>0 DEF FinishChunk
  <1>9. remaining_size'[r] = remaining_size[r] - m /\ filled'[r] = filled[r] \cup X
    BY <1>8, <1>3
  <1>10. X \subseteq Nat
    BY <1>2
  <1>11. remaining_size' \in [Reqs -> Nat]
    <2>1. remaining_size[r] - m \in Nat
      BY <1>3, <1>4, <1>7
    <2> QED BY <2>1, <1>3, <1>8
  <1>12. filled' \in [Reqs -> SUBSET Nat]
    BY <1>3, <1>8, <1>10
  <1>13. \A q \in Reqs \ {r} : remaining_size'[q] = remaining_size[q] /\ filled'[q] = filled[q]
    BY <1>3, <1>8
  <1>14. CASE remaining_size[r] = m
    <2>1. up' = [up EXCEPT ![r] = AfterResp(@)] /\ ctl' = [pc |-> "resp", k |-> k]
      BY <1>14 DEF FinishChunk
    <2>2. up' = [up EXCEPT ![r] = "idle"]
      BY <2>1, <1>3 DEF AfterResp
    <2>3. Cardinality(filled[r] \cup X) = size[r]
      BY <1>14, <1>4, <1>7, <1>3
    <2>4. filled[r] \cup X = 0 .. (size[r] - 1)
      BY <2>3, <1>7
    <2>5. (\A b : b \notin E) /\ \A d \in C : \A b : b \notin Unanswered(d)
      <3>1. \A b \in E : b \in 0 .. (size[r] - 1) /\ b \notin filled[r] \cup X
        BY <1>5 DEF Tiles
      <3>2. \A d \in C : \A b \in Unanswered(d) :
                b \in 0 .. (size[r] - 1) /\ b \notin filled[r] \cup X
        BY <1>5 DEF Tiles
      <3> QED BY <2>4, <3>1, <3>2
    <2> QED BY <2>1, <2>2, <2>4, <2>5, <1>9, <1>11, <1>12, <1>13 DEF Finished
  <1>15. CASE remaining_size[r] # m
    <2>1. up' = up /\ ctl' = [pc |-> "tail", k |-> k]
      BY <1>15 DEF FinishChunk
    <2>2. /\ remaining_size[r] - m = size[r] - Cardinality(filled[r] \cup X)
          /\ remaining_size[r] - m > 0
      BY <1>15, <1>3, <1>4, <1>7
    <2>3. Owed(size[r], remaining_size'[r], filled'[r], E, C)
      BY <2>2, <1>5, <1>9 DEF Owed
    <2> QED BY <2>1, <2>3, <1>11, <1>12, <1>13 DEF Finished
  <1> QED BY <1>14, <1>15

(* What the tails of the handlers and the clock leave alone. *)
LEMMA QuietData ==
    ASSUME Data,
           UNCHANGED <<emission, denied_sub, remaining_size, up, size, out, taken, filled>>,
           input_needs_retry' \in BOOLEAN, event' \in {"off", "next", "now"},
           next_req_timestamp' \in {0, 1}, ctl' \in CtlType, sent' \in Nat
    PROVE  Data'
  <1>1. TypeOK'
    BY DEF Data, TypeOK, emission, CtlType
  <1>2. NothingStale'
    BY DEF Data, NothingStale, emission
  <1>3. ChunksInOrder'
    BY DEF Data, EveryByteAccounted, ChunksInOrder, DeniedOf, emission
  <1>4. ASSUME NEW r \in Reqs PROVE UnansweredBytes(r)' /\ AnswerIsComplete(r)'
    <2>1. UnansweredBytes(r) /\ AnswerIsComplete(r)
      BY DEF Data, EveryByteAccounted
    <2>2. UnansweredBytes(r)'
      BY <2>1, OtherBytes DEF emission
    <2> QED BY <2>1, <2>2 DEF AnswerIsComplete
  <1> QED BY <1>1, <1>2, <1>3, <1>4 DEF Data, EveryByteAccounted

(* A fresh, a re-issued and a refused request. *)
LEMMA InputData ==
    ASSUME Data, NEW r \in Reqs, up[r] \in {"idle", "denied"}, NEW s \in Nat \ {0},
           InputReq(r, s), size' = [size EXCEPT ![r] = s], ctl' \in CtlType,
           UNCHANGED <<denied_sub, next_req_timestamp, out, sent>>
    PROVE  Data'
  <1>0. /\ up \in [Reqs -> MasterStates] /\ size \in [Reqs -> Nat]
        /\ taken \in [Reqs -> Nat] /\ filled \in [Reqs -> SUBSET Nat]
        /\ remaining_size \in [Reqs -> Nat] /\ pending_req \in Reqs \cup {None}
        /\ denied_sub \in Chunks \cup {None} /\ out \subseteq Chunks
    BY DEF Data, TypeOK
  <1>1. /\ NothingStale /\ ChunksInOrder
        /\ \A q \in Reqs : UnansweredBytes(q) /\ AnswerIsComplete(q)
    BY DEF Data, EveryByteAccounted
  <1>2. /\ pending_req # r
        /\ denied_sub # None => denied_sub.parent # r
        /\ \A c \in out : c.parent # r
    BY <1>0, <1>1, LimiterAssumption DEF NothingStale
  <1>3. Open(r, out', denied_sub') = {}
    BY <1>2 DEF Open
  <1>4. \A c \in Chunks : c.parent \in Reqs
    BY DEF Chunks
  <1>5. size'[r] = s /\ \A q \in Reqs \ {r} : size'[q] = size[q]
    BY <1>0
  <1>6. CASE pending_req # None
    <2>1. /\ up' = [up EXCEPT ![r] = "denied"] /\ input_needs_retry' = TRUE
          /\ UNCHANGED <<emission, event, remaining_size, taken, filled>>
      BY <1>6 DEF InputReq
    <2>2. up'[r] = "denied" /\ \A q \in Reqs \ {r} : up'[q] = up[q]
      BY <2>1, <1>0
    <2>3. TypeOK'
      BY <2>1, <1>0 DEF Data, TypeOK, emission, CtlType, MasterStates
    <2>4. NothingStale'
      BY <2>1, <2>2, <1>0, <1>1, <1>2, <1>4, <1>5 DEF NothingStale, emission
    <2>5. ChunksInOrder'
      BY <2>1, <1>0, <1>1, <1>2, <1>5 DEF ChunksInOrder, DeniedOf, emission
    <2>6. ASSUME NEW q \in Reqs PROVE UnansweredBytes(q)' /\ AnswerIsComplete(q)'
      <3>1. CASE q = r
        BY <3>1, <2>2, TilesNext DEF AnswerIsComplete
      <3>2. CASE q # r
        <4>1. UnansweredBytes(q)'
          BY <3>2, <2>1, <2>2, <1>1, <1>5, OtherBytes DEF emission
        <4> QED BY <4>1, <3>2, <2>1, <2>2, <1>1, <1>5 DEF AnswerIsComplete
      <3> QED BY <3>1, <3>2
    <2> QED BY <2>3, <2>4, <2>5, <2>6 DEF Data, EveryByteAccounted
  <1>7. CASE pending_req = None
    <2>1. /\ pending_req' = r /\ pending_size' = s /\ pending_addr' = 0
          /\ remaining_size' = [remaining_size EXCEPT ![r] = s]
          /\ event' = Enqueued(event)
          /\ up' = [up EXCEPT ![r] = "granted"]
          /\ taken' = [taken EXCEPT ![r] = 0]
          /\ filled' = [filled EXCEPT ![r] = {}]
          /\ UNCHANGED input_needs_retry
      BY <1>7 DEF InputReq
    <2>2. /\ up'[r] = "granted" /\ taken'[r] = 0 /\ filled'[r] = {} /\ remaining_size'[r] = s
          /\ \A q \in Reqs \ {r} : /\ up'[q] = up[q] /\ taken'[q] = taken[q]
                                   /\ filled'[q] = filled[q]
                                   /\ remaining_size'[q] = remaining_size[q]
      BY <2>1, <1>0
    <2>3. TypeOK'
      BY <2>1, <1>0 DEF Data, TypeOK, CtlType, MasterStates, Enqueued
    <2>4. NothingStale'
      BY <2>1, <2>2, <1>0, <1>1, <1>2, <1>4, <1>5 DEF NothingStale
    <2>5. ChunksInOrder'
      <3>1. DeniedOf(r)' = 0
        BY <1>2 DEF DeniedOf
      <3>2. pending_addr' = taken'[pending_req'] + DeniedOf(r)'
        BY <2>1, <2>2, <3>1
      <3>3. pending_addr' + pending_size' = size'[pending_req']
        BY <2>1, <1>5
      <3>4. denied_sub' # None =>
              /\ denied_sub'.off = taken'[denied_sub'.parent]
              /\ \A q \in Reqs \ {denied_sub'.parent} : pending_req' = q => taken'[q] = 0
        BY <2>1, <2>2, <1>0, <1>1, <1>2, <1>4 DEF ChunksInOrder
      <3> QED BY <2>1, <3>2, <3>3, <3>4 DEF ChunksInOrder, DeniedOf
    <2>6. ASSUME NEW q \in Reqs PROVE UnansweredBytes(q)' /\ AnswerIsComplete(q)'
      <3>1. CASE q = r
        <4>1. Emitting(r, pending_req', pending_addr', pending_size') = 0 .. (s - 1)
          BY <2>1 DEF Emitting
        <4>2. Tiles(s, {}, 0 .. (s - 1), {})
          BY DEF Tiles
        <4>3. s = s - Cardinality({})
          BY FS_EmptySet
        <4>4. Owed(s, s, {}, 0 .. (s - 1), {})
          BY <4>2, <4>3 DEF Owed
        <4>5. UnansweredBytes(r)'
          BY <4>1, <4>4, <1>3, <1>5, <2>2, TilesNext
        <4> QED BY <4>5, <3>1, <2>2 DEF AnswerIsComplete
      <3>2. CASE q # r
        <4>1. Emitting(q, pending_req', pending_addr', pending_size') =
              Emitting(q, pending_req, pending_addr, pending_size)
          BY <3>2, <1>7, <2>1, LimiterAssumption DEF Emitting
        <4>2. UnansweredBytes(q)'
          BY <4>1, <3>2, <2>2, <1>1, <1>5, OtherBytes
        <4> QED BY <4>2, <3>2, <2>2, <1>1, <1>5 DEF AnswerIsComplete
      <3> QED BY <3>1, <3>2
    <2> QED BY <2>3, <2>4, <2>5, <2>6 DEF Data, EveryByteAccounted
  <1> QED BY <1>6, <1>7

-----------------------------------------------------------------------------
(* event_handler up to the call of the output: the chunk is the next bytes *)
(* of the emission, and the emission ends with its last one.               *)
Cut(c) ==
    /\ ~NothingToSend
    /\ c = [parent |-> pending_req, off |-> pending_addr, size |-> ChunkSize, fill |-> 0]
    /\ pending_addr' = pending_addr + ChunkSize
    /\ pending_size' = pending_size - ChunkSize
    /\ pending_req' = IF pending_size = ChunkSize THEN None ELSE pending_req

LEMMA CutFacts ==
    ASSUME Data, NEW c, Cut(c)
    PROVE  /\ c \in Chunks /\ c \notin out /\ c # None /\ denied_sub = None
           /\ c.parent = pending_req /\ c.fill = 0
           /\ c.size = ChunkSize /\ ChunkSize \in Nat \ {0}
           /\ pending_req \in Reqs /\ up[pending_req] = "granted"
           /\ c.off = taken[pending_req]
           /\ pending_req' \in {pending_req, None} /\ pending_size' \in Nat /\ pending_addr' \in Nat
           /\ pending_req' # None =>
                 /\ pending_size' > 0
                 /\ pending_addr' = taken[pending_req] + c.size
                 /\ pending_addr' + pending_size' = size[pending_req]
           /\ Unanswered(c) = Bytes(c, c.size)
           /\ \A b : b \in Emitting(pending_req, pending_req, pending_addr, pending_size) <=>
                        \/ b \in Unanswered(c)
                        \/ b \in Emitting(pending_req, pending_req', pending_addr', pending_size')
           /\ \A b \in Unanswered(c) :
                        b \notin Emitting(pending_req, pending_req', pending_addr', pending_size')
           /\ \A q \in Reqs \ {pending_req} :
                 Emitting(q, pending_req', pending_addr', pending_size') =
                 Emitting(q, pending_req, pending_addr, pending_size)
  <1>0. PICK r, a, p, k : r = pending_req /\ a = pending_addr /\ p = pending_size /\ k = ChunkSize
    OBVIOUS
  <1>1. r \in Reqs /\ a \in Nat /\ p \in Nat /\ p > 0 /\ denied_sub = None /\ r # None
    BY <1>0, LimiterAssumption DEF Data, TypeOK, Cut, NothingToSend
  <1>2. k \in 1 .. Bandwidth /\ k \in Nat \ {0} /\ k <= p
    BY <1>0, <1>1, ChunkSizeFacts, LimiterAssumption
  <1>3. c = [parent |-> r, off |-> a, size |-> k, fill |-> 0]
    BY <1>0 DEF Cut
  <1>4. c.parent = r /\ c.off = a /\ c.size = k /\ c.fill = 0
    BY <1>3
  <1>5. c \in Chunks
    BY <1>1, <1>2, <1>3, LimiterAssumption DEF Chunks
  <1>6. c # None
    BY <1>5, LimiterAssumption
  <1>7. pending_addr' = a + k /\ pending_size' = p - k /\ pending_req' = IF p = k THEN None ELSE r
    BY <1>0 DEF Cut
  <1>8. ChunksInOrder /\ NothingStale /\ UnansweredBytes(r) /\ out \subseteq Chunks
    BY <1>1 DEF Data, EveryByteAccounted, TypeOK
  <1>9. up[r] = "granted"
    BY <1>0, <1>1, <1>8 DEF NothingStale
  <1>10. DeniedOf(r) = 0
    BY <1>1 DEF DeniedOf
  <1>11. a = taken[r] /\ a + p = size[r]
    BY <1>0, <1>1, <1>8, <1>10 DEF ChunksInOrder, Data, TypeOK
  <1>12. Unanswered(c) = a .. (a + k - 1) /\ Bytes(c, c.size) = a .. (a + k - 1)
    BY <1>1, <1>2, <1>4 DEF Unanswered, Bytes
  <1>13. Emitting(r, r, a, p) = a .. (a + p - 1)
    BY DEF Emitting
  <1>14. Emitting(r, pending_req', pending_addr', pending_size') = (a + k) .. (a + p - 1)
    <2>1. CASE p = k
      BY <2>1, <1>1, <1>2, <1>7 DEF Emitting
    <2>2. CASE p # k
      BY <2>2, <1>1, <1>2, <1>7 DEF Emitting
    <2> QED BY <2>1, <2>2
  <1>15. /\ \A b : b \in a .. (a + p - 1) <=> b \in a .. (a + k - 1) \/ b \in (a + k) .. (a + p - 1)
         /\ \A b \in a .. (a + k - 1) : b \notin (a + k) .. (a + p - 1)
    BY <1>1, <1>2
  <1>16. c \notin out
    <2> SUFFICES ASSUME c \in out PROVE FALSE
      OBVIOUS
    <2>1. c \in Open(r, out, denied_sub)
      BY <1>4, <1>5, <1>6 DEF Open
    <2>2. Tiles(size[r], filled[r], Emitting(r, pending_req, pending_addr, pending_size),
                Open(r, out, denied_sub))
      BY <1>8, <1>9, TilesNow DEF Owed
    <2>3. \A b \in Unanswered(c) : b \notin a .. (a + p - 1)
      BY <2>1, <2>2, <1>13, <1>0 DEF Tiles
    <2>4. a \in Unanswered(c) /\ a \in a .. (a + p - 1)
      BY <1>1, <1>2, <1>12
    <2> QED BY <2>3, <2>4
  <1>17. /\ pending_req' \in {r, None} /\ pending_size' \in Nat /\ pending_addr' \in Nat
         /\ pending_req' # None =>
               pending_size' > 0 /\ pending_addr' = taken[r] + c.size
                 /\ pending_addr' + pending_size' = size[r]
    BY <1>1, <1>2, <1>4, <1>7, <1>11
  <1>18. \A q \in Reqs \ {r} :
            Emitting(q, pending_req', pending_addr', pending_size') = Emitting(q, r, a, p)
    BY <1>17, LimiterAssumption DEF Emitting
  <1>19. c.off = taken[r] /\ c.size = ChunkSize /\ ChunkSize \in Nat \ {0}
    BY <1>0, <1>2, <1>4, <1>11
  <1>20. /\ \A b : b \in Emitting(r, r, a, p) <=>
                     \/ b \in Unanswered(c)
                     \/ b \in Emitting(r, pending_req', pending_addr', pending_size')
         /\ \A b \in Unanswered(c) : b \notin Emitting(r, pending_req', pending_addr', pending_size')
         /\ Unanswered(c) = Bytes(c, c.size)
    BY <1>12, <1>13, <1>14, <1>15
  <1> QED BY <1>0, <1>1, <1>4, <1>5, <1>6, <1>9, <1>16, <1>17, <1>18, <1>19, <1>20

(* A chunk that has bytes left to answer. *)
LEMMA OpenChunk ==
    ASSUME NEW d \in Chunks, d.fill < d.size
    PROVE  d.off + d.fill \in Unanswered(d)
  BY LimiterAssumption DEF Chunks, Unanswered

LEMMA ChunkFields ==
    ASSUME NEW d \in Chunks
    PROVE  /\ d.parent \in Reqs /\ d.off \in Nat /\ d.fill \in Nat
           /\ d.size \in Nat \ {0} /\ d.size \in 1 .. Bandwidth /\ d # None
  BY LimiterAssumption DEF Chunks

(***************************************************************************)
(* Every handler that calls finish_chunk ends here: if nothing was stale   *)
(* before the parent could be answered, nothing is stale after, because an *)
(* answered parent has no byte left in emission or in a chunk.             *)
(***************************************************************************)
LEMMA FinishedData ==
    ASSUME Data, NEW r \in Reqs, up[r] = "granted", NEW k \in {"event", "retry", "end"},
           Finished(r, k, Emitting(r, pending_req', pending_addr', pending_size'),
                          Open(r, out', denied_sub')),
           size' = size, input_needs_retry' = input_needs_retry, ChunksInOrder',
           pending_req' \in Reqs \cup {None}, pending_size' \in Nat, pending_addr' \in Nat,
           pending_req' # None => up[pending_req'] = "granted" /\ pending_size' > 0,
           event' \in {"off", "next", "now"}, next_req_timestamp' \in {0, 1},
           taken' \in [Reqs -> Nat], sent' \in Nat,
           out' \subseteq Chunks,
           \A d \in out' : d.fill < d.size /\ up[d.parent] = "granted",
           denied_sub' \in Chunks \cup {None}, denied_sub' \notin out',
           denied_sub' # None => up[denied_sub'.parent] = "granted" /\ denied_sub'.fill = 0,
           \A q \in Reqs \ {r} :
              /\ Emitting(q, pending_req', pending_addr', pending_size') =
                 Emitting(q, pending_req, pending_addr, pending_size)
              /\ Open(q, out', denied_sub') = Open(q, out, denied_sub)
    PROVE  Data'
  <1>1. PICK G, C : /\ G = Emitting(r, pending_req', pending_addr', pending_size')
                    /\ C = Open(r, out', denied_sub')
    OBVIOUS
  <1>2. /\ remaining_size' \in [Reqs -> Nat] /\ filled' \in [Reqs -> SUBSET Nat]
        /\ \A q \in Reqs \ {r} : /\ remaining_size'[q] = remaining_size[q]
                                 /\ filled'[q] = filled[q]
        /\ \/ /\ up' = up /\ ctl' = [pc |-> "tail", k |-> k]
              /\ Owed(size[r], remaining_size'[r], filled'[r], G, C)
           \/ /\ up' = [up EXCEPT ![r] = "idle"] /\ ctl' = [pc |-> "resp", k |-> k]
              /\ filled'[r] = 0 .. (size[r] - 1)
              /\ \A b : b \notin G
              /\ \A d \in C : \A b : b \notin Unanswered(d)
    BY <1>1 DEF Finished
  <1>3. /\ TypeOK /\ NothingStale
        /\ \A q \in Reqs : UnansweredBytes(q) /\ AnswerIsComplete(q)
    BY DEF Data, EveryByteAccounted
  <1>4. up \in [Reqs -> MasterStates]
    BY <1>3 DEF TypeOK
  <1>5. ctl' \in CtlType
    BY <1>2 DEF CtlType
  <1>6. up' \in [Reqs -> MasterStates] /\ \A q \in Reqs \ {r} : up'[q] = up[q]
    BY <1>2, <1>4 DEF MasterStates
  <1>7. up'[r] \in {"granted", "idle"}
    BY <1>2, <1>4
  <1>8. up'[r] = "idle" => /\ pending_req' # r
                           /\ \A d \in out' : d.parent # r
                           /\ denied_sub' # None => denied_sub'.parent # r
    <2> SUFFICES ASSUME up'[r] = "idle"
                 PROVE  /\ pending_req' # r
                        /\ \A d \in out' : d.parent # r
                        /\ denied_sub' # None => denied_sub'.parent # r
      OBVIOUS
    <2>1. (\A b : b \notin G) /\ \A d \in C : \A b : b \notin Unanswered(d)
      BY <1>2, <1>4
    <2>2. ASSUME pending_req' = r PROVE FALSE
      <3>1. pending_size' > 0
        BY <2>2, LimiterAssumption
      <3>2. G = pending_addr' .. (pending_addr' + pending_size' - 1)
        BY <2>2, <1>1 DEF Emitting
      <3>3. pending_addr' \in G
        BY <3>1, <3>2
      <3> QED BY <3>3, <2>1
    <2>3. ASSUME NEW d \in Chunks, d.parent = r, d.fill < d.size, d \in out' \/ d = denied_sub'
          PROVE  FALSE
      <3>1. d \in C
        BY <2>3, <1>1, ChunkFields DEF Open
      <3>2. d.off + d.fill \in Unanswered(d)
        BY <2>3, OpenChunk
      <3> QED BY <3>1, <3>2, <2>1
    <2>4. denied_sub' # None => denied_sub' \in Chunks /\ denied_sub'.fill < denied_sub'.size
      BY ChunkFields
    <2> QED BY <2>2, <2>3, <2>4
  <1>9. TypeOK'
    BY <1>2, <1>3, <1>5, <1>6 DEF TypeOK, CtlType
  <1>10. NothingStale'
    <2>1. ASSUME NEW q \in Reqs, up[q] = "granted", up'[r] = "idle" => q # r
          PROVE  up'[q] = "granted"
      BY <2>1, <1>6, <1>7
    <2>2. \A d \in out' : up'[d.parent] = "granted"
      BY <2>1, <1>8, ChunkFields
    <2>3. pending_req' # None => up'[pending_req'] = "granted" /\ pending_size' > 0
      BY <2>1, <1>8
    <2>4. denied_sub' # None => up'[denied_sub'.parent] = "granted" /\ denied_sub'.fill = 0
      BY <2>1, <1>8, ChunkFields
    <2>5. \A q \in Reqs : up'[q] = "denied" => size[q] > 0
      BY <1>3, <1>6, <1>7 DEF NothingStale
    <2> QED BY <2>2, <2>3, <2>4, <2>5 DEF NothingStale
  <1>11. ASSUME NEW q \in Reqs PROVE UnansweredBytes(q)' /\ AnswerIsComplete(q)'
    <2>1. CASE q = r
      <3>1. up'[r] = "granted" => Owed(size[r], remaining_size'[r], filled'[r], G, C)
        BY <1>2, <1>4
      <3>2. UnansweredBytes(r)'
        BY <3>1, <1>1, TilesNext
      <3>3. AnswerIsComplete(r)'
        BY <1>2, <1>7 DEF AnswerIsComplete
      <3> QED BY <3>2, <3>3, <2>1
    <2>2. CASE q # r
      <3>1. UnansweredBytes(q)'
        BY <2>2, <1>2, <1>3, <1>6, OtherBytes
      <3> QED BY <3>1, <2>2, <1>2, <1>3, <1>6 DEF AnswerIsComplete
    <2> QED BY <2>1, <2>2
  <1> QED BY <1>9, <1>10, <1>11 DEF Data, EveryByteAccounted

(* event_handler, the output answering the chunk inline. *)
LEMMA EmitDone ==
    ASSUME Data, NEW c, Cut(c), Accepts(c), FinishChunk(c, c.size, "event"),
           UNCHANGED <<denied_sub, out, input_needs_retry, size>>,
           event' \in {"off", "next", "now"}, next_req_timestamp' \in {0, 1}, sent' \in Nat
    PROVE  Data'
  <1>0. PICK r : r = pending_req
    OBVIOUS
  <1>1. /\ c \in Chunks /\ denied_sub = None /\ c.parent = r /\ c.fill = 0
        /\ c.size \in Nat \ {0} /\ r \in Reqs /\ up[r] = "granted" /\ c.off = taken[r]
        /\ pending_req' \in {r, None} /\ pending_size' \in Nat /\ pending_addr' \in Nat
        /\ pending_req' # None =>
              /\ pending_size' > 0 /\ pending_addr' = taken[r] + c.size
              /\ pending_addr' + pending_size' = size[r]
        /\ Unanswered(c) = Bytes(c, c.size)
        /\ \A q \in Reqs \ {r} : Emitting(q, pending_req', pending_addr', pending_size') =
                                 Emitting(q, pending_req, pending_addr, pending_size)
    BY <1>0, CutFacts
  <1>2. PICK G, E, C : /\ E = Emitting(r, pending_req, pending_addr, pending_size)
                       /\ G = Emitting(r, pending_req', pending_addr', pending_size')
                       /\ C = Open(r, out, denied_sub)
    OBVIOUS
  <1>3. /\ \A b : b \in E <=> b \in Unanswered(c) \/ b \in G
        /\ \A b \in Unanswered(c) : b \notin G
    BY <1>0, <1>2, CutFacts
  <1>4. TypeOK /\ NothingStale /\ UnansweredBytes(r)
    BY <1>1 DEF Data, EveryByteAccounted
  <1>5. taken \in [Reqs -> Nat] /\ out \subseteq Chunks /\ \A d \in out : d.fill < d.size
    BY <1>4 DEF TypeOK
  <1>6. Tiles(size[r], filled[r], E, C)
    BY <1>1, <1>2, <1>4, TilesNow DEF Owed
  <1>7. /\ Tiles(size[r], filled[r] \cup Unanswered(c), G, C)
        /\ \A b \in Unanswered(c) : b \notin filled[r]
    BY <1>3, <1>6, InlineTiles
  <1>8. Finished(r, "event", G, C)
    <2>1. c.off + c.fill \in Nat
      BY <1>1, ChunkFields
    <2>2. Tiles(size[r], filled[r] \cup Bytes(c, c.size), G, C)
      BY <1>1, <1>7
    <2>3. \A b \in Bytes(c, c.size) : b \notin filled[r]
      BY <1>1, <1>7
    <2> QED BY <2>1, <2>2, <2>3, <1>1, <1>4, FinishFacts
  <1>9. taken' = [taken EXCEPT ![r] = @ + c.size]
    BY <1>1 DEF Accepts
  <1>10. taken' \in [Reqs -> Nat] /\ taken'[r] = taken[r] + c.size
    BY <1>1, <1>5, <1>9
  <1>11. ChunksInOrder'
    <2>1. DeniedOf(r)' = 0
      BY <1>1 DEF DeniedOf
    <2>2. pending_req' # None => /\ pending_addr' = taken'[pending_req'] + DeniedOf(r)'
                                 /\ pending_addr' + pending_size' = size[pending_req']
      BY <2>1, <1>1, <1>5, <1>10
    <2> QED BY <2>2, <1>1 DEF ChunksInOrder, DeniedOf
  <1>12. \A d \in out : d.fill < d.size /\ up[d.parent] = "granted"
    BY <1>4, <1>5 DEF NothingStale
  <1>13. Finished(r, "event", Emitting(r, pending_req', pending_addr', pending_size'),
                  Open(r, out', denied_sub'))
    BY <1>2, <1>8
  <1>14. denied_sub' = None /\ denied_sub' \notin out' /\ out' = out /\ size' = size
    BY <1>1, <1>4 DEF NothingStale
  <1>15. pending_req' \in Reqs \cup {None} /\ (pending_req' # None => up[pending_req'] = "granted")
    BY <1>1
  <1>16. \A q \in Reqs \ {r} : Open(q, out', denied_sub') = Open(q, out, denied_sub)
    BY <1>14
  <1> QED BY <1>1, <1>5, <1>10, <1>11, <1>12, <1>13, <1>14, <1>15, <1>16, FinishedData

(* event_handler, the output keeping the chunk or refusing it. *)
LEMMA EmitOpen ==
    ASSUME Data, NEW c, Cut(c),
           UNCHANGED <<remaining_size, up, filled, size, input_needs_retry>>,
           \/ Accepts(c) /\ out' = out \cup {c} /\ UNCHANGED denied_sub
           \/ denied_sub' = c /\ UNCHANGED <<out, taken>>,
           event' \in {"off", "next", "now"}, next_req_timestamp' \in {0, 1},
           ctl' \in CtlType, sent' \in Nat
    PROVE  Data'
  <1>0. PICK r : r = pending_req
    OBVIOUS
  <1>1. /\ c \in Chunks /\ c # None /\ c \notin out /\ denied_sub = None /\ c.parent = r
        /\ c.fill = 0
        /\ c.size \in Nat \ {0} /\ r \in Reqs /\ up[r] = "granted" /\ c.off = taken[r]
        /\ pending_req' \in {r, None} /\ pending_size' \in Nat /\ pending_addr' \in Nat
        /\ pending_req' # None =>
              /\ pending_size' > 0 /\ pending_addr' = taken[r] + c.size
              /\ pending_addr' + pending_size' = size[r]
        /\ \A q \in Reqs \ {r} : Emitting(q, pending_req', pending_addr', pending_size') =
                                 Emitting(q, pending_req, pending_addr, pending_size)
    BY <1>0, CutFacts
  <1>2. PICK G, E, C : /\ E = Emitting(r, pending_req, pending_addr, pending_size)
                       /\ G = Emitting(r, pending_req', pending_addr', pending_size')
                       /\ C = Open(r, out, denied_sub)
    OBVIOUS
  <1>3. /\ \A b : b \in E <=> b \in Unanswered(c) \/ b \in G
        /\ \A b \in Unanswered(c) : b \notin G
    BY <1>0, <1>2, CutFacts
  <1>4. /\ TypeOK /\ NothingStale
        /\ \A q \in Reqs : UnansweredBytes(q) /\ AnswerIsComplete(q)
    BY <1>1 DEF Data, EveryByteAccounted
  <1>5. /\ taken \in [Reqs -> Nat] /\ out \subseteq Chunks /\ up \in [Reqs -> MasterStates]
        /\ \A d \in out : d.fill < d.size
    BY <1>4 DEF TypeOK
  <1>6. Owed(size[r], remaining_size[r], filled[r], E, C)
    BY <1>1, <1>2, <1>4, TilesNow
  <1>7. Tiles(size[r], filled[r], G, C \cup {c})
    BY <1>3, <1>6, CutTiles DEF Owed
  <1>8. Open(r, out', denied_sub') = C \cup {c}
    <2>1. CASE out' = out \cup {c} /\ denied_sub' = None
      BY <2>1, <1>1, <1>2 DEF Open
    <2>2. CASE denied_sub' = c /\ out' = out
      BY <2>2, <1>1, <1>2 DEF Open
    <2> QED BY <2>1, <2>2, <1>1
  <1>9. ASSUME NEW q \in Reqs \ {r} PROVE Open(q, out', denied_sub') = Open(q, out, denied_sub)
    <2>1. CASE out' = out \cup {c} /\ denied_sub' = None
      BY <2>1, <1>1 DEF Open
    <2>2. CASE denied_sub' = c /\ out' = out
      BY <2>2, <1>1 DEF Open
    <2> QED BY <2>1, <2>2, <1>1
  <1>10. ASSUME NEW q \in Reqs PROVE UnansweredBytes(q)' /\ AnswerIsComplete(q)'
    <2>1. CASE q = r
      <3>1. Owed(size[r], remaining_size[r], filled[r], G, C \cup {c})
        BY <1>6, <1>7 DEF Owed
      <3>2. UnansweredBytes(r)'
        BY <3>1, <1>2, <1>8, TilesNext
      <3> QED BY <3>2, <2>1, <1>4 DEF AnswerIsComplete
    <2>2. CASE q # r
      <3>1. UnansweredBytes(q)'
        BY <2>2, <1>1, <1>4, <1>9, OtherBytes
      <3> QED BY <3>1, <1>4 DEF AnswerIsComplete
    <2> QED BY <2>1, <2>2
  <1>11. /\ taken' \in [Reqs -> Nat]
         /\ taken'[r] = taken[r] + (IF denied_sub' = None THEN c.size ELSE 0)
    <2>1. CASE Accepts(c) /\ denied_sub' = None
      BY <2>1, <1>1, <1>5 DEF Accepts
    <2>2. CASE denied_sub' = c /\ taken' = taken
      BY <2>2, <1>1, <1>5
    <2> QED BY <2>1, <2>2, <1>1
  <1>12. denied_sub' \in {None, c}
    BY <1>1
  <1>13. ChunksInOrder'
    <2>1. DeniedOf(r)' = IF denied_sub' = None THEN 0 ELSE c.size
      BY <1>1, <1>12 DEF DeniedOf
    <2>2. pending_req' # None => /\ pending_addr' = taken'[pending_req'] + DeniedOf(r)'
                                 /\ pending_addr' + pending_size' = size[pending_req']
      BY <2>1, <1>1, <1>5, <1>11
    <2>3. denied_sub' # None =>
              /\ denied_sub'.off = taken'[denied_sub'.parent]
              /\ \A q \in Reqs \ {denied_sub'.parent} : pending_req' = q => taken'[q] = 0
      BY <1>1, <1>5, <1>11, <1>12, LimiterAssumption
    <2> QED BY <2>2, <2>3, <1>1 DEF ChunksInOrder, DeniedOf
  <1>14. out' \subseteq Chunks /\ \A d \in out' : d.fill < d.size /\ up[d.parent] = "granted"
    BY <1>1, <1>4, <1>5 DEF NothingStale
  <1>15. TypeOK'
    BY <1>1, <1>4, <1>11, <1>12, <1>14 DEF TypeOK, CtlType
  <1>16. denied_sub' \notin out'
    <2>1. CASE out' = out \cup {c} /\ denied_sub' = None
      BY <2>1, <1>1, <1>4 DEF NothingStale
    <2>2. CASE denied_sub' = c /\ out' = out
      BY <2>2, <1>1
    <2> QED BY <2>1, <2>2, <1>1
  <1>17. NothingStale'
    BY <1>1, <1>4, <1>12, <1>14, <1>16 DEF NothingStale
  <1> QED BY <1>10, <1>13, <1>15, <1>17 DEF Data, EveryByteAccounted

(* output_retry, the output keeping the parked chunk. *)
LEMMA ReplayGranted ==
    ASSUME Data, denied_sub # None, denied_sub' = None, Accepts(denied_sub),
           out' = out \cup {denied_sub}, ctl' \in CtlType, sent' \in Nat,
           UNCHANGED <<emission, input_needs_retry, event, next_req_timestamp, size,
                       remaining_size, up, filled>>
    PROVE  Data'
  <1>0. PICK c, r : c = denied_sub /\ r = denied_sub.parent
    OBVIOUS
  <1>1. /\ TypeOK /\ NothingStale /\ ChunksInOrder
        /\ \A q \in Reqs : UnansweredBytes(q) /\ AnswerIsComplete(q)
    BY DEF Data, EveryByteAccounted
  <1>2. /\ taken \in [Reqs -> Nat] /\ out \subseteq Chunks /\ c \in Chunks /\ c # None
        /\ \A d \in out : d.fill < d.size
    BY <1>0, <1>1 DEF TypeOK
  <1>3. c.parent = r /\ r \in Reqs /\ c.size \in Nat \ {0} /\ c.fill = 0 /\ up[r] = "granted"
    BY <1>0, <1>1, <1>2, ChunkFields DEF NothingStale
  <1>4. taken' = [taken EXCEPT ![r] = @ + c.size]
    BY <1>0 DEF Accepts
  <1>5. /\ taken' \in [Reqs -> Nat] /\ taken'[r] = taken[r] + c.size
        /\ \A q \in Reqs \ {r} : taken'[q] = taken[q]
    BY <1>2, <1>3, <1>4
  <1>6. \A q \in Reqs : Open(q, out', denied_sub') = Open(q, out, denied_sub)
    BY <1>0, <1>2 DEF Open
  <1>7. ASSUME NEW q \in Reqs PROVE UnansweredBytes(q)' /\ AnswerIsComplete(q)'
    <2>1. UnansweredBytes(q)'
      BY <1>1, <1>6, OtherBytes DEF emission
    <2> QED BY <2>1, <1>1 DEF AnswerIsComplete
  <1>8. ChunksInOrder'
    <2> SUFFICES ASSUME pending_req # None
                 PROVE  /\ pending_addr = taken'[pending_req] + 0
                        /\ pending_addr + pending_size = size[pending_req]
      BY DEF ChunksInOrder, DeniedOf, emission
    <2>1. pending_req \in Reqs
      BY <1>1 DEF TypeOK
    <2>2. DeniedOf(pending_req) = IF pending_req = r THEN c.size ELSE 0
      BY <1>0, <1>2 DEF DeniedOf
    <2>3. /\ pending_addr = taken[pending_req] + DeniedOf(pending_req)
          /\ pending_addr + pending_size = size[pending_req]
      BY <1>1 DEF ChunksInOrder
    <2> QED BY <2>1, <2>2, <2>3, <1>2, <1>3, <1>5
  <1>9. out' \subseteq Chunks /\ \A d \in out' : d.fill < d.size /\ up[d.parent] = "granted"
    BY <1>0, <1>1, <1>2, <1>3 DEF NothingStale
  <1>10. TypeOK'
    BY <1>1, <1>5, <1>9 DEF TypeOK, CtlType, emission
  <1>11. NothingStale'
    BY <1>1, <1>9, LimiterAssumption DEF NothingStale, emission
  <1> QED BY <1>7, <1>8, <1>10, <1>11 DEF Data, EveryByteAccounted

(* output_retry, the output answering the parked chunk inline. *)
LEMMA ReplayDone ==
    ASSUME Data, denied_sub # None, denied_sub' = None, Accepts(denied_sub),
           FinishChunk(denied_sub, denied_sub.size, "retry"), sent' \in Nat,
           UNCHANGED <<emission, input_needs_retry, event, next_req_timestamp, size, out>>
    PROVE  Data'
  <1>0. PICK c, r : c = denied_sub /\ r = denied_sub.parent
    OBVIOUS
  <1>1. TypeOK /\ NothingStale /\ ChunksInOrder
    BY DEF Data, EveryByteAccounted
  <1>2. /\ taken \in [Reqs -> Nat] /\ out \subseteq Chunks /\ c \in Chunks /\ c # None
        /\ c \notin out /\ \A d \in out : d.fill < d.size /\ up[d.parent] = "granted"
    BY <1>0, <1>1 DEF TypeOK, NothingStale
  <1>3. /\ c.parent = r /\ r \in Reqs /\ c.size \in Nat \ {0} /\ c.fill = 0 /\ up[r] = "granted"
        /\ c.off \in Nat
    BY <1>0, <1>1, <1>2, ChunkFields DEF NothingStale
  <1>4. UnansweredBytes(r)
    BY <1>3 DEF Data, EveryByteAccounted
  <1>5. taken' = [taken EXCEPT ![r] = @ + c.size]
    BY <1>0 DEF Accepts
  <1>6. /\ taken' \in [Reqs -> Nat] /\ taken'[r] = taken[r] + c.size
        /\ \A q \in Reqs \ {r} : taken'[q] = taken[q]
    BY <1>2, <1>3, <1>5
  <1>7. PICK E, C, D : /\ E = Emitting(r, pending_req, pending_addr, pending_size)
                       /\ C = Open(r, out, denied_sub) /\ D = Open(r, out', denied_sub')
    OBVIOUS
  <1>8. c \in C /\ D = (C \ {c}) \cup {}
    BY <1>0, <1>2, <1>3, <1>7 DEF Open
  <1>9. Tiles(size[r], filled[r], E, C)
    BY <1>3, <1>4, <1>7, TilesNow DEF Owed
  <1>10. Unanswered(c) = Bytes(c, c.size)
    BY <1>3 DEF Unanswered, Bytes
  <1>11. /\ Tiles(size[r], filled[r] \cup Bytes(c, c.size), E, D)
         /\ \A b \in Bytes(c, c.size) : b \notin filled[r]
    <2>0. PICK X, R : X = Bytes(c, c.size) /\ R = {}
      OBVIOUS
    <2>1. /\ \A b : b \in Unanswered(c) <=> b \in X \/ \E d \in R : b \in Unanswered(d)
          /\ \A d \in R : \A b \in Unanswered(d) : b \notin X
          /\ \A d, e \in R : d = e
      BY <2>0, <1>10
    <2>2. /\ Tiles(size[r], filled[r] \cup X, E, (C \ {c}) \cup R)
          /\ \A b \in X : b \notin filled[r]
      BY <2>1, <1>8, <1>9, BeatTiles
    <2> QED BY <2>0, <2>2, <1>8
  <1>12. Finished(r, "retry", E, D)
    <2>1. c.off + c.fill \in Nat
      BY <1>3
    <2> QED BY <2>1, <1>0, <1>1, <1>3, <1>4, <1>11, FinishFacts
  <1>13. ChunksInOrder'
    <2> SUFFICES ASSUME pending_req # None
                 PROVE  /\ pending_addr = taken'[pending_req] + 0
                        /\ pending_addr + pending_size = size[pending_req]
      BY DEF ChunksInOrder, DeniedOf, emission
    <2>1. pending_req \in Reqs
      BY <1>1 DEF TypeOK
    <2>2. DeniedOf(pending_req) = IF pending_req = r THEN c.size ELSE 0
      BY <1>0, <1>2 DEF DeniedOf
    <2>3. /\ pending_addr = taken[pending_req] + DeniedOf(pending_req)
          /\ pending_addr + pending_size = size[pending_req]
      BY <1>1 DEF ChunksInOrder
    <2> QED BY <2>1, <2>2, <2>3, <1>2, <1>3, <1>6
  <1>14. Finished(r, "retry", Emitting(r, pending_req', pending_addr', pending_size'),
                  Open(r, out', denied_sub'))
    BY <1>7, <1>12 DEF emission
  <1>15. /\ pending_req' \in Reqs \cup {None} /\ pending_size' \in Nat /\ pending_addr' \in Nat
         /\ pending_req' # None => up[pending_req'] = "granted" /\ pending_size' > 0
         /\ event' \in {"off", "next", "now"} /\ next_req_timestamp' \in {0, 1}
         /\ out' = out
    BY <1>1 DEF TypeOK, NothingStale, emission
  <1>17. denied_sub' \notin out'
    BY <1>2, ChunkFields
  <1>16. ASSUME NEW q \in Reqs \ {r}
         PROVE  /\ Emitting(q, pending_req', pending_addr', pending_size') =
                   Emitting(q, pending_req, pending_addr, pending_size)
                /\ Open(q, out', denied_sub') = Open(q, out, denied_sub)
    BY <1>0 DEF Open, emission
  <1> QED BY <1>2, <1>3, <1>6, <1>13, <1>14, <1>15, <1>16, <1>17, FinishedData

(* output_resp: a beat, the last one of its chunk or not. *)
LEMMA BeatData ==
    ASSUME Data, ctl = Idle, NEW c \in out, NEW n, OutputResp(c, n)
    PROVE  Data'
  <1>1. TypeOK /\ NothingStale /\ ChunksInOrder
    BY DEF Data, EveryByteAccounted
  <1>2. /\ out \subseteq Chunks /\ c \in Chunks /\ denied_sub \in Chunks \cup {None}
        /\ denied_sub \notin out
        /\ denied_sub # None => denied_sub.fill = 0
        /\ c.fill < c.size /\ \A d \in out : d.fill < d.size /\ up[d.parent] = "granted"
    BY <1>1 DEF TypeOK, NothingStale
  <1>3. PICK r, R : /\ r = c.parent
                    /\ R = IF c.fill + n = c.size THEN {} ELSE {[c EXCEPT !.fill = @ + n]}
    OBVIOUS
  <1>4. /\ r \in Reqs /\ up[r] = "granted" /\ c.off \in Nat /\ c.size \in Nat \ {0}
        /\ c.size \in 1 .. Bandwidth /\ c.fill \in Nat
    BY <1>2, <1>3, ChunkFields
  <1>5. /\ n \in Nat \ {0} /\ c.fill + n <= c.size /\ c.fill + n \in Nat
        /\ out' = (out \ {c}) \cup R
        /\ FinishChunk(c, n, "end")
        /\ UNCHANGED <<emission, input_needs_retry, denied_sub, event, next_req_timestamp,
                       size, taken, sent>>
    BY <1>3, <1>4 DEF OutputResp
  <1>6. ASSUME NEW d \in R
        PROVE  /\ d = [c EXCEPT !.fill = c.fill + n] /\ d \in Chunks /\ d.parent = r
               /\ d.off = c.off /\ d.size = c.size /\ d.fill = c.fill + n
               /\ d.fill < d.size /\ d.fill # 0 /\ d # None
    <2>1. d = [c EXCEPT !.fill = c.fill + n] /\ c.fill + n # c.size
      BY <1>3
    <2>2. /\ d.parent = r /\ d.off = c.off /\ d.size = c.size /\ d.fill = c.fill + n
          /\ d \in Chunks
      BY <2>1, <1>2, <1>3, <1>4, <1>5, LimiterAssumption DEF Chunks
    <2> QED BY <2>1, <2>2, <1>4, <1>5, ChunkFields
  <1>7. PICK E, C, D, X : /\ E = Emitting(r, pending_req, pending_addr, pending_size)
                          /\ C = Open(r, out, denied_sub) /\ D = Open(r, out', denied_sub')
                          /\ X = Bytes(c, n)
    OBVIOUS
  <1>8. c \in C /\ c # None /\ c # denied_sub
    <2>1. c # None /\ c # denied_sub
      BY <1>2, ChunkFields
    <2> QED BY <2>1, <1>3, <1>7 DEF Open
  <1>9. D = (C \ {c}) \cup R
    BY <1>5, <1>6, <1>7, <1>8 DEF Open
  <1>10. ASSUME NEW q \in Reqs \ {r} PROVE Open(q, out', denied_sub') = Open(q, out, denied_sub)
    BY <1>3, <1>5, <1>6 DEF Open
  <1>11. UnansweredBytes(r)
    BY <1>4 DEF Data, EveryByteAccounted
  <1>12. Tiles(size[r], filled[r], E, C)
    BY <1>4, <1>7, <1>11, TilesNow DEF Owed
  <1>13. /\ \A b : b \in Unanswered(c) <=> b \in X \/ \E d \in R : b \in Unanswered(d)
         /\ \A d \in R : \A b \in Unanswered(d) : b \notin X
         /\ \A d, e \in R : d = e
    <2>1. /\ Unanswered(c) = (c.off + c.fill) .. (c.off + c.size - 1)
          /\ X = (c.off + c.fill) .. (c.off + c.fill + n - 1)
      BY <1>7 DEF Unanswered, Bytes
    <2>2. CASE c.fill + n = c.size
      <3>1. R = {}
        BY <2>2, <1>3
      <3>2. X = Unanswered(c)
        BY <2>1, <2>2, <1>4, <1>5
      <3> QED BY <3>1, <3>2
    <2>3. CASE c.fill + n # c.size
      <3>1. PICK d : R = {d} /\ d \in R
        BY <2>3, <1>3
      <3>2. Unanswered(d) = (c.off + (c.fill + n)) .. (c.off + c.size - 1)
        BY <3>1, <1>6 DEF Unanswered
      <3>3. /\ \A b : b \in Unanswered(c) <=> b \in X \/ b \in Unanswered(d)
            /\ \A b \in Unanswered(d) : b \notin X
        <4>1. PICK i, l, z : /\ i = c.off + c.fill /\ l = c.off + (c.fill + n)
                             /\ z = c.off + c.size
          OBVIOUS
        <4>2. /\ i \in Nat /\ l \in Nat /\ z \in Nat /\ i < l /\ l < z
              /\ c.off + c.fill + n - 1 = l - 1
          BY <4>1, <2>3, <1>4, <1>5
        <4>3. /\ Unanswered(c) = i .. (z - 1) /\ X = i .. (l - 1)
              /\ Unanswered(d) = l .. (z - 1)
          <5>1. Unanswered(c) = i .. (z - 1)
            BY <4>1, <2>1, <1>4
          <5>2. X = i .. (l - 1)
            BY <4>1, <4>2, <2>1
          <5>3. Unanswered(d) = l .. (z - 1)
            BY <4>1, <3>2, <1>4, <1>5
          <5> QED BY <5>1, <5>2, <5>3
        <4>4. /\ \A b : b \in i .. (z - 1) <=> b \in i .. (l - 1) \/ b \in l .. (z - 1)
              /\ \A b \in l .. (z - 1) : b \notin i .. (l - 1)
          BY <4>2
        <4> QED BY <4>3, <4>4
      <3> QED BY <3>1, <3>3
    <2> QED BY <2>2, <2>3
  <1>14. /\ Tiles(size[r], filled[r] \cup X, E, (C \ {c}) \cup R)
         /\ \A b \in X : b \notin filled[r]
    BY <1>8, <1>12, <1>13, BeatTiles
  <1>15. /\ Tiles(size[r], filled[r] \cup Bytes(c, n), E, D)
         /\ \A b \in Bytes(c, n) : b \notin filled[r]
    BY <1>7, <1>9, <1>14
  <1>16. Finished(r, "end", E, D)
    <2>1. c.off + c.fill \in Nat
      BY <1>4
    <2> QED BY <2>1, <1>1, <1>3, <1>4, <1>5, <1>11, <1>15, FinishFacts
  <1>17. Finished(r, "end", Emitting(r, pending_req', pending_addr', pending_size'),
                  Open(r, out', denied_sub'))
    BY <1>5, <1>7, <1>16 DEF emission
  <1>18. ChunksInOrder'
    BY <1>1, <1>5 DEF ChunksInOrder, DeniedOf, emission
  <1>19. out' \subseteq Chunks /\ \A d \in out' : d.fill < d.size /\ up[d.parent] = "granted"
    BY <1>2, <1>4, <1>5, <1>6
  <1>20. denied_sub' \notin out'
    <2>1. ASSUME NEW d \in R PROVE d # denied_sub
      BY <1>2, <1>6
    <2> QED BY <2>1, <1>2, <1>5
  <1>21. /\ pending_req' \in Reqs \cup {None} /\ pending_size' \in Nat /\ pending_addr' \in Nat
         /\ pending_req' # None => up[pending_req'] = "granted" /\ pending_size' > 0
         /\ event' \in {"off", "next", "now"} /\ next_req_timestamp' \in {0, 1}
         /\ taken' \in [Reqs -> Nat] /\ sent' \in Nat
         /\ size' = size /\ input_needs_retry' = input_needs_retry
    BY <1>1, <1>5 DEF TypeOK, NothingStale, emission
  <1>22. /\ denied_sub' \in Chunks \cup {None}
         /\ denied_sub' # None => up[denied_sub'.parent] = "granted" /\ denied_sub'.fill = 0
    BY <1>1, <1>5 DEF TypeOK, NothingStale
  <1>23. ASSUME NEW q \in Reqs \ {r}
         PROVE  Emitting(q, pending_req', pending_addr', pending_size') =
                Emitting(q, pending_req, pending_addr, pending_size)
    BY <1>5 DEF emission
  <1> QED BY <1>4, <1>10, <1>17, <1>18, <1>19, <1>20, <1>21, <1>22, <1>23, FinishedData

-----------------------------------------------------------------------------
Wakeups == NoLostWakeup /\ OneDenied /\ Movers

(* A chunk is accounted for, and its parent answered or not: a refused     *)
(* master is still owed its retry(), by whoever resumes.                   *)
LEMMA FinishWakeups ==
    ASSUME IInv, ctl = Idle, NEW r \in Reqs, up[r] = "granted",
           NEW k \in {"event", "retry", "end"},
           \/ up' = up /\ ctl' = [pc |-> "tail", k |-> k]
           \/ up' = [up EXCEPT ![r] = "idle"] /\ ctl' = [pc |-> "resp", k |-> k],
           input_needs_retry' = input_needs_retry,
           k = "end" => UNCHANGED <<pending_req, event, denied_sub>>
    PROVE  Wakeups'
  <1>1. /\ up \in [Reqs -> MasterStates] /\ NoLostWakeup /\ OneDenied /\ Movers
    BY DEF IInv, TypeOK
  <1>2. ctl.pc = "idle" /\ ctl.k = "end" /\ ctl'.k = k /\ ctl'.pc \in {"tail", "resp"}
    BY DEF Idle
  <1>3. \A q \in Reqs : up'[q] = "denied" <=> up[q] = "denied"
    BY <1>1
  <1>4. ctl'.pc # "resp" => up' = up
    OBVIOUS
  <1>5. OneDenied'
    BY <1>1, <1>3 DEF OneDenied
  <1>6. Movers'
    BY <1>1, <1>2, <1>3, <1>4 DEF Movers
  <1>7. NoLostWakeup'
    BY <1>1, <1>2, <1>3 DEF NoLostWakeup, Idle
  <1> QED BY <1>5, <1>6, <1>7 DEF Wakeups

LEMMA FinishCases ==
    ASSUME NEW c, NEW m, NEW k, FinishChunk(c, m, k), up[c.parent] = "granted"
    PROVE  \/ up' = up /\ ctl' = [pc |-> "tail", k |-> k]
           \/ up' = [up EXCEPT ![c.parent] = "idle"] /\ ctl' = [pc |-> "resp", k |-> k]
  <1>1. CASE remaining_size[c.parent] = m
    BY <1>1 DEF FinishChunk, AfterResp
  <1>2. CASE remaining_size[c.parent] # m
    BY <1>2 DEF FinishChunk
  <1> QED BY <1>1, <1>2

(* input_req: the refused request is owed a retry(), the one that is taken *)
(* has its event.                                                          *)
LEMMA InputWakeups ==
    ASSUME IInv, NEW r \in Reqs, NEW s, InputReq(r, s),
           \/ /\ ctl.pc \in {"idle", "resp", "retried"} /\ ctl' = ctl
              /\ up[r] = "idle" /\ NoneDenied(up, Reqs)
           \/ /\ ctl.pc = "retry" /\ ctl' = [ctl EXCEPT !.pc = "retried"]
              /\ up[r] = "denied",
           UNCHANGED denied_sub
    PROVE  Wakeups'
  <1>1. /\ up \in [Reqs -> MasterStates] /\ NoLostWakeup /\ OneDenied /\ Movers /\ NothingStale
        /\ ctl \in CtlType /\ event \in {"off", "next", "now"} /\ pending_req \in Reqs \cup {None}
        /\ input_needs_retry \in BOOLEAN
    BY DEF IInv, TypeOK, CtlType
  <1>2. \A q \in Reqs \ {r} : up[q] # "denied"
    BY <1>1 DEF OneDenied, NoneDenied
  <1>3. ctl'.k = ctl.k /\ ctl'.pc # "retry"
    BY <1>1 DEF CtlType
  <1>4. ctl' = Idle => ctl = Idle
    BY <1>1 DEF CtlType, Idle
  <1>5. CASE pending_req # None
    <2>1. /\ up' = [up EXCEPT ![r] = "denied"] /\ input_needs_retry' = TRUE
          /\ UNCHANGED <<pending_req, event>>
      BY <1>5 DEF InputReq, emission
    <2>2. ctl.pc # "retry" /\ ctl' = ctl /\ up[r] = "idle"
      BY <1>1, <1>5 DEF NoLostWakeup
    <2>3. up'[r] = "denied" /\ \A q \in Reqs \ {r} : up'[q] = up[q]
      BY <2>1, <1>1
    <2>4. pending_req \in Reqs /\ up'[pending_req] = "granted"
      BY <2>2, <2>3, <1>1, <1>5 DEF NothingStale
    <2>5. OneDenied'
      BY <2>3, <1>2 DEF OneDenied
    <2>6. Movers'
      BY <2>1, <2>2, <2>3, <2>4, <1>1 DEF Movers
    <2>7. NoLostWakeup'
      BY <2>1, <2>2, <2>3, <2>4, <1>1, <1>3, <1>4 DEF NoLostWakeup
    <2> QED BY <2>5, <2>6, <2>7 DEF Wakeups
  <1>6. CASE pending_req = None
    <2>1. /\ up' = [up EXCEPT ![r] = "granted"] /\ UNCHANGED input_needs_retry
          /\ event' = Enqueued(event)
      BY <1>6 DEF InputReq
    <2>2. up'[r] = "granted" /\ \A q \in Reqs : up'[q] # "denied"
      BY <2>1, <1>1, <1>2
    <2>3. event' # "off"
      BY <2>1, <1>1 DEF Enqueued
    <2>4. input_needs_retry' = FALSE
      BY <2>1, <1>1 DEF Movers, NoneDenied
    <2>5. OneDenied'
      BY <2>2 DEF OneDenied
    <2>6. ctl'.pc = "idle" => ctl'.k = "end"
      BY <1>1, <1>3 DEF Movers, CtlType
    <2>7. Movers'
      BY <2>3, <2>4, <2>6 DEF Movers
    <2>8. NoLostWakeup'
      BY <2>2, <2>3, <2>4, <1>3 DEF NoLostWakeup
    <2> QED BY <2>5, <2>7, <2>8 DEF Wakeups
  <1> QED BY <1>5, <1>6

(* The end of check_last_chunk. *)
LEMMA RespReturnsWakeups ==
    ASSUME IInv, RespReturns
    PROVE  Wakeups'
  <1>1. /\ NoLostWakeup /\ OneDenied /\ Movers /\ NothingStale
        /\ ctl \in CtlType /\ pending_req \in Reqs \cup {None} /\ input_needs_retry \in BOOLEAN
    BY DEF IInv, TypeOK, CtlType
  <1>2. ctl.pc = "resp" /\ UNCHANGED <<pending_req, event, denied_sub, up>>
    BY DEF RespReturns, emission
  <1>3. CASE pending_req = None /\ input_needs_retry
    <2>1. input_needs_retry' = FALSE /\ ctl'.pc = "retry" /\ ctl' # Idle
      BY <1>1, <1>3 DEF RespReturns, CtlType, Idle
    <2> QED BY <2>1, <1>1, <1>2, <1>3 DEF Wakeups, NoLostWakeup, OneDenied, Movers
  <1>4. CASE ~(pending_req = None /\ input_needs_retry)
    <2>1. /\ input_needs_retry' = input_needs_retry /\ ctl'.pc = "tail" /\ ctl'.k = ctl.k
          /\ ctl' # Idle
      BY <1>1, <1>4 DEF RespReturns, CtlType, Idle
    <2>2. input_needs_retry => pending_req \in Reqs /\ up[pending_req] = "granted"
      BY <1>1, <1>4 DEF NothingStale
    <2> QED BY <2>1, <2>2, <1>1, <1>2 DEF Wakeups, NoLostWakeup, OneDenied, Movers
  <1> QED BY <1>3, <1>4

LEMMA RetryReturnsWakeups ==
    ASSUME IInv, RetryReturns
    PROVE  Wakeups'
  <1>1. NoLostWakeup /\ OneDenied /\ Movers /\ ctl \in CtlType
    BY DEF IInv, TypeOK, CtlType
  <1>2. ctl.pc = "retried" /\ UNCHANGED <<pending_req, event, denied_sub, up, input_needs_retry>>
    BY DEF RetryReturns, emission
  <1>3. ctl'.pc = "tail" /\ ctl'.k = ctl.k /\ ctl' # Idle
    BY <1>1 DEF RetryReturns, CtlType, Idle
  <1> QED BY <1>1, <1>2, <1>3 DEF Wakeups, NoLostWakeup, OneDenied, Movers

(* The last lines of the handlers: an emission has nothing empty in it, so *)
(* a handler that does not re-arm the event leaves no request behind.      *)
LEMMA HandlerTailWakeups ==
    ASSUME IInv, HandlerTail
    PROVE  Wakeups'
  <1>1. /\ NoLostWakeup /\ OneDenied /\ Movers /\ NothingStale
        /\ ctl \in CtlType /\ event \in {"off", "next", "now"} /\ input_needs_retry \in BOOLEAN
    BY DEF IInv, TypeOK, CtlType
  <1>2. PICK more \in BOOLEAN : more <=> (pending_req # None /\ pending_size > 0)
    OBVIOUS
  <1>3. /\ ctl.pc = "tail" /\ UNCHANGED <<pending_req, denied_sub, up>>
        /\ event' = IF Rearms(more) THEN Enqueued(event) ELSE event
        /\ IF ctl.k = "event" /\ ~more /\ input_needs_retry
           THEN input_needs_retry' = FALSE /\ ctl' = [pc |-> "retry", k |-> "end"]
           ELSE UNCHANGED input_needs_retry /\ ctl' = Idle
    BY <1>2 DEF HandlerTail, emission, Rearms
  <1>4. more <=> pending_req # None
    BY <1>1, <1>2 DEF NothingStale
  <1>5. pending_req # None => event' # "off" \/ denied_sub # None
    <2> SUFFICES ASSUME pending_req # None, denied_sub = None PROVE event' # "off"
      OBVIOUS
    <2>1. CASE ctl.k = "end"
      <3>1. event # "off"
        BY <2>1, <1>1 DEF Movers
      <3>2. ~Rearms(more)
        BY <2>1 DEF Rearms
      <3> QED BY <3>1, <3>2, <1>3
    <2>2. CASE ctl.k # "end"
      <3>1. Rearms(more)
        BY <2>2, <1>4 DEF Rearms
      <3> QED BY <3>1, <1>1, <1>3 DEF Enqueued
    <2> QED BY <2>1, <2>2
  <1>6. CASE ctl.k = "event" /\ ~more /\ input_needs_retry
    <2>1. input_needs_retry' = FALSE /\ ctl'.pc = "retry" /\ ctl'.k = "end" /\ ctl' # Idle
      BY <1>3, <1>6 DEF Idle
    <2>2. pending_req = None
      BY <1>4, <1>6
    <2> QED BY <2>1, <2>2, <1>1, <1>3, <1>6 DEF Wakeups, NoLostWakeup, OneDenied, Movers
  <1>7. CASE ~(ctl.k = "event" /\ ~more /\ input_needs_retry)
    <2>1. input_needs_retry' = input_needs_retry /\ ctl' = Idle
      BY <1>3, <1>7
    <2>2. ctl'.pc = "idle" /\ ctl'.k = "end"
      BY <2>1 DEF Idle
    <2>3. Movers'
      BY <2>1, <2>2, <1>1, <1>3, <1>5 DEF Movers
    <2>4. NoLostWakeup'
      BY <2>1, <2>2, <1>1, <1>3, <1>5 DEF NoLostWakeup, Movers
    <2>5. OneDenied'
      BY <1>1, <1>3 DEF OneDenied
    <2> QED BY <2>3, <2>4, <2>5 DEF Wakeups
  <1> QED BY <1>6, <1>7

(* A step inside which the master and the handlers' own state stand still. *)
LEMMA IdleWakeups ==
    ASSUME IInv, ctl = Idle, ctl' = ctl, up' = up, input_needs_retry' = input_needs_retry,
           pending_req' # None => event' # "off" \/ denied_sub' # None
    PROVE  Wakeups'
  <1>1. NoLostWakeup /\ OneDenied /\ Movers
    BY DEF IInv
  <1>2. ctl.pc = "idle" /\ ctl.k = "end"
    BY DEF Idle
  <1> QED BY <1>1, <1>2 DEF Wakeups, NoLostWakeup, OneDenied, Movers

-----------------------------------------------------------------------------
LEMMA InitInvariant == Init => IInv
  <1> SUFFICES ASSUME Init PROVE IInv
    OBVIOUS
  <1>1. TypeOK
    <2>1. ctl \in CtlType
      BY DEF Init, Idle, CtlType
    <2>2. /\ pending_req \in Reqs \cup {None} /\ pending_size \in Nat /\ pending_addr \in Nat
          /\ denied_sub \in Chunks \cup {None}
          /\ event \in {"off", "next", "now"} /\ next_req_timestamp \in {0, 1}
          /\ sent \in 0 .. 2
      BY DEF Init
    <2>5. input_needs_retry \in BOOLEAN
      BY DEF Init
    <2>4. out \subseteq Chunks /\ \A c \in out : c.fill < c.size
      <3>1. out = {}
        BY DEF Init
      <3> QED BY <3>1
    <2>3. /\ remaining_size \in [Reqs -> Nat] /\ taken \in [Reqs -> Nat]
          /\ size \in [Reqs -> Nat] /\ filled \in [Reqs -> SUBSET Nat]
          /\ up \in [Reqs -> MasterStates]
      BY DEF Init, MasterStates
    <2> QED BY <2>1, <2>2, <2>3, <2>4, <2>5 DEF TypeOK, CtlType
  <1>2. NothingStale /\ ChunksInOrder
    BY DEF Init, NothingStale, ChunksInOrder
  <1>3. ASSUME NEW r \in Reqs PROVE UnansweredBytes(r) /\ AnswerIsComplete(r)
    <2>1. up[r] = "idle" /\ filled[r] = {} /\ size[r] = 0
      BY DEF Init
    <2>2. 0 .. (0 - 1) = {}
      OBVIOUS
    <2> QED BY <2>1, <2>2 DEF UnansweredBytes, AnswerIsComplete
  <1>4. Pace
    BY DEF Init, Pace
  <1>5. NoLostWakeup /\ OneDenied /\ Movers
    BY DEF Init, NoLostWakeup, OneDenied, Movers, Idle
  <1> QED BY <1>1, <1>2, <1>3, <1>4, <1>5 DEF IInv, EveryByteAccounted

LEMMA Assemble == Data' /\ Wakeups' /\ Pace' => IInv'
  BY DEF Data, Wakeups, IInv

LEMMA InvFacts == IInv => Data /\ Wakeups /\ Pace /\ ctl \in CtlType
  BY DEF Data, Wakeups, IInv, TypeOK, CtlType

LEMMA MasterReqInvariant ==
    ASSUME IInv, NEW r \in Reqs, MasterReq(r)
    PROVE  IInv'
  <1>1. PICK s \in Sizes : InputReq(r, s) /\ size' = [size EXCEPT ![r] = s]
    BY DEF MasterReq
  <1>2. s \in Nat \ {0}
    BY LimiterAssumption
  <1>3. /\ ctl.pc \in {"idle", "resp", "retried"} /\ up[r] = "idle" /\ NoneDenied(up, Reqs)
        /\ UNCHANGED <<denied_sub, next_req_timestamp, ctl, out, sent>>
    BY DEF MasterReq
  <1>4. Data'
    BY <1>1, <1>2, <1>3, InvFacts, InputData
  <1>5. Wakeups'
    BY <1>1, <1>3, InputWakeups
  <1>6. Pace'
    <2>1. event' = event \/ event' = Enqueued(event)
      BY <1>1 DEF InputReq
    <2>2. event' = "now" => event = "now"
      BY <2>1 DEF Enqueued
    <2> QED BY <2>2, <1>3 DEF IInv, TypeOK, Pace
  <1> QED BY <1>4, <1>5, <1>6, Assemble

LEMMA MasterReissueInvariant ==
    ASSUME IInv, NEW r \in Reqs, MasterReissue(r)
    PROVE  IInv'
  <1>1. PICK s : s = size[r]
    OBVIOUS
  <1>2. /\ ctl.pc = "retry" /\ up[r] = "denied" /\ InputReq(r, s)
        /\ ctl' = [ctl EXCEPT !.pc = "retried"]
        /\ UNCHANGED <<denied_sub, next_req_timestamp, size, out, sent>>
    BY <1>1 DEF MasterReissue
  <1>3. s \in Nat \ {0} /\ size' = [size EXCEPT ![r] = s]
    BY <1>1, <1>2 DEF IInv, TypeOK, NothingStale
  <1>4. ctl' \in CtlType
    BY <1>2, InvFacts DEF CtlType
  <1>5. Data'
    BY <1>2, <1>3, <1>4, InvFacts, InputData
  <1>6. Wakeups'
    BY <1>2, InputWakeups
  <1>7. Pace'
    <2>1. event' = event \/ event' = Enqueued(event)
      BY <1>2 DEF InputReq
    <2>2. event' = "now" => event = "now"
      BY <2>1 DEF Enqueued
    <2> QED BY <2>2, <1>2 DEF IInv, TypeOK, Pace
  <1> QED BY <1>5, <1>6, <1>7, Assemble

LEMMA EventHandlerInvariant ==
    ASSUME IInv, NEW st \in IoReqStatus, EventHandler(st)
    PROVE  IInv'
  <1>0. ctl = Idle /\ event = "now" /\ UNCHANGED <<input_needs_retry, size>> /\ ctl \in CtlType
    BY InvFacts DEF EventHandler
  <1>1. TypeOK /\ NothingStale /\ Pace /\ sent \in 0 .. 2
    BY PaceBound DEF IInv
  <1>2. CASE NothingToSend
    <2>1. /\ event' = "off"
          /\ UNCHANGED <<emission, denied_sub, next_req_timestamp, remaining_size,
                         ctl, up, out, taken, filled, sent>>
      BY <1>2 DEF EventHandler
    <2>2. Data'
      BY <2>1, <1>0, <1>1, InvFacts, QuietData DEF TypeOK
    <2>3. pending_req' # None => denied_sub' # None
      BY <2>1, <1>1, <1>2 DEF NothingToSend, NothingStale, emission
    <2>4. Wakeups'
      BY <2>1, <2>3, <1>0, IdleWakeups
    <2>5. Pace'
      BY <2>1, <1>1 DEF Pace, TypeOK
    <2> QED BY <2>2, <2>4, <2>5, Assemble
  <1>3. CASE ~NothingToSend /\ next_req_timestamp > 0
    <2>1. /\ event' = "next"
          /\ UNCHANGED <<emission, denied_sub, next_req_timestamp, remaining_size,
                         ctl, up, out, taken, filled, sent>>
      BY <1>3 DEF EventHandler
    <2>2. Data'
      BY <2>1, <1>0, <1>1, InvFacts, QuietData DEF TypeOK
    <2>3. event' # "off"
      BY <2>1
    <2>4. Wakeups'
      BY <2>1, <2>3, <1>0, IdleWakeups
    <2>5. Pace'
      BY <2>1, <1>1 DEF Pace, TypeOK
    <2> QED BY <2>2, <2>4, <2>5, Assemble
  <1>4. CASE ~NothingToSend /\ ~(next_req_timestamp > 0)
    <2>0. PICK c : c = [parent |-> pending_req, off |-> pending_addr,
                        size |-> ChunkSize, fill |-> 0]
      OBVIOUS
    <2>1. /\ event' = "off" /\ next_req_timestamp' = 1 /\ Cut(c) /\ c.size = ChunkSize
          /\ \/ Accepts(c) /\ FinishChunk(c, ChunkSize, "event") /\ UNCHANGED <<denied_sub, out>>
             \/ /\ denied_sub' = c
                /\ UNCHANGED <<remaining_size, ctl, up, out, taken, filled, sent>>
             \/ /\ Accepts(c) /\ out' = out \cup {c} /\ ctl' = [pc |-> "tail", k |-> "event"]
                /\ UNCHANGED <<denied_sub, remaining_size, up, filled>>
      BY <2>0, <1>4 DEF EventHandler, Cut
    <2>2. /\ c.parent \in Reqs /\ up[c.parent] = "granted" /\ c # None /\ denied_sub = None
      BY <2>1, InvFacts, CutFacts
    <2>3. event' \in {"off", "next", "now"} /\ next_req_timestamp' \in {0, 1} /\ event' # "now"
      BY <2>1
    <2>4. sent <= 1
      BY <2>2, <1>0, <1>1 DEF Pace
    <2>5. CASE /\ Accepts(c) /\ FinishChunk(c, ChunkSize, "event")
               /\ UNCHANGED <<denied_sub, out>>
      <3>1. sent' = sent + 1 /\ sent' \in Nat
        BY <2>4, <2>5, <1>1 DEF Accepts
      <3>2. FinishChunk(c, c.size, "event")
        BY <2>1, <2>5
      <3>3. Data'
        BY <2>1, <2>3, <2>5, <3>1, <3>2, <1>0, InvFacts, EmitDone
      <3>4. \/ up' = up /\ ctl' = [pc |-> "tail", k |-> "event"]
            \/ up' = [up EXCEPT ![c.parent] = "idle"] /\ ctl' = [pc |-> "resp", k |-> "event"]
        BY <2>2, <3>2, FinishCases
      <3>5. Wakeups'
        BY <3>4, <2>2, <1>0, FinishWakeups
      <3>6. Pace'
        BY <3>1, <2>2, <2>3, <2>4, <2>5, <1>1 DEF Pace
      <3> QED BY <3>3, <3>5, <3>6, Assemble
    <2>6. CASE /\ denied_sub' = c
               /\ UNCHANGED <<remaining_size, ctl, up, out, taken, filled, sent>>
      <3>1. Data'
        BY <2>1, <2>3, <2>6, <1>0, <1>1, InvFacts, EmitOpen
      <3>2. Wakeups'
        BY <2>2, <2>6, <1>0, IdleWakeups
      <3>3. Pace'
        BY <2>2, <2>3, <2>4, <2>6, <1>1 DEF Pace
      <3> QED BY <3>1, <3>2, <3>3, Assemble
    <2>7. CASE /\ Accepts(c) /\ out' = out \cup {c} /\ ctl' = [pc |-> "tail", k |-> "event"]
               /\ UNCHANGED <<denied_sub, remaining_size, up, filled>>
      <3>1. sent' = sent + 1 /\ sent' \in Nat
        BY <2>4, <2>7, <1>1 DEF Accepts
      <3>2. ctl' \in CtlType
        BY <2>7 DEF CtlType
      <3>3. Data'
        BY <2>1, <2>3, <2>7, <3>1, <3>2, <1>0, InvFacts, EmitOpen
      <3>4. Wakeups'
        BY <2>2, <2>7, <1>0, FinishWakeups
      <3>5. Pace'
        BY <3>1, <2>2, <2>3, <2>4, <2>7, <1>1 DEF Pace
      <3> QED BY <3>3, <3>4, <3>5, Assemble
    <2> QED BY <2>1, <2>5, <2>6, <2>7
  <1> QED BY <1>2, <1>3, <1>4

LEMMA OutputRetryInvariant ==
    ASSUME IInv, NEW st \in IoReqStatus, OutputRetry(st)
    PROVE  IInv'
  <1>0. /\ ctl = Idle /\ denied_sub # None /\ ctl \in CtlType
        /\ UNCHANGED <<emission, input_needs_retry, event, next_req_timestamp, size>>
    BY InvFacts DEF OutputRetry
  <1>1. TypeOK /\ NothingStale /\ Pace /\ Movers /\ sent \in 0 .. 2
    BY PaceBound DEF IInv
  <1>2. \/ /\ denied_sub' = None /\ Accepts(denied_sub)
           /\ FinishChunk(denied_sub, denied_sub.size, "retry") /\ UNCHANGED out
        \/ UNCHANGED <<denied_sub, remaining_size, ctl, up, out, taken, filled, sent>>
        \/ /\ denied_sub' = None /\ Accepts(denied_sub)
           /\ out' = out \cup {denied_sub} /\ ctl' = [pc |-> "tail", k |-> "retry"]
           /\ UNCHANGED <<remaining_size, up, filled>>
    BY DEF OutputRetry
  <1>3. denied_sub.parent \in Reqs /\ up[denied_sub.parent] = "granted"
    BY <1>0, <1>1, ChunkFields DEF TypeOK, NothingStale
  <1>4. CASE /\ denied_sub' = None /\ Accepts(denied_sub)
             /\ FinishChunk(denied_sub, denied_sub.size, "retry") /\ UNCHANGED out
    <2>1. sent' = sent + 1 /\ sent' \in Nat /\ Pace'
      BY <1>0, <1>1, <1>4 DEF Accepts, Pace
    <2>2. Data'
      BY <2>1, <1>0, <1>4, InvFacts, ReplayDone
    <2>3. \/ up' = up /\ ctl' = [pc |-> "tail", k |-> "retry"]
          \/ /\ up' = [up EXCEPT ![denied_sub.parent] = "idle"]
             /\ ctl' = [pc |-> "resp", k |-> "retry"]
      BY <1>3, <1>4, FinishCases
    <2>4. Wakeups'
      BY <2>3, <1>0, <1>3, FinishWakeups
    <2> QED BY <2>1, <2>2, <2>4, Assemble
  <1>5. CASE UNCHANGED <<denied_sub, remaining_size, ctl, up, out, taken, filled, sent>>
    <2>1. Data'
      BY <1>0, <1>1, <1>5, InvFacts, QuietData DEF TypeOK
    <2>2. Wakeups'
      BY <1>0, <1>5, IdleWakeups
    <2>3. Pace'
      BY <1>0, <1>1, <1>5 DEF Pace
    <2> QED BY <2>1, <2>2, <2>3, Assemble
  <1>6. CASE /\ denied_sub' = None /\ Accepts(denied_sub)
             /\ out' = out \cup {denied_sub} /\ ctl' = [pc |-> "tail", k |-> "retry"]
             /\ UNCHANGED <<remaining_size, up, filled>>
    <2>1. sent' = sent + 1 /\ sent' \in Nat /\ Pace'
      BY <1>0, <1>1, <1>6 DEF Accepts, Pace
    <2>2. ctl' \in CtlType
      BY <1>6 DEF CtlType
    <2>3. Data'
      BY <2>1, <2>2, <1>0, <1>6, InvFacts, ReplayGranted
    <2>4. Wakeups'
      BY <1>0, <1>3, <1>6, FinishWakeups
    <2> QED BY <2>1, <2>3, <2>4, Assemble
  <1> QED BY <1>2, <1>4, <1>5, <1>6

LEMMA OutputRespInvariant ==
    ASSUME IInv, NEW c \in out, NEW n, OutputResp(c, n)
    PROVE  IInv'
  <1>1. ctl = Idle /\ FinishChunk(c, n, "end")
        /\ UNCHANGED <<emission, input_needs_retry, denied_sub, event, sent>>
    BY DEF OutputResp
  <1>2. c.parent \in Reqs /\ up[c.parent] = "granted"
    BY ChunkFields DEF IInv, TypeOK, NothingStale
  <1>3. Data'
    BY <1>1, InvFacts, BeatData
  <1>4. \/ up' = up /\ ctl' = [pc |-> "tail", k |-> "end"]
        \/ up' = [up EXCEPT ![c.parent] = "idle"] /\ ctl' = [pc |-> "resp", k |-> "end"]
    BY <1>1, <1>2, FinishCases
  <1>5. Wakeups'
    BY <1>1, <1>2, <1>4, FinishWakeups DEF emission
  <1>6. Pace'
    BY <1>1 DEF IInv, Pace
  <1> QED BY <1>3, <1>5, <1>6, Assemble

(* The tails of the handlers, the clock and a reset. *)
LEMMA OtherInvariant ==
    ASSUME IInv, RespReturns \/ RetryReturns \/ HandlerTail \/ Tick \/ Reset
    PROVE  IInv'
  <1>1. /\ ctl \in CtlType /\ sent \in 0 .. 2 /\ event \in {"off", "next", "now"}
        /\ next_req_timestamp \in {0, 1} /\ input_needs_retry \in BOOLEAN /\ Data /\ Pace
    BY InvFacts, PaceBound DEF IInv, TypeOK
  <1>2. CASE RespReturns
    <2>1. /\ UNCHANGED <<emission, denied_sub, event, next_req_timestamp, remaining_size,
                         up, size, out, taken, filled, sent>>
          /\ input_needs_retry' \in BOOLEAN /\ ctl' \in CtlType
      BY <1>1, <1>2 DEF RespReturns, CtlType
    <2>2. Data'
      BY <2>1, <1>1, QuietData
    <2> QED BY <2>1, <2>2, <1>1, <1>2, RespReturnsWakeups, Assemble DEF Pace
  <1>3. CASE RetryReturns
    <2>1. /\ UNCHANGED <<emission, input_needs_retry, denied_sub, event, next_req_timestamp,
                         remaining_size, up, size, out, taken, filled, sent>>
          /\ ctl' \in CtlType
      BY <1>1, <1>3 DEF RetryReturns, CtlType
    <2>2. Data'
      BY <2>1, <1>1, QuietData
    <2> QED BY <2>1, <2>2, <1>1, <1>3, RetryReturnsWakeups, Assemble DEF Pace
  <1>4. CASE HandlerTail
    <2>1. /\ UNCHANGED <<emission, denied_sub, next_req_timestamp, remaining_size, up, size,
                         out, taken, filled, sent>>
          /\ input_needs_retry' \in BOOLEAN /\ ctl' \in CtlType
      <3>1. UNCHANGED <<emission, denied_sub, next_req_timestamp, remaining_size, up, size,
                        out, taken, filled, sent>>
        BY <1>4 DEF HandlerTail
      <3>2. \/ input_needs_retry' = FALSE /\ ctl' = [pc |-> "retry", k |-> "end"]
            \/ input_needs_retry' = input_needs_retry /\ ctl' = Idle
        BY <1>4 DEF HandlerTail
      <3>3. ctl' \in CtlType
        BY <3>2 DEF CtlType, Idle
      <3>4. input_needs_retry' \in BOOLEAN
        BY <3>2, <1>1
      <3> QED BY <3>1, <3>3, <3>4
    <2>2. event' = event \/ event' = Enqueued(event)
      BY <1>4 DEF HandlerTail
    <2>3. event' \in {"off", "next", "now"} /\ (event' = "now" => event = "now")
      BY <2>2, <1>1 DEF Enqueued
    <2>4. Data'
      BY <2>1, <2>3, <1>1, QuietData
    <2>5. Pace'
      BY <2>1, <2>3, <1>1 DEF Pace
    <2> QED BY <2>4, <2>5, <1>4, HandlerTailWakeups, Assemble
  <1>5. CASE Tick
    <2>1. /\ UNCHANGED <<emission, input_needs_retry, denied_sub, remaining_size, ctl, up,
                         size, out, taken, filled>>
          /\ ctl = Idle /\ next_req_timestamp' = 0 /\ sent' = 0
          /\ event # "now" /\ event' = IF event = "next" THEN "now" ELSE event
      BY <1>5 DEF Tick
    <2>2. event' \in {"off", "next", "now"} /\ (event' = "off" => event = "off")
      BY <2>1, <1>1
    <2>3. Data'
      BY <2>1, <2>2, <1>1, QuietData
    <2>4. pending_req' # None => event' # "off" \/ denied_sub' # None
      BY <2>1, <2>2 DEF IInv, NoLostWakeup, emission
    <2>5. Wakeups'
      BY <2>1, <2>4, IdleWakeups
    <2>6. Pace'
      BY <2>1 DEF Pace
    <2> QED BY <2>3, <2>5, <2>6, Assemble
  <1>6. CASE Reset
    <2>1. /\ ctl = Idle /\ pending_req' = None /\ pending_size' = 0 /\ pending_addr' = 0
          /\ input_needs_retry' = FALSE /\ denied_sub' = None /\ next_req_timestamp' = 0
          /\ remaining_size' = [r \in Reqs |-> 0] /\ up' = [r \in Reqs |-> "idle"]
          /\ out' = {} /\ taken' = [r \in Reqs |-> 0] /\ filled' = [r \in Reqs |-> {}]
          /\ size' = [r \in Reqs |-> 0] /\ UNCHANGED <<event, ctl, sent>>
      BY <1>6 DEF Reset
    <2>2. TypeOK'
      <3>1. sent' \in Nat
        BY <2>1, <1>1
      <3> QED BY <3>1, <2>1, <1>1, LimiterAssumption DEF TypeOK, CtlType, MasterStates
    <2>3. NothingStale' /\ ChunksInOrder'
      BY <2>1 DEF NothingStale, ChunksInOrder
    <2>4. ASSUME NEW r \in Reqs PROVE UnansweredBytes(r)' /\ AnswerIsComplete(r)'
      <3>1. up'[r] = "idle" /\ filled'[r] = {} /\ size'[r] = 0
        BY <2>1
      <3>2. 0 .. (0 - 1) = {}
        OBVIOUS
      <3> QED BY <3>1, <3>2 DEF UnansweredBytes, AnswerIsComplete
    <2>5. Pace'
      BY <2>1, <1>1 DEF Pace
    <2>6. Wakeups'
      BY <2>1 DEF Wakeups, NoLostWakeup, OneDenied, Movers, Idle
    <2> QED BY <2>2, <2>3, <2>4, <2>5, <2>6, Assemble DEF Data, EveryByteAccounted
  <1> QED BY <1>2, <1>3, <1>4, <1>5, <1>6

LEMMA NextInvariant == IInv /\ [Next]_vars => IInv'
  <1> SUFFICES ASSUME IInv, [Next]_vars PROVE IInv'
    OBVIOUS
  <1>1. CASE UNCHANGED vars
    <2>1. /\ UNCHANGED <<emission, input_needs_retry, denied_sub, event, next_req_timestamp,
                         remaining_size, up, size, out, taken, filled, sent>>
          /\ ctl' = ctl
      BY <1>1 DEF vars, emission
    <2>2. Data'
      BY <2>1, InvFacts, PaceBound, QuietData DEF IInv, TypeOK
    <2>3. Wakeups' /\ Pace'
      BY <2>1, InvFacts DEF Wakeups, NoLostWakeup, OneDenied, Movers, Pace, emission
    <2> QED BY <2>2, <2>3, Assemble
  <1>2. CASE Next
    BY <1>2, MasterReqInvariant, MasterReissueInvariant, EventHandlerInvariant,
       OutputRetryInvariant, OutputRespInvariant, OtherInvariant DEF Next
  <1> QED BY <1>1, <1>2

LEMMA Inductive == Spec => []IInv
  BY InitInvariant, NextInvariant, PTL DEF Spec

(***************************************************************************)
(* Every variable of the limiter keeps its type: in particular no chunk is *)
(* cut larger than the bytes that are left, and remaining_size never goes  *)
(* below zero.                                                             *)
(***************************************************************************)
THEOREM LimiterTypeCorrect == Spec => []TypeOK
  <1>1. IInv => TypeOK
    BY DEF IInv
  <1> QED BY <1>1, Inductive, PTL

(***************************************************************************)
(* The documentation promises one sub-request per cycle and the code does  *)
(* not keep it (LimiterTwoPerCycle.cfg); what it does keep, for any slave, *)
(* is two: a replay by output_retry and one emission by event_handler.     *)
(***************************************************************************)
THEOREM LimiterPacing == Spec => [](sent <= 2)
  <1>1. IInv => sent <= 2
    BY PaceBound
  <1> QED BY <1>1, Inductive, PTL

(***************************************************************************)
(* For any size and bandwidth, however the output denies, delays, splits   *)
(* and reorders its answers: chunks are emitted in order and without a     *)
(* gap, each byte of a granted request is answered, in emission or in one  *)
(* chunk, and finish_chunk answers the parent exactly when every one of    *)
(* its bytes is answered.                                                  *)
(***************************************************************************)
THEOREM EveryByteTheorem == Spec => []EveryByteAccounted
  <1>1. IInv => EveryByteAccounted
    BY DEF IInv
  <1> QED BY <1>1, Inductive, PTL

(***************************************************************************)
(* Between check_last_chunk, event_handler and output_retry no wake-up is  *)
(* lost: an emission has its event or a parked chunk to wait for, and a    *)
(* refused master has a granted request whose end fires its retry().       *)
(***************************************************************************)
THEOREM LimiterWakeupTheorem == Spec => []NoLostWakeup
  <1>1. IInv => NoLostWakeup
    BY DEF IInv
  <1> QED BY <1>1, Inductive, PTL

(***************************************************************************)
(* The limiter implements the safety of an io_v2 port: each input_req is   *)
(* one request of the port, check_last_chunk answers only a request that   *)
(* is outstanding, and no other step is seen by the master.                *)
(***************************************************************************)
THEOREM LimiterImplementsPort == Spec => Port!Safety
  <1>1. Init => Port!Init
    BY DEF Init, Port!Init
  <1>2. IInv /\ [Next]_vars => [Port!Next]_(Port!vars)
    <2> SUFFICES ASSUME IInv, [Next]_vars PROVE Port!Next \/ up' = up
      BY DEF Port!vars
    <2>1. ASSUME NEW r \in Reqs, NEW s, InputReq(r, s),
                 \/ up[r] = "idle" /\ NoneDenied(up, Reqs)
                 \/ up[r] = "denied"
          PROVE  Port!Next
      <3>1. up' = [up EXCEPT ![r] = "denied"] \/ up' = [up EXCEPT ![r] = "granted"]
        BY <2>1 DEF InputReq
      <3>2. \E st \in IoReqStatus : up' = [up EXCEPT ![r] = AfterReq(st)]
        <4>1. AfterReq(IO_REQ_DENIED) = "denied" /\ AfterReq(IO_REQ_GRANTED) = "granted"
          BY DEF AfterReq, IO_REQ_DENIED, IO_REQ_GRANTED, IO_REQ_DONE
        <4> QED BY <3>1, <4>1 DEF IoReqStatus
      <3>3. Port!Req(r)
        BY <2>1, <3>2 DEF Port!Req, NoneDenied, Port!NoneDenied, IoReqStatus, Port!IoReqStatus,
           AfterReq, Port!AfterReq, IO_REQ_DONE, IO_REQ_DENIED, IO_REQ_GRANTED,
           Port!IO_REQ_DONE, Port!IO_REQ_DENIED, Port!IO_REQ_GRANTED
      <3> QED BY <3>3 DEF Port!Next
    <2>2. ASSUME NEW c, NEW m, NEW k, c.parent \in Reqs, up[c.parent] = "granted",
                 FinishChunk(c, m, k)
          PROVE  Port!Next \/ up' = up
      <3>1. up' = up \/ up' = [up EXCEPT ![c.parent] = "idle"]
        BY <2>2, FinishCases
      <3> QED BY <3>1, <2>2 DEF Port!Next, Port!Resp
    <2>3. ASSUME NEW st, EventHandler(st) PROVE Port!Next \/ up' = up
      <3>1. CASE NothingToSend \/ next_req_timestamp > 0
        BY <2>3, <3>1 DEF EventHandler
      <3>2. CASE ~(NothingToSend \/ next_req_timestamp > 0)
        <4>0. PICK c : c = [parent |-> pending_req, off |-> pending_addr,
                            size |-> ChunkSize, fill |-> 0]
          OBVIOUS
        <4>1. FinishChunk(c, ChunkSize, "event") \/ up' = up
          BY <2>3, <3>2, <4>0 DEF EventHandler
        <4>2. c.parent \in Reqs /\ up[c.parent] = "granted"
          BY <3>2, <4>0 DEF NothingToSend, IInv, TypeOK, NothingStale
        <4> QED BY <4>1, <4>2, <2>2
      <3> QED BY <3>1, <3>2
    <2>4. ASSUME NEW st, OutputRetry(st) PROVE Port!Next \/ up' = up
      <3>1. FinishChunk(denied_sub, denied_sub.size, "retry") \/ up' = up
        BY <2>4 DEF OutputRetry
      <3>2. denied_sub.parent \in Reqs /\ up[denied_sub.parent] = "granted"
        BY <2>4, ChunkFields DEF OutputRetry, IInv, TypeOK, NothingStale
      <3> QED BY <3>1, <3>2, <2>2
    <2>5. ASSUME NEW c \in out, NEW n, OutputResp(c, n) PROVE Port!Next \/ up' = up
      <3>1. FinishChunk(c, n, "end")
        BY <2>5 DEF OutputResp
      <3>2. c.parent \in Reqs /\ up[c.parent] = "granted"
        BY ChunkFields DEF IInv, TypeOK, NothingStale
      <3> QED BY <3>1, <3>2, <2>2
    <2>6. ASSUME NEW r \in Reqs, MasterReq(r) \/ MasterReissue(r) PROVE Port!Next
      BY <2>1, <2>6 DEF MasterReq, MasterReissue
    <2>7. ASSUME Reset PROVE Port!Next
      BY <2>7 DEF Reset, Port!Next, Port!Reset
    <2>8. ASSUME RespReturns \/ RetryReturns \/ HandlerTail \/ Tick \/ UNCHANGED vars
          PROVE  up' = up
      BY <2>8 DEF RespReturns, RetryReturns, HandlerTail, Tick, vars
    <2> QED BY <2>3, <2>4, <2>5, <2>6, <2>7, <2>8 DEF Next
  <1> QED BY <1>1, <1>2, Inductive, PTL DEF Spec, Port!Safety
=============================================================================
