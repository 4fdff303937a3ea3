---------------------------- MODULE CacheV4Proofs ----------------------------
(***************************************************************************)
(* The safety of the cache, for any number of sets, ways, lines and        *)
(* requests.  Every handler ends in a chain of calls on the component's    *)
(* state, so the lemmas are about these calls on a state c, and the state  *)
(* of the component enters only with the actions.                          *)
(***************************************************************************)
EXTENDS CacheV4, TLAPS

(* The fields of a sound state: its tag array, its refill in flight and    *)
(* the head of its queue.                                                  *)
InFlightLine(c, s, w) == c.pending # "none" /\ s = SetOf(c.tag) /\ w = c.way

OwnBytes(b, t) == b = t \/ (b = Stray /\ NoData # {})

Sound(c) ==
    \A s \in Sets, w \in Ways :
        c.lines[s][w].tag # NoTag =>
            /\ SetOf(c.lines[s][w].tag) = s
            /\ \A v \in Ways : c.lines[s][v].tag = c.lines[s][w].tag => v = w
            /\ OwnBytes(c.lines[s][w].bytes, c.lines[s][w].tag) \/ InFlightLine(c, s, w)

Flight(c) ==
    c.pending # "none" => c.tag \in Tags /\ Hits(c, c.tag) = {} /\ ~c.refill_retry_pending

OwnsHead(c) ==
    c.pending = "demand" =>
        /\ c.queue # <<>> /\ c.offset_of = Head(c.queue) /\ c.tag = TagOf[Head(c.queue)]

Good(c) == c \in CacheType /\ Sound(c) /\ Flight(c) /\ OwnsHead(c)

(* The master: it holds its port for the request that was refused, and     *)
(* the cache has noted it, except inside the retry() that clears the note. *)
OneDenied == \A p, r \in CacheReqs : cache_up[p] = "denied" /\ cache_up[r] = "denied" => p = r

DeniedNoted == cache_ctl # "retry" /\ ~NoneDenied(cache_up, CacheReqs) => cache.input_needs_retry

FlightTag == cache.pending # "none" => cache.tag \in Tags

IInv == /\ CacheTypeOK /\ CacheOnePlace /\ TagArraySound /\ RefillOwnsHead /\ NoLostWakeup
        /\ FlightTag /\ OneDenied /\ DeniedNoted

-----------------------------------------------------------------------------
LEMMA StatusCases ==
    /\ IoReqStatus = {"done", "granted", "denied"}
    /\ IO_REQ_DONE = "done" /\ IO_REQ_GRANTED = "granted" /\ IO_REQ_DENIED = "denied"
    /\ MasterStates = {"idle", "granted", "denied", "error"} /\ AfterResp("granted") = "idle"
    /\ AfterReq("done") = "idle" /\ AfterReq("granted") = "granted" /\ AfterReq("denied") = "denied"
BY DEF IoReqStatus, IO_REQ_DONE, IO_REQ_GRANTED, IO_REQ_DENIED, AfterResp, AfterReq, MasterStates

LEMMA Constants ==
    /\ AnyWay \in Ways /\ NoTag \notin Tags /\ Torn \notin Tags /\ Stray \notin Tags
    /\ Torn # NoTag /\ Stray # NoTag /\ Stray # Torn
    /\ \A t \in Tags : SetOf(t) \in Sets
    /\ \A r \in CacheReqs : TagOf[r] \in Tags /\ TagOf[r] + 1 \in Tags
<1>1. AnyWay \in Ways
  BY CacheAssumption DEF AnyWay
<1>2. /\ NoTag \notin Tags /\ Torn \notin Tags /\ Stray \notin Tags
      /\ Torn # NoTag /\ Stray # NoTag /\ Stray # Torn
  BY CacheAssumption DEF NoTag, Torn, Stray, Tags
<1>3. ASSUME NEW t \in Tags PROVE SetOf(t) \in Sets
  <2>1. t \in Nat /\ NbSets \in Nat \ {0}
    BY CacheAssumption DEF Tags
  <2>2. t % NbSets \in 0 .. NbSets - 1
    BY <2>1
  <2> QED BY <2>2 DEF SetOf, Sets
<1>4. \A r \in CacheReqs : TagOf[r] \in Tags /\ TagOf[r] + 1 \in Tags
  BY CacheAssumption DEF Tags
<1> QED BY <1>1, <1>2, <1>3, <1>4

LEMMA FieldTypes ==
    ASSUME NEW c \in CacheType
    PROVE  /\ c.lines \in [Sets -> [Ways -> Line]] /\ c.enabled \in BOOLEAN
           /\ c.queue \in Seq(CacheReqs) /\ c.fresh \in SUBSET CacheReqs /\ c.fsm \in {"off", "next", "now"}
           /\ c.pending \in {"none", "demand", "prefetch"} /\ c.way \in Ways
           /\ c.tag \in Tags \cup {NoTag} /\ c.early \in BOOLEAN
           /\ c.offset_of \in CacheReqs \cup {NoReq} /\ c.prefetch_tag \in Tags \cup {NoTag}
           /\ c.refill_retry_pending \in BOOLEAN /\ c.input_needs_retry \in BOOLEAN
BY DEF CacheType

(* Writing one line of the array. *)
Put(lines, s, w, l) == [lines EXCEPT ![s][w] = l]

LEMMA LineFields ==
    /\ \A l \in Line : /\ l.tag \in Tags \cup {NoTag} /\ l.bytes \in Tags \cup {NoTag, Torn, Stray}
                       /\ l.prefetched \in BOOLEAN
    /\ \A t \in Tags \cup {NoTag}, b \in Tags \cup {NoTag, Torn, Stray}, p \in BOOLEAN :
          [tag |-> t, bytes |-> b, prefetched |-> p] \in Line
BY DEF Line

(* What a call on the refill port leaves alone. *)
Rest(c) == <<c.enabled, c.queue, c.fresh, c.fsm, c.prefetch_tag, c.offset_of,
             c.refill_retry_pending, c.input_needs_retry>>

LEMMA NoHits ==
    ASSUME NEW c \in CacheType, NEW t \in Tags
    PROVE  Hits(c, t) = {} <=> \A v \in Ways : c.lines[SetOf(t)][v].tag # t
BY DEF Hits

(* A line that is in no way of its set is fetched over a victim. *)
LEMMA FetchDone ==
    ASSUME NEW c \in CacheType, Sound(c), PortFree(c), NEW t \in Tags, Hits(c, t) = {},
           NEW w \in Ways, NEW kind \in {"demand", "prefetch"}, NEW f,
           f = Fetch(c, kind, t, w, "done")
    PROVE  /\ f \in CacheType /\ Sound(f) /\ Rest(f) = Rest(c) /\ f.pending = "none"
           /\ f.lines[SetOf(t)][w].tag = t /\ f.lines[SetOf(t)][w].bytes = t
<1>1. SetOf(t) \in Sets /\ t # NoTag /\ c.lines \in [Sets -> [Ways -> Line]]
  BY Constants, FieldTypes
<1>2. PICK l \in Line : /\ f = [c EXCEPT !.lines = Put(c.lines, SetOf(t), w, l)]
                        /\ l.tag = t /\ l.bytes = t
  <2> DEFINE l == [tag |-> t, bytes |-> t,
                   prefetched |-> IF kind = "prefetch" THEN TRUE
                                  ELSE c.lines[SetOf(t)][w].prefetched]
  <2>1. c.lines[SetOf(t)][w] \in Line
    BY <1>1
  <2>2. l \in Line
    BY <2>1, LineFields
  <2>3. f = [c EXCEPT !.lines = Put(c.lines, SetOf(t), w, l)]
    BY <1>1, StatusCases DEF Fetch, Put, CacheType
  <2> QED BY <2>2, <2>3
<1> PICK n : n = Put(c.lines, SetOf(t), w, l)
  OBVIOUS
<1>3. /\ n \in [Sets -> [Ways -> Line]] /\ n[SetOf(t)][w] = l
      /\ \A x \in Sets, v \in Ways : x # SetOf(t) \/ v # w => n[x][v] = c.lines[x][v]
  <2>1. l \in Line /\ SetOf(t) \in Sets
    BY <1>1, <1>2
  <2>2. /\ Put(c.lines, SetOf(t), w, l) \in [Sets -> [Ways -> Line]]
        /\ Put(c.lines, SetOf(t), w, l)[SetOf(t)][w] = l
        /\ \A x \in Sets, v \in Ways :
              x # SetOf(t) \/ v # w => Put(c.lines, SetOf(t), w, l)[x][v] = c.lines[x][v]
    BY <1>1, <2>1 DEF Put
  <2> QED BY <2>2
<1>4. f \in CacheType /\ f.lines = n /\ f.pending = c.pending /\ f.tag = c.tag /\ f.way = c.way
  BY <1>2, <1>3 DEF CacheType
<1>5. Rest(f) = Rest(c)
  BY <1>2 DEF Rest, CacheType
<1>6. c.pending = "none" /\ \A v \in Ways : c.lines[SetOf(t)][v].tag # t
  BY NoHits DEF PortFree
<1>7. Sound(f)
  <2> SUFFICES ASSUME NEW s \in Sets, NEW v \in Ways, n[s][v].tag # NoTag
               PROVE  /\ SetOf(n[s][v].tag) = s
                      /\ \A u \in Ways : n[s][u].tag = n[s][v].tag => u = v
                      /\ OwnBytes(n[s][v].bytes, n[s][v].tag)
    BY <1>4 DEF Sound
  <2>1. CASE s = SetOf(t) /\ v = w
    BY <1>2, <1>3, <1>6, <2>1 DEF OwnBytes
  <2>2. CASE ~(s = SetOf(t) /\ v = w)
    <3>1. n[s][v] = c.lines[s][v]
      BY <1>3, <2>2
    <3>2. /\ SetOf(c.lines[s][v].tag) = s /\ OwnBytes(c.lines[s][v].bytes, c.lines[s][v].tag)
          /\ \A u \in Ways : c.lines[s][u].tag = c.lines[s][v].tag => u = v
      BY <1>6, <3>1 DEF Sound, InFlightLine
    <3>3. s = SetOf(t) => n[s][w].tag # n[s][v].tag
      BY <1>2, <1>3, <1>6, <3>1
    <3> QED BY <1>3, <3>1, <3>2, <3>3
  <2> QED BY <2>1, <2>2
<1> QED BY <1>2, <1>3, <1>4, <1>5, <1>6, <1>7

LEMMA FetchGranted ==
    ASSUME NEW c \in CacheType, Sound(c), PortFree(c), NEW t \in Tags, Hits(c, t) = {},
           NEW w \in Ways, NEW kind \in {"demand", "prefetch"}, NEW f,
           f = Fetch(c, kind, t, w, "granted")
    PROVE  /\ f \in CacheType /\ Sound(f) /\ Rest(f) = Rest(c) /\ Flight(f)
           /\ f.pending = kind /\ f.tag = t
<1>1. SetOf(t) \in Sets /\ t # NoTag /\ c.lines \in [Sets -> [Ways -> Line]]
  BY Constants, FieldTypes
<1> PICK old : old = c.lines[SetOf(t)][w]
  OBVIOUS
<1>2. PICK l \in Line : /\ f = [c EXCEPT !.lines = Put(c.lines, SetOf(t), w, l), !.pending = kind,
                                         !.way = w, !.tag = t, !.early = FALSE]
                        /\ l.tag = old.tag
  <2> DEFINE l == [old EXCEPT !.bytes = Torn]
  <2>1. old \in Line
    BY <1>1
  <2>2. l \in Line /\ l.tag = old.tag
    BY <2>1 DEF Line
  <2>3. f = [c EXCEPT !.lines = Put(c.lines, SetOf(t), w, l), !.pending = kind,
                      !.way = w, !.tag = t, !.early = FALSE]
    BY <1>1, StatusCases DEF Fetch, Put, CacheType
  <2> QED BY <2>2, <2>3
<1> PICK n : n = Put(c.lines, SetOf(t), w, l)
  OBVIOUS
<1>3. /\ n \in [Sets -> [Ways -> Line]] /\ n[SetOf(t)][w] = l
      /\ \A x \in Sets, v \in Ways : x # SetOf(t) \/ v # w => n[x][v] = c.lines[x][v]
  <2>1. l \in Line /\ SetOf(t) \in Sets
    BY <1>1, <1>2
  <2>2. /\ Put(c.lines, SetOf(t), w, l) \in [Sets -> [Ways -> Line]]
        /\ Put(c.lines, SetOf(t), w, l)[SetOf(t)][w] = l
        /\ \A x \in Sets, v \in Ways :
              x # SetOf(t) \/ v # w => Put(c.lines, SetOf(t), w, l)[x][v] = c.lines[x][v]
    BY <1>1, <2>1 DEF Put
  <2> QED BY <2>2
<1>4. /\ f \in CacheType /\ f.lines = n /\ f.pending = kind /\ f.tag = t /\ f.way = w
      /\ f.refill_retry_pending = c.refill_retry_pending
  BY <1>2, <1>3 DEF CacheType
<1>5. Rest(f) = Rest(c)
  BY <1>2 DEF Rest, CacheType
<1>6. /\ c.pending = "none" /\ ~c.refill_retry_pending
      /\ \A v \in Ways : c.lines[SetOf(t)][v].tag # t
  BY NoHits DEF PortFree
<1>7. \A x \in Sets, v \in Ways : n[x][v].tag = c.lines[x][v].tag
  BY <1>2, <1>3
<1>8. Sound(f)
  <2> SUFFICES ASSUME NEW s \in Sets, NEW v \in Ways, n[s][v].tag # NoTag
               PROVE  /\ SetOf(n[s][v].tag) = s
                      /\ \A u \in Ways : n[s][u].tag = n[s][v].tag => u = v
                      /\ OwnBytes(n[s][v].bytes, n[s][v].tag) \/ (s = SetOf(t) /\ v = w)
    BY <1>4 DEF Sound, InFlightLine
  <2>1. /\ SetOf(c.lines[s][v].tag) = s /\ OwnBytes(c.lines[s][v].bytes, c.lines[s][v].tag)
        /\ \A u \in Ways : c.lines[s][u].tag = c.lines[s][v].tag => u = v
    BY <1>6, <1>7 DEF Sound, InFlightLine
  <2> QED BY <1>3, <1>7, <2>1
<1>9. Hits(f, t) = {}
  BY <1>1, <1>4, <1>6, <1>7, NoHits
<1> QED BY <1>4, <1>5, <1>6, <1>8, <1>9 DEF Flight

(* What Sound, Hits and the refill in flight look at. *)
Array(c) == <<c.lines, c.pending, c.way, c.tag>>

LEMMA SameArray ==
    ASSUME NEW c, NEW d, Array(d) = Array(c)
    PROVE  /\ Sound(c) => Sound(d)
           /\ \A t : Hits(d, t) = Hits(c, t)
           /\ Flight(c) /\ (d.refill_retry_pending => c.refill_retry_pending) => Flight(d)
<1>1. d.lines = c.lines /\ d.pending = c.pending /\ d.way = c.way /\ d.tag = c.tag
  BY DEF Array
<1>2. Sound(c) => Sound(d)
  BY <1>1 DEF Sound, InFlightLine
<1>3. \A t : Hits(d, t) = Hits(c, t)
  BY <1>1 DEF Hits
<1>4. Flight(c) /\ (d.refill_retry_pending => c.refill_retry_pending) => Flight(d)
  BY <1>1, <1>3 DEF Flight
<1> QED BY <1>2, <1>3, <1>4

(* What the calls of check_state and try_prefetch leave alone. *)
Kept(c, d) == /\ d.queue = c.queue /\ d.refill_retry_pending = c.refill_retry_pending
              /\ d.input_needs_retry = c.input_needs_retry

LEMMA TryPrefetchGood ==
    ASSUME NEW c, Good(c), PortFree(c), NEW f \in FetchIf(TriesPrefetch(c)),
           NEW d, d = TryPrefetch(c, f[1], f[2])
    PROVE  Good(d) /\ Kept(c, d) /\ d.fsm = c.fsm
<1> PICK b : b = [c EXCEPT !.prefetch_tag = IF c.enabled THEN NoTag ELSE @]
  OBVIOUS
<1>1. /\ b \in CacheType /\ Array(b) = Array(c) /\ Kept(c, b)
      /\ b.pending = "none" /\ PortFree(b) /\ Sound(b) /\ b.fsm = c.fsm
  <2>1. /\ b \in CacheType /\ Array(b) = Array(c) /\ Kept(c, b)
        /\ b.pending = "none" /\ PortFree(b) /\ b.fsm = c.fsm
    BY DEF Good, CacheType, Array, Kept, PortFree
  <2> QED BY <2>1, SameArray DEF Good
<1>2. Good(b)
  BY <1>1 DEF Good, Flight, OwnsHead
<1>3. CASE ~WantsPrefetch(c)
  BY <1>1, <1>2, <1>3 DEF TryPrefetch
<1>4. CASE WantsPrefetch(c)
  <2> PICK t : t = c.prefetch_tag
    OBVIOUS
  <2>1. t \in Tags /\ Hits(b, t) = {}
    BY <1>1, <1>4, SameArray, FieldTypes DEF WantsPrefetch, Good
  <2>2. f[1] \in Ways /\ f[2] \in {"done", "granted", "denied"}
    BY <1>4, StatusCases DEF FetchIf, Fetches, TriesPrefetch
  <2>3. d = Fetch(b, "prefetch", t, f[1], f[2])
    BY <1>4 DEF TryPrefetch
  <2>4. CASE f[2] = "done"
    <3>1. d \in CacheType /\ Sound(d) /\ Rest(d) = Rest(b) /\ d.pending = "none"
      BY <1>1, <2>1, <2>2, <2>3, <2>4, FetchDone
    <3> QED BY <1>1, <3>1 DEF Good, Flight, OwnsHead, Kept, Rest
  <2>5. CASE f[2] = "granted"
    <3>1. d \in CacheType /\ Sound(d) /\ Rest(d) = Rest(b) /\ Flight(d) /\ d.pending = "prefetch"
      BY <1>1, <2>1, <2>2, <2>3, <2>5, FetchGranted
    <3> QED BY <1>1, <3>1 DEF Good, OwnsHead, Kept, Rest
  <2>6. CASE f[2] = "denied"
    BY <1>1, <1>2, <2>3, <2>6, StatusCases DEF Fetch
  <2> QED BY <2>2, <2>4, <2>5, <2>6
<1> QED BY <1>3, <1>4

(* check_state as a handler's last call: what waits is served in the next  *)
(* cycle, unless the refill port is busy or refused.                       *)
Served(c) == c.queue # <<>> => c.pending # "none" \/ c.refill_retry_pending \/ c.fsm # "off"

LEMMA CheckStateGood ==
    ASSUME NEW c, Good(c), NEW f \in FetchIf(c.queue = <<>> /\ TriesPrefetch(c)),
           NEW d, d = CheckState(c, f[1], f[2])
    PROVE  Good(d) /\ Kept(c, d) /\ Served(d)
<1>1. CASE PortFree(c) /\ c.queue # <<>>
  <2>1. d = [c EXCEPT !.fsm = IF @ = "off" THEN "next" ELSE @]
    BY <1>1 DEF CheckState
  <2>2. /\ d \in CacheType /\ Array(d) = Array(c) /\ Kept(c, d) /\ d.fsm # "off"
        /\ d.pending = "none" /\ PortFree(d)
    BY <1>1, <2>1 DEF Good, CacheType, Array, Kept, PortFree
  <2>3. Sound(d)
    BY <2>2, SameArray DEF Good
  <2> QED BY <2>2, <2>3 DEF Good, Flight, OwnsHead, Served
<1>2. CASE PortFree(c) /\ c.queue = <<>>
  <2>1. d = TryPrefetch(c, f[1], f[2])
    BY <1>2 DEF CheckState
  <2>2. f \in FetchIf(TriesPrefetch(c))
    BY <1>2 DEF FetchIf
  <2>3. Good(d) /\ Kept(c, d)
    BY <1>2, <2>1, <2>2, TryPrefetchGood
  <2> QED BY <1>2, <2>3 DEF Kept, Served
<1>3. CASE ~PortFree(c)
  <2>1. d = c
    BY <1>3 DEF CheckState
  <2> QED BY <1>3, <2>1 DEF Kept, Served, PortFree
<1> QED BY <1>1, <1>2, <1>3

LEMMA PushHead ==
    ASSUME NEW s \in Seq(CacheReqs), NEW r \in CacheReqs, NEW z, z = <<r>> \o s
    PROVE  /\ z \in Seq(CacheReqs) /\ Len(z) = Len(s) + 1 /\ z # <<>> /\ Head(z) = r /\ z[1] = r
           /\ \A i \in 1 .. Len(s) : z[i + 1] = s[i]
<1>1. Len(<<r>>) = 1 /\ <<r>> \in Seq(CacheReqs)
  OBVIOUS
<1>2. z \in Seq(CacheReqs) /\ Len(z) = Len(s) + 1 /\ Len(s) \in Nat
  BY <1>1
<1>3. z[1] = r
  BY <1>1, <1>2
<1>4. \A i \in 1 .. Len(s) : z[i + 1] = s[i]
  BY <1>1, <1>2
<1> QED BY <1>2, <1>3, <1>4

LEMMA ArmPrefetchGood ==
    ASSUME NEW c \in CacheType, NEW r \in CacheReqs, NEW d, d = ArmPrefetch(c, TagOf[r])
    PROVE  /\ d \in CacheType /\ Array(d) = Array(c) /\ Kept(c, d)
           /\ d.fsm = c.fsm /\ d.fresh = c.fresh /\ d.enabled = c.enabled
<1>1. TagOf[r] + 1 \in Tags
  BY Constants
<1> QED BY <1>1 DEF ArmPrefetch, CacheType, Array, Kept

(* The bytes of r's line are there to be copied. *)
Answerable(c, r) ==
    \E v \in Hits(c, TagOf[r]) : OwnBytes(c.lines[SetOf(TagOf[r])][v].bytes, TagOf[r])

(* What handle_req leaves for each status it returns. *)
Handled(c, d, r, status) ==
    /\ Good(d) /\ d.input_needs_retry = c.input_needs_retry /\ d.fsm = c.fsm
    /\ status \in {"done", "granted", "denied"}
    /\ status = "done" => PortFree(d) /\ d.queue = c.queue /\ Answerable(d, r)
    /\ status = "granted" => /\ d.queue = <<r>> \o c.queue /\ d.pending = "demand"
                             /\ ~d.refill_retry_pending
    /\ status = "denied" => d.queue = c.queue /\ d.refill_retry_pending

LEMMA RefillHandled ==
    ASSUME NEW c \in CacheType, Sound(c), PortFree(c), NEW r \in CacheReqs, Hits(c, TagOf[r]) = {},
           NEW w \in Ways, NEW st \in IoReqStatus, NEW d, d = Refill(c, r, w, st)
    PROVE  Handled(c, d, r, st)
<1> PICK t, f : t = TagOf[r] /\ f = Fetch(c, "demand", t, w, st)
  OBVIOUS
<1>1. t \in Tags /\ SetOf(t) \in Sets
  BY Constants
<1>2. CASE st = "done"
  <2>1. d = f
    BY <1>2, StatusCases DEF Refill
  <2>2. /\ f \in CacheType /\ Sound(f) /\ Rest(f) = Rest(c) /\ f.pending = "none"
        /\ f.lines[SetOf(t)][w].tag = t /\ f.lines[SetOf(t)][w].bytes = t
    BY <1>1, <1>2, FetchDone
  <2>3. Answerable(f, r)
    BY <2>2 DEF Answerable, Hits, OwnBytes
  <2> QED BY <1>2, <2>1, <2>2, <2>3
          DEF Handled, Good, Flight, OwnsHead, PortFree, Rest
<1>3. CASE st = "granted"
  <2>1. /\ f \in CacheType /\ Sound(f) /\ Rest(f) = Rest(c) /\ Flight(f)
        /\ f.pending = "demand" /\ f.tag = t
    BY <1>1, <1>3, FetchGranted
  <2> PICK z : z = <<r>> \o f.queue
    OBVIOUS
  <2>2. f.queue \in Seq(CacheReqs) /\ f.queue = c.queue
    BY <2>1, FieldTypes DEF Rest
  <2>3. z \in Seq(CacheReqs) /\ z # <<>> /\ Head(z) = r
    BY <2>2, PushHead
  <2>4. d = [f EXCEPT !.queue = z, !.offset_of = r]
    BY <1>3, StatusCases DEF Refill
  <2>5. /\ d \in CacheType /\ Array(d) = Array(f) /\ d.queue = z /\ d.offset_of = r
        /\ d.refill_retry_pending = f.refill_retry_pending /\ d.tag = t /\ d.pending = "demand"
        /\ d.input_needs_retry = f.input_needs_retry /\ d.fsm = f.fsm
    BY <2>1, <2>3, <2>4 DEF CacheType, Array
  <2>6. Sound(d) /\ Flight(d)
    BY <2>1, <2>5, SameArray
  <2> QED BY <1>3, <2>1, <2>2, <2>3, <2>5, <2>6
          DEF Handled, Good, OwnsHead, PortFree, Rest
<1>4. CASE st = "denied"
  <2>1. d = [c EXCEPT !.refill_retry_pending = TRUE]
    BY <1>4, StatusCases DEF Refill, Fetch
  <2>2. /\ d \in CacheType /\ Array(d) = Array(c) /\ d.queue = c.queue /\ d.refill_retry_pending
        /\ d.input_needs_retry = c.input_needs_retry /\ d.fsm = c.fsm /\ d.pending = "none"
    BY <2>1 DEF CacheType, Array, PortFree
  <2>3. Sound(d)
    BY <2>2, SameArray
  <2> QED BY <1>4, <2>2, <2>3 DEF Handled, Good, Flight, OwnsHead
<1> QED BY <1>2, <1>3, <1>4, StatusCases

LEMMA HandleReqHandled ==
    ASSUME NEW c \in CacheType, Sound(c), PortFree(c), NEW r \in CacheReqs,
           NEW w \in Ways, NEW st \in IoReqStatus, NEW d, d = HandleReq(c, r, w, st)
    PROVE  Handled(c, d, r, HandleStatus(c, r, st))
<1> PICK t, h : t = TagOf[r] /\ h = CHOOSE v \in Hits(c, t) : TRUE
  OBVIOUS
<1>1. t \in Tags /\ SetOf(t) \in Sets /\ c.lines \in [Sets -> [Ways -> Line]] /\ t # NoTag
  BY Constants, FieldTypes
<1>2. CASE Hits(c, t) = {}
  <2> PICK a : a = ArmPrefetch(c, t)
    OBVIOUS
  <2>1. /\ a \in CacheType /\ Array(a) = Array(c) /\ Kept(c, a) /\ a.fsm = c.fsm
        /\ Sound(a) /\ Hits(a, t) = {} /\ PortFree(a)
    <3>1. a \in CacheType /\ Array(a) = Array(c) /\ Kept(c, a) /\ a.fsm = c.fsm
      BY ArmPrefetchGood
    <3>2. Sound(a) /\ Hits(a, t) = {}
      BY <1>2, <3>1, SameArray
    <3> QED BY <3>1, <3>2 DEF PortFree, Array, Kept
  <2>2. d = Refill(a, r, w, st)
    BY <1>2 DEF HandleReq
  <2>3. Handled(a, d, r, st)
    BY <2>1, <2>2, RefillHandled
  <2>4. HandleStatus(c, r, st) = st
    BY <1>2 DEF HandleStatus
  <2> QED BY <2>1, <2>3, <2>4 DEF Handled, Kept
<1>3. CASE Hits(c, t) # {}
  <2>1. h \in Ways /\ c.lines[SetOf(t)][h].tag = t /\ HandleStatus(c, r, st) = "done"
    BY <1>3, StatusCases DEF Hits, HandleStatus
  <2>2. c.pending = "none" /\ ~c.refill_retry_pending /\ OwnBytes(c.lines[SetOf(t)][h].bytes, t)
    BY <1>1, <2>1 DEF PortFree, Sound, InFlightLine
  <2>3. CASE ~c.lines[SetOf(t)][h].prefetched
    <3>1. d = c
      BY <1>3, <2>3 DEF HandleReq
    <3>2. Answerable(c, r)
      BY <2>1, <2>2 DEF Answerable, Hits
    <3> QED BY <2>1, <2>2, <3>1, <3>2 DEF Handled, Good, Flight, OwnsHead
  <2>4. CASE c.lines[SetOf(t)][h].prefetched
    <3>1. PICK l \in Line : /\ d = ArmPrefetch([c EXCEPT !.lines = Put(c.lines, SetOf(t), h, l)], t)
                            /\ l.tag = t /\ l.bytes = c.lines[SetOf(t)][h].bytes
      <4> DEFINE l == [c.lines[SetOf(t)][h] EXCEPT !.prefetched = FALSE]
      <4>1. c.lines[SetOf(t)][h] \in Line
        BY <1>1, <2>1
      <4>2. l \in Line /\ l.tag = t /\ l.bytes = c.lines[SetOf(t)][h].bytes
        BY <2>1, <4>1 DEF Line
      <4>3. d = ArmPrefetch([c EXCEPT !.lines[SetOf(t)][h].prefetched = FALSE], t)
        BY <1>3, <2>4 DEF HandleReq
      <4>4. [c EXCEPT !.lines[SetOf(t)][h].prefetched = FALSE]
              = [c EXCEPT !.lines = Put(c.lines, SetOf(t), h, l)]
        BY <1>1, <2>1 DEF Put, CacheType
      <4> QED BY <4>2, <4>3, <4>4
    <3>0. PICK n, b : n = Put(c.lines, SetOf(t), h, l) /\ b = [c EXCEPT !.lines = n]
      OBVIOUS
    <3>2. /\ n \in [Sets -> [Ways -> Line]]
          /\ \A s \in Sets, v \in Ways :
                n[s][v].tag = c.lines[s][v].tag /\ n[s][v].bytes = c.lines[s][v].bytes
      <4>1. /\ n \in [Sets -> [Ways -> Line]]
            /\ \A s \in Sets, v \in Ways : s # SetOf(t) \/ v # h => n[s][v] = c.lines[s][v]
            /\ n[SetOf(t)][h] = l
        BY <1>1, <2>1, <3>0, <3>1 DEF Put
      <4> QED BY <1>1, <2>1, <2>2, <3>1, <4>1
    <3>3. /\ b \in CacheType /\ b.lines = n /\ b.pending = "none" /\ Kept(c, b) /\ b.fsm = c.fsm
          /\ ~b.refill_retry_pending
      BY <2>2, <3>0, <3>2 DEF CacheType, Kept
    <3>4. Sound(b)
      BY <2>2, <3>2, <3>3 DEF Sound, InFlightLine
    <3>5. Answerable(b, r)
      <4>1. b.lines[SetOf(t)][h].tag = t /\ OwnBytes(b.lines[SetOf(t)][h].bytes, t)
        BY <1>1, <2>1, <2>2, <3>2, <3>3
      <4>2. h \in Hits(b, TagOf[r])
        BY <2>1, <4>1 DEF Hits
      <4> QED BY <4>1, <4>2 DEF Answerable
    <3>6. /\ d \in CacheType /\ Array(d) = Array(b) /\ Kept(b, d) /\ d.fsm = b.fsm
      <4>1. d = ArmPrefetch(b, TagOf[r])
        BY <3>0, <3>1
      <4> QED BY <3>3, <4>1, ArmPrefetchGood
    <3>7. Sound(d) /\ Answerable(d, r)
      BY <3>4, <3>5, <3>6, SameArray DEF Answerable, Array
    <3> QED BY <2>1, <3>3, <3>6, <3>7
            DEF Handled, Good, Flight, OwnsHead, Array, Kept, PortFree
  <2> QED BY <2>3, <2>4
<1> QED BY <1>2, <1>3

(* The response to a refill: its line is installed over the victim. *)
LEMMA InstallGood ==
    ASSUME NEW c, Good(c), c.pending # "none", NEW d, d = Install(c)
    PROVE  /\ Good(d) /\ Kept(c, d) /\ d.pending = "none" /\ d.fresh = c.fresh
           /\ d.fsm = c.fsm /\ d.enabled = c.enabled
<1> PICK t, w : t = c.tag /\ w = c.way
  OBVIOUS
<1>1. /\ c \in CacheType /\ t \in Tags /\ t # NoTag /\ w \in Ways /\ SetOf(t) \in Sets
      /\ c.lines \in [Sets -> [Ways -> Line]]
  BY Constants, FieldTypes DEF Good, Flight
<1>2. /\ \A v \in Ways : c.lines[SetOf(t)][v].tag # t
  BY <1>1, NoHits DEF Good, Flight
<1>3. PICK l \in Line :
         /\ d = [c EXCEPT !.lines = Put(c.lines, SetOf(t), w, l),
                          !.pending = "none", !.way = AnyWay, !.tag = NoTag, !.early = FALSE,
                          !.offset_of = NoReq]
         /\ l.tag = t /\ l.bytes = t
  <2> DEFINE l == [tag |-> t, bytes |-> t,
                   prefetched |-> IF c.pending = "prefetch" THEN TRUE
                                  ELSE c.lines[SetOf(t)][w].prefetched]
  <2>1. c.lines[SetOf(t)][w] \in Line
    BY <1>1
  <2>2. l \in Line
    BY <1>1, <2>1, LineFields
  <2>3. d = [c EXCEPT !.lines = Put(c.lines, SetOf(t), w, l),
                      !.pending = "none", !.way = AnyWay, !.tag = NoTag, !.early = FALSE,
                      !.offset_of = NoReq]
    BY <1>1 DEF Install, Landed, Put, CacheType
  <2> QED BY <2>2, <2>3
<1>4. PICK n : n = Put(c.lines, SetOf(t), w, l)
  OBVIOUS
<1>5. /\ n \in [Sets -> [Ways -> Line]] /\ n[SetOf(t)][w] = l
      /\ \A x \in Sets, v \in Ways : x # SetOf(t) \/ v # w => n[x][v] = c.lines[x][v]
  BY <1>1, <1>3, <1>4 DEF Put
<1>6. /\ d \in CacheType /\ d.lines = n /\ d.pending = "none" /\ Kept(c, d)
      /\ d.fresh = c.fresh /\ d.fsm = c.fsm /\ d.enabled = c.enabled
  BY <1>1, <1>3, <1>4, <1>5, Constants DEF CacheType, Kept
<1>7. Sound(d)
  <2> SUFFICES ASSUME NEW s \in Sets, NEW v \in Ways, n[s][v].tag # NoTag
               PROVE  /\ SetOf(n[s][v].tag) = s
                      /\ \A u \in Ways : n[s][u].tag = n[s][v].tag => u = v
                      /\ OwnBytes(n[s][v].bytes, n[s][v].tag)
    BY <1>6 DEF Sound
  <2>1. CASE s = SetOf(t) /\ v = w
    BY <1>2, <1>3, <1>5, <2>1 DEF OwnBytes
  <2>2. CASE ~(s = SetOf(t) /\ v = w)
    <3>1. n[s][v] = c.lines[s][v]
      BY <1>5, <2>2
    <3>2. /\ SetOf(c.lines[s][v].tag) = s /\ OwnBytes(c.lines[s][v].bytes, c.lines[s][v].tag)
          /\ \A u \in Ways : c.lines[s][u].tag = c.lines[s][v].tag => u = v
      BY <2>2, <3>1 DEF Good, Sound, InFlightLine
    <3>3. s = SetOf(t) => n[s][w].tag # n[s][v].tag
      BY <1>2, <1>3, <1>5, <3>1
    <3> QED BY <1>5, <3>1, <3>2, <3>3
  <2> QED BY <2>1, <2>2
<1> QED BY <1>6, <1>7 DEF Good, Flight, OwnsHead

(* The response to a refill for a request without a buffer: the victim     *)
(* keeps its tag over the new bytes.                                       *)
LEMMA LeaveUntaggedGood ==
    ASSUME NEW c, Good(c), c.pending # "none", NoData # {}, NEW d, d = LeaveUntagged(c)
    PROVE  /\ Good(d) /\ Kept(c, d) /\ d.pending = "none" /\ d.fresh = c.fresh
           /\ d.fsm = c.fsm /\ d.enabled = c.enabled
<1> PICK t, w : t = c.tag /\ w = c.way
  OBVIOUS
<1>1. /\ c \in CacheType /\ t \in Tags /\ w \in Ways /\ SetOf(t) \in Sets
      /\ c.lines \in [Sets -> [Ways -> Line]]
  BY Constants, FieldTypes DEF Good, Flight
<1>2. PICK old \in Line : old = c.lines[SetOf(t)][w]
  BY <1>1
<1>3. PICK l \in Line :
         /\ d = [c EXCEPT !.lines = Put(c.lines, SetOf(t), w, l),
                          !.pending = "none", !.way = AnyWay, !.tag = NoTag, !.early = FALSE,
                          !.offset_of = NoReq]
         /\ l.tag = old.tag /\ l.bytes = Stray
  <2> DEFINE l == [old EXCEPT !.bytes = Stray]
  <2>1. l \in Line /\ l.tag = old.tag /\ l.bytes = Stray
    BY <1>2 DEF Line
  <2>2. d = [c EXCEPT !.lines = Put(c.lines, SetOf(t), w, l),
                      !.pending = "none", !.way = AnyWay, !.tag = NoTag, !.early = FALSE,
                      !.offset_of = NoReq]
    BY <1>1, <1>2 DEF LeaveUntagged, Landed, Put, CacheType
  <2> QED BY <2>1, <2>2
<1>4. PICK n : n = Put(c.lines, SetOf(t), w, l)
  OBVIOUS
<1>5. /\ n \in [Sets -> [Ways -> Line]] /\ n[SetOf(t)][w] = l
      /\ \A x \in Sets, v \in Ways : x # SetOf(t) \/ v # w => n[x][v] = c.lines[x][v]
  BY <1>1, <1>3, <1>4 DEF Put
<1>6. /\ d \in CacheType /\ d.lines = n /\ d.pending = "none" /\ Kept(c, d)
      /\ d.fresh = c.fresh /\ d.fsm = c.fsm /\ d.enabled = c.enabled
  BY <1>1, <1>3, <1>4, <1>5, Constants DEF CacheType, Kept
<1>7. \A x \in Sets, v \in Ways : n[x][v].tag = c.lines[x][v].tag
  BY <1>2, <1>3, <1>5
<1>8. Sound(d)
  <2> SUFFICES ASSUME NEW s \in Sets, NEW v \in Ways, n[s][v].tag # NoTag
               PROVE  /\ SetOf(n[s][v].tag) = s
                      /\ \A u \in Ways : n[s][u].tag = n[s][v].tag => u = v
                      /\ OwnBytes(n[s][v].bytes, n[s][v].tag)
    BY <1>6 DEF Sound
  <2>1. /\ SetOf(c.lines[s][v].tag) = s
        /\ OwnBytes(c.lines[s][v].bytes, c.lines[s][v].tag) \/ (s = SetOf(t) /\ v = w)
        /\ \A u \in Ways : c.lines[s][u].tag = c.lines[s][v].tag => u = v
    BY <1>7 DEF Good, Sound, InFlightLine
  <2>2. OwnBytes(n[s][v].bytes, n[s][v].tag)
    BY <1>3, <1>5, <2>1 DEF OwnBytes
  <2> QED BY <1>7, <2>1, <2>2
<1> QED BY <1>6, <1>8 DEF Good, Flight, OwnsHead

(* A flush: the tags of F are gone, nothing else moves. *)
LEMMA InvalidateGood ==
    ASSUME NEW c, Good(c), NEW F, NEW d, d = Invalidate(c, F)
    PROVE  /\ Good(d) /\ Kept(c, d) /\ d.pending = c.pending /\ d.fsm = c.fsm
           /\ d.fresh = c.fresh
           /\ \A s \in Sets, w \in Ways : d.lines[s][w].tag = NoTag \/ d.lines[s][w].tag \notin F
<1>1. c \in CacheType /\ c.lines \in [Sets -> [Ways -> Line]]
  BY FieldTypes DEF Good
<1>2. PICK n : n = [s \in Sets |-> [w \in Ways |->
                       IF c.lines[s][w].tag \in F THEN Dropped(c.lines[s][w]) ELSE c.lines[s][w]]]
  OBVIOUS
<1>3. ASSUME NEW s \in Sets, NEW w \in Ways
      PROVE  /\ n[s][w] \in Line
             /\ n[s][w].tag # NoTag => n[s][w] = c.lines[s][w]
             /\ n[s][w].tag = NoTag \/ n[s][w].tag \notin F
  <2>1. c.lines[s][w] \in Line
    BY <1>1
  <2>2. Dropped(c.lines[s][w]) \in Line /\ Dropped(c.lines[s][w]).tag = NoTag
    BY <2>1, LineFields DEF Dropped
  <2>3. n[s][w] = IF c.lines[s][w].tag \in F THEN Dropped(c.lines[s][w]) ELSE c.lines[s][w]
    BY <1>2
  <2> QED BY <2>1, <2>2, <2>3
<1>4. n \in [Sets -> [Ways -> Line]]
  <2>1. \A s \in Sets : n[s] = [w \in Ways |-> n[s][w]] /\ n[s] \in [Ways -> Line]
    BY <1>2, <1>3
  <2> QED BY <1>2, <2>1
<1>5. d = [c EXCEPT !.lines = n, !.early = @ \/ c.tag \in F]
  BY <1>1, <1>2 DEF Invalidate, CacheType
<1>6. /\ d \in CacheType /\ d.lines = n /\ Kept(c, d) /\ d.pending = c.pending /\ d.fsm = c.fsm
      /\ d.fresh = c.fresh /\ d.tag = c.tag /\ d.way = c.way /\ d.offset_of = c.offset_of
  <2>1. (c.early \/ c.tag \in F) \in BOOLEAN
    OBVIOUS
  <2> QED BY <1>1, <1>4, <1>5, <2>1 DEF CacheType, Kept
<1>7. Sound(d)
  <2> SUFFICES ASSUME NEW s \in Sets, NEW w \in Ways, n[s][w].tag # NoTag
               PROVE  /\ SetOf(n[s][w].tag) = s
                      /\ \A v \in Ways : n[s][v].tag = n[s][w].tag => v = w
                      /\ OwnBytes(n[s][w].bytes, n[s][w].tag) \/ InFlightLine(d, s, w)
    BY <1>6 DEF Sound
  <2>1. n[s][w] = c.lines[s][w]
    BY <1>3
  <2>2. /\ SetOf(c.lines[s][w].tag) = s
        /\ \A v \in Ways : c.lines[s][v].tag = c.lines[s][w].tag => v = w
        /\ OwnBytes(c.lines[s][w].bytes, c.lines[s][w].tag) \/ InFlightLine(c, s, w)
    BY <2>1 DEF Good, Sound
  <2>3. InFlightLine(c, s, w) => InFlightLine(d, s, w)
    BY <1>6 DEF InFlightLine
  <2>4. ASSUME NEW v \in Ways, n[s][v].tag = n[s][w].tag PROVE v = w
    <3>1. n[s][v] = c.lines[s][v]
      BY <1>3, <2>4
    <3> QED BY <2>1, <2>2, <2>4, <3>1
  <2> QED BY <2>1, <2>2, <2>3, <2>4
<1>8. Flight(d)
  <2> SUFFICES ASSUME c.pending # "none"
               PROVE  c.tag \in Tags /\ Hits(d, c.tag) = {} /\ ~c.refill_retry_pending
    BY <1>6 DEF Flight, Kept
  <2>1. /\ c.tag \in Tags /\ c.tag # NoTag /\ SetOf(c.tag) \in Sets /\ ~c.refill_retry_pending
        /\ \A v \in Ways : c.lines[SetOf(c.tag)][v].tag # c.tag
    BY <1>1, NoHits, Constants DEF Good, Flight
  <2>2. \A v \in Ways : n[SetOf(c.tag)][v].tag # c.tag
    BY <1>3, <2>1
  <2> QED BY <1>6, <2>1, <2>2, NoHits
<1> QED BY <1>3, <1>6, <1>7, <1>8 DEF Good, OwnsHead, Kept

-----------------------------------------------------------------------------
(* CacheOnePlace, for a queue s, a master's view u and the forwarded ones b. *)
Places(s, u, b) ==
    /\ \A r \in CacheReqs :
          /\ u[r] # "error"
          /\ u[r] = "granted" <=> r \in Range(s) \/ r \in b
          /\ ~(r \in Range(s) /\ r \in b)
    /\ \A i, j \in 1 .. Len(s) : s[i] = s[j] => i = j

LEMMA OnePlaceIs ==
    /\ CacheOnePlace <=> Places(cache.queue, cache_up, bypass)
    /\ CacheOnePlace' <=> Places(cache'.queue, cache_up', bypass')
BY DEF CacheOnePlace, Places, CacheQueued, Range

LEMMA RangeIs ==
    ASSUME NEW s \in Seq(CacheReqs)
    PROVE  /\ \A r : r \in Range(s) <=> \E i \in 1 .. Len(s) : s[i] = r
           /\ \A r : r \in Range(s) => r \in CacheReqs
<1>1. DOMAIN s = 1 .. Len(s) /\ \A i \in 1 .. Len(s) : s[i] \in CacheReqs
  OBVIOUS
<1> QED BY <1>1 DEF Range

LEMMA PushPlaces ==
    ASSUME NEW s \in Seq(CacheReqs), NEW u \in [CacheReqs -> MasterStates], NEW b, Places(s, u, b),
           NEW r \in CacheReqs, u[r] \in {"idle", "denied"}, NEW z, z = <<r>> \o s \/ z = Append(s, r),
           NEW v, v = [u EXCEPT ![r] = "granted"]
    PROVE  z \in Seq(CacheReqs) /\ Places(z, v, b)
<1>1. r \notin Range(s) /\ r \notin b
  BY DEF Places
<1>2. /\ z \in Seq(CacheReqs) /\ (\A q : q \in Range(z) <=> q \in Range(s) \/ q = r)
      /\ \A i, j \in 1 .. Len(z) : z[i] = z[j] => i = j
  <2>0. /\ \A q : q \in Range(s) <=> \E i \in 1 .. Len(s) : s[i] = q
        /\ Len(s) \in Nat /\ \A i \in 1 .. Len(s) : s[i] # r
    BY <1>1, RangeIs
  <2>1. CASE z = <<r>> \o s
    <3>1. /\ z \in Seq(CacheReqs) /\ Len(z) = Len(s) + 1 /\ z[1] = r
          /\ \A i \in 1 .. Len(s) : z[i + 1] = s[i]
      BY <2>1, PushHead
    <3>2. \A i \in 1 .. Len(z) : i # 1 => i - 1 \in 1 .. Len(s) /\ z[i] = s[i - 1]
      <4> SUFFICES ASSUME NEW i \in 1 .. Len(z), i # 1
                   PROVE  i - 1 \in 1 .. Len(s) /\ z[i] = s[i - 1]
        OBVIOUS
      <4>1. i - 1 \in 1 .. Len(s) /\ (i - 1) + 1 = i
        BY <2>0, <3>1
      <4> QED BY <3>1, <4>1
    <3>3. \A i, j \in 1 .. Len(z) : z[i] = z[j] => i = j
      <4> SUFFICES ASSUME NEW i \in 1 .. Len(z), NEW j \in 1 .. Len(z), z[i] = z[j]
                   PROVE  i = j
        OBVIOUS
      <4>1. CASE i = 1 \/ j = 1
        BY <2>0, <3>1, <3>2, <4>1
      <4>2. CASE i # 1 /\ j # 1
        <5>1. s[i - 1] = s[j - 1] /\ i - 1 \in 1 .. Len(s) /\ j - 1 \in 1 .. Len(s)
          BY <3>2, <4>2
        <5>2. i - 1 = j - 1
          BY <5>1 DEF Places
        <5> QED BY <5>2
      <4> QED BY <4>1, <4>2
    <3>4. ASSUME NEW q PROVE q \in Range(z) <=> q \in Range(s) \/ q = r
      <4>1. q \in Range(z) <=> \E i \in 1 .. Len(z) : z[i] = q
        BY <3>1, RangeIs
      <4>2. ASSUME NEW i \in 1 .. Len(z), z[i] = q PROVE q \in Range(s) \/ q = r
        BY <2>0, <3>1, <3>2, <4>2
      <4>3. ASSUME NEW i \in 1 .. Len(s), s[i] = q PROVE q \in Range(z)
        <5>1. i + 1 \in 1 .. Len(z) /\ z[i + 1] = q
          BY <2>0, <3>1, <4>3
        <5> QED BY <4>1, <5>1
      <4>4. 1 \in 1 .. Len(z)
        BY <2>0, <3>1
      <4> QED BY <2>0, <3>1, <4>1, <4>2, <4>3, <4>4
    <3> QED BY <3>1, <3>3, <3>4
  <2>2. CASE z = Append(s, r)
    <3>1. /\ z \in Seq(CacheReqs) /\ Len(z) = Len(s) + 1 /\ z[Len(s) + 1] = r
          /\ \A i \in 1 .. Len(s) : z[i] = s[i]
      BY <2>2
    <3>2. \A i, j \in 1 .. Len(z) : z[i] = z[j] => i = j
      BY <2>0, <3>1 DEF Places
    <3>3. \A q : q \in Range(z) <=> \E i \in 1 .. Len(z) : z[i] = q
      BY <3>1, RangeIs
    <3>4. \A q : q \in Range(z) <=> q \in Range(s) \/ q = r
      BY <2>0, <3>1, <3>3
    <3> QED BY <3>1, <3>2, <3>4
  <2> QED BY <2>1, <2>2
<1>3. v[r] = "granted" /\ \A q \in CacheReqs \ {r} : v[q] = u[q]
  OBVIOUS
<1> QED BY <1>1, <1>2, <1>3 DEF Places

LEMMA PopPlaces ==
    ASSUME NEW s \in Seq(CacheReqs), s # <<>>, NEW u \in [CacheReqs -> MasterStates], NEW b, Places(s, u, b)
    PROVE  /\ Head(s) \in CacheReqs /\ Tail(s) \in Seq(CacheReqs) /\ u[Head(s)] = "granted"
           /\ s = <<Head(s)>> \o Tail(s)
           /\ Places(Tail(s), [u EXCEPT ![Head(s)] = "idle"], b)
<1>1. PICK z, r, v : z = Tail(s) /\ r = Head(s) /\ v = [u EXCEPT ![r] = "idle"]
  OBVIOUS
<1>2. Len(s) \in Nat \ {0} /\ r = s[1] /\ r \in CacheReqs /\ z \in Seq(CacheReqs) /\ Len(z) = Len(s) - 1
  BY <1>1
<1>3. \A i \in 1 .. Len(z) : z[i] = s[i + 1] /\ i + 1 \in 1 .. Len(s) /\ i + 1 # 1
  BY <1>1, <1>2
<1>4. s = <<r>> \o z
  <2>1. PICK y : y = <<r>> \o z
    OBVIOUS
  <2>2. /\ y \in Seq(CacheReqs) /\ Len(y) = Len(s) /\ y[1] = r
        /\ \A i \in 1 .. Len(z) : y[i + 1] = z[i]
    BY <1>2, <2>1, PushHead
  <2>3. ASSUME NEW i \in 1 .. Len(s) PROVE y[i] = s[i]
    <3>1. CASE i = 1
      BY <1>2, <2>2, <3>1
    <3>2. CASE i # 1
      <4>1. i - 1 \in 1 .. Len(z) /\ (i - 1) + 1 = i
        BY <1>2, <3>2
      <4> QED BY <1>3, <2>2, <4>1
    <3> QED BY <3>1, <3>2
  <2> QED BY <1>2, <2>1, <2>2, <2>3
<1>5. \A q : q \in Range(s) <=> \E i \in 1 .. Len(s) : s[i] = q
  BY RangeIs
<1>6. \A q : q \in Range(z) <=> \E i \in 1 .. Len(z) : z[i] = q
  BY <1>2, RangeIs
<1>7. ASSUME NEW q PROVE q \in Range(z) <=> q \in Range(s) /\ q # r
  <2>1. ASSUME NEW i \in 1 .. Len(z), z[i] = q PROVE q \in Range(s) /\ q # r
    <3>1. s[i + 1] = q /\ i + 1 \in 1 .. Len(s) /\ 1 \in 1 .. Len(s) /\ i + 1 # 1
      BY <1>2, <1>3, <2>1
    <3> QED BY <1>2, <1>5, <3>1 DEF Places
  <2>2. ASSUME NEW i \in 1 .. Len(s), s[i] = q, q # r PROVE q \in Range(z)
    <3>1. i - 1 \in 1 .. Len(z) /\ z[i - 1] = q
      BY <1>2, <1>3, <2>2
    <3> QED BY <1>6, <3>1
  <2> QED BY <1>5, <1>6, <2>1, <2>2
<1>8. \A i, j \in 1 .. Len(z) : z[i] = z[j] => i = j
  <2> SUFFICES ASSUME NEW i \in 1 .. Len(z), NEW j \in 1 .. Len(z), z[i] = z[j] PROVE i = j
    OBVIOUS
  <2>1. s[i + 1] = s[j + 1] /\ i + 1 \in 1 .. Len(s) /\ j + 1 \in 1 .. Len(s)
    BY <1>3
  <2>2. i + 1 = j + 1
    BY <2>1 DEF Places
  <2> QED BY <2>2
<1>9. r \in Range(s)
  BY <1>2, <1>5
<1>10. v[r] = "idle" /\ \A q \in CacheReqs \ {r} : v[q] = u[q]
  BY <1>1, <1>2
<1>11. u[r] = "granted" /\ r \notin b
  BY <1>2, <1>9 DEF Places
<1>12. Places(z, v, b)
  BY <1>2, <1>7, <1>8, <1>10, <1>11 DEF Places
<1> QED BY <1>1, <1>2, <1>4, <1>11, <1>12

-----------------------------------------------------------------------------
(* IInv, said of the component's state and of what is around it, so that   *)
(* it can be shown of the state a step leads to.                           *)
Refusals(c, k, u) ==
    /\ \A p, r \in CacheReqs : u[p] = "denied" /\ u[r] = "denied" => p = r
    /\ k # "retry" => \A r \in CacheReqs : u[r] = "denied" => c.input_needs_retry

Around(k, u, b, o) ==
    /\ k \in {"idle", "resp", "retry", "retried"}
    /\ u \in [CacheReqs -> MasterStates] /\ b \subseteq CacheReqs /\ o \in BOOLEAN

State(c, k, u, b, o) ==
    /\ Good(c) /\ Around(k, u, b, o)
    /\ Places(c.queue, u, b)
    /\ c.refill_retry_pending \/ c.input_needs_retry => o
    /\ k = "idle" => Served(c)
    /\ Refusals(c, k, u)

LEMMA SoundIs ==
    ASSUME cache \in CacheType PROVE TagArraySound <=> Sound(cache)
<1>1. ASSUME NEW s \in Sets, NEW w \in Ways, NEW t, t = cache.lines[s][w].tag, SetOf(t) = s
      PROVE  Hits(cache, t) = {w} <=> \A v \in Ways : cache.lines[s][v].tag = t => v = w
  BY <1>1 DEF Hits
<1>2. \A s, w : BeingRefilled(s, w) <=> InFlightLine(cache, s, w)
  BY DEF BeingRefilled, InFlightLine
<1>3. ASSUME NEW s \in Sets, NEW w \in Ways, NEW t, t = cache.lines[s][w].tag
      PROVE  SetOf(t) = s /\ Hits(cache, t) = {w}
               <=> SetOf(t) = s /\ \A v \in Ways : cache.lines[s][v].tag = t => v = w
  BY <1>1, <1>3
<1>4. ASSUME TagArraySound PROVE Sound(cache)
  <2> SUFFICES ASSUME NEW s \in Sets, NEW w \in Ways, NEW t, t = cache.lines[s][w].tag, t # NoTag
               PROVE  /\ SetOf(t) = s /\ \A v \in Ways : cache.lines[s][v].tag = t => v = w
                      /\ OwnBytes(cache.lines[s][w].bytes, t) \/ InFlightLine(cache, s, w)
    BY DEF Sound
  <2>1. /\ SetOf(t) = s /\ Hits(cache, t) = {w}
        /\ OwnBytes(cache.lines[s][w].bytes, t) \/ BeingRefilled(s, w)
    BY <1>4 DEF TagArraySound, OwnBytes
  <2> QED BY <1>2, <1>3, <2>1
<1>5. ASSUME Sound(cache) PROVE TagArraySound
  <2> SUFFICES ASSUME NEW s \in Sets, NEW w \in Ways, NEW t, t = cache.lines[s][w].tag, t # NoTag
               PROVE  /\ SetOf(t) = s /\ Hits(cache, t) = {w}
                      /\ OwnBytes(cache.lines[s][w].bytes, t) \/ BeingRefilled(s, w)
    BY DEF TagArraySound, OwnBytes
  <2>1. /\ SetOf(t) = s /\ \A v \in Ways : cache.lines[s][v].tag = t => v = w
        /\ OwnBytes(cache.lines[s][w].bytes, t) \/ InFlightLine(cache, s, w)
    BY <1>5 DEF Sound
  <2> QED BY <1>2, <1>3, <2>1
<1> QED BY <1>4, <1>5

LEMMA IInvState == IInv <=> State(cache, cache_ctl, cache_up, bypass, cache_owes)
<1>1. CacheOnePlace <=> Places(cache.queue, cache_up, bypass)
  BY OnePlaceIs
<1>2. cache \in CacheType => (TagArraySound <=> Sound(cache))
  BY SoundIs
<1>3. RefillOwnsHead /\ FlightTag <=> Flight(cache) /\ OwnsHead(cache)
  BY DEF RefillOwnsHead, FlightTag, Flight, OwnsHead, Hits
<1>4. OneDenied /\ DeniedNoted <=> Refusals(cache, cache_ctl, cache_up)
  BY DEF OneDenied, DeniedNoted, Refusals, NoneDenied
<1>5. CacheTypeOK <=> cache \in CacheType /\ Around(cache_ctl, cache_up, bypass, cache_owes)
  BY DEF CacheTypeOK, Around
<1>6. OneDenied /\ DeniedNoted =>
        (NoLostWakeup <=> /\ cache.refill_retry_pending \/ cache.input_needs_retry => cache_owes
                          /\ cache_ctl = "idle" => Served(cache))
  BY DEF NoLostWakeup, Served, DeniedNoted, NoneDenied
<1> QED BY <1>1, <1>2, <1>3, <1>4, <1>5, <1>6 DEF IInv, State, Good

LEMMA StateIInv ==
    ASSUME State(cache', cache_ctl', cache_up', bypass', cache_owes') PROVE IInv'
<1>1. IInv' <=> State(cache, cache_ctl, cache_up, bypass, cache_owes)'
  BY IInvState, PTL
<1>2. Good(cache)' <=> Good(cache')
  BY DEF Good, Sound, Flight, OwnsHead, Hits, InFlightLine
<1>3. Places(cache.queue, cache_up, bypass)' <=> Places(cache'.queue, cache_up', bypass')
  BY DEF Places, Range
<1>4. State(cache, cache_ctl, cache_up, bypass, cache_owes)'
  BY <1>2, <1>3 DEF State, Around, Served, Refusals
<1> QED BY <1>1, <1>4

LEMMA InitIInv == CacheInit => IInv
<1> SUFFICES ASSUME CacheInit PROVE State(cache, cache_ctl, cache_up, bypass, cache_owes)
  BY IInvState
<1>1. EmptyLines \in [Sets -> [Ways -> Line]] /\ \A s \in Sets, w \in Ways : EmptyLines[s][w].tag = NoTag
  BY LineFields DEF EmptyLines
<1>2. cache \in CacheType
  BY <1>1, Constants, CacheAssumption DEF CacheInit, CacheType
<1>3. Good(cache)
  BY <1>1, <1>2 DEF CacheInit, Good, Sound, Flight, OwnsHead
<1>4. Places(cache.queue, cache_up, bypass)
  BY DEF CacheInit, Places, Range
<1> QED BY <1>3, <1>4 DEF CacheInit, State, Around, Served, Refusals, MasterStates

-----------------------------------------------------------------------------
(* check_state ends a handler in a good state. *)
LEMMA SettleState ==
    ASSUME NEW c, Good(c), NEW k, NEW u, NEW b, Around(k, u, b, cache_owes), Places(c.queue, u, b),
           c.refill_retry_pending \/ c.input_needs_retry => cache_owes, Refusals(c, k, u), Settle(c)
    PROVE  State(cache', k, u, b, cache_owes')
<1>1. PICK f \in FetchIf(c.queue = <<>> /\ TriesPrefetch(c)) :
         /\ cache' = CheckState(c, f[1], f[2])
         /\ cache_owes' = (cache_owes \/ (c.queue = <<>> /\ TriesPrefetch(c) /\ f[2] = IO_REQ_DENIED))
  BY DEF Settle
<1>2. Good(cache') /\ Kept(c, cache') /\ Served(cache')
  BY <1>1, CheckStateGood
<1>3. cache_owes' \in BOOLEAN /\ (cache_owes => cache_owes')
  BY <1>1 DEF Around
<1> QED BY <1>2, <1>3 DEF State, Around, Kept, Refusals

LEMMA SameGood ==
    ASSUME NEW c, Good(c), NEW d \in CacheType, Array(d) = Array(c), d.queue = c.queue,
           d.offset_of = c.offset_of, d.refill_retry_pending => c.refill_retry_pending
    PROVE  Good(d)
<1>1. Sound(d) /\ Flight(d)
  BY SameArray DEF Good
<1>2. OwnsHead(d)
  BY DEF Good, OwnsHead, Array
<1> QED BY <1>1, <1>2 DEF Good

(* The one request that may be refused is r. *)
LEMMA RefusalsOf ==
    ASSUME NEW u \in [CacheReqs -> MasterStates], NEW r \in CacheReqs, \A q \in CacheReqs \ {r} : u[q] # "denied",
           NEW x, NEW v, v = [u EXCEPT ![r] = x], NEW c, NEW k, x = "denied" => c.input_needs_retry
    PROVE  Refusals(c, k, v)
<1>1. v[r] = x /\ \A q \in CacheReqs \ {r} : v[q] = u[q]
  OBVIOUS
<1> QED BY <1>1 DEF Refusals

(* A request that stays with its master, or goes back to it, waits nowhere. *)
LEMMA SamePlaces ==
    ASSUME NEW s, NEW u \in [CacheReqs -> MasterStates], NEW b, Places(s, u, b),
           NEW r \in CacheReqs, u[r] \in {"idle", "denied"}, NEW x \in {"idle", "denied"}
    PROVE  Places(s, [u EXCEPT ![r] = x], b)
<1>1. PICK v : v = [u EXCEPT ![r] = x]
  OBVIOUS
<1>2. v[r] = x /\ \A q \in CacheReqs \ {r} : v[q] = u[q]
  BY <1>1
<1>3. Places(s, v, b)
  BY <1>2 DEF Places
<1> QED BY <1>1, <1>3

(* input_req, from wherever the master calls it: afterwards the handler it *)
(* was called from, if any, goes on at k.                                  *)
LEMMA BypassState ==
    ASSUME State(cache, cache_ctl, cache_up, bypass, cache_owes), NEW r \in CacheReqs, cache_up[r] \in {"idle", "denied"},
           \A q \in CacheReqs \ {r} : cache_up[q] # "denied",
           NEW k \in {"idle", "resp", "retried"}, k = "idle" => cache_ctl = "idle",
           NEW st \in IoReqStatus, Bypass(r, st)
    PROVE  State(cache', k, cache_up', bypass', cache_owes')
<1>0. /\ Good(cache) /\ cache \in CacheType /\ cache_up \in [CacheReqs -> MasterStates]
      /\ bypass \subseteq CacheReqs /\ cache_owes \in BOOLEAN /\ Places(cache.queue, cache_up, bypass)
      /\ cache.refill_retry_pending \/ cache.input_needs_retry => cache_owes
      /\ cache_ctl = "idle" => Served(cache)
  BY DEF State, Around, Good
<1>1. /\ cache_up' = [cache_up EXCEPT ![r] = AfterReq(st)]
      /\ bypass' = (IF st = "granted" THEN bypass \cup {r} ELSE bypass)
      /\ cache' = [cache EXCEPT !.input_needs_retry = @ \/ st = "denied"]
      /\ cache_owes' = (cache_owes \/ st = "denied")
  BY StatusCases DEF Bypass
<1>2. /\ cache' \in CacheType /\ Array(cache') = Array(cache) /\ cache'.queue = cache.queue
      /\ cache'.offset_of = cache.offset_of /\ cache'.fsm = cache.fsm
      /\ cache'.refill_retry_pending = cache.refill_retry_pending
      /\ cache'.input_needs_retry = (cache.input_needs_retry \/ st = "denied")
  <2>1. (cache.input_needs_retry \/ st = "denied") \in BOOLEAN
    OBVIOUS
  <2> QED BY <1>0, <1>1, <2>1 DEF CacheType, Array
<1>3. Good(cache') /\ (k = "idle" => Served(cache'))
  BY <1>0, <1>2, SameGood DEF Served, Array
<1>4. AfterReq(st) \in {"idle", "granted", "denied"} /\ (AfterReq(st) = st \/ st = "done")
  BY StatusCases
<1>5. Around(k, cache_up', bypass', cache_owes')
  BY <1>0, <1>1, <1>4, StatusCases DEF Around
<1>6. Refusals(cache', k, cache_up')
  <2>1. AfterReq(st) = "denied" => cache'.input_needs_retry
    BY <1>2, StatusCases
  <2> QED BY <1>0, <1>1, <2>1, RefusalsOf
<1>7. Places(cache.queue, cache_up', bypass')
  <2>1. CASE st = "granted"
    <3>1. /\ cache_up'[r] = "granted" /\ (\A q \in CacheReqs \ {r} : cache_up'[q] = cache_up[q])
          /\ bypass' = bypass \cup {r} /\ r \notin Range(cache.queue) /\ r \notin bypass
      BY <1>0, <1>1, <2>1, StatusCases DEF Places
    <3> QED BY <1>0, <3>1 DEF Places
  <2>2. CASE st # "granted"
    <3>1. AfterReq(st) \in {"idle", "denied"} /\ bypass' = bypass
      BY <1>1, <2>2, StatusCases
    <3> QED BY <1>0, <1>1, <3>1, SamePlaces
  <2> QED BY <2>1, <2>2
<1> QED BY <1>0, <1>1, <1>2, <1>3, <1>5, <1>6, <1>7 DEF State

LEMMA QueueReqState ==
    ASSUME State(cache, cache_ctl, cache_up, bypass, cache_owes), NEW r \in CacheReqs, cache_up[r] \in {"idle", "denied"},
           \A q \in CacheReqs \ {r} : cache_up[q] # "denied",
           NEW k \in {"idle", "resp", "retried"}, QueueReq(r)
    PROVE  State(cache', k, cache_up', bypass', cache_owes')
<1>0. /\ Good(cache) /\ cache \in CacheType /\ cache_up \in [CacheReqs -> MasterStates]
      /\ bypass \subseteq CacheReqs /\ cache_owes \in BOOLEAN /\ Places(cache.queue, cache_up, bypass)
      /\ cache.refill_retry_pending \/ cache.input_needs_retry => cache_owes
      /\ cache.queue \in Seq(CacheReqs)
  BY FieldTypes DEF State, Around, Good
<1>1. /\ Settle(Enqueue(cache, r)) /\ cache_up' = [cache_up EXCEPT ![r] = "granted"] /\ bypass' = bypass
  BY DEF QueueReq
<1>2. PICK c, z : c = Enqueue(cache, r) /\ z = Append(cache.queue, r)
  OBVIOUS
<1>3. z \in Seq(CacheReqs) /\ Places(z, cache_up', bypass)
  BY <1>0, <1>1, <1>2, PushPlaces
<1>4. /\ c \in CacheType /\ c.queue = z /\ Array(c) = Array(cache)
      /\ c.refill_retry_pending = cache.refill_retry_pending
      /\ c.input_needs_retry = cache.input_needs_retry /\ c.offset_of = cache.offset_of
  <2>1. cache.fresh \cup {r} \in SUBSET CacheReqs
    BY <1>0, FieldTypes
  <2> QED BY <1>0, <1>2, <1>3, <2>1 DEF Enqueue, CacheType, Array
<1>5. cache.queue # <<>> => z # <<>> /\ Head(z) = Head(cache.queue)
  BY <1>0, <1>2
<1>6. Good(c)
  <2>1. Sound(c) /\ Flight(c)
    BY <1>0, <1>4, SameArray DEF Good
  <2>2. OwnsHead(c)
    BY <1>0, <1>4, <1>5 DEF Good, OwnsHead, Array
  <2> QED BY <1>4, <2>1, <2>2 DEF Good
<1>7. Refusals(c, k, cache_up')
  <2>1. "granted" # "denied"
    OBVIOUS
  <2> QED BY <1>0, <1>1, <2>1, RefusalsOf
<1>8. Around(k, cache_up', bypass', cache_owes)
  BY <1>0, <1>1, StatusCases DEF Around
<1> QED BY <1>0, <1>1, <1>2, <1>3, <1>4, <1>6, <1>7, <1>8, SettleState

LEMMA ServeState ==
    ASSUME State(cache, cache_ctl, cache_up, bypass, cache_owes), NEW r \in CacheReqs, cache_up[r] \in {"idle", "denied"},
           \A q \in CacheReqs \ {r} : cache_up[q] # "denied",
           NEW k \in {"idle", "resp", "retried"}, k = "idle" => cache_ctl = "idle",
           NEW w \in Ways, NEW st \in IoReqStatus, Serve(r, w, st)
    PROVE  State(cache', k, cache_up', bypass', cache_owes')
<1>0. /\ Good(cache) /\ cache \in CacheType /\ Sound(cache) /\ cache_up \in [CacheReqs -> MasterStates]
      /\ bypass \subseteq CacheReqs /\ cache_owes \in BOOLEAN /\ Places(cache.queue, cache_up, bypass)
      /\ cache.refill_retry_pending \/ cache.input_needs_retry => cache_owes
      /\ cache_ctl = "idle" => Served(cache)
      /\ cache.queue \in Seq(CacheReqs)
  BY FieldTypes DEF State, Around, Good
<1>1. PICK c, status : c = HandleReq(cache, r, w, st) /\ status = HandleStatus(cache, r, st)
  OBVIOUS
<1>2. PortFree(cache) /\ bypass' = bypass /\ Handled(cache, c, r, status)
  BY <1>0, <1>1, HandleReqHandled DEF Serve
<1>3. CASE status = "denied"
  <2>1. /\ cache' = [c EXCEPT !.input_needs_retry = TRUE] /\ cache_up' = [cache_up EXCEPT ![r] = "denied"]
        /\ cache_owes' = TRUE
    BY <1>1, <1>3, StatusCases DEF Serve
  <2>2. Good(c) /\ c \in CacheType /\ c.queue = cache.queue /\ c.refill_retry_pending
    BY <1>2, <1>3 DEF Handled, Good
  <2>3. /\ cache' \in CacheType /\ Array(cache') = Array(c) /\ cache'.queue = c.queue
        /\ cache'.offset_of = c.offset_of /\ cache'.input_needs_retry
        /\ cache'.refill_retry_pending = c.refill_retry_pending
    BY <2>1, <2>2 DEF CacheType, Array
  <2>4. Good(cache') /\ Served(cache')
    BY <2>2, <2>3, SameGood DEF Served
  <2>5. Places(cache'.queue, cache_up', bypass')
    <3>1. Places(cache.queue, [cache_up EXCEPT ![r] = "denied"], bypass)
      BY <1>0, SamePlaces
    <3> QED BY <1>2, <2>1, <2>2, <2>3, <3>1
  <2>6. Refusals(cache', k, cache_up')
    BY <1>0, <2>1, <2>3, RefusalsOf
  <2>7. Around(k, cache_up', bypass', cache_owes')
    BY <1>0, <1>2, <2>1, StatusCases DEF Around
  <2> QED BY <2>1, <2>4, <2>5, <2>6, <2>7 DEF State
<1>4. CASE status # "denied"
  <2>1. PICK f \in FetchIf(TriesPrefetch(c)) :
           /\ cache' = IF PortFree(c) THEN TryPrefetch(c, f[1], f[2]) ELSE c
           /\ cache_owes' = (cache_owes \/ (TriesPrefetch(c) /\ f[2] = IO_REQ_DENIED))
    BY <1>1, <1>4, StatusCases DEF Serve
  <2>2. cache_up' = [cache_up EXCEPT ![r] = IF status = "done" THEN Answered(c, r, "idle") ELSE "granted"]
    BY <1>1, <1>4, StatusCases DEF Serve
  <2>3. cache_owes' \in BOOLEAN /\ (cache_owes => cache_owes')
    BY <1>0, <2>1
  <2>4. CASE status = "done"
    <3>1. PortFree(c) /\ c.queue = cache.queue /\ Answerable(c, r) /\ Good(c) /\ c.fsm = cache.fsm
          /\ c.input_needs_retry = cache.input_needs_retry
      BY <1>2, <2>4 DEF Handled
    <3>2. Good(cache') /\ Kept(c, cache') /\ cache'.fsm = c.fsm
      BY <2>1, <3>1, TryPrefetchGood
    <3>3. cache_up' = [cache_up EXCEPT ![r] = "idle"]
      <4>1. Answered(c, r, "idle") = "idle"
        BY <3>1 DEF Answered, Answerable, OwnBytes
      <4> QED BY <2>2, <2>4, <4>1
    <3>4. Places(cache'.queue, cache_up', bypass')
      BY <1>0, <1>2, <3>1, <3>2, <3>3, SamePlaces DEF Kept
    <3>5. Refusals(cache', k, cache_up')
      <4>1. "idle" # "denied"
        OBVIOUS
      <4> QED BY <1>0, <3>3, <4>1, RefusalsOf
    <3>6. Around(k, cache_up', bypass', cache_owes')
      BY <1>0, <1>2, <2>3, <3>3, StatusCases DEF Around
    <3>7. /\ cache'.refill_retry_pending \/ cache'.input_needs_retry => cache_owes'
          /\ k = "idle" => Served(cache')
      BY <1>0, <1>2, <2>3, <3>1, <3>2 DEF Kept, PortFree, Served
    <3> QED BY <3>2, <3>4, <3>5, <3>6, <3>7 DEF State
  <2>5. CASE status = "granted"
    <3>1. /\ Good(c) /\ c.queue = <<r>> \o cache.queue /\ c.pending = "demand"
          /\ ~c.refill_retry_pending /\ c.input_needs_retry = cache.input_needs_retry
      BY <1>2, <2>5 DEF Handled
    <3>2. cache' = c
      BY <2>1, <3>1 DEF PortFree
    <3>3. cache_up' = [cache_up EXCEPT ![r] = "granted"]
      BY <2>2, <2>5
    <3>4. Places(c.queue, cache_up', bypass)
      BY <1>0, <3>1, <3>3, PushPlaces
    <3>5. Refusals(c, k, cache_up')
      <4>1. "granted" # "denied"
        OBVIOUS
      <4> QED BY <1>0, <3>3, <4>1, RefusalsOf
    <3>6. Around(k, cache_up', bypass', cache_owes')
      BY <1>0, <1>2, <2>3, <3>3, StatusCases DEF Around
    <3> QED BY <1>0, <1>2, <2>3, <3>1, <3>2, <3>4, <3>5, <3>6 DEF State, Served
  <2> QED BY <1>2, <1>4, <2>4, <2>5 DEF Handled
<1> QED BY <1>3, <1>4

LEMMA FetchIfIs ==
    ASSUME NEW i, NEW f \in FetchIf(i) PROVE f[1] \in Ways /\ f[2] \in IoReqStatus
BY Constants, StatusCases DEF FetchIf, Fetches

LEMMA InputReqState ==
    ASSUME State(cache, cache_ctl, cache_up, bypass, cache_owes), NEW r \in CacheReqs, cache_up[r] \in {"idle", "denied"},
           \A q \in CacheReqs \ {r} : cache_up[q] # "denied",
           NEW k \in {"idle", "resp", "retried"}, k = "idle" => cache_ctl = "idle", InputReq(r)
    PROVE  State(cache', k, cache_up', bypass', cache_owes')
<1>1. CASE \E st \in IoReqStatus : Bypass(r, st)
  BY <1>1, BypassState
<1>2. CASE QueueReq(r)
  BY <1>2, QueueReqState
<1>3. ASSUME NEW f \in FetchIf(Hits(cache, TagOf[r]) = {}), Serve(r, f[1], f[2])
      PROVE  State(cache', k, cache_up', bypass', cache_owes')
  <2>1. f[1] \in Ways /\ f[2] \in IoReqStatus
    BY FetchIfIs
  <2> QED BY <1>3, <2>1, ServeState
<1> QED BY <1>1, <1>2, <1>3 DEF InputReq

LEMMA MasterIInv ==
    ASSUME IInv, NEW r \in CacheReqs, CacheMasterReq(r) \/ MasterReissue(r) PROVE IInv'
<1>0. State(cache, cache_ctl, cache_up, bypass, cache_owes)
  BY IInvState
<1>1. CASE CacheMasterReq(r)
  <2>1. /\ cache_ctl \in {"idle", "resp", "retried"} /\ cache_ctl' = cache_ctl /\ cache_up[r] = "idle" /\ InputReq(r)
        /\ \A q \in CacheReqs \ {r} : cache_up[q] # "denied"
    BY <1>1 DEF CacheMasterReq, NoneDenied
  <2>2. State(cache', cache_ctl, cache_up', bypass', cache_owes')
    BY <1>0, <2>1, InputReqState
  <2> QED BY <2>1, <2>2, StateIInv
<1>2. CASE MasterReissue(r)
  <2>1. cache_ctl' = "retried" /\ cache_up[r] = "denied" /\ InputReq(r)
    BY <1>2 DEF MasterReissue
  <2>2. \A q \in CacheReqs \ {r} : cache_up[q] # "denied"
    BY <1>0, <2>1 DEF State, Refusals
  <2>3. State(cache', "retried", cache_up', bypass', cache_owes')
    BY <1>0, <2>1, <2>2, InputReqState
  <2> QED BY <2>1, <2>3, StateIInv
<1> QED BY <1>1, <1>2

-----------------------------------------------------------------------------
(* A state whose refill port is idle is good with any queue. *)
LEMMA IdleGood ==
    ASSUME NEW c, Sound(c), NEW d \in CacheType, Array(d) = Array(c), c.pending = "none"
    PROVE  Good(d)
<1>1. Sound(d) /\ d.pending = "none"
  BY SameArray DEF Array
<1> QED BY <1>1 DEF Good, Flight, OwnsHead

(* The request that goes back to its master was not refused. *)
LEMMA RefusalsBack ==
    ASSUME NEW u \in [CacheReqs -> MasterStates], NEW r \in CacheReqs, NEW c, NEW k, Refusals(c, k, u),
           NEW d, c.input_needs_retry => d.input_needs_retry, NEW m, k # "retry" \/ m = "retry",
           NEW x, x # "denied"
    PROVE  Refusals(d, m, u) /\ Refusals(d, m, [u EXCEPT ![r] = x])
<1>1. PICK v : v = [u EXCEPT ![r] = x]
  OBVIOUS
<1>2. v[r] = x /\ \A q \in CacheReqs \ {r} : v[q] = u[q]
  BY <1>1
<1>3. Refusals(d, m, v) /\ Refusals(d, m, u)
  BY <1>2 DEF Refusals
<1> QED BY <1>1, <1>3

LEMMA RefillRespIInv ==
    ASSUME IInv, NEW data \in BOOLEAN, RefillResp(data) PROVE IInv'
<1>0. /\ State(cache, cache_ctl, cache_up, bypass, cache_owes) /\ Good(cache) /\ cache \in CacheType
      /\ Places(cache.queue, cache_up, bypass) /\ cache_up \in [CacheReqs -> MasterStates]
      /\ cache.queue \in Seq(CacheReqs) /\ cache_ctl = "idle" /\ cache.pending = "demand"
      /\ cache.fresh \in SUBSET CacheReqs
  BY IInvState, FieldTypes DEF State, Around, Good, RefillResp
<1>1. PICK r, c : /\ r = Head(cache.queue)
                  /\ c = IF data THEN Install(cache) ELSE LeaveUntagged(cache)
  OBVIOUS
<1>2. /\ cache' = [c EXCEPT !.queue = Tail(@), !.fresh = @ \ {r}] /\ cache_ctl' = "resp"
      /\ cache_up' = [cache_up EXCEPT ![r] = IF TagOf[r] = cache.tag /\ cache.offset_of = r
                                 THEN AfterResp(@) ELSE "error"]
      /\ UNCHANGED <<bypass, cache_owes>>
  BY <1>1 DEF RefillResp
<1>3. cache.queue # <<>> /\ cache.offset_of = r /\ cache.tag = TagOf[r]
  BY <1>0, <1>1 DEF Good, OwnsHead
<1>4. /\ r \in CacheReqs /\ Tail(cache.queue) \in Seq(CacheReqs) /\ cache_up[r] = "granted"
      /\ Places(Tail(cache.queue), [cache_up EXCEPT ![r] = "idle"], bypass)
  BY <1>0, <1>1, <1>3, PopPlaces
<1>5. cache_up' = [cache_up EXCEPT ![r] = "idle"]
  BY <1>2, <1>3, <1>4, StatusCases
<1>6. Good(c) /\ Kept(cache, c) /\ c.pending = "none" /\ c \in CacheType /\ Sound(c) /\ c.fresh = cache.fresh
  <2>1. data \/ NoData # {}
    BY DEF RefillResp
  <2> QED BY <1>0, <1>1, <2>1, InstallGood, LeaveUntaggedGood DEF Good
<1>7. /\ cache' \in CacheType /\ Array(cache') = Array(c) /\ cache'.queue = Tail(cache.queue)
      /\ cache'.refill_retry_pending = cache.refill_retry_pending
      /\ cache'.input_needs_retry = cache.input_needs_retry
  <2>1. c.queue = cache.queue /\ c.fresh \ {r} \in SUBSET CacheReqs
    BY <1>0, <1>6 DEF Kept
  <2> QED BY <1>2, <1>4, <1>6, <2>1 DEF CacheType, Array, Kept
<1>8. Good(cache')
  BY <1>6, <1>7, IdleGood
<1>9. Refusals(cache', "resp", cache_up')
  <2>1. "idle" # "denied" /\ cache_ctl # "retry"
    BY <1>0
  <2>2. Refusals(cache, cache_ctl, cache_up)
    BY <1>0 DEF State
  <2> QED BY <1>0, <1>4, <1>5, <1>7, <2>1, <2>2, RefusalsBack
<1>10. Around("resp", cache_up', bypass', cache_owes')
  BY <1>0, <1>2, <1>5, StatusCases DEF State, Around
<1>11. State(cache', "resp", cache_up', bypass', cache_owes')
  BY <1>0, <1>2, <1>4, <1>5, <1>7, <1>8, <1>9, <1>10 DEF State
<1> QED BY <1>2, <1>11, StateIInv

LEMMA PrefetchRespIInv ==
    ASSUME IInv, PrefetchResp PROVE IInv'
<1>0. /\ State(cache, cache_ctl, cache_up, bypass, cache_owes) /\ Good(cache) /\ cache.pending = "prefetch"
      /\ UNCHANGED <<cache_ctl, cache_up, bypass>> /\ Settle(Install(cache))
  BY IInvState DEF State, PrefetchResp
<1>1. PICK c : c = Install(cache)
  OBVIOUS
<1>2. Good(c) /\ Kept(cache, c)
  BY <1>0, <1>1, InstallGood
<1>3. State(cache', cache_ctl, cache_up, bypass, cache_owes')
  <2>1. Refusals(c, cache_ctl, cache_up) /\ Around(cache_ctl, cache_up, bypass, cache_owes) /\ Places(c.queue, cache_up, bypass)
    BY <1>0, <1>2 DEF State, Refusals, Kept
  <2>2. c.refill_retry_pending \/ c.input_needs_retry => cache_owes
    BY <1>0, <1>2 DEF State, Kept
  <2> QED BY <1>0, <1>1, <1>2, <2>1, <2>2, SettleState
<1> QED BY <1>0, <1>3, StateIInv

LEMMA BypassRespIInv ==
    ASSUME IInv, NEW r \in CacheReqs, BypassResp(r, TRUE) PROVE IInv'
<1>0. /\ State(cache, cache_ctl, cache_up, bypass, cache_owes) /\ cache_up \in [CacheReqs -> MasterStates] /\ cache_ctl = "idle"
      /\ Places(cache.queue, cache_up, bypass) /\ r \in bypass
      /\ bypass' = bypass \ {r} /\ cache_up' = [cache_up EXCEPT ![r] = AfterResp(@)]
      /\ UNCHANGED <<cache, cache_ctl, cache_owes>>
  BY IInvState DEF State, Around, BypassResp
<1>1. cache_up[r] = "granted" /\ r \notin Range(cache.queue)
  BY <1>0 DEF Places
<1>2. cache_up' = [cache_up EXCEPT ![r] = "idle"]
  BY <1>0, <1>1, StatusCases
<1>3. cache_up'[r] = "idle" /\ \A q \in CacheReqs \ {r} : cache_up'[q] = cache_up[q]
  BY <1>0, <1>2
<1>4. Places(cache.queue, cache_up', bypass')
  BY <1>0, <1>1, <1>3 DEF Places
<1>5. Refusals(cache, cache_ctl, cache_up')
  <2>1. Refusals(cache, cache_ctl, cache_up) /\ cache_ctl # "retry"
    BY <1>0 DEF State
  <2> QED BY <1>3, <2>1 DEF Refusals
<1>6. Around(cache_ctl, cache_up', bypass', cache_owes)
  BY <1>0, <1>2, StatusCases DEF State, Around
<1>7. State(cache', cache_ctl', cache_up', bypass', cache_owes')
  BY <1>0, <1>4, <1>5, <1>6 DEF State
<1> QED BY <1>7, StateIInv

LEMMA ReturnsIInv ==
    ASSUME IInv, Returns PROVE IInv'
<1>0. /\ State(cache, cache_ctl, cache_up, bypass, cache_owes) /\ cache_ctl' = "idle" /\ UNCHANGED <<cache_up, bypass>>
      /\ Settle(cache)
  BY IInvState DEF Returns
<1>1. Refusals(cache, "idle", cache_up)
  <2>1. CASE cache_ctl # "retry"
    BY <1>0, <2>1 DEF State, Refusals
  <2>2. CASE cache_ctl = "retry"
    BY <1>0, <2>2 DEF State, Refusals, Returns, NoneDenied
  <2> QED BY <2>1, <2>2
<1>2. State(cache', "idle", cache_up, bypass, cache_owes')
  BY <1>0, <1>1, SettleState DEF State, Around
<1> QED BY <1>0, <1>2, StateIInv

LEMMA RefillRetryIInv ==
    ASSUME IInv, RefillRetry PROVE IInv'
<1>0. /\ State(cache, cache_ctl, cache_up, bypass, cache_owes) /\ Good(cache) /\ cache \in CacheType
      /\ cache_ctl = "idle" /\ UNCHANGED <<cache_up, bypass>> /\ Refusals(cache, cache_ctl, cache_up)
      /\ Around(cache_ctl, cache_up, bypass, cache_owes) /\ Places(cache.queue, cache_up, bypass)
  BY IInvState DEF State, Good, RefillRetry
<1>1. PICK c : c = [cache EXCEPT !.refill_retry_pending = FALSE, !.input_needs_retry = FALSE]
  OBVIOUS
<1>2. /\ c \in CacheType /\ Array(c) = Array(cache) /\ c.queue = cache.queue
      /\ c.offset_of = cache.offset_of /\ ~c.refill_retry_pending /\ ~c.input_needs_retry
  BY <1>0, <1>1 DEF CacheType, Array
<1>3. Good(c)
  BY <1>0, <1>2, SameGood
<1>4. CASE cache.input_needs_retry
  <2>1. cache' = c /\ cache_owes' = FALSE /\ cache_ctl' = "retry"
    BY <1>1, <1>4 DEF RefillRetry
  <2>2. Refusals(c, "retry", cache_up) /\ Around("retry", cache_up, bypass, FALSE)
    BY <1>0 DEF Refusals, Around
  <2>3. State(cache', cache_ctl', cache_up', bypass', cache_owes')
    BY <1>0, <1>2, <1>3, <2>1, <2>2 DEF State
  <2> QED BY <2>3, StateIInv
<1>5. CASE ~cache.input_needs_retry
  <2>1. PICK f \in FetchIf(c.queue = <<>> /\ TriesPrefetch(c)) :
           /\ cache' = CheckState(c, f[1], f[2])
           /\ cache_owes' = (c.queue = <<>> /\ TriesPrefetch(c) /\ f[2] = IO_REQ_DENIED)
    BY <1>1, <1>5 DEF RefillRetry
  <2>2. cache_ctl' = cache_ctl
    BY <1>1, <1>5 DEF RefillRetry
  <2>3. Good(cache') /\ Kept(c, cache') /\ Served(cache')
    BY <1>3, <2>1, CheckStateGood
  <2>4. cache_owes' \in BOOLEAN
    BY <2>1
  <2>5. Refusals(cache', cache_ctl, cache_up)
    BY <1>0, <1>5 DEF Refusals
  <2>6. Around(cache_ctl, cache_up, bypass, cache_owes')
    BY <1>0, <2>4 DEF Around
  <2>7. Places(cache'.queue, cache_up, bypass) /\ ~cache'.refill_retry_pending /\ ~cache'.input_needs_retry
    BY <1>0, <1>2, <2>3 DEF Kept
  <2>8. State(cache', cache_ctl', cache_up', bypass', cache_owes')
    BY <1>0, <2>2, <2>3, <2>5, <2>6, <2>7 DEF State
  <2> QED BY <2>8, StateIInv
<1> QED BY <1>4, <1>5

LEMMA FsmSkipsIInv ==
    ASSUME IInv, FsmSkips PROVE IInv'
<1>0. /\ State(cache, cache_ctl, cache_up, bypass, cache_owes) /\ Good(cache) /\ cache \in CacheType
      /\ cache_ctl = "idle" /\ UNCHANGED <<cache_ctl, cache_up, bypass>> /\ Settle([cache EXCEPT !.fsm = "off"])
  BY IInvState DEF State, Good, FsmSkips
<1>1. PICK c : c = [cache EXCEPT !.fsm = "off"]
  OBVIOUS
<1>2. /\ c \in CacheType /\ Array(c) = Array(cache) /\ c.queue = cache.queue
      /\ c.offset_of = cache.offset_of /\ c.refill_retry_pending = cache.refill_retry_pending
      /\ c.input_needs_retry = cache.input_needs_retry
  BY <1>0, <1>1 DEF CacheType, Array
<1>3. Good(c)
  BY <1>0, <1>2, SameGood
<1>4. /\ Refusals(c, cache_ctl, cache_up) /\ Around(cache_ctl, cache_up, bypass, cache_owes) /\ Places(c.queue, cache_up, bypass)
      /\ c.refill_retry_pending \/ c.input_needs_retry => cache_owes
  BY <1>0, <1>2 DEF State, Refusals
<1>5. State(cache', cache_ctl, cache_up, bypass, cache_owes')
  BY <1>0, <1>1, <1>3, <1>4, SettleState
<1> QED BY <1>0, <1>5, StateIInv

LEMMA FsmServesIInv ==
    ASSUME IInv, NEW w \in Ways, NEW st \in IoReqStatus, FsmServes(w, st) PROVE IInv'
<1>0. /\ State(cache, cache_ctl, cache_up, bypass, cache_owes) /\ Good(cache) /\ cache \in CacheType
      /\ cache_ctl = "idle" /\ bypass' = bypass /\ PortFree(cache) /\ cache.queue # <<>>
      /\ cache.queue \in Seq(CacheReqs) /\ cache_up \in [CacheReqs -> MasterStates]
      /\ Places(cache.queue, cache_up, bypass) /\ Refusals(cache, cache_ctl, cache_up)
      /\ cache.refill_retry_pending \/ cache.input_needs_retry => cache_owes
      /\ Around(cache_ctl, cache_up, bypass, cache_owes)
  BY IInvState, FieldTypes DEF State, Around, Good, FsmServes, HeadReady
<1>1. PICK r, c0, c, status :
         /\ r = Head(cache.queue) /\ c0 = [cache EXCEPT !.fsm = "off", !.queue = Tail(@)]
         /\ c = HandleReq(c0, r, w, st) /\ status = HandleStatus(c0, r, st)
  OBVIOUS
<1>2. /\ r \in CacheReqs /\ Tail(cache.queue) \in Seq(CacheReqs) /\ cache_up[r] = "granted"
      /\ cache.queue = <<r>> \o Tail(cache.queue)
      /\ Places(Tail(cache.queue), [cache_up EXCEPT ![r] = "idle"], bypass)
  BY <1>0, <1>1, PopPlaces
<1>3. /\ c0 \in CacheType /\ Array(c0) = Array(cache) /\ c0.queue = Tail(cache.queue)
      /\ c0.refill_retry_pending = cache.refill_retry_pending
      /\ c0.input_needs_retry = cache.input_needs_retry /\ PortFree(c0)
  BY <1>0, <1>1, <1>2 DEF CacheType, Array, PortFree
<1>4. Sound(c0)
  BY <1>0, <1>3, SameArray DEF Good
<1>5. Handled(c0, c, r, status)
  BY <1>1, <1>2, <1>3, <1>4, HandleReqHandled
<1>6. Good(c) /\ c.input_needs_retry = cache.input_needs_retry /\ c \in CacheType
  BY <1>3, <1>5 DEF Handled, Good
<1>7. CASE status = "done"
  <2>1. cache' = c /\ cache_ctl' = "resp" /\ cache_owes' = cache_owes
    BY <1>1, <1>7, StatusCases DEF FsmServes
  <2>2. cache_up' = [cache_up EXCEPT ![r] = Answered(c, r, AfterResp(@))]
    BY <1>1, <1>7, StatusCases DEF FsmServes
  <2>3. PortFree(c) /\ c.queue = Tail(cache.queue) /\ Answerable(c, r)
    BY <1>3, <1>5, <1>7 DEF Handled
  <2>4. Answered(c, r, "idle") = "idle"
    BY <2>3 DEF Answered, Answerable, OwnBytes
  <2>5. cache_up' = [cache_up EXCEPT ![r] = "idle"]
    BY <1>0, <1>2, <2>2, <2>4, StatusCases
  <2>6. Refusals(c, "resp", cache_up')
    <3>1. "idle" # "denied" /\ cache_ctl # "retry"
      BY <1>0
    <3> QED BY <1>0, <1>2, <1>6, <2>5, <3>1, RefusalsBack
  <2>7. Around("resp", cache_up', bypass', cache_owes')
    BY <1>0, <2>1, <2>5, StatusCases DEF Around
  <2>8. State(cache', cache_ctl', cache_up', bypass', cache_owes')
    BY <1>0, <1>2, <1>6, <2>1, <2>3, <2>5, <2>6, <2>7 DEF State, PortFree
  <2> QED BY <2>8, StateIInv
<1>8. CASE status = "granted"
  <2>1. cache' = c /\ UNCHANGED <<cache_ctl, cache_up, cache_owes>>
    BY <1>1, <1>8, StatusCases DEF FsmServes
  <2>2. c.queue = cache.queue /\ c.pending = "demand" /\ ~c.refill_retry_pending
    BY <1>2, <1>3, <1>5, <1>8 DEF Handled
  <2>3. Refusals(c, cache_ctl, cache_up)
    BY <1>0, <1>6 DEF Refusals
  <2>4. State(cache', cache_ctl', cache_up', bypass', cache_owes')
    BY <1>0, <1>6, <2>1, <2>2, <2>3 DEF State, Served
  <2> QED BY <2>4, StateIInv
<1>9. CASE status = "denied"
  <2>1. cache' = [c EXCEPT !.queue = <<r>> \o @] /\ cache_owes' = TRUE /\ UNCHANGED <<cache_ctl, cache_up>>
    BY <1>1, <1>9, StatusCases DEF FsmServes
  <2>2. c.queue = Tail(cache.queue) /\ c.refill_retry_pending /\ c.pending = "none"
    BY <1>3, <1>5, <1>6, <1>9 DEF Handled, Good, Flight
  <2>3. <<r>> \o c.queue = cache.queue
    BY <1>2, <2>2
  <2>4. /\ cache' \in CacheType /\ Array(cache') = Array(c) /\ cache'.queue = cache.queue
        /\ cache'.refill_retry_pending /\ cache'.input_needs_retry = c.input_needs_retry
    <3>1. cache' = [c EXCEPT !.queue = cache.queue]
      BY <1>6, <2>1, <2>3 DEF CacheType
    <3> QED BY <1>0, <1>6, <2>2, <3>1 DEF CacheType, Array
  <2>5. Good(cache')
    BY <1>6, <2>2, <2>4, IdleGood DEF Good
  <2>6. Refusals(cache', cache_ctl, cache_up)
    BY <1>0, <1>6, <2>4 DEF Refusals
  <2>7. Around(cache_ctl, cache_up, bypass, TRUE)
    BY <1>0 DEF Around
  <2>8. State(cache', cache_ctl', cache_up', bypass', cache_owes')
    BY <1>0, <2>1, <2>4, <2>5, <2>6, <2>7 DEF State, Served
  <2> QED BY <2>8, StateIInv
<1> QED BY <1>5, <1>7, <1>8, <1>9 DEF Handled

(* A clock edge, or one of the wires: no request moves. *)
LEMMA QuietState ==
    ASSUME State(cache, cache_ctl, cache_up, bypass, cache_owes), Good(cache'), Kept(cache, cache'),
           UNCHANGED <<cache_ctl, cache_up, bypass, cache_owes>>, Served(cache) => Served(cache')
    PROVE  IInv'
<1>1. Refusals(cache', cache_ctl, cache_up)
  BY DEF State, Refusals, Kept
<1>2. State(cache', cache_ctl', cache_up', bypass', cache_owes')
  BY <1>1 DEF State, Kept
<1> QED BY <1>2, StateIInv

LEMMA QuietIInv ==
    ASSUME IInv, CacheTick \/ (\E e \in BOOLEAN : Enable(e)) \/ Flush \/ (\E t \in Tags : FlushLine(t))
    PROVE  IInv'
<1>0. /\ State(cache, cache_ctl, cache_up, bypass, cache_owes) /\ Good(cache) /\ cache \in CacheType
      /\ UNCHANGED <<cache_ctl, cache_up, bypass, cache_owes>>
  BY IInvState DEF State, Good, CacheTick, Enable, Flush, FlushLine
<1>1. CASE CacheTick
  <2>1. cache' = [cache EXCEPT !.fresh = {}, !.fsm = IF @ = "next" THEN "now" ELSE @]
    BY <1>1 DEF CacheTick
  <2>2. /\ cache' \in CacheType /\ Array(cache') = Array(cache) /\ Kept(cache, cache')
        /\ cache'.offset_of = cache.offset_of /\ (cache.fsm # "off" => cache'.fsm # "off")
    BY <1>0, <2>1 DEF CacheType, Array, Kept
  <2>3. Good(cache') /\ (Served(cache) => Served(cache'))
    BY <1>0, <2>2, SameGood DEF Kept, Served, Array
  <2> QED BY <1>0, <2>2, <2>3, QuietState
<1>2. ASSUME NEW e \in BOOLEAN, Enable(e) PROVE IInv'
  <2>1. cache' = [cache EXCEPT !.enabled = e]
    BY <1>2 DEF Enable
  <2>2. /\ cache' \in CacheType /\ Array(cache') = Array(cache) /\ Kept(cache, cache')
        /\ cache'.offset_of = cache.offset_of /\ cache'.fsm = cache.fsm
    BY <1>0, <2>1 DEF CacheType, Array, Kept
  <2>3. Good(cache') /\ (Served(cache) => Served(cache'))
    BY <1>0, <2>2, SameGood DEF Kept, Served, Array
  <2> QED BY <1>0, <2>2, <2>3, QuietState
<1>3. ASSUME NEW F, cache' = Invalidate(cache, F) PROVE IInv'
  <2>1. Good(cache') /\ Kept(cache, cache') /\ cache'.pending = cache.pending /\ cache'.fsm = cache.fsm
    BY <1>0, <1>3, InvalidateGood
  <2>2. Served(cache) => Served(cache')
    BY <2>1 DEF Kept, Served
  <2> QED BY <1>0, <2>1, <2>2, QuietState
<1>4. CASE Flush
  BY <1>3, <1>4 DEF Flush
<1>5. CASE \E t \in Tags : FlushLine(t)
  BY <1>3, <1>5 DEF FlushLine
<1> QED BY <1>1, <1>2, <1>4, <1>5

LEMMA ResetIInv ==
    ASSUME IInv, Reset PROVE IInv'
<1>0. /\ State(cache, cache_ctl, cache_up, bypass, cache_owes) /\ Good(cache) /\ cache_ctl = "idle" /\ cache_ctl' = cache_ctl
      /\ cache_up' = [r \in CacheReqs |-> "idle"] /\ bypass' = {} /\ cache_owes' = FALSE
  BY IInvState DEF State, Reset
<1>1. PICK c : c = Invalidate(cache, Tags)
  OBVIOUS
<1>2. c \in CacheType /\ \A s \in Sets, w \in Ways : c.lines[s][w].tag = NoTag \/ c.lines[s][w].tag \notin Tags
  BY <1>0, <1>1, InvalidateGood DEF Good
<1>3. cache' = [c EXCEPT !.enabled = EnabledAtReset, !.queue = <<>>, !.fresh = {},
                         !.pending = "none", !.way = AnyWay, !.tag = NoTag, !.early = FALSE,
                         !.offset_of = NoReq,
                         !.prefetch_tag = NoTag, !.refill_retry_pending = FALSE,
                         !.input_needs_retry = FALSE]
  BY <1>1 DEF Reset
<1>4. /\ cache' \in CacheType /\ cache'.lines = c.lines /\ cache'.queue = <<>>
      /\ cache'.pending = "none" /\ ~cache'.refill_retry_pending /\ ~cache'.input_needs_retry
  <2>1. EnabledAtReset \in BOOLEAN /\ AnyWay \in Ways /\ <<>> \in Seq(CacheReqs)
    BY Constants, CacheAssumption
  <2> QED BY <1>2, <1>3, <2>1 DEF CacheType
<1>5. \A s \in Sets, w \in Ways : cache'.lines[s][w].tag = NoTag
  <2> SUFFICES ASSUME NEW s \in Sets, NEW w \in Ways PROVE c.lines[s][w].tag = NoTag
    BY <1>4
  <2>1. c.lines[s][w] \in Line
    BY <1>2, FieldTypes
  <2> QED BY <1>2, <2>1, LineFields
<1>6. Good(cache')
  BY <1>4, <1>5 DEF Good, Sound, Flight, OwnsHead
<1>7. Places(<<>>, cache_up', {})
  BY <1>0 DEF Places, Range
<1>8. Refusals(cache', cache_ctl, cache_up') /\ Around(cache_ctl, cache_up', {}, FALSE)
  BY <1>0, StatusCases DEF Refusals, Around
<1>9. State(cache', cache_ctl', cache_up', bypass', cache_owes')
  BY <1>0, <1>4, <1>6, <1>7, <1>8 DEF State, Served
<1> QED BY <1>9, StateIInv

LEMMA NextIInv == IInv /\ [CacheNext]_CacheVars => IInv'
<1> SUFFICES ASSUME IInv, [CacheNext]_CacheVars PROVE IInv'
  OBVIOUS
<1>7. CASE UNCHANGED CacheVars
  <2>1. State(cache', cache_ctl', cache_up', bypass', cache_owes')
    BY <1>7, IInvState DEF CacheVars
  <2> QED BY <2>1, StateIInv
<1>1. ASSUME NEW r \in CacheReqs, CacheMasterReq(r) \/ MasterReissue(r) PROVE IInv'
  BY <1>1, MasterIInv
<1>8. ASSUME NEW r \in CacheReqs, NEW last \in BOOLEAN, BypassResp(r, last) PROVE IInv'
  <2>1. CASE last = TRUE
    BY <1>8, <2>1, BypassRespIInv
  <2>2. CASE last = FALSE
    <3>1. UNCHANGED CacheVars
      BY <1>8, <2>2 DEF BypassResp, CacheVars
    <3> QED BY <3>1, <1>7
  <2> QED BY <2>1, <2>2
<1>2. CASE (\E data \in BOOLEAN : RefillResp(data)) \/ PrefetchResp \/ Returns \/ RefillRetry
  BY <1>2, RefillRespIInv, PrefetchRespIInv, ReturnsIInv, RefillRetryIInv
<1>3. CASE FsmSkips
  BY <1>3, FsmSkipsIInv
<1>4. ASSUME NEW f \in FsmFetches, FsmServes(f[1], f[2]) PROVE IInv'
  <2>1. f[1] \in Ways /\ f[2] \in IoReqStatus
    BY FetchIfIs DEF FsmFetches
  <2> QED BY <1>4, <2>1, FsmServesIInv
<1>5. CASE CacheTick \/ (\E e \in BOOLEAN : Enable(e)) \/ Flush \/ (\E t \in Tags : FlushLine(t))
  BY <1>5, QuietIInv
<1>6. CASE Reset
  BY <1>6, ResetIInv
<1> QED BY <1>1, <1>2, <1>3, <1>4, <1>5, <1>6, <1>7, <1>8 DEF CacheNext

-----------------------------------------------------------------------------
LEMMA CacheSafe == CacheSpec => []IInv
<1>1. CacheInit => IInv
  BY InitIInv
<1>2. IInv /\ [CacheNext]_CacheVars => IInv'
  BY NextIInv
<1> QED BY <1>1, <1>2, PTL DEF CacheSpec

(***************************************************************************)
(* Every field of the cache keeps its type in every handler; in particular *)
(* next_line of arm_prefetch stays in the address range.                   *)
(***************************************************************************)
THEOREM CacheTypeCorrect == CacheSpec => []CacheTypeOK
<1>1. IInv => CacheTypeOK
  BY DEF IInv
<1> QED BY <1>1, CacheSafe, PTL

(***************************************************************************)
(* For any geometry and any set of requests: a request that input_req      *)
(* granted is in the queue, or forwarded by the bypass, once, until its    *)
(* one response, which is for the request the refill was sent for and not  *)
(* from a torn line or, unless a request without a buffer left it so       *)
(* (Stray), from another line, whatever the enable, flush and reset wires  *)
(* do in between.                                                          *)
(***************************************************************************)
THEOREM CacheRequestsInOnePlace == CacheSpec => []CacheOnePlace
<1>1. IInv => CacheOnePlace
  BY DEF IInv
<1> QED BY <1>1, CacheSafe, PTL

(***************************************************************************)
(* get_line never finds a line twice, in the wrong set or over the bytes   *)
(* of another line, except for the victim of the refill in flight, which   *)
(* no request is served from, and for a line that refill_resp left         *)
(* untagged for a request without a buffer, if there are such requests:    *)
(* refill, try_prefetch, flush and flush_line keep the tag array and the   *)
(* buffers together.                                                       *)
(***************************************************************************)
THEOREM TagArrayTheorem == CacheSpec => []TagArraySound
<1>1. IInv => TagArraySound
  BY DEF IInv
<1> QED BY <1>1, CacheSafe, PTL

(***************************************************************************)
(* refill_resp pops the request that refill() pushed in front, and answers *)
(* it at its own pending_line_offset, though the queue grows and other     *)
(* requests are re-issued between the two calls.                           *)
(***************************************************************************)
THEOREM RefillOwnsHeadTheorem == CacheSpec => []RefillOwnsHead
<1>1. IInv => RefillOwnsHead
  BY DEF IInv
<1> QED BY <1>1, CacheSafe, PTL

(***************************************************************************)
(* Whenever no handler of the cache is running, a queued request has a     *)
(* refill in flight, fsm_event enqueued, or a slave that owes a retry(),   *)
(* and a refused request has a slave that owes one.                        *)
(***************************************************************************)
THEOREM CacheWakeupTheorem == CacheSpec => []NoLostWakeup
<1>1. IInv => NoLostWakeup
  BY DEF IInv
<1> QED BY <1>1, CacheSafe, PTL
=============================================================================
