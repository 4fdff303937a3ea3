------------------------------ MODULE CacheV4 ------------------------------
(***************************************************************************)
(* models/cache/cache_v4.cpp: the set-associative cache with one refill in *)
(* flight, a queue of requests that wait for it, a next-line prefetcher on *)
(* the same refill port, a bypass mode and flush wires.                    *)
(*                                                                         *)
(* An address is the tag of its line; the bytes of a line buffer are the   *)
(* tag they were fetched for, Torn while a refill is writing them, and     *)
(* Stray when the refill has left them under the victim's old tag.  The    *)
(* pseudo-random victim is any way of the set.  Latency annotations are    *)
(* left out, the +1 cycle of fsm_event and of vp::Queue is kept.  The      *)
(* component's state is one record, so that the calls a handler makes one  *)
(* after the other compose; handlers are cut at resp() and retry().        *)
(***************************************************************************)
EXTENDS IoV2, Integers, Sequences, SequencesExt

CONSTANTS NbSets, Ways,   \* nb_sets; the set of ways
          MaxTag,         \* tags are 0 .. MaxTag
          CacheReqs,
          TagOf,          \* the master's requests and the line each one is in
          NoData,         \* the requests that may come without a data buffer
          Prefetch,       \* cfg.prefetch
          EnabledAtReset, \* cfg.enabled
          NoReq

Tags  == 0 .. MaxTag
Sets  == 0 .. NbSets - 1
NoTag == -1
Torn  == -2
Stray == -3

ASSUME CacheAssumption ==
    /\ NbSets \in Nat \ {0} /\ Ways # {} /\ MaxTag \in Nat
    /\ TagOf \in [CacheReqs -> 0 .. MaxTag - 1]     \* so that TagOf[r] + 1 is a tag
    /\ Prefetch \in BOOLEAN /\ EnabledAtReset \in BOOLEAN
    /\ NoReq \notin CacheReqs /\ NoData \subseteq CacheReqs

VARIABLES
    cache,       \* the fields of class Cache, see CacheType
    cache_ctl,   \* "idle", or the call on the master that a handler is in
    cache_up,    \* the master's view of its requests
    bypass,      \* the requests forwarded as they are that the slave has granted
    cache_owes   \* the slave has denied a request and owes a retry()

CacheVars == <<cache, cache_ctl, cache_up, bypass, cache_owes>>

(* pending merges pending_refill, pending_is_prefetch and the vehicle that *)
(* is downstream; offset_of is the request pending_line_offset was set     *)
(* for; fsm and fresh say when fsm_event fires and which queued requests   *)
(* only become available in the next cycle; early, a ghost, says that a    *)
(* flush has come since the refill in flight was issued.                   *)
Line == [tag : Tags \cup {NoTag}, bytes : Tags \cup {NoTag, Torn, Stray},
         prefetched : BOOLEAN]

CacheType ==
    [lines : [Sets -> [Ways -> Line]], enabled : BOOLEAN,
     queue : Seq(CacheReqs), fresh : SUBSET CacheReqs, fsm : {"off", "next", "now"},
     pending : {"none", "demand", "prefetch"}, way : Ways, tag : Tags \cup {NoTag},
     early : BOOLEAN, offset_of : CacheReqs \cup {NoReq},
     prefetch_tag : Tags \cup {NoTag},
     refill_retry_pending : BOOLEAN, input_needs_retry : BOOLEAN]

SetOf(t) == t % NbSets

AnyWay == CHOOSE w \in Ways : TRUE

EmptyLines == [s \in Sets |-> [w \in Ways |->
                  [tag |-> NoTag, bytes |-> NoTag, prefetched |-> FALSE]]]

CacheInit ==
    /\ cache = [lines |-> EmptyLines, enabled |-> EnabledAtReset,
                queue |-> <<>>, fresh |-> {}, fsm |-> "off",
                pending |-> "none", way |-> AnyWay, tag |-> NoTag,
                early |-> FALSE, offset_of |-> NoReq, prefetch_tag |-> NoTag,
                refill_retry_pending |-> FALSE, input_needs_retry |-> FALSE]
    /\ cache_ctl = "idle"
    /\ cache_up = [r \in CacheReqs |-> "idle"]
    /\ bypass = {}
    /\ cache_owes = FALSE

-----------------------------------------------------------------------------
(* Cache::get_line. *)
Hits(c, t) == {w \in Ways : c.lines[SetOf(t)][w].tag = t}

(* Idle as far as the refill port goes: neither in flight nor refused. *)
PortFree(c) == c.pending = "none" /\ ~c.refill_retry_pending

(* refill_req or prefetch_req for line t, victim w, answered st.  A refill *)
(* that is granted writes the buffer of the victim, whose tag stays.       *)
Fetch(c, kind, t, w, st) ==
    CASE st = IO_REQ_DONE ->
            [c EXCEPT !.lines[SetOf(t)][w] =
                [tag |-> t, bytes |-> t,
                 prefetched |-> IF kind = "prefetch" THEN TRUE ELSE @.prefetched]]
      [] st = IO_REQ_GRANTED ->
            [c EXCEPT !.lines[SetOf(t)][w].bytes = Torn, !.pending = kind,
                      !.way = w, !.tag = t, !.early = FALSE]
      [] st = IO_REQ_DENIED -> c

(* The response to the refill in flight: the line takes its new tag; but   *)
(* the tag of a refill for a request without a buffer is not set.          *)
Landed(c, line) ==
    [c EXCEPT !.lines[SetOf(c.tag)][c.way] = line,
              !.pending = "none", !.way = AnyWay, !.tag = NoTag, !.early = FALSE,
              !.offset_of = NoReq]

Install(c) ==
    Landed(c, [tag |-> c.tag, bytes |-> c.tag,
               prefetched |-> IF c.pending = "prefetch" THEN TRUE
                              ELSE c.lines[SetOf(c.tag)][c.way].prefetched])

LeaveUntagged(c) ==
    Landed(c, [c.lines[SetOf(c.tag)][c.way] EXCEPT !.bytes = Stray])

(* Mutant: two lines ahead. *)
ArmPrefetchFar(c, t) == IF Prefetch THEN [c EXCEPT !.prefetch_tag = t + 2] ELSE c

(* Cache::arm_prefetch. *)
ArmPrefetch(c, t) == IF Prefetch THEN [c EXCEPT !.prefetch_tag = t + 1] ELSE c

(* Mutant: a line that is cached is prefetched again. *)
WantsPrefetchCached(c) == c.prefetch_tag # NoTag /\ c.enabled

(* Cache::try_prefetch: best effort, a refusal drops the prefetch. *)
WantsPrefetch(c) ==
    c.prefetch_tag # NoTag /\ c.enabled /\ Hits(c, c.prefetch_tag) = {}

TryPrefetch(c, w, st) ==
    LET dropped == [c EXCEPT !.prefetch_tag = IF c.enabled THEN NoTag ELSE @]
    IN  IF WantsPrefetch(c) THEN Fetch(dropped, "prefetch", c.prefetch_tag, w, st)
        ELSE dropped

(* Mutant: the queue's empty(), which tells of the requests available now. *)
CheckStateReady(c, w, st) ==
    CASE PortFree(c) /\ (\E i \in DOMAIN c.queue : c.queue[i] \notin c.fresh) ->
            [c EXCEPT !.fsm = IF @ = "off" THEN "next" ELSE @]
      [] PortFree(c) /\ c.queue = <<>> -> TryPrefetch(c, w, st)
      [] OTHER -> c

(* Cache::check_state. *)
CheckState(c, w, st) ==
    CASE PortFree(c) /\ c.queue # <<>> -> [c EXCEPT !.fsm = IF @ = "off" THEN "next" ELSE @]
      [] PortFree(c) /\ c.queue = <<>> -> TryPrefetch(c, w, st)
      [] OTHER -> c

Enqueue(c, r) == [c EXCEPT !.queue = Append(@, r), !.fresh = @ \cup {r}]

(* Mutant: the request that missed goes to the back of the queue. *)
RefillLast(c, r, w, st) ==
    LET f == Fetch(c, "demand", TagOf[r], w, st)
    IN  CASE st = IO_REQ_DONE    -> f
          [] st = IO_REQ_GRANTED -> [f EXCEPT !.queue = Append(@, r), !.offset_of = r]
          [] st = IO_REQ_DENIED  -> [f EXCEPT !.refill_retry_pending = TRUE]

(* Cache::refill for request r. *)
Refill(c, r, w, st) ==
    LET f == Fetch(c, "demand", TagOf[r], w, st)
    IN  CASE st = IO_REQ_DONE    -> f
          [] st = IO_REQ_GRANTED -> [f EXCEPT !.queue = <<r>> \o @, !.offset_of = r]
          [] st = IO_REQ_DENIED  -> [f EXCEPT !.refill_retry_pending = TRUE]

(* Cache::handle_req: the state it leaves.  Its status is DONE on a hit    *)
(* and the status of the refill on a miss.                                 *)
HandleReq(c, r, w, st) ==
    LET t   == TagOf[r]
        hit == CHOOSE h \in Hits(c, t) : TRUE
    IN  IF Hits(c, t) = {} THEN Refill(ArmPrefetch(c, t), r, w, st)
        ELSE IF c.lines[SetOf(t)][hit].prefetched
        THEN ArmPrefetch([c EXCEPT !.lines[SetOf(t)][hit].prefetched = FALSE], t)
        ELSE c

HandleStatus(c, r, st) == IF Hits(c, TagOf[r]) = {} THEN st ELSE IO_REQ_DONE

(* The bytes a completed request takes from state c: those of its line, or *)
(* the Stray ones that a refill without a buffer left under its tag.       *)
Answered(c, r, state) ==
    IF \E w \in Hits(c, TagOf[r]) :
          c.lines[SetOf(TagOf[r])][w].bytes \in {TagOf[r], Stray}
    THEN state ELSE "error"

-----------------------------------------------------------------------------
(* What may come of a request on the refill port: the victim and the       *)
(* slave's answer.  One of them is enough where no request is issued.      *)
Fetches      == Ways \X IoReqStatus
FetchIf(iss) == IF iss THEN Fetches ELSE {<<AnyWay, IO_REQ_DONE>>}

TriesPrefetch(c) == PortFree(c) /\ WantsPrefetch(c)

(* check_state as the last call of a handler. *)
Settle(c) ==
    LET tries == c.queue = <<>> /\ TriesPrefetch(c)
    IN  \E f \in FetchIf(tries) :
            /\ cache' = CheckState(c, f[1], f[2])
            /\ cache_owes' = (cache_owes \/ (tries /\ f[2] = IO_REQ_DENIED))

(* Cache::input_req; st is the slave's answer to a request it forwards, w  *)
(* the victim of a refill.                                                 *)
Bypass(r, st) ==
    /\ ~cache.enabled
    /\ cache_up' = [cache_up EXCEPT ![r] = AfterReq(st)]
    /\ bypass' = IF st = IO_REQ_GRANTED THEN bypass \cup {r} ELSE bypass
    /\ cache' = [cache EXCEPT !.input_needs_retry = @ \/ st = IO_REQ_DENIED]
    /\ cache_owes' = (cache_owes \/ st = IO_REQ_DENIED)

QueueReq(r) ==
    /\ cache.enabled /\ ~PortFree(cache)
    /\ Settle(Enqueue(cache, r))
    /\ cache_up' = [cache_up EXCEPT ![r] = "granted"]
    /\ UNCHANGED bypass

Serve(r, w, st) ==
    LET c      == HandleReq(cache, r, w, st)
        status == HandleStatus(cache, r, st)
    IN  /\ cache.enabled /\ PortFree(cache)
        /\ \/ /\ status = IO_REQ_DENIED
              /\ cache' = [c EXCEPT !.input_needs_retry = TRUE]
              /\ cache_up' = [cache_up EXCEPT ![r] = "denied"]
              /\ cache_owes' = TRUE
           \/ /\ status # IO_REQ_DENIED
              /\ \E f \in FetchIf(TriesPrefetch(c)) :
                    /\ cache' = IF PortFree(c) THEN TryPrefetch(c, f[1], f[2]) ELSE c
                    /\ cache_owes' = (cache_owes \/ (TriesPrefetch(c) /\ f[2] = IO_REQ_DENIED))
              /\ cache_up' = [cache_up EXCEPT ![r] = IF status = IO_REQ_DONE
                                         THEN Answered(c, r, "idle") ELSE "granted"]
        /\ UNCHANGED bypass

InputReq(r) ==
    \/ \E st \in IoReqStatus : Bypass(r, st)
    \/ QueueReq(r)
    \/ \E f \in FetchIf(Hits(cache, TagOf[r]) = {}) : Serve(r, f[1], f[2])

(* The master issues a request between two handlers, inside a resp(), or   *)
(* inside a retry() once it has re-issued what was refused.                *)
CacheMasterReq(r) ==
    /\ cache_ctl \in {"idle", "resp", "retried"}
    /\ cache_up[r] = "idle" /\ NoneDenied(cache_up, CacheReqs)
    /\ InputReq(r)
    /\ UNCHANGED cache_ctl

MasterReissue(r) ==
    /\ cache_ctl = "retry" /\ cache_up[r] = "denied"
    /\ InputReq(r)
    /\ cache_ctl' = "retried"

-----------------------------------------------------------------------------
(* Mutant: the request answered stays in the queue. *)
RefillRespKept(data) ==
    LET r == Head(cache.queue)
    IN  /\ cache_ctl = "idle" /\ cache.pending = "demand"
        /\ data \/ r \in NoData
        /\ cache' = Install(cache)
        /\ cache_up' = [cache_up EXCEPT ![r] = IF TagOf[r] = cache.tag /\ cache.offset_of = r
                                   THEN AfterResp(@) ELSE "error"]
        /\ cache_ctl' = "resp"
        /\ UNCHANGED <<bypass, cache_owes>>

(* Cache::refill_resp for refill_req: the request at the head of the queue *)
(* is answered from the refilled line, at pending_line_offset; data says   *)
(* whether it has a buffer to be answered in.                              *)
RefillResp(data) ==
    LET r == Head(cache.queue)
        c == IF data THEN Install(cache) ELSE LeaveUntagged(cache)
    IN  /\ cache_ctl = "idle" /\ cache.pending = "demand"
        /\ data \/ r \in NoData
        /\ cache' = [c EXCEPT !.queue = Tail(@), !.fresh = @ \ {r}]
        /\ cache_up' = [cache_up EXCEPT ![r] = IF TagOf[r] = cache.tag /\ cache.offset_of = r
                                   THEN AfterResp(@) ELSE "error"]
        /\ cache_ctl' = "resp"
        /\ UNCHANGED <<bypass, cache_owes>>

(* Cache::refill_resp for prefetch_req. *)
PrefetchResp ==
    /\ cache_ctl = "idle" /\ cache.pending = "prefetch"
    /\ Settle(Install(cache))
    /\ UNCHANGED <<cache_ctl, cache_up, bypass>>

(* Cache::refill_resp for a request that was forwarded as it is.  Every    *)
(* beat of the slave's answer is passed on; the last one ends the request. *)
BypassResp(r, last) ==
    /\ cache_ctl = "idle" /\ r \in bypass
    /\ bypass' = IF last THEN bypass \ {r} ELSE bypass
    /\ cache_up' = IF last THEN [cache_up EXCEPT ![r] = AfterResp(@)] ELSE cache_up
    /\ UNCHANGED <<cache, cache_ctl, cache_owes>>

(* resp() or retry() returns to the handler, which ends with check_state. *)
Returns ==
    /\ \/ cache_ctl \in {"resp", "retried"}
       \/ cache_ctl = "retry" /\ NoneDenied(cache_up, CacheReqs)
    /\ Settle(cache)
    /\ cache_ctl' = "idle"
    /\ UNCHANGED <<cache_up, bypass>>

(* Cache::refill_retry, when the slave that denied a request is ready.  It *)
(* may deny the prefetch that check_state then tries, and owe another one. *)
RefillRetry ==
    LET c     == [cache EXCEPT !.refill_retry_pending = FALSE, !.input_needs_retry = FALSE]
        tries == c.queue = <<>> /\ TriesPrefetch(c)
    IN  /\ cache_ctl = "idle" /\ cache_owes
        /\ \/ /\ cache.input_needs_retry
              /\ cache' = c /\ cache_owes' = FALSE /\ cache_ctl' = "retry"
           \/ /\ ~cache.input_needs_retry
              /\ \E f \in FetchIf(tries) :
                    /\ cache' = CheckState(c, f[1], f[2])
                    /\ cache_owes' = (tries /\ f[2] = IO_REQ_DENIED)
              /\ UNCHANGED cache_ctl
        /\ UNCHANGED <<cache_up, bypass>>

(* Cache::fsm_handler: nothing to serve, or the head of the queue. *)
HeadReady(c) == PortFree(c) /\ c.queue # <<>> /\ Head(c.queue) \notin c.fresh

FsmSkips ==
    /\ cache_ctl = "idle" /\ cache.fsm = "now" /\ ~HeadReady(cache)
    /\ Settle([cache EXCEPT !.fsm = "off"])
    /\ UNCHANGED <<cache_ctl, cache_up, bypass>>

FsmServes(w, st) ==
    LET r      == Head(cache.queue)
        c0     == [cache EXCEPT !.fsm = "off", !.queue = Tail(@)]
        c1     == HandleReq(c0, r, w, st)
        status == HandleStatus(c0, r, st)
    IN  /\ cache_ctl = "idle" /\ cache.fsm = "now" /\ HeadReady(cache)
        /\ \/ /\ status = IO_REQ_DONE
              /\ cache' = c1
              /\ cache_up' = [cache_up EXCEPT ![r] = Answered(c1, r, AfterResp(@))]
              /\ cache_ctl' = "resp"
              /\ UNCHANGED cache_owes
           \/ /\ status = IO_REQ_GRANTED
              /\ cache' = c1
              /\ UNCHANGED <<cache_ctl, cache_up, cache_owes>>
           \/ /\ status = IO_REQ_DENIED
              /\ cache' = [c1 EXCEPT !.queue = <<r>> \o @]
              /\ cache_owes' = TRUE
              /\ UNCHANGED <<cache_ctl, cache_up>>
        /\ UNCHANGED bypass

FsmFetches == FetchIf(cache.queue # <<>> /\ Hits(cache, TagOf[Head(cache.queue)]) = {})

(* The next cycle: fsm_event is due, what was queued becomes available. *)
CacheTick ==
    /\ cache_ctl = "idle" /\ cache.fsm # "now"
    /\ cache.fsm = "next" \/ cache.fresh # {}
    /\ cache' = [cache EXCEPT !.fresh = {}, !.fsm = IF @ = "next" THEN "now" ELSE @]
    /\ UNCHANGED <<cache_ctl, cache_up, bypass, cache_owes>>

-----------------------------------------------------------------------------
(* The enable, flush and flush_line wires. *)
Enable(e) ==
    /\ cache_ctl = "idle" /\ cache.enabled # e
    /\ cache' = [cache EXCEPT !.enabled = e]
    /\ UNCHANGED <<cache_ctl, cache_up, bypass, cache_owes>>

Dropped(line) == [tag |-> NoTag, bytes |-> NoTag, prefetched |-> line.prefetched]

(* The lines of F lose their tag; a refill in flight for one goes on. *)
Invalidate(c, F) ==
    [c EXCEPT !.lines = [s \in Sets |-> [w \in Ways |->
                 IF @[s][w].tag \in F THEN Dropped(@[s][w]) ELSE @[s][w]]],
              !.early = @ \/ c.tag \in F]

Flush ==
    /\ cache_ctl = "idle"
    /\ cache' = Invalidate(cache, Tags)
    /\ UNCHANGED <<cache_ctl, cache_up, bypass, cache_owes>>

FlushLine(t) ==
    /\ cache_ctl = "idle"
    /\ cache' = Invalidate(cache, {t})
    /\ UNCHANGED <<cache_ctl, cache_up, bypass, cache_owes>>

(* A reset of the subtree.  The queue and pending_refill are engine        *)
(* objects that clear themselves; fsm_event stays enqueued, and a line     *)
(* keeps its prefetched bit.                                               *)
Reset ==
    /\ cache_ctl = "idle"
    /\ cache' = [Invalidate(cache, Tags) EXCEPT
                    !.enabled = EnabledAtReset, !.queue = <<>>, !.fresh = {},
                    !.pending = "none", !.way = AnyWay, !.tag = NoTag, !.early = FALSE,
                    !.offset_of = NoReq,
                    !.prefetch_tag = NoTag, !.refill_retry_pending = FALSE,
                    !.input_needs_retry = FALSE]
    /\ cache_up' = [r \in CacheReqs |-> "idle"]
    /\ bypass' = {} /\ cache_owes' = FALSE
    /\ UNCHANGED cache_ctl

-----------------------------------------------------------------------------
CacheNext ==
    \/ \E r \in CacheReqs : CacheMasterReq(r) \/ MasterReissue(r)
    \/ \E r \in CacheReqs, last \in BOOLEAN : BypassResp(r, last)
    \/ \E data \in BOOLEAN : RefillResp(data)
    \/ PrefetchResp \/ Returns \/ RefillRetry
    \/ FsmSkips \/ \E f \in FsmFetches : FsmServes(f[1], f[2])
    \/ CacheTick \/ Flush \/ Reset
    \/ \E e \in BOOLEAN : Enable(e)
    \/ \E t \in Tags : FlushLine(t)

CacheSpec == CacheInit /\ [][CacheNext]_CacheVars

-----------------------------------------------------------------------------
CacheTypeOK ==
    /\ cache \in CacheType
    /\ cache_ctl \in {"idle", "resp", "retry", "retried"}
    /\ cache_up \in [CacheReqs -> MasterStates]
    /\ bypass \subseteq CacheReqs
    /\ cache_owes \in BOOLEAN

(***************************************************************************)
(* A granted request waits in one place, once: the queue or the slave it   *)
(* was forwarded to.  No request is answered twice, or unasked, or with    *)
(* the bytes of another line (but for Stray ones), whatever overtakes it.  *)
(***************************************************************************)
CacheQueued(r) == r \in Range(cache.queue)

CacheOnePlace ==
    /\ \A r \in CacheReqs :
          /\ cache_up[r] # "error"
          /\ cache_up[r] = "granted" <=> CacheQueued(r) \/ r \in bypass
          /\ ~(CacheQueued(r) /\ r \in bypass)
    /\ \A i, j \in 1 .. Len(cache.queue) : cache.queue[i] = cache.queue[j] => i = j

(***************************************************************************)
(* The tag array tells the truth across refills, prefetches and flushes:   *)
(* a tag is in its own set, in one way only, over its own bytes.  The      *)
(* exceptions are the victim of the refill in flight, whose old tag stays  *)
(* while its bytes are overwritten, and a line that a request without a    *)
(* buffer left so.                                                         *)
(***************************************************************************)
BeingRefilled(s, w) ==
    cache.pending # "none" /\ s = SetOf(cache.tag) /\ w = cache.way

TagArraySound ==
    \A s \in Sets, w \in Ways :
        LET t == cache.lines[s][w].tag
        IN  t # NoTag => /\ SetOf(t) = s
                         /\ Hits(cache, t) = {w}
                         /\ \/ cache.lines[s][w].bytes = t
                            \/ BeingRefilled(s, w)
                            \/ cache.lines[s][w].bytes = Stray /\ NoData # {}

(***************************************************************************)
(* refill_resp finds what refill() left: the request that missed is at the *)
(* head of the queue, pending_line_offset is its own, and the line in      *)
(* flight is the one it wants and is not cached.                           *)
(***************************************************************************)
RefillOwnsHead ==
    /\ cache.pending = "demand" =>
          /\ cache.queue # <<>>
          /\ cache.offset_of = Head(cache.queue)
          /\ cache.tag = TagOf[Head(cache.queue)]
    /\ cache.pending # "none" => Hits(cache, cache.tag) = {} /\ ~cache.refill_retry_pending

(***************************************************************************)
(* Somebody will come back to everything that waits: a queued request has  *)
(* a refill in flight, fsm_event enqueued, or a slave that owes a retry(); *)
(* a refused request has a slave that owes one.                            *)
(***************************************************************************)
NoLostWakeup ==
    /\ cache.refill_retry_pending \/ cache.input_needs_retry => cache_owes
    /\ cache_ctl = "idle" =>
          /\ cache.queue # <<>> =>
                \/ cache.pending # "none" \/ cache.refill_retry_pending
                \/ cache.fsm # "off"
          /\ ~NoneDenied(cache_up, CacheReqs) => cache.input_needs_retry

(* What the class documentation and the flush_full test promise: once      *)
(* flush() has acknowledged, an access misses and is refilled.  The line   *)
(* of a refill that was in flight does not become valid without that.      *)
PostFlushMisses ==
    [][\A s \in Sets, w \in Ways :
          cache.early /\ cache.lines[s][w].tag # cache.tag
             => cache'.lines[s][w].tag # cache.tag]_CacheVars
=============================================================================
