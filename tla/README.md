# Formal models of the GVSoC io_v2 interconnect

GVSoC simulates systems-on-chip as trees of components bound port to port. This
project models the part of `gvsoc-core` that decides whether a simulated access
arrives: the components that speak the `io_v2` request protocol with its
back-pressure. These are the routers, FIFO, limiter, splitter, crossbar and
forwarders of `models/interco`, the cache of `models/cache` and the clock-domain
bridge of `models/utils`. TLC checks each of them on small instances. TLAPS proves the
safety of every one of them, for every set of requests and every value of their
parameters.

## 1. Inventory

### The protocol

A master calls `req(r)` on the slave bound to its port and gets an answer at once:

| status | meaning | who owns `r` |
|---|---|---|
| `IO_REQ_DONE` | the access is complete | the master |
| `IO_REQ_GRANTED` | one `resp(r)` will follow | the slave |
| `IO_REQ_DENIED` | nothing happened, a `retry()` will follow | the master |

A master holds at most one denied request per port and re-issues it from inside
the `retry()` call. The header (`vp/itf/io_v2.hpp`) belongs to the engine and is
not in this repository; `IoV2.tla` writes down what the components rely on, and
`IoV2Port.tla` is the abstract specification of a slave port: every request taken
is answered once, every request refused is let in again, nothing else is answered.

The simulator runs one handler at a time, so there are no data races. What is hard
is **re-entrancy**: a handler calls `resp()` or `retry()` on its master, and the
master calls back into the component before that call returns, with the handler's
state half updated. Add denials in the middle of a multi-part operation, clock
events that fire later than the state that armed them, answers out of order, and a
retry debt each component keeps by hand, and the usual failure is a lost wake-up
that only appears as a simulation that stops making progress.

### Components

| component (source) | state | operations | what makes it correct |
|---|---|---|---|
| Request FIFO (`fifo_v2.cpp`) | queue, busy and stalled flags, retry debt, pump event | `input_req`, `pump_handler`/`send_head`, `head_done`, `output_resp`, `output_retry`, `reset` | the queue is the outstanding requests; every buffered request has a mover; a refused master is owed a retry |
| Back-pressure router (`router/router_v2_backpressure.cpp`) | per input: one parked request, send event, deny bit per output; in-flight records | `req_muxed`, `forward`, `send_handler`, `resp_muxed`, `retry_muxed` | a granted request is in one place; a parked one has a mover; the address is translated for the output it goes to, once; answers go to the right input |
| Bandwidth router (`router/router_v2_bandwidth.cpp`) | per output a stall flag, per input a queue, two watermarks, a pool of `InFlight` objects | `req_muxed`, `forward_inline`, `drain_queue`, `retry_muxed`, `resp_muxed` | no request lost in a queue; a queue starts with an output that will retry; the pool survives re-entrancy; no more than the bandwidth promised |
| Bandwidth limiter (`limiter_v2.cpp`) | the request in emission, the denied chunk, pacing event and watermark, byte counter on the parent | `input_req`, `event_handler`, `finish_chunk`, `check_last_chunk`, `output_resp`, `output_retry`, `reset` | each byte accounted for; chunks in order; no lost wake-up |
| Width splitter (`splitter_v2.cpp`) | one parked chunk per output, aggregation state on the parent, retry debt | `input_req`, `issue`, `account`, `output_resp`, `output_retry`, `reset` | chunks tile the request; latency and error aggregated; no lost wake-up |
| Interleaved crossbar (`log_ico_v2.cpp`) | per bank: pending mask and round-robin pointer; election flag, FSM event | `input_req`, `fsm_handler`, `pick_winner`, `reset` | masks are the refusals; elections follow; fairness; no aliasing |
| Forwarders (`demux_v2`, `rw_splitter_v2`, `remapper_v2`, `testandset_v2`, `router/router_v2_untimed`) | the output that denied; the retry debt; the view or input a response goes back to; a store request of its own | `input_req`, `passthrough_req`, `set`, `output_resp`, `output_retry`, `reset`; `req_muxed`, `resp_muxed`, `retry_muxed` | right output, address unharmed by a refusal, answers and retries the way they came; a lock taken once |
| Clock-domain bridge (`utils/io_v2_clock_bridge.cpp`) | response queue, or four stage queues with deadlines; an event per stage; depth gate and retry debt | `in_req`, `out_resp`, `out_retry`, the stage drains, `reset` | nothing lost in the stages; each stage has an event in time; the gate re-opens from both drains |
| Cache (`cache/cache_v4.cpp`) | tag array, one refill in flight, queue of waiting requests, prefetcher, enable flag, FSM event | `input_req`, `handle_req`, `refill`, `refill_resp`, `refill_retry`, `fsm_handler`, `check_state`, `enable`, `flush`, `flush_line`, `reset` | no answer from another line's bytes; the refill finds the request it is for; tags true; nothing waits for nobody |
| Beat router; beat and width adapters | burst cursors, pools | per beat | bursts reassembled |
| Memories, CPUs, interrupt controllers, devices, debug tooling | see `PROJECT.json` | | |

They interact only through the protocol: whatever is upstream of a component is
"the master" of its module, whatever is downstream is "the slave".

## 2. The modules

| module | models | EXTENDS / INSTANCE |
|---|---|---|
| `IoV2` | the protocol's vocabulary | |
| `IoV2Port` | abstract specification of a slave port (`Safety`, `Progress`) | `IoV2` |
| `FifoV2` | `fifo_v2.cpp` | `IoV2`, refines `IoV2Port` |
| `FifoV2Proofs` | theorems about the FIFO | `FifoV2`, `TLAPS` |
| `RouterBackpressure` | `router_v2_backpressure.cpp` | `IoV2` |
| `RouterBackpressureProofs` | theorems about the back-pressure router | `RouterBackpressure`, `TLAPS` |
| `RouterBandwidth` | `router_v2_bandwidth.cpp` | `IoV2` |
| `LimiterV2` | `limiter_v2.cpp` | `IoV2`, refines `IoV2Port` |
| `LimiterV2Proofs` | theorems about the limiter | `LimiterV2`, `TLAPS` |
| `SplitterV2` | `splitter_v2.cpp` | `IoV2`, refines `IoV2Port` |
| `BandwidthSplitterProofs` | theorems about the bandwidth router and the splitter | `RouterBandwidth`, `SplitterV2`, `TLAPS` |
| `LogIcoV2` | `log_ico_v2.cpp` | `IoV2` |
| `LogIcoV2Proofs` | theorems about the crossbar | `LogIcoV2`, `TLAPS` |
| `Forwarders` | `demux_v2.cpp`, `rw_splitter_v2.cpp`, `remapper_v2.cpp`, `testandset_v2.cpp`, `router_v2_untimed.cpp` | `IoV2` |
| `ForwardersProofs` | theorems about the forwarders | `Forwarders`, `TLAPS` |
| `ClockBridge` | `io_v2_clock_bridge.cpp` | `IoV2`, refines `IoV2Port` |
| `ClockBridgeProofs` | theorems about the clock bridge | `ClockBridge`, `TLAPS` |
| `CacheV4` | `cache_v4.cpp` | `IoV2` |
| `CacheV4Proofs` | theorems about the cache | `CacheV4`, `TLAPS` |
| `MC*` | instances for TLC | the module they instantiate |
| `MCFifoSplitter`, `MCBandwidthCache`, `MCLimiterLogIco` | two instances in one run | the two `MC` modules |

Conventions shared by the component modules:

* **Atomicity.** A handler is one action up to its first `resp()` or `retry()`
  call. A control variable (`call` or `ctl`, or one of these with a prefix) then says
  which call it is inside, and until it has returned only the actions the callee can take
  are enabled: the re-issue the `retry()` asks for, fresh requests of a master, and the
  return. The lines after the call are an action of their own (`RespReturns`,
  `RetryReturns`, `HandlerTail`, `LoopEnds`, ...).
* **Downstream.** The status a slave answers is any of the three (the crossbar's
  banks are bound as `IoV2Sync`, so there it is `DONE`). A slave that denied a
  request owes a `retry()`; answers come in any order.
* **The master's view.** `up[r]` (`view[r]` in the splitter, with a prefix in the
  modules below) is `idle`, `granted` or
  `denied`; a response the master was not waiting for makes it `error`, which the
  invariants exclude.
* **Time.** `LimiterV2` and `LogIcoV2` keep the current cycle implicit: an event is
  `off`, due `next` cycle or `now`, and `Tick` moves on when nothing is due.
  `RouterBandwidth` keeps each watermark as its distance ahead of now, and
  `ClockBridge` counts the cycles left to each deadline and event; its two clocks
  tick independently, so every ratio and phase is covered. `CacheV4` keeps the one
  cycle that `fsm_event` and the pushed queue entries take. The FIFO and the
  back-pressure router let an enqueued event fire at any later moment; the router's
  delay is a free choice between zero and not zero, which is all its control flow
  looks at.
* **Data.** Payloads are dropped; a byte is its offset, an answer its latency and
  error flag (splitter) or the offsets it fills (limiter). A cache line's bytes are
  the line they were fetched for, `Torn` while a refill writes them, `Stray` when the
  refill of a request without a buffer has left them under the victim's old tag.
  Addresses are integers: a mapping that moves an address below zero is not considered.
* **Address maps.** The two routers that decode find a mapping as the mapping tree does:
  the window the address is in, or else a mapping of size 0, which takes everything from
  its base on.
* **Crashes.** `send_handler` of the back-pressure router dereferences what is parked
  without looking; with nothing parked the program is at its end (`SendHandlerEmpty`,
  then only `Halted`).
* **Response denials.** A master takes every response. `demux_v2.cpp:169` and
  `testandset_v2.cpp:156` pass on the `IoRespAck` of the call, but the masters that deny
  a response do so only to a slave with a `resp_retry` handler
  (`router_v2_beat.cpp:999`), and no modelled component has one.
* **State of the cache.** The fields of `class Cache` are one record, so that the
  calls a handler makes one after the other compose as functions of that record.
* **Several components, one module.** `Forwarders` picks one of five components in
  its initial state (`kind`), `ClockBridge` one of the configurations; neither ever
  changes.
* **Two components, one run.** Three of the runs hold two components that have nothing
  to do with each other; `running`, picked in the initial state, says which one moves, and
  the other stays as it was constructed. The states explored are the sum of the two state
  spaces and not their product. The fairness of both is assumed: of the one that stands
  still it says nothing, because none of the steps it is about can change its initial
  state. So that both can be extended by one module, `SplitterV2`, `CacheV4` and
  `LogIcoV2` put a prefix before the names they share with the others (`CacheSpec`,
  `CacheOnePlace`, `IcoTick`, `splitter_call`, ...).
* **Reset** resets the component and its surroundings at once. It leaves clock
  events enqueued, as the code does. The timed routers define no `reset()`, so they have
  no such action.
* Operators whose comment begins "Mutant:" are wrong versions of the definition
  that follows them. They are not used by the specifications; substituted for that
  definition, each makes TLC refute the property `PROJECT.json` pairs it with, which
  shows that the property depends on the code it is about.

## 3. What TLC checks

| run | what is checked | bounds, and what they let happen |
|---|---|---|
| `fifo_splitter`, the FIFO | types and depth, `QueueIsOutstanding`, `NoLostWakeup`, refinement of the port with its liveness (`ImplementsPort`) | 4 requests, depth 2: a full FIFO, a refused request and one more issued inside `resp()` |
| `fifo_splitter`, the splitter | `ChunksTileRequest`, `NoLostChunk`, `SplitterImplementsPort` | 2 requests, 2 outputs of 2 bytes; aligned, misaligned, empty and oversized accesses; fast invalid and slow valid answers |
| `router` | `OnePlace` (with the output each request is translated for), `ParkedHasMover`, `GrantedIsAnswered` | 2 inputs (2 + 1 requests), 2 outputs, one of them a catch-all, and an error mapping, an access that straddles; windows chosen so that a translated address decodes to the other output; a refused request is re-issued with its first address or with the one the refusal left in it |
| `bandwidth_cache`, the router | `OnePlace`, `FrontWaitsForRetry`, `BandwidthKept` | 2 inputs (2 + 1 requests), 2 interchangeable outputs (symmetry), one request of two cycles, watermarks at most `MaxAhead` = 2 ahead when a request is issued: a queue of two behind one output, and a beat answered while another is drained |
| `bandwidth_cache`, the cache | `CacheOnePlace`, `TagArraySound`, `RefillOwnsHead`, `NoLostWakeup` | 1 set of 2 ways, 2 requests for two lines, one of which may come without a data buffer, and a third line that is only prefetched; bypassed answers in beats; enable, disable, flush, line flush and reset at any time |
| `limiter_log_ico`, the limiter | types, with a `remaining_size` that stays within the request, `EveryByteAccounted`, `NoLostWakeup`, `ImplementsPort` | 3 requests of 3 bytes at 2 bytes per cycle: one awaiting answers, one in emission, one refused; a full and a partial chunk; beats of 1 and 2 bytes |
| `limiter_log_ico`, the crossbar | `RefusalsAreElected`, `BoundedWait`, `NoAliasing`, `DeniedIsServed` | 3 masters with one request each (a refused master issues no other, and banks answer inline, so a second object adds nothing), 2 banks, 2-byte granules; `MaxHits` = 2 bounds the fresh requests of a cycle |
| `forwarders` | `ForwardedFaithfully`, `EveryRequestEnds` | each of the five components with 3 requests, one on the second view of `testandset_v2` or the second input of the router; two outputs, one of them a catch-all of the router; windows chosen so that an address moved twice shows; responses in beats and a straddling access on the router. `Serial` and `InOrderMemory` are `TRUE`, which concerns `testandset_v2` only (below) |
| `clock_bridge` | `OnePlace`, `EventTracksHead`, `DepthGate`, `ImplementsPort` | the four bridges of `io_v2_clock_bridge.py`, 2 requests that round-trip and one write beat: depth 1 and 2 both fill up |

Every run also checks the type invariant of its modules. The safety invariants are
relations between what a component remembers and what its neighbours believe.
`NoLostWakeup`, `NoLostChunk`, `ParkedHasMover`, `FrontWaitsForRetry`,
`EventTracksHead` and the
election half of `RefusalsAreElected` are the state form of progress: whoever waits
has somebody left to move it. The liveness properties then check that the mover gets
there.

Six runs refute a statement of the repository's own documentation, comments or tests;
`PROJECT.json` quotes it with each:

* `router_lost_retry`: the router's `retry_muxed` frees an input's slot without
  telling a master the one-pending rule refused. Trace: a request is parked, its
  delayed send is denied, a second request is refused, the slave retries, the
  parked request goes out, and the second request waits for ever.
* `router_translated_twice`: the router translates an address in place and does not
  restore it on an inline `DENIED`. A master that re-sends the object as it stands (the
  limiter is one, `limiter_v2.cpp:267-268`) has it decoded and translated again. Trace: a
  request is denied by the output it is for, re-sent, and granted by the other one. The
  stub master of the tests sets the address anew before each send
  (`tests/interco/router_backpressure/stub_master.cpp:156-158`), and
  `remapper_v2.cpp:121-123` states the rule the router breaks.
* `limiter_two_per_cycle`: `output_retry` replays a denied chunk without moving the
  pacing watermark, so the event can emit another one in the same cycle, against "One
  chunk goes out per cycle." What does hold, two chunks a cycle, is proved
  (`LimiterPacing`).
* `cache_stale_after_flush`: `flush()` clears the tags and acknowledges at once,
  while a refill may be in flight; its answer, read before the flush, then makes the
  line valid again.
* `testandset_wrong_view`: `pending_itf` is one pointer for both views. When the
  memory defers, a request on the other view redirects the response to a port that
  did not ask for it.
* `testandset_lock_twice`: the store that takes the lock is a request of its own. When
  the memory defers, even one that works in order, two reads through the aliased view
  that are outstanding together both find the lock free.

The last two take a memory that defers, which a clock bridge on the binding makes of a
synchronous one. The passing run of the forwarders therefore has `Serial`, one access at
a time on `testandset_v2`; with it the lock is exclusive as a matter of course, so no
passing run and no theorem claims that.

Divergences met while modelling that have no run of their own; the models follow the
code in each of them:

* A deny bit of the back-pressure router is per input and output and not per request,
  although the comment at `router_v2_backpressure.cpp:539-540` takes a parked request with
  the bit for one whose delayed forward was denied. A request denied inline from inside
  the `resp()` of `send_handler`, and re-sent with the address the denial left in it, can
  decode to nothing and be answered while the bit stays. A new request parked for the same
  output is then forwarded by `retry_muxed` with its `send_event` still enqueued, and
  `send_handler` finds nothing parked (`SendHandlerEmpty`).
* `refill_resp` tags the refilled line only if the request that missed has a buffer
  (`cache_v4.cpp:319`; the synchronous path at 598 always does); otherwise the victim keeps
  its old tag over the new line's bytes, although the class documentation calls the data
  byte-accurate (`cache_v4.py:94-96`). These are the `Stray` bytes.
* The splitter fans out requests that cross the `input_width` window, which its
  documentation says it aborts (`splitter_v2.cpp:38-43`, code at 379).
* Requests issued from inside a crossbar election's `retry()` are forwarded inline, so
  a bank can serve two accesses in one cycle (`log_ico_v2.cpp:36-38`,
  `log_ico_v2.py:161`).
* The bridge's depth gate counts the entries of the four stages and not the requests
  the slave has granted, so more than `depth` transactions can be in flight, and the
  stages can hold more than `depth` entries once their responses come back, although
  `io_v2_clock_bridge.hpp:35-36` calls `depth` a cap. A `DENIED` met in the parametric
  mode is dropped (`io_v2_clock_bridge.cpp:405`, where a comment says so).
* The cache takes a refill's answer for granted: its status is not looked at.

### Fairness

Weak fairness of handler returns, of the re-issue inside `retry()` and of event
handlers: the simulator runs each handler to its end and the clock engine runs
every enqueued event. Strong fairness of slave answers and retries where other
handlers may run in between: a slave that granted or denied a request acts on it
eventually, though not at the first opportunity. Strong fairness of a replay that
is *not* denied: a slave does not refuse one request for ever. Both clocks of the
bridge tick for ever. Nothing is assumed of a master beyond the re-issue; it may stop
issuing at any time.

Two components promise no liveness, and none is checked of them. The bandwidth router
drains its inputs in index order, so an input that is refilled can hold off a later one.
In the cache a fresh request that arrives between a refill's answer and `fsm_event` is
served ahead of the queue, so a queued request can be overtaken without bound.

## 4. What is proved

A component's theorems are in the module named after it with `Proofs`; the bandwidth
router and the splitter share one, `BandwidthSplitterProofs`, which extends both models.
No proof of one uses anything of the other. The theorems hold for every value of the
constants that satisfies the assumption named in the component's module. Each component
has one inductive invariant, `IInv` (`SplitterInv` for the splitter), which implies
everything proved about it: `Init => IInv`, one lemma per action that `IInv` is kept, and
`IInv` implies the stated property. TLC checked every one of them as an invariant of the
component's run before it was proved.

| component | theorems | assumptions beyond the types of the constants |
|---|---|---|
| FIFO | `TypeCorrect`, `OutstandingTheorem` (`QueueIsOutstanding`), `WakeupTheorem` (`NoLostWakeup`), `Refinement` (`Port!Safety`) | `Depth > 0` |
| splitter | `SplitterTypeCorrect`, `TilingTheorem` (`ChunksTileRequest`), `SplitterWakeup` (`NoLostChunk`), `SplitterPortSafety` (`SplitterPort!Safety`), `CursorIsLoop` | the output width divides the input width and is a power of two (the proofs use only the first); `None` is not a chunk |
| back-pressure router | `RouterTypeCorrect`, `RouterOnePlace`, `RouterParkedHasMover` | none |
| bandwidth router | `BandwidthTypeCorrect`, `BandwidthOnePlace`, `FrontTheorem` (`FrontWaitsForRetry`), `BandwidthTheorem` (`BandwidthKept`) | finitely many requests |
| limiter | `LimiterTypeCorrect`, `LimiterPacing`, `EveryByteTheorem` (`EveryByteAccounted`), `LimiterWakeupTheorem` (`NoLostWakeup`), `LimiterImplementsPort` (`Port!Safety`) | `None` is neither a request nor a chunk |
| crossbar | `CrossbarTypeCorrect`, `RefusalsTheorem` (`RefusalsAreElected`), `BoundedWaitTheorem`, `NoAliasingTheorem` | a power of two of banks |
| forwarders | `ForwardersTypeCorrect`, `ForwardedTheorem` (`ForwardedFaithfully`) | hypothesis `OneAtATime` |
| clock bridge | `BridgeTypeCorrect`, `BridgeOnePlaceTheorem` (`OnePlace`), `EventTheorem` (`EventTracksHead`), `DepthGateTheorem` | depth at least 1 |
| cache | `CacheTypeCorrect`, `CacheRequestsInOnePlace` (`CacheOnePlace`), `TagArrayTheorem`, `RefillOwnsHeadTheorem`, `CacheWakeupTheorem` (`NoLostWakeup`) | at least one way |

The hypothesis `OneAtATime` says `Serial` where `testandset_v2` is among the components:
its masters have one access at a time, because otherwise the answer may go to the wrong
view (section 3). The memory may be any, in order or not, and may deny the follow-up
store. Nothing is assumed for the other four forwarders. The theorems about the router
hold for masters that re-issue a refused request with either address, and with deny bits
left behind by such a re-issue.

What the strengthenings are for:

* **FIFO.** `FlagsMatchSlave` and `RetryDebt`. A response pops the head, which is right
  only when a head is outstanding. A debt implies a non-empty queue or a running
  `head_done`; that survives the return of `retry()` only because a debt made inside the
  call was made by a full FIFO. `StepSimulation` maps each step to a step of `IoV2Port`.
* **Splitter.** `ReqState` is the life of one parent: while it is granted its chunks are
  parked, held by a slave or answered, in one of these only, and together they are
  `ChunksOf` its access; `remaining_size` is the size of those not answered and `Agg` the
  aggregate of the answers; once it is back all of them are answered. The tiling then
  holds by arithmetic alone: the bytes of chunk *i* are those of the request that lie in
  the *i*-th line from its start (`ChunkBytes`), so no byte is in two chunks or in none
  (`ChunksTile`). `Cursor` is written in closed form; `CursorIsLoop` proves that it is what
  the loop of `issue` computes turn by turn. `SizeOf` counts pairs of a chunk and one of
  its bytes, which is the sum of the sizes, and adds up by the union of finite sets
  (`SizeAdds`, `SizeOfAll`); that `Max` of the answers exists is shown by a least
  counterexample (`MaxExists`). `StuckInPlace` keeps a parked chunk at its own output, and
  `RetryDebt` ties the debt to the one refused parent. `SplitterSimulation` maps each step
  to a step of `IoV2Port`.
* **Back-pressure router.** `ParkedOnOwnInput` and `CtlShape` keep the inputs apart and
  the handler in a state of its code. `TurnIsOver`: what is parked for the retried output
  while `retry_muxed` is inside a call on that input is newer than the turn and has its
  `send_event`, so the loop may pass on. Nothing is claimed of the requests the deny bits
  stand for (section 3): a parked request without a `send_event` has the bit of
  its own output, and a bit too many takes nobody's mover away.
* **Bandwidth router.** `HeldComesBack`: the `InFlight` object `resp_muxed` holds across
  the `resp()` of a beat that is not the last one still belongs to the request it puts it
  back for. That the pool never runs out (`FreeInFlight`) is
  a counting argument: each object in use stands for a different request.
* **Limiter.** `EveryByteAccounted` says that the answered bytes, the bytes in emission
  and the chunks of a request partition it, and that the counter on the parent is the
  number of bytes that are not answered; no sum is taken, so cutting a chunk, finishing
  one and answering a beat are lemmas about sets and cardinalities (`CutTiles`,
  `InlineTiles`, `BeatTiles`, `AnsweredCount`). `NothingStale`, `Pace`, `OneDenied` and
  `Movers` relate the pacing event, the parked chunk and the handler that is running;
  `Pace` counts the chunks of a cycle against them, which gives `LimiterPacing`.
  `LimiterImplementsPort` maps each step to a step of `IoV2Port`.
* **Crossbar.** `MasksAreRefusals` and `ElectionComing` are the two halves of
  `RefusalsAreElected`; `LoopRemembers` says the election loop knows of every bank it left
  with inputs waiting, which is what re-arms the FSM event. `RoundNotOver` is the variant
  behind `BoundedWait`: the elections an input has lost and the inputs the rotor comes to
  before it make less than a full round. `HitsDecoded` and the uniqueness of quotient and
  remainder give `NoAliasing`.
* **Forwarders.** `Owed` speaks of every state: a refused request is owed a `retry()` by
  the output it selects, and the latch will pass it on, unless the `retry()` is under way
  to it (`Awaits`, which knows the order in which the untimed router calls its inputs).
  `ForwardedFaithfully` says it between handlers only. `Ways` says the remembered port is
  the request's own, and `Stores` where the store of `set()` can be.
* **Clock bridge.** `Spaced` bounds the deadline of an entry by any entry ahead of it and
  not by its place in the queue, so it survives the removal of those in front; together
  with `Tracked` it is `EventTracksHead`. The bound is one cycle per entry beyond K or
  beyond the next cycle, whichever is later: a stage of 0 cycles whose handler is late by
  one cycle exceeds K by one. `Noted` and `Gate` speak of every state: a refused request
  is noted unless its `retry()` is under way, and a note has the full bridge,
  `retry_event` or the rest of the response drain behind it. `enqueue_in` for a burst is
  written in closed form (`FirstSlot`), so that no induction over the burst is needed.
* **Cache.** `TagArraySound`, `RefillOwnsHead`, `NoLostWakeup` and `CacheOnePlace` hold each
  other up: the answer of a refill installs a tag for the line of the head request, which
  must still be the one the refill was sent for after any number of flushes and
  enable/disable pairs. The lemmas are about the calls a handler makes, as functions of
  the record of fields. `FlightTag`, `OneDenied` and `DeniedNoted` (a refused request is
  noted, except inside the `retry()` that clears the note) complete them. `Stray` bytes
  are allowed under a tag only if there are requests without a buffer (`OwnBytes`); with
  none, `TagArrayTheorem` is the whole promise.

Stays with TLC:

* every liveness property, and so the `Progress` part of `ImplementsPort` and
  `SplitterImplementsPort`: liveness under
  fairness is outside the prover's reach;
* the refinement of `IoV2Port` by the clock bridge. The port gives requests back one at a
  time, while `fwd_dst_done_handler` may free several write beats in one turn, which is one
  action of the model: the refinement holds for the one write beat of the run, and a
  theorem for any number needs an abstract port that answers several requests in a step.

## 5. What is not modelled, and why

* Traces, statistics, VCD and GUI signals, and the backdoor debug accesses of the
  modelled components: they do not feed back into the protocol.
* The cycle counts of the back-pressure router's watermarks, of the FIFO's latency and
  of the cache's latency annotations.
* Response status and payload in the limiter; the payload everywhere else.
* An empty request on the limiter, a reset around a router, a crossbar with a number of
  banks that is not a power of two and a slave that denies a bridge in parametric mode
  (hazards or assumptions). The denial of the store of `testandset_v2` is modelled
  (`InOrderMemory = FALSE`) and covered by the theorems, but not by the passing run.
* The components with status `not_modelled` in `PROJECT.json`: CPUs (generated
  decoders, instruction semantics), memories and devices (payload and host I/O),
  vendored numerics and trace writers, the superseded v1 interconnect and caches. They
  are most of the repository's lines; what they compute is data, while the control that
  decides whether an access arrives is in the components modelled here.

## 6. Plan

1. *Done:* protocol vocabulary and abstract port; FIFO with its proofs; both timed
   routers; limiter; splitter; crossbar; forwarders with the untimed router; clock
   bridge; cache.
2. *Done:* the theorems of section 4.
3. Theorems left: the safety refinement of the clock bridge, against a port that may
   answer several requests in one step, and of the components that have several inputs
   against one port each.
4. Further modelling: the beat router and the beat adapters; a composition of the
   limiter upstream of the back-pressure router, in which the second translation of
   `router_translated_twice` arises from the two components alone; the interrupt
   controllers.
