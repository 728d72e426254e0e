# Calinix in TLA+

A verification development for Calinix, the cache-aware gateway in front of LLM
inference pods (`src/calinix`).  TLA+ modules model its core, TLC checks them on
small instances, TLAPS proves the safety properties for every instance.  Paths
below are relative to `src/calinix`.

## 1. Inventory

| Part | State | Operations | Hard behaviour |
| --- | --- | --- | --- |
| Sharded block index (`cache_registry/sharded_index.rs`, `host_bitmap.rs`) | one `RwLock<HashMap>` per shard, the alive bitmap in another lock, atomic `pod_count` | register(_chain), evict(_chain), mark_alive, shutdown, the cleanups, clear, owners_alive, block_owners, total_entries | operations over several locks interleave; a compare-exchange loop; ids beyond the bitmap |
| Registry facade (`cache_registry/mod.rs`, `events.rs`, `cleanup.rs`, `snapshot.rs`) | the index | wrappers, event dispatch, reports | as above |
| Prefix query (`cache_registry/prefix_query.rs`) | a stack of frames | longest prefix per candidate, best match | reads the index probe by probe; correct only for chains without holes; inline stack that spills |
| Hashing (`block_hash.rs`, `cumulative_hash.rs`, `fibonacci.rs`) | none | hash chain of a prompt, shard of a hash | 64-bit arithmetic |
| Health poller (`upstream/health.rs`) | per pod two `u8` counters and `marked_alive` | a round of checks, results | timeouts, lost checks, saturation, other writers of the bitmap |
| Load state (`upstream/load.rs`) | in-flight count per pod | can_accept, score, track, guard drop | cancelled futures; check and act apart |
| Configuration (`config/`) | none | load, parse, validate | what passes must not stop the start later, or serve with a broken catalog |
| Catalog (`upstream/pod.rs`, `pool.rs`, `roles.rs`) | pods, names, three bitmaps; fixed after start | built from three lists in turn; lookup by id and by name | duplicate ids, id width, ids of events that nobody configured |
| Routing pipeline (`routing/`) | the counter of request ids | prepare, filter, score, pick, plan | decisions on state that changes meanwhile |
| Request handling (`app/bootstrap.rs`, `app/state.rs`) | shared handles | start, routes, proxy endpoint, register, evict and shutdown events | handlers run concurrently with each other and with the poller |
| Protocol (`protocol/openai.rs`, `routing_headers.rs`) | none | prompt of a body, headers of a plan | bodies of four kinds that may be refused; clients and pods that send the gateway's own headers |
| Forwarder (`proxy/forward.rs`) | none | one attempt with a timeout; its headers | the answer may come after the pod is gone |
| Session store (`session/store.rs`) | session -> pod | previous_pod, remember | bound in a step of its own |
| `control_plane`, `event_ingest`, `runtime` | | | empty files at this commit |

A request is routed (prepare, filter, query, score, pick), forwarded to one pod
under an in-flight guard, and accounted for on success: the pod is marked alive,
the prompt's chain of cumulative hashes is registered for it block by block, and
the session is bound to it.  Pods report cached and evicted blocks and their own
shutdown through event endpoints.  The poller moves pods in and out of the alive
bitmap.  All of them meet in the registry, the load state and the session store.

What makes the parts correct: the index is a relation between pods and blocks,
whatever the interleaving; reads over several locks contain what was there all
the time and nothing that never was; the poller neither misses a threshold nor
flips early; in-flight counts come back down exactly once; a pod's blocks are a
prefix of every prompt, because the query is a binary search; requests end; pods
that answer are routed to and pods that do not are not; the catalog is what the
configuration says and no plan leaves it, whatever ids events carry; what the
headers tell a pod and a client is what was decided; a reported prefix is one the
pod was said to hold.  The hazards in
`PROJECT.json` name the lines where each of these could go wrong.

## 2. Modules

| Module | Models | State and actions |
| --- | --- | --- |
| `Ownership` | what the registry promises | the set `owned` of (pod, block) pairs and the set `alive`; Register, Evict, Cleanup, MarkAlive, Shutdown |
| `ShardedIndex` | `ShardedBlockIndexer` and `HostBitmap` | `shards`, `alive`, `podCount` and, per thread, the locals of its call.  One step is what a thread does under one lock, or one access to the atomic.  `LoadCount`, `CasOk`, `CasErr` are `observe_pod`; `RegisterBlock`, `SetAlive`, `EvictBlock`, `SweepShard`, `ScanShard`, `ReadOwners`, `MaskAlive` are the bodies under a lock |
| `HealthPoller` | `start_health_poller`, `observe`, `apply_health_result` | counters, flag, stage of each check; `Tick`, `Answer`, `ApplyHealthy`, `ApplyUnhealthy`, and the faults `Flip`, `SlowAnswer`, `CheckLost` |
| `PrefixDepth` | what the prefix query computes for one pod at one moment | none; a binary search as a recursive function of the frame |
| `Routing` | filter, query, score and pick as operators | none; the catalog as constants |
| `Gateway` | handlers, forwarder, load state, sessions, poller | composes `Ownership`, `HealthPoller` and `Routing`; one action per step of a request or event |
| `Startup` | `load_config`, `validate_config`, `from_config`, `router`, `run` | the configuration file, how far the start has come, the tables of the catalog; `LoadFails`, `ValidateConfig`, `PushPod` (one round of `push_pods`), `NewAppState`, `Router`, `Bind` |
| `Prompt` | `extract_openai_routing_view`, the chain of a prompt by tokens and by blocks, the Fibonacci shard | none; operators, the loops as recursive functions of how far they have come |
| `Exchange` | a started gateway from the client's request to its answer, with headers, ids and prompts, and events with any pod id | extends `Startup`, `Prompt`, `PrefixDepth`; alive bits, owners, the id counter and, per request, plan, headers sent and headers answered; `Prepare`, `Route`, `Send`, `Respond`, their error paths, the three events, `Poll`; the history `taught` is what each pod was said to hold: the prompt that was hashed, its model, and the prompt as it was sent |
| `PrefixQuery` | `longest_prefix_lengths_into` and `best_prefix_match_for_candidates` | the registry as `Ownership`, the locals of one query and two histories: the pairs owned ever since it began (`held`) and at some time since (`met`).  `Begin`, one action per way through the loop (`SettleLengths`, `ProbeLengths`, `SkipBest`, `SettleBest`, `ProbeBest`, `FindFull`), `Finish`, `Return`; `Change` is any other thread |
| `SearchStack` | the stack of frames | inline slots, `len`, the heap; `PushInline`, `SpillToHeap`, `PushHeap`, `PopInline`, `PopHeap`; the history `order` is the sequence it should be |
| `MCShardedIndex`, `MCHealthPoller`, `MCGateway`, `MCPrefixQuery`, `MCSearchStack`, `MCExchange` | instances for TLC | |
| `ChainProofs` | theorems about `PrefixDepth` and `Prompt` | none; the three modules of theorems below that need them extend it |
| `ShardedIndexProofs`, `ShardedIndexRefinement`, `HealthPollerProofs`, `SearchStackProofs`; `PrefixQueryProofs`, `GatewayProofs`, `ExchangeProofs` | theorems | |

Abstractions.  A bitmap is a set of ids below `MaxPods`; `BitSet` ignores other
ids, as the code does.  Hashes are model values and the shard of a hash is a
constant function.  `register` is `register_chain` of one block.  `clear` and the
two cleanups are one sweep that keeps the owners in a mask ({}, all but one pod,
the alive bitmap as copied before the first shard).  `total_entries` and
`shard_entry_counts` count what a scan collects.  A locked map is written by one
step because no call holds two locks.  Relaxed atomics are read and written one
at a time, which is exact for the single location `pod_count`.

In `HealthPoller` the result of a round is applied with its write of the bitmap
in one step: between the two only the poller's own memory has changed.  The
variables `okRun`, `badRun` and `ours` are history; no guard reads them.

In `Gateway` a filter and a pick each read one moment.  The code reads count
after count and probe after probe; what the probes may see is the subject of
`PrefixQuery`, which is not composed into the gateway.  Scores are exact fractions instead of `f64`.  Event
pods are configured pods, although `resolve_event_pod_id` passes any number on;
ids of no pod are the subject of `Exchange`, and what they leave in the shards of
`ShardedIndex`.  A request that fails, gets
another status, times out or loses its client is the one action `Fail`: the code
learns nothing from any of them.  `Refuse` also ends a routed request whose body
is above the limit of the handler's `Bytes` extractor; the middleware before it
reads and routes a body of any size.

`Exchange` and `Gateway` look at the same requests.  `Gateway` has their steps one
by one and any mode, chain and session as the result of `Prepare`.  `Exchange` has
what is inside requests and answers, routes and accounts in one step each, and
picks any candidate, so that in-flight counts, scores and sessions need not be
kept: what it shows holds for every pick.  Headers are a sequence of values per
name, as in a `HeaderMap`; one name stands for all headers of a client that mean
nothing to the gateway.  Values, tokens, models and addresses are members of small
sets: whether an address is a `http://` URL, whether a string can be borrowed from
the body (no escape in it), whether a model is a valid header value are attributes
of them.  FNV-1a is taken to be free of collisions, so a cumulative hash is the
sequence of the blocks below it.  Of the wildcards in a health endpoint `Startup`
keeps what axum's router (0.7, `matchit` 0.7) tells apart: none, one that competes
with `/*path` in the first segment, one further on, one that cannot be parsed; the
router itself is not modelled.  The id counter does not wrap (2^64 requests).

`PrefixQuery` reads the owners of a block in the step that probes it: that is one
lock of `ShardedIndex`, whose refinement of `Ownership` justifies an atomic read.
The alive bitmap is copied by `Begin`.  Both queries write to a result with room
for every candidate, which the callers see to.  The constant `Holes` says whether
other threads may leave a pod with a later block of a chain but not an earlier
one; without register and evict events they do not (`Gateway!PrefixClosed`).

Mutants (definitions whose comment begins with
"Mutant") are plausible slips in the code that a property must notice.

## 3. Runs

| Run | Instance | Shows |
| --- | --- | --- |
| `index` | 2 threads, 2 blocks in 2 shards, initial count 1, ids {1,2,3} and 3 bits, so that 3 does not fit; 3 calls; fairness | `PodCountCovers`, `SweepComplete`, `ScanRegular`, `OwnersAliveRegular`, `EmptyByMisfitOnly`, `ImplementsOwnership`, `CallsReturn` |
| `health` | 2 pods, thresholds 2 and 3, counters that saturate at 3, 3 faults; fairness | `ThresholdNotMissed`, `FlipNeedsFullRun`, `FlagIsBitUnlessOverwritten`, `PollerConverges` |
| `gateway` | 2 prefill pods with 2 and 1 connections and a decode pod, all with the capabilities of every role, 2 disaggregated requests, prompts `<<a>>` and `<<a, b>>`, 1 session, 1 shutdown event | `InflightExact`, `PrefixClosed`, `StickyAfterBlocks`; its `TypeOK` says that a plan has its pods, each of the right group |
| `gateway_live` | a prefill and a decode pod, 1 disaggregated request, 1 register or evict event, 1 fault; fairness | `RequestsEnd`, `RunningPodsRouted` |
| `serve` | 27 configurations: two that serve and one for each way not to; 2 requests out of 12 inputs, 2 answers, 1 event out of 6 ways to name a pod, blocks of 2 tokens | `CatalogSound`, `RoutedInCatalog`, `RoutingHeadersTrue`, `RequestIdsDistinct`, `HitIsLearned`, `ChainIsBatch` |
| `gateway_dead_pod` | 1 pod, 1 request, 1 fault; fairness | `DeadPodsLeave` is violated |
| `gateway_capacity` | 1 pod with 1 connection, 2 requests | `WithinCapacity` is violated |
| `gateway_decode` | a prefill pod with 2 connections and a decode pod, both with every capability, 2 disaggregated requests | `DecodePickInformed` is violated |
| `serve_reuse` | as `serve`, 2 chats that differ in their model and in a message with an escape, no events | `HitIsReusable` is violated |
| `query` | 2 pods, chains of 0, 1 and 3 blocks, any hole-free registry to begin with and any number of changes; fairness | `FramesApart`, `DepthNotShort`, `WholePrefix`, `BestRegular`, `QuietExact` (for queries that meet no change), `StackShallow`, `QueryReturns` |
| `query_holes` | as `query`, but only evictions, of any block | `WholePrefix` is violated |
| `search_stack` | 2 inline slots, 3 frames, height 4 | `ReadsInitialized`, `LastInFirstOut` |

Bounds.  `MaxCalls`, `MaxEvents` and `MaxFaults` bound how many calls, events and
faults a behaviour has; `RunCap` is where the history of results stops counting
(one above the saturation, so that a saturated counter and its history differ).
Three calls of two threads suffice for two writers and a reader or sweep, which
spans one of them or meets its registration between two shards.  Ids above the
initial count make the compare-exchange lose races.  Saturating at the larger
threshold is the boundary case of a threshold of 255.  Two requests are the least
that can overlap in routing and forwarding; the shared first block makes their
chains overlap in the index.  A chain of three blocks takes two probes, so that
changes fall before, between and after them; the two pods part at the first probe,
so that both frames of a split are on the stack (how high a stack of more pods
grows is for `StackShallowHolds`).  The changes themselves are not bounded.  Two slots and a height of four
put two frames into the heap after the spill, and pops take the stack back to
empty and up again (`MaxHeight`).  In `serve` the second request may meet the
blocks and the alive bits that the first one, or the event, has left; the prompts
share a first block, end in partial ones, and contain one another's tokens at
other places; `MaxPods` leaves ids that no pod has and an id beyond the bitmap;
`MaxNanos` lets the clock stand still, run and go back.  The proofs below do not depend on any of this.

Symmetry is used in the safety runs only, over requests, which no definition tells
apart.  Deadlock is not checked for the index, where the bound
on calls ends a behaviour, nor in `serve`, where a start that failed has stopped;
everywhere else the poller keeps ticking.

Fairness.  A thread inside a call keeps running (weak), and a compare-exchange
that could succeed again and again does not fail spuriously for ever (strong): the
weak form of the instruction promises no less on real hardware, and at most
`MaxCalls` others can interfere.  The interval ticks, a check ends by its timeout
and is joined (weak, `Tick` and `Poll`).  Routing and accounting never await, and
a request upstream is ended by the forwarder's timeout at the latest (weak,
`Fail`, which needs nothing from the pod).  A query
never waits (weak, `Search`), and other threads may change the registry between
any two of its steps.  Nothing is assumed of pods, of
success, of events or of clients.

Findings.  `gateway_dead_pod`: a response that is accounted after its pod died and
was taken out by the poller marks the pod alive again
(`app/bootstrap.rs:267`); the poller's own flag is down already, so it never
writes the bit again, and the pod is routed to until it comes back and fails
again.  `examples/benchMarkList.md:182` asks for "No routing to dead pods after
shutdown detection".  `gateway_capacity`: `can_accept` looks at the count during
routing and `track` raises it when forwarding begins, so concurrent requests exceed
`max_conns`; `tests/routing.rs:234` tests the filter with a fixed count only.
`query_holes`: an evict event takes single blocks out; the search probes a later
block first and takes the pod to own everything before it, so it reports a depth
whose first blocks the pod does not have.  `README.md:103` of the repository says
"so a match means the pod can reuse that whole prefix".

`gateway_decode`: the two terms that should steer a decode pick never do.
`push_pods` puts a pod into one group, so the prefill pod is no decode candidate
whatever its capabilities, and the locality score (`routing/score.rs:178`) is
always 0; `README.md:84` of the repository says "Co-locates disaggregated decoders
with the selected prefill node".  `forward_once` tracks the pod it sends to, the
prefill pod (`proxy/forward.rs:114`); the count of a decode pod stays 0, so its
capacity check always passes and its load score is always the best; `README.md:82`
scores by "Available connection capacity based on current inflight load." and
`examples/benchMarkList.md:144` says "Decode should go where generation load is
healthy".  The trace shows both at one pick, and `DecodeBlindHolds` proves for every
catalog that neither is an accident of the instance.

`serve_reuse`: a chat message that serde cannot borrow, because it has an escape in
it or is a list of parts, is left out of the prompt that is hashed
(`protocol/openai.rs:76`) and sent to the pod all the same; the model is in the
namespace header and in no key of the index (`routing/prepare.rs:87`).  So a match
means neither that the prompts begin alike nor that they are for one model; the
trace shows both.  `README.md:103` says "so a match means the pod can reuse that
whole prefix", `README.md:122` that it "guarantees that the *entire prefix* of 4
tokens matches exactly", and `examples/benchMarkList.md:132` asks for "Cache isolated
by model and version".  `tests/protocol.rs` expects the list of parts to be skipped
"for now" and does not speak of escapes.  For the prompts that are hashed the
property holds (`HitIsLearned`).

What the model makes visible and no document of the repository speaks of: health
endpoints that pass validation and panic in `router` (`RouteClash`; `health` without
its slash, `/registry`, a wildcard in the first segment, a malformed path); a
completion with an escape in it is refused; of a client's header with several
values the pod gets the last, since `build_request` copies with `insert`
(`proxy/forward.rs:218`; only the name of a test, `tests/protocol.rs:13`, speaks of
preserving user headers); routing headers that a pod answers stay in the answer
before the gateway's.

The converse drift, a pod that keeps answering but sent a shutdown event and is
not brought back until it fails once, is why `RunningPodsRouted` is checked without
shutdown events.

## 4. Proofs

Assumptions are the ones the modules state (`IndexAssumption`, `HealthAssumption`,
`CatalogAssumption`, `ThresholdAssumption`, `GatewayAssumption`, `QueryAssumption`,
`StackAssumption`, `StartupAssumption`, `ExchangeAssumption`): shapes of the
constants, thresholds between 1 and `u8::MAX` (the poller takes `max(1)`), a
finite set of requests.  No theorem bounds threads, shards, pods, prompts or calls.

*Index.*  `IndexInv` is `IndexTypeOK`, `HomeShard` (a hash is only in its shard),
`LocalsOK` (what a thread knows at each step; part of `TypeOK`) and `Covered`.  `PodCountCovers` is
not inductive alone: between `observe_pod` and the write under the lock the pod of
the call is in no bitmap, so `LocalsOK` says that past `observe_pod` the count
covers it, and that at the compare-exchange the new value is above the expected
one, so the count never falls.  `SweepHolds`, `ScanHolds` and `OwnersAliveHolds`
add an invariant of the shards passed so far (`SweepComplete` itself, `ScanInv`,
`OwnersInv`) over the history of what was owned throughout and at some time;
`HomeShard` is what keeps a later shard from adding to a hash already passed.
`EmptyByMisfitHolds` is for ids of any value: an entry without owners comes about
by registering an id that does not fit the bitmap and in no other way, cleanups
and evictions included.  `NoEmptyEntryHolds` follows for ids below `MAX_PODS`;
without that it is false.
`Refinement` maps the union of the shards to `owned` and shows each step to be a
step of `Ownership` or a stutter, an id that does not fit included.

*Poller.*  `Inv` adds that each counter is the history saturated at `U8Max`.  The
lemma `SaturatingCounts` says that saturating loses nothing a threshold of at most
`U8Max` can tell; with it `ThresholdsHold` and `FlipsHold` follow result by result.

*Searches and chains.*  `ChainProofs` is about the recursive definitions, for
inputs of any length.  Both kinds of argument it needs come from one fact, that a
non-empty set of numbers has a least member (`LeastNat`): induction
(`InductionOnNat`, over a set of numbers, since the library's principle over an
operator cannot be instantiated), and that a recursive definition defines
something, without which a `CHOOSE` says nothing (`RecursionOnNat` from values and
steps; `SearchExists` for the search, by induction on the width of a frame).
`DepthIsABoundary`: the search of `PrefixDepth` ends at a depth whose block the pod
owns and whose next block it does not, whatever the holes; `DepthIsLongestPrefix`:
without holes that is the longest prefix.  `LoopIsAt` is the invariant of the
streaming loop: after n tokens the hashes of the full blocks are out, and the block
that was begun has the tokens since.  From it `StreamingIsBatch`.  `SameHash` says
that a hash determines the prompt up to its block, at whatever places of two chains
it occurs, and `ChainsAreCumulative` that it determines the hash before it; both
rest on FNV-1a having no collisions, which is the abstraction of `Prompt`.

*Gateway.*  `GatewayInv` is types, pods for every routed task, and `InflightExact`:
a request joins the set of requests upstream exactly when it is tracked and leaves
it exactly when its guard drops, and the saturating decrement is applied to counts
above 0 only.  `TypeHolds` also needs `GroupsOK`, below, for the groups of a plan's
pods.  `PrefixClosedHolds` and `StickyHolds` add `ChainsOK` (a
registering request's pod owns what it has registered) and assume that pods send
no register or evict events; the first also assumes `Cumulative`, that a hash
determines the one before it.  `PromptsAreCumulative` shows that it is true of
chains made by the streaming hash.  `DepthExactHolds` puts `PrefixClosed` and
`DepthIsLongestPrefix` together: what a pick scores is the longest prefix that the
pod owns at that moment.  With such events all three are false of the code: an
evict event may punch a hole into a chain.

*Prefix query.*  None of the results is inductive: they speak of the end of a
search.  `QueryInv` says what a frame means while the search runs: the block at
its lower bound is in `met` for each of its pods, the block after its upper bound
is not in `held`, frames share neither pods nor depths, and every live pod is in a
frame or already has an answer of that kind (`Answered`, `Beaten`).  A change by
another thread only shrinks `held` and grows `met`, which is why the invariant
survives it.  `SplitGood` is the heart: a probe splits the popped frame into two
good ones and keeps its pods.  `FindFullStep` needs that frames are apart in their
depths: the frame that reaches the last block is the only one that can, so the
lowest of its owners is the lowest of all.  `DepthNotShortHolds` and
`BestRegularHolds` hold with holes too; `WholePrefixHolds` is for `~Holes`, where
`met` is closed under earlier blocks.  `QuietExactHolds` adds `QuietInv`: as long as
`held` and `met` are the same, the search from a frame on (`DepthFrom`) gives each
of its pods the depth that the search from the whole chain gives; a probe keeps
this because it takes the step that the recursive definition takes.
`StackShallowHolds` adds that a frame is at most half as wide as the one it was
split from (`ProbeHalves`), and that the frame on top may be as wide as the one
below it but not wider; `Pow2` is a recursive function so that `Pow2Def` can be
proved of it.

*Search stack.*  `StackInv` says that the slots in use, or the heap after the
spill, are the frames pushed and not popped.  Reads of written slots only and last
in, first out follow from it.

*Decode picks.*  `DecodeBlindHolds` adds `GroupsOK`: the pods of a plan, and the
candidates at each step, are of the group of their role.  Groups are apart, and by
`InflightExact` a pod with a count above 0 is the primary pod of a request, so of
another group than `decode`.

*Exchange.*  `CatalogHolds` is the invariant of the start: after n rounds of
`push_pods` the tables are those of the first n configured pods, and past
validation the configured pods are distinct and fit the bitmap.  `CatalogSound` is
what that says when all rounds are done.  `TasksHold` carries, for each request,
what its step knows of its plan: the pods are candidates of a sound catalog, the
headers sent are `BuildRequest` of the plan, a generated id has a counter value
below the counter and no two the same.  `RoutedHolds`, `RequestIdsHold` and
`RoutingHeadersHold` follow from it, for any configurations,
inputs, answers and event ids.  `TypesHold` types what the start leaves behind in
every phase (an error drops the registry half built), the cache and the requests;
it needs `CatalogInv`, for ids that fit the bitmap, and `DepthIsABoundary`, for a
depth that is a number.  `TypeHolds` and `ChainHolds` follow.  `HitIsLearned` is
about plans, so it is not inductive: `LearnedInv` adds `OwnedLearned`, that every
hash the index has for a pod is one of the chain of a prompt the pod was said to
hold.  Answers add a whole chain, register events its last hash, evict events take
hashes away.  When a plan is made, `DepthIsABoundary` gives a block that is owned,
`OwnedLearned` a prompt that was taught, and `SameHash` their common tokens.
`ShardInRange` bounds the multiply-and-shift of
`shard_for_fibonacci_with_count`, which `IndexAssumption` takes for granted.

Only model-checked: everything about progress (`CallsReturn`, `PollerConverges`,
`RequestsEnd`, `RunningPodsRouted`, `QueryReturns`), since liveness under fairness
is beyond the prover; and the five violations.  Every other property of a passing
run is a theorem.

## 5. Not modelled

Joining the paths of URLs, logging, the debug and health endpoints (they read),
reports and snapshots, the `stream` flag (never used), the fields `enabled`,
`stale_ttl_ms` and `version` of the configuration (never read), the prototype in
`src/base` and its benchmarks (not part of the gateway), `config/type.rs` (not
compiled), and the empty modules.  The values of FNV-1a are out of TLC's reach and
no property is about them.  `PickStage`, `AliveSet` and `shard_for_low_bits` are not
called by the gateway; neither is `best_prefix_match`, which is modelled.  The
debug variant of the query (the same search with counters) is left out.  A poisoned lock panics every later
caller and is not modelled: no code panics while it holds one.  What a pod really
has in its cache is outside the repository: that the index still lists the blocks
of a pod that restarted empty is a hazard without a property.

## 6. Plan

1. `Ownership`, `ShardedIndex`, its runs and its proofs.  Done.
2. `HealthPoller`, its run and proofs.  Done.
3. `Routing` and `Gateway`, runs and proofs.  Done, with coarse picks.
4. `PrefixQuery` and `SearchStack`, runs and proofs.  Done.
5. `Startup`, `Prompt` and `Exchange`, run and proofs; decode picks in `Gateway`.
   Done.
6. The recursive definitions: search, chain and prompt for inputs of any length,
   and with them the type invariant and the honest hits of `Exchange`, the quiet
   query and its stack, the exact picks of `Gateway`.  Done.
7. The query composed into the gateway's pick, so that a request scores depths
   that no moment had; the fold of `best_candidate` against the pick.
