---------------------------- MODULE ShardedIndex ----------------------------
(***************************************************************************)
(* ShardedBlockIndexer: the index of the cache registry.                   *)
(*                                                                         *)
(* The index is a vector of hash maps, each behind its own RwLock, from a  *)
(* cumulative block hash to the bitmap of the pods that hold the block;    *)
(* an alive bitmap behind another RwLock; and an atomic pod count.  No     *)
(* operation holds two locks at once, so a step of this model is what one  *)
(* thread does under one lock, or one access to the atomic counter, and    *)
(* an operation over several shards is a sequence of steps that the steps  *)
(* of other threads interleave with.                                       *)
(***************************************************************************)
EXTENDS Integers, Sequences, FiniteSets

CONSTANTS Threads,       \* the threads that call the registry
          Hashes,        \* cumulative block hashes
          NumShards,     \* shard_count, after max(1)
          ShardFor,      \* shard_for_with_count: the shard of each hash
          MaxPods,       \* MAX_PODS of HostBitmap (256)
          PodIds,        \* the pod ids callers pass
          InitPodCount,  \* the pod_count the constructors are given
          Chains,        \* the hash chains callers pass
          MaxCalls       \* bound: how many calls are made in one behaviour

Shards == 0 .. NumShards - 1
Bits == 0 .. MaxPods - 1

ASSUME IndexAssumption ==
    /\ NumShards \in Nat \ {0}
    /\ ShardFor \in [Hashes -> Shards]
    /\ MaxPods \in Nat \ {0}
    /\ PodIds \subseteq Nat
    /\ InitPodCount \in Nat
    /\ Chains \subseteq Seq(Hashes) \ {<<>>}
    /\ MaxCalls \in Nat

VARIABLES
    shards,    \* per shard: a map from a present hash to its owners
    alive,     \* the alive bitmap
    podCount,  \* the atomic pod_count
    pc,        \* per thread: the step its call is at
    pod,       \* per thread: pod_id of the call
    todo,      \* per thread: the hashes of the call not handled yet
    cur,       \* per thread: observe_pod's `current`
    next,      \* per thread: the next shard of a loop over the shards
    mask,      \* per thread: the pods a cleanup keeps; the owners a read took
    seen,      \* per thread: the (hash, owners) entries a scan has collected
    calls,     \* number of calls made so far
    held,      \* history, per thread: the pairs owned ever since its call began
    met,       \* history, per thread: the pairs owned at some time since then
    up,        \* history, per thread: the pods alive ever since its call began
    upOnce     \* history, per thread: the pods alive at some time since then

index == <<shards, alive, podCount>>
locals == <<pc, pod, todo, cur, next, mask, seen>>
history == <<held, met, up, upOnce>>
vars == <<index, locals, calls, history>>

-----------------------------------------------------------------------------
(* HostBitmap: sets of pods below MaxPods; other ids are silently ignored. *)

\* Mutant: the word of the bit is stored instead of or-ed.
BitStored(b, p) == {p} \cap Bits

BitSet(b, p) == b \cup ({p} \cap Bits)
BitClear(b, p) == b \ {p}
\* full_for_count caps the count at MAX_PODS.
FullForCount(n) == {p \in Bits : p < n}

EmptyMap == [h \in {} |-> {}]
Put(m, h, b) == [x \in DOMAIN m \cup {h} |-> IF x = h THEN b ELSE m[x]]
Remove(m, h) == [x \in DOMAIN m \ {h} |-> m[x]]
\* get(..).unwrap_or_else(HostBitmap::empty)
Owners(m, h) == IF h \in DOMAIN m THEN m[h] ELSE {}

\* The pairs the index holds, whichever shard they are in.
Owned == {e \in Bits \X Hashes :
            \E s \in Shards : e[2] \in DOMAIN shards[s] /\ e[1] \in shards[s][e[2]]}

-----------------------------------------------------------------------------
(* Calls and their ends.                                                   *)

Init ==
    /\ shards = [s \in Shards |-> EmptyMap]
    /\ alive \in {{}, FullForCount(InitPodCount)}
    /\ podCount = InitPodCount
    /\ pc = [t \in Threads |-> "idle"]
    /\ pod = [t \in Threads |-> 0]
    /\ todo = [t \in Threads |-> <<>>]
    /\ cur = [t \in Threads |-> 0]
    /\ next = [t \in Threads |-> 0]
    /\ mask = [t \in Threads |-> {}]
    /\ seen = [t \in Threads |-> {}]
    /\ calls = 0
    /\ held = [t \in Threads |-> {}]
    /\ met = [t \in Threads |-> {}]
    /\ up = [t \in Threads |-> {}]
    /\ upOnce = [t \in Threads |-> {}]

Goto(t, label) == pc' = [pc EXCEPT ![t] = label]

\* The steps that read or sweep the index over several locks: only for them
\* does the history matter.
Observing == {"sweep", "swept", "scan", "scanned", "owners", "mask", "masked"}

\* The history of every thread in an observing call follows the step taken;
\* the history of t is restarted by the step that begins its call.
Observe ==
    /\ held' = [t \in Threads |->
                  IF pc'[t] \notin Observing THEN {}
                  ELSE IF pc[t] = "idle" THEN Owned ELSE held[t] \cap Owned']
    /\ met' = [t \in Threads |->
                  IF pc'[t] \notin Observing THEN {}
                  ELSE IF pc[t] = "idle" THEN Owned ELSE met[t] \cup Owned']
    /\ up' = [t \in Threads |->
                  IF pc'[t] \notin Observing THEN {}
                  ELSE IF pc[t] = "idle" THEN alive ELSE up[t] \cap alive']
    /\ upOnce' = [t \in Threads |->
                  IF pc'[t] \notin Observing THEN {}
                  ELSE IF pc[t] = "idle" THEN alive ELSE upOnce[t] \cup alive']

\* Thread t enters an operation at label, for pod p and the hashes hs.
Call(t, label, p, hs) ==
    /\ pc[t] = "idle"
    /\ calls < MaxCalls
    /\ calls' = calls + 1
    /\ Goto(t, label)
    /\ pod' = [pod EXCEPT ![t] = p]
    /\ todo' = [todo EXCEPT ![t] = hs]
    /\ UNCHANGED <<index, cur, next, seen>>

\* Thread t returns; its locals go out of scope.
Finish(t) ==
    /\ Goto(t, "idle")
    /\ pod' = [pod EXCEPT ![t] = 0]
    /\ todo' = [todo EXCEPT ![t] = <<>>]
    /\ cur' = [cur EXCEPT ![t] = 0]
    /\ next' = [next EXCEPT ![t] = 0]
    /\ mask' = [mask EXCEPT ![t] = {}]
    /\ seen' = [seen EXCEPT ![t] = {}]

-----------------------------------------------------------------------------
(* register, register_chain and mark_alive: all begin with observe_pod.    *)

\* register is register_chain of one hash.
RegisterChain(t) ==
    \E p \in PodIds, hs \in Chains : Call(t, "load", p, hs) /\ UNCHANGED mask

MarkAlive(t) == \E p \in PodIds : Call(t, "load", p, <<>>) /\ UNCHANGED mask

\* Where a call is once observe_pod has returned.
Observed(t) == IF todo[t] = <<>> THEN "alive" ELSE "write"

\* Mutant: needed is the pod id itself.
ObserveShort(t, n) == /\ cur' = [cur EXCEPT ![t] = n]
                      /\ Goto(t, IF pod[t] > n THEN "cas" ELSE Observed(t))

\* observe_pod: `current` holds n; loop while needed > current.
ObserveLoop(t, n) == /\ cur' = [cur EXCEPT ![t] = n]
                     /\ Goto(t, IF pod[t] + 1 > n THEN "cas" ELSE Observed(t))

LoadCount(t) ==
    /\ pc[t] = "load"
    /\ ObserveLoop(t, podCount)
    /\ UNCHANGED <<index, pod, todo, next, mask, seen, calls>>

\* Mutant: the count is stored, not compared and exchanged.
StoreCount(t) ==
    /\ pc[t] = "cas"
    /\ podCount' = pod[t] + 1
    /\ Goto(t, Observed(t))
    /\ UNCHANGED <<shards, alive, pod, todo, cur, next, mask, seen, calls>>

CasOk(t) ==
    /\ pc[t] = "cas"
    /\ podCount = cur[t]
    /\ podCount' = pod[t] + 1
    /\ Goto(t, Observed(t))
    /\ UNCHANGED <<shards, alive, pod, todo, cur, next, mask, seen, calls>>

\* Mutant: the value a failed exchange returns is not kept.
CasErrStale(t) ==
    /\ pc[t] = "cas"
    /\ ObserveLoop(t, cur[t])
    /\ UNCHANGED <<index, pod, todo, next, mask, seen, calls>>

\* compare_exchange_weak fails on another value, and may fail spuriously; it
\* returns the value it saw.
CasErr(t) ==
    /\ pc[t] = "cas"
    /\ ObserveLoop(t, podCount)
    /\ UNCHANGED <<index, pod, todo, next, mask, seen, calls>>

\* The rest of register: the entry is made if absent, the pod's bit is set
\* if it was not; the chain goes on with observe_pod of the next hash.
RegisterBlock(t) ==
    LET h == Head(todo[t])
        s == ShardFor[h]
        b == Owners(shards[s], h)
    IN /\ pc[t] = "write"
       /\ shards' = [shards EXCEPT ![s] =
                       Put(@, h, IF pod[t] \in b THEN b ELSE BitSet(b, pod[t]))]
       /\ IF Len(todo[t]) = 1
          THEN Finish(t)
          ELSE /\ Goto(t, "load")
               /\ todo' = [todo EXCEPT ![t] = Tail(@)]
               /\ UNCHANGED <<pod, cur, next, mask, seen>>
       /\ UNCHANGED <<alive, podCount, calls>>

SetAlive(t) ==
    /\ pc[t] = "alive"
    /\ alive' = BitSet(alive, pod[t])
    /\ Finish(t)
    /\ UNCHANGED <<shards, podCount, calls>>

-----------------------------------------------------------------------------
(* evict, evict_chain and shutdown.                                        *)

EvictChain(t) ==
    \E p \in PodIds, hs \in Chains : Call(t, "evict", p, hs) /\ UNCHANGED mask

\* An entry whose last owner is evicted is removed.
EvictBlock(t) ==
    LET h == Head(todo[t])
        s == ShardFor[h]
        b == BitClear(Owners(shards[s], h), pod[t])
    IN /\ pc[t] = "evict"
       /\ shards' = [shards EXCEPT ![s] =
                       IF h \notin DOMAIN @ THEN @
                       ELSE IF b = {} THEN Remove(@, h) ELSE Put(@, h, b)]
       /\ IF Len(todo[t]) = 1
          THEN Finish(t)
          ELSE /\ todo' = [todo EXCEPT ![t] = Tail(@)]
               /\ UNCHANGED <<pc, pod, cur, next, mask, seen>>
       /\ UNCHANGED <<alive, podCount, calls>>

\* shutdown only clears the alive bit: one lock, one step, no call in progress.
Shutdown(t) ==
    /\ pc[t] = "idle"
    /\ calls < MaxCalls
    /\ calls' = calls + 1
    /\ \E p \in PodIds : alive' = BitClear(alive, p)
    /\ UNCHANGED <<shards, podCount, locals>>

-----------------------------------------------------------------------------
(* cleanup_dead_pod, cleanup_not_alive and clear: shard after shard, keep  *)
(* the owners in the mask and the entries that still have one.             *)

CleanupDeadPod(t) ==
    \E p \in PodIds : /\ Call(t, "sweep", p, <<>>)
                      /\ mask' = [mask EXCEPT ![t] = Bits \ {p}]

\* The alive bitmap is copied once, before the first shard.
CleanupNotAlive(t) ==
    /\ Call(t, "sweep", 0, <<>>)
    /\ mask' = [mask EXCEPT ![t] = alive]

Clear(t) ==
    /\ Call(t, "sweep", 0, <<>>)
    /\ mask' = [mask EXCEPT ![t] = {}]

\* Mutant: entries that lose their last owner stay.
RetainEmpty(m, keep) == [h \in DOMAIN m |-> m[h] \cap keep]

\* Mutant: an entry that keeps an owner keeps them all.
RetainWhole(m, keep) == [h \in {x \in DOMAIN m : m[x] \cap keep # {}} |-> m[h]]

Retain(m, keep) ==
    [h \in {x \in DOMAIN m : m[x] \cap keep # {}} |-> m[h] \cap keep]

SweepShard(t) ==
    /\ pc[t] = "sweep"
    /\ shards' = [shards EXCEPT ![next[t]] = Retain(@, mask[t])]
    /\ next' = [next EXCEPT ![t] = @ + 1]
    /\ IF next[t] + 1 = NumShards THEN Goto(t, "swept") ELSE UNCHANGED pc
    /\ UNCHANGED <<alive, podCount, pod, todo, cur, mask, seen, calls>>

-----------------------------------------------------------------------------
(* Reads: block_owners, shard_entry_counts, total_entries; owners_alive.   *)

Scan(t) == Call(t, "scan", 0, <<>>) /\ UNCHANGED mask

\* Mutant: a shard's entries replace the ones collected before.
ScanLast(t) ==
    LET m == shards[next[t]] IN
    /\ pc[t] = "scan"
    /\ seen' = [seen EXCEPT ![t] = {<<h, m[h]>> : h \in DOMAIN m}]
    /\ next' = [next EXCEPT ![t] = @ + 1]
    /\ IF next[t] + 1 = NumShards THEN Goto(t, "scanned") ELSE UNCHANGED pc
    /\ UNCHANGED <<index, pod, todo, cur, mask, calls>>

\* One shard's entries, under its read lock.
ScanShard(t) ==
    LET m == shards[next[t]] IN
    /\ pc[t] = "scan"
    /\ seen' = [seen EXCEPT ![t] = @ \cup {<<h, m[h]>> : h \in DOMAIN m}]
    /\ next' = [next EXCEPT ![t] = @ + 1]
    /\ IF next[t] + 1 = NumShards THEN Goto(t, "scanned") ELSE UNCHANGED pc
    /\ UNCHANGED <<index, pod, todo, cur, mask, calls>>

OwnersAlive(t) ==
    \E h \in Hashes : Call(t, "owners", 0, <<h>>) /\ UNCHANGED mask

\* owners(hash), then .and(&self.alive()) under another lock.
ReadOwners(t) ==
    /\ pc[t] = "owners"
    /\ mask' = [mask EXCEPT ![t] = Owners(shards[ShardFor[todo[t][1]]], todo[t][1])]
    /\ Goto(t, "mask")
    /\ UNCHANGED <<index, pod, todo, cur, next, seen, calls>>

\* Mutant: the owners are returned without the alive bitmap.
MaskNothing(t) ==
    /\ pc[t] = "mask"
    /\ Goto(t, "masked")
    /\ UNCHANGED <<index, pod, todo, cur, next, mask, seen, calls>>

MaskAlive(t) ==
    /\ pc[t] = "mask"
    /\ mask' = [mask EXCEPT ![t] = @ \cap alive]
    /\ Goto(t, "masked")
    /\ UNCHANGED <<index, pod, todo, cur, next, seen, calls>>

\* The caller has the result of a sweep, a scan or owners_alive.
Return(t) ==
    /\ pc[t] \in {"swept", "scanned", "masked"}
    /\ Finish(t)
    /\ UNCHANGED <<index, calls>>

-----------------------------------------------------------------------------
Begin(t) == \/ RegisterChain(t) \/ MarkAlive(t) \/ EvictChain(t) \/ Shutdown(t)
            \/ CleanupDeadPod(t) \/ CleanupNotAlive(t) \/ Clear(t)
            \/ Scan(t) \/ OwnersAlive(t)

\* What the thread does next inside the call it is in.
Proceed(t) == \/ LoadCount(t) \/ CasOk(t) \/ CasErr(t)
              \/ RegisterBlock(t) \/ SetAlive(t) \/ EvictBlock(t)
              \/ SweepShard(t) \/ ScanShard(t)
              \/ ReadOwners(t) \/ MaskAlive(t) \/ Return(t)

Next == (\E t \in Threads : Begin(t) \/ Proceed(t)) /\ Observe

\* A thread inside a call keeps running; a weak compare-exchange that could
\* succeed does not fail spuriously for ever.
Fairness == \A t \in Threads : /\ WF_vars(Proceed(t) /\ Observe)
                               /\ SF_vars(CasOk(t) /\ Observe)

Spec == Init /\ [][Next]_vars
FairSpec == Spec /\ Fairness

-----------------------------------------------------------------------------
(* Properties.                                                             *)

Labels == {"idle", "load", "cas", "write", "alive", "evict"} \cup Observing

IsShardMap(m) == /\ DOMAIN m \subseteq Hashes
                 /\ m \in [DOMAIN m -> SUBSET Bits]

IndexTypeOK ==
    /\ DOMAIN shards = Shards
    /\ \A s \in Shards : IsShardMap(shards[s])
    /\ alive \in SUBSET Bits
    /\ podCount \in Nat
    /\ pc \in [Threads -> Labels]
    /\ pod \in [Threads -> Nat]
    /\ todo \in [Threads -> Seq(Hashes)]
    /\ cur \in [Threads -> Nat]
    /\ next \in [Threads -> 0 .. NumShards]
    /\ mask \in [Threads -> SUBSET Bits]
    /\ seen \in [Threads -> SUBSET (Hashes \X SUBSET Bits)]
    /\ calls \in 0 .. MaxCalls

HistoryTypeOK ==
    /\ held \in [Threads -> SUBSET (Bits \X Hashes)]
    /\ met \in [Threads -> SUBSET (Bits \X Hashes)]
    /\ up \in [Threads -> SUBSET Bits]
    /\ upOnce \in [Threads -> SUBSET Bits]

\* What a call in progress knows at each step: a hash left to handle, a shard
\* left to pass, a compare-exchange that would raise the count, and a count
\* above the pod of the call once observe_pod has returned.
LocalsOK ==
    \A t \in Threads :
        /\ pc[t] \in {"write", "evict", "owners", "mask", "masked"} => todo[t] # <<>>
        /\ pc[t] = "cas" => cur[t] <= pod[t]
        /\ pc[t] \in {"write", "alive"} => pod[t] < podCount
        /\ pc[t] \in {"sweep", "scan"} => next[t] < NumShards
        /\ pc[t] \notin {"sweep", "swept", "scan", "scanned"} => next[t] = 0

\* Every variable holds a value of its Rust type: bitmaps are sets of pods
\* below MAX_PODS, each shard maps hashes to bitmaps; and a call in progress
\* has the locals its step reads, whatever the other threads did meanwhile.
TypeOK == IndexTypeOK /\ LocalsOK /\ HistoryTypeOK

\* observe_pod runs before the bit of a pod is set anywhere, and its
\* compare-exchange loop never loses a concurrent raise: whatever the
\* interleaving, pod_count is above every pod in the index and in the alive
\* bitmap.  longest_prefix_lengths_for_candidates sizes its result by it.
PodCountCovers ==
    /\ \A p \in alive : p < podCount
    /\ \A e \in Owned : e[1] < podCount

\* No entry without an owner stays in the index: register never leaves one
\* behind, evict and the cleanups remove an entry with its last owner.  (For
\* ids below MAX_PODS; total_entries counts entries, not owners.)
NoEmptyEntry == \A s \in Shards : \A h \in DOMAIN shards[s] : shards[s][h] # {}

\* An entry without owners after the step was there before, or the step is
\* the register of an id that does not fit.
EmptyStep ==
    \A s \in Shards : \A h \in DOMAIN shards'[s] : shards'[s][h] = {} =>
        \/ h \in DOMAIN shards[s] /\ shards[s][h] = {}
        \/ \E t \in Threads : RegisterBlock(t) /\ pod[t] \notin Bits /\ Head(todo[t]) = h

\* For ids of any value: the one step that leaves an entry without owners is
\* a register of an id above the bitmap on a block nobody owned.  evict and
\* the cleanups, under any interleaving, leave none and bring none back.
EmptyByMisfitOnly == [][EmptyStep]_vars

\* cleanup_dead_pod, cleanup_not_alive and clear are complete on the shards
\* they have passed, although they lock one shard at a time: a pair they had
\* to remove and that is there now was registered after the sweep passed.
SweepComplete ==
    \A t \in Threads : pc[t] \in {"sweep", "swept"} =>
        \A e \in held[t] : ShardFor[e[2]] < next[t] => e[1] \in mask[t]

\* block_owners (and total_entries, which counts what it returns) is not an
\* atomic snapshot, but every pair owned during the whole call is in it,
\* nothing is in it that was not owned at some time during the call, and no
\* hash is listed twice.
ScanRegular ==
    \A t \in Threads : pc[t] = "scanned" =>
        /\ \A e \in held[t] : \E x \in seen[t] : x[1] = e[2] /\ e[1] \in x[2]
        /\ \A x \in seen[t] : \A p \in x[2] : <<p, x[1]>> \in met[t]
        /\ \A x, y \in seen[t] : x[1] = y[1] => x = y

\* owners_alive reads the owners and the alive bitmap under different locks.
\* Its result has every pod that owned the block and was alive throughout,
\* and only pods that owned it and were alive at some time during the call.
OwnersAliveRegular ==
    \A t \in Threads : pc[t] = "masked" =>
        LET h == todo[t][1] IN
        /\ \A p \in up[t] : <<p, h>> \in held[t] => p \in mask[t]
        /\ \A p \in mask[t] : p \in upOnce[t] /\ <<p, h>> \in met[t]

\* Every call returns, under any interference of the others: in particular
\* the compare-exchange loop of observe_pod ends.
CallsReturn == \A t \in Threads : pc[t] # "idle" ~> pc[t] = "idle"

\* The sharded, locked index is the ownership relation its callers expect.
Promise == INSTANCE Ownership WITH owned <- Owned
ImplementsOwnership == Promise!Spec
=============================================================================
