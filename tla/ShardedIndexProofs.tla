-------------------------- MODULE ShardedIndexProofs --------------------------
(***************************************************************************)
(* Invariants of the sharded index for every number of threads, pods,      *)
(* blocks and shards; then the operations that go over several locks (the  *)
(* sweeps, block_owners, owners_alive) against what other threads do       *)
(* meanwhile.                                                              *)
(***************************************************************************)
EXTENDS ShardedIndex, SequenceTheorems, TLAPS

-----------------------------------------------------------------------------
(* The map operations of a shard.                                          *)

\* The owners of a hash, present or not, are a bitmap.
LEMMA OwnersBits ==
    ASSUME NEW m, IsShardMap(m), NEW h
    PROVE  Owners(m, h) \in SUBSET Bits
  BY DEF IsShardMap, Owners

-----------------------------------------------------------------------------
(* The inductive invariant of the index.                                   *)

\* A hash is only ever in the shard it hashes to.
HomeShard == \A s \in Shards : \A h \in DOMAIN shards[s] : ShardFor[h] = s

Covered ==
    /\ \A p \in alive : p < podCount
    /\ \A s \in Shards : \A h \in DOMAIN shards[s] : \A p \in shards[s][h] : p < podCount

IndexInv == IndexTypeOK /\ HomeShard /\ LocalsOK /\ Covered

\* The constructors build an empty index with its count above its alive pods.
LEMMA InitIndexInv == Init => IndexInv
<1> SUFFICES ASSUME Init PROVE IndexInv
  OBVIOUS
<1> USE IndexAssumption DEF Init
<1>1. \A s \in Shards : shards[s] = EmptyMap /\ DOMAIN shards[s] = {}
  BY DEF EmptyMap
<1>2. IndexTypeOK
  BY <1>1 DEF IndexTypeOK, IsShardMap, EmptyMap, Labels, FullForCount
<1>3. HomeShard /\ LocalsOK /\ Covered
  BY <1>1 DEF HomeShard, LocalsOK, Covered, FullForCount, Bits
<1> QED
  BY <1>2, <1>3 DEF IndexInv

\* Entering an operation gives its first step the locals it reads.
LEMMA CallInv ==
    ASSUME IndexInv, NEW t \in Threads, NEW label, NEW p \in Nat,
           NEW hs \in Seq(Hashes), Call(t, label, p, hs),
           mask' \in [Threads -> SUBSET Bits],
           \/ label = "load" 
           \/ label \in {"evict", "owners"} /\ hs # <<>>
           \/ label \in {"sweep", "scan"}
    PROVE  IndexInv'
<1> USE IndexAssumption
<1>1. IndexTypeOK'
  <2>1. /\ DOMAIN shards' = Shards
        /\ \A s \in Shards : IsShardMap(shards[s])'
        /\ alive' \in SUBSET Bits
        /\ podCount' \in Nat
    BY DEF IndexInv, IndexTypeOK, IsShardMap, Call, index
  <2>2. pc' \in [Threads -> Labels] /\ calls' \in 0 .. MaxCalls
    BY DEF IndexInv, IndexTypeOK, Call, Goto, Labels, Observing
  <2>3. pod' \in [Threads -> Nat] /\ todo' \in [Threads -> Seq(Hashes)]
    BY DEF IndexInv, IndexTypeOK, Call
  <2> QED
    BY <2>1, <2>2, <2>3 DEF IndexInv, IndexTypeOK, Call
<1>2. HomeShard' /\ Covered'
  BY DEF IndexInv, HomeShard, Covered, Call, index
<1>3. LocalsOK'
  BY DEF IndexInv, IndexTypeOK, LocalsOK, Call, Goto, index
<1> QED
  BY <1>1, <1>2, <1>3 DEF IndexInv

\* Every operation of the registry begins with such a call; shutdown is one
\* step, which only removes an alive pod.
LEMMA BeginInv ==
    ASSUME IndexInv, NEW t \in Threads, Begin(t)
    PROVE  IndexInv'
<1> USE IndexAssumption
<1>0. <<>> \in Seq(Hashes) /\ 0 \in Nat
  OBVIOUS
<1>1. CASE RegisterChain(t) \/ MarkAlive(t)
  <2>1. PICK p \in PodIds, hs \in Chains \cup {<<>>} :
           Call(t, "load", p, hs) /\ UNCHANGED mask
    BY <1>1 DEF RegisterChain, MarkAlive
  <2>2. p \in Nat /\ hs \in Seq(Hashes) /\ mask' \in [Threads -> SUBSET Bits]
    BY <1>0, <2>1 DEF IndexInv, IndexTypeOK
  <2> QED
    BY <2>1, <2>2, CallInv
<1>2. CASE EvictChain(t)
  <2>1. PICK p \in PodIds, hs \in Chains : Call(t, "evict", p, hs) /\ UNCHANGED mask
    BY <1>2 DEF EvictChain
  <2>2. p \in Nat /\ hs \in Seq(Hashes) /\ hs # <<>> /\ mask' \in [Threads -> SUBSET Bits]
    BY <2>1 DEF IndexInv, IndexTypeOK
  <2> QED
    BY <2>1, <2>2, CallInv
<1>3. CASE Shutdown(t)
  <2>1. PICK p \in PodIds : alive' = BitClear(alive, p)
    BY <1>3 DEF Shutdown
  <2>2. alive' \subseteq alive
    BY <2>1 DEF BitClear
  <2>3. calls' \in 0 .. MaxCalls
    BY <1>3 DEF Shutdown, IndexInv, IndexTypeOK
  <2> QED
    BY <1>3, <2>2, <2>3 DEF Shutdown, locals, IndexInv, IndexTypeOK, HomeShard, LocalsOK, Covered
<1>4. CASE CleanupDeadPod(t)
  <2>1. PICK p \in PodIds : /\ Call(t, "sweep", p, <<>>)
                            /\ mask' = [mask EXCEPT ![t] = Bits \ {p}]
    BY <1>4 DEF CleanupDeadPod
  <2>2. p \in Nat /\ <<>> \in Seq(Hashes) /\ mask' \in [Threads -> SUBSET Bits]
    BY <2>1 DEF IndexInv, IndexTypeOK
  <2> QED
    BY <2>1, <2>2, CallInv
<1>5. CASE CleanupNotAlive(t) \/ Clear(t)
  <2>1. /\ Call(t, "sweep", 0, <<>>)
        /\ mask' \in [Threads -> SUBSET Bits]
    BY <1>5 DEF CleanupNotAlive, Clear, IndexInv, IndexTypeOK
  <2> QED
    BY <1>0, <2>1, CallInv
<1>6. CASE Scan(t)
  <2>1. /\ Call(t, "scan", 0, <<>>)
        /\ mask' \in [Threads -> SUBSET Bits]
    BY <1>6 DEF Scan, IndexInv, IndexTypeOK
  <2> QED
    BY <1>0, <2>1, CallInv
<1>7. CASE OwnersAlive(t)
  <2>1. PICK h \in Hashes : Call(t, "owners", 0, <<h>>) /\ UNCHANGED mask
    BY <1>7 DEF OwnersAlive
  <2>2. <<h>> \in Seq(Hashes) /\ <<h>> # <<>> /\ mask' \in [Threads -> SUBSET Bits]
    BY <2>1 DEF IndexInv, IndexTypeOK
  <2> QED
    BY <2>1, <2>2, CallInv
<1> QED
  BY <1>1, <1>2, <1>3, <1>4, <1>5, <1>6, <1>7 DEF Begin

\* Finish leaves a thread with the locals of an idle one.
LEMMA FinishLocals ==
    ASSUME IndexInv, NEW t \in Threads, Finish(t)
    PROVE  /\ pc' \in [Threads -> Labels]
           /\ pod' \in [Threads -> Nat]
           /\ todo' \in [Threads -> Seq(Hashes)]
           /\ cur' \in [Threads -> Nat]
           /\ next' \in [Threads -> 0 .. NumShards]
           /\ mask' \in [Threads -> SUBSET Bits]
           /\ seen' \in [Threads -> SUBSET (Hashes \X SUBSET Bits)]
           /\ pc'[t] = "idle" /\ next'[t] = 0
           /\ \A u \in Threads \ {t} : /\ pc'[u] = pc[u]
                                       /\ pod'[u] = pod[u]
                                       /\ todo'[u] = todo[u]
                                       /\ cur'[u] = cur[u]
                                       /\ next'[u] = next[u]
<1> USE IndexAssumption
<1>1. pc' \in [Threads -> Labels] /\ pod' \in [Threads -> Nat]
  BY DEF IndexInv, IndexTypeOK, Finish, Goto, Labels
<1>2. todo' \in [Threads -> Seq(Hashes)] /\ cur' \in [Threads -> Nat]
  BY DEF IndexInv, IndexTypeOK, Finish
<1>3. next' \in [Threads -> 0 .. NumShards] /\ mask' \in [Threads -> SUBSET Bits]
  BY DEF IndexInv, IndexTypeOK, Finish
<1>4. seen' \in [Threads -> SUBSET (Hashes \X SUBSET Bits)]
  BY DEF IndexInv, IndexTypeOK, Finish
<1> QED
  BY <1>1, <1>2, <1>3, <1>4 DEF IndexInv, IndexTypeOK, Finish, Goto

\* observe_pod: a load, and a failed compare-exchange, leave the loop only
\* when the count covers the pod; a successful one raises the count.
LEMMA ObservePodInv ==
    ASSUME IndexInv, NEW t \in Threads, LoadCount(t) \/ CasOk(t) \/ CasErr(t)
    PROVE  IndexInv'
<1> USE IndexAssumption
<1>1. /\ podCount' \in Nat /\ podCount' >= podCount
      /\ cur' \in [Threads -> Nat]
      /\ pc' \in [Threads -> Labels]
      /\ UNCHANGED <<shards, alive, pod, todo, next, mask, seen, calls>>
      /\ pc[t] \in {"load", "cas"}
      /\ \A u \in Threads \ {t} : pc'[u] = pc[u] /\ cur'[u] = cur[u]
      /\ \/ pc'[t] = "cas" /\ cur'[t] <= pod[t]
         \/ pc'[t] = "alive" /\ pod[t] < podCount'
         \/ pc'[t] = "write" /\ todo[t] # <<>> /\ pod[t] < podCount'
  <2>1. CASE LoadCount(t) \/ CasErr(t)
    <3>1. /\ UNCHANGED <<shards, alive, podCount, pod, todo, next, mask, seen, calls>>
          /\ pc[t] \in {"load", "cas"}
          /\ cur' = [cur EXCEPT ![t] = podCount]
          /\ pc' = [pc EXCEPT ![t] = IF pod[t] + 1 > podCount THEN "cas" ELSE Observed(t)]
      BY <2>1 DEF LoadCount, CasErr, ObserveLoop, Goto, index
    <3>2. podCount \in Nat /\ pod[t] \in Nat
      BY DEF IndexInv, IndexTypeOK
    <3>3. \/ Observed(t) = "alive"
          \/ Observed(t) = "write" /\ todo[t] # <<>>
      BY DEF Observed
    <3>4. cur' \in [Threads -> Nat] /\ pc' \in [Threads -> Labels]
      BY <3>1, <3>2, <3>3 DEF IndexInv, IndexTypeOK, Labels
    <3>5. \A u \in Threads \ {t} : pc'[u] = pc[u] /\ cur'[u] = cur[u]
      BY <3>1 DEF IndexInv, IndexTypeOK
    <3>6. \/ pc'[t] = "cas" /\ cur'[t] <= pod[t]
          \/ pc'[t] = Observed(t) /\ pod[t] < podCount
      BY <3>1, <3>2 DEF IndexInv, IndexTypeOK
    <3> QED
      BY <3>1, <3>2, <3>3, <3>4, <3>5, <3>6
  <2>2. CASE CasOk(t)
    BY <2>2 DEF IndexInv, IndexTypeOK, LocalsOK, CasOk, Observed, Goto, Labels
  <2> QED
    BY <2>1, <2>2
<1>2. IndexTypeOK'
  BY <1>1 DEF IndexInv, IndexTypeOK, IsShardMap
<1>3. HomeShard' /\ Covered'
  BY <1>1 DEF IndexInv, IndexTypeOK, IsShardMap, HomeShard, Covered, Bits
<1>4. LocalsOK'
  <2>1. next[t] = 0
    BY <1>1 DEF IndexInv, LocalsOK
  <2>2. \A u \in Threads : pod[u] < podCount => pod[u] < podCount'
    BY <1>1 DEF IndexInv, IndexTypeOK
  <2> QED
    BY <1>1, <2>1, <2>2 DEF IndexInv, LocalsOK
<1> QED
  BY <1>2, <1>3, <1>4 DEF IndexInv

\* A shard is changed by one thread at a time; the other shards stay.
LEMMA ShardUpdate ==
    ASSUME IndexInv, NEW s \in Shards, NEW m, IsShardMap(m),
           shards' = [shards EXCEPT ![s] = m],
           \A h \in DOMAIN m : ShardFor[h] = s,
           \A h \in DOMAIN m : \A p \in m[h] : p < podCount
    PROVE  /\ DOMAIN shards' = Shards
           /\ \A x \in Shards : IsShardMap(shards'[x])
           /\ HomeShard'
           /\ \A x \in Shards : \A h \in DOMAIN shards'[x] :
                 \A p \in shards'[x][h] : p < podCount
  BY DEF IndexInv, IndexTypeOK, HomeShard, Covered

\* register writes the owner into the shard of the hash, once the count
\* covers it.
LEMMA RegisterBlockInv ==
    ASSUME IndexInv, NEW t \in Threads, RegisterBlock(t)
    PROVE  IndexInv'
<1> USE IndexAssumption
<1> DEFINE hash == Head(todo[t])
           home == ShardFor[hash]
           before == Owners(shards[home], hash)
           after == IF pod[t] \in before THEN before ELSE BitSet(before, pod[t])
           entries == Put(shards[home], hash, after)
<1>1. /\ pc[t] = "write" /\ todo[t] \in Seq(Hashes) /\ todo[t] # <<>>
      /\ pod[t] < podCount /\ next[t] = 0
  BY DEF RegisterBlock, IndexInv, IndexTypeOK, LocalsOK
<1>2. hash \in Hashes /\ Tail(todo[t]) \in Seq(Hashes) /\ Len(todo[t]) \in Nat \ {0}
  BY <1>1, HeadTailProperties, LenProperties, EmptySeq
<1>3. home \in Shards /\ IsShardMap(shards[home])
  BY <1>2 DEF IndexInv, IndexTypeOK
<1>4. before \in SUBSET Bits /\ after \in SUBSET Bits
  BY <1>3, OwnersBits DEF BitSet
<1>5. shards' = [shards EXCEPT ![home] = entries]
  BY DEF RegisterBlock
<1>6. /\ IsShardMap(entries)
      /\ DOMAIN entries = DOMAIN shards[home] \cup {hash}
      /\ entries[hash] = after
      /\ \A x \in DOMAIN shards[home] \ {hash} : entries[x] = shards[home][x]
  <2> HIDE DEF after, before, home, hash
  <2> QED
    BY <1>2, <1>3, <1>4 DEF IsShardMap, Put
<1>7. \A x \in DOMAIN entries : ShardFor[x] = home
  BY <1>6, <1>3 DEF IndexInv, HomeShard
<1>8. \A x \in DOMAIN entries : \A p \in entries[x] : p < podCount
  <2>1. \A p \in before : p < podCount
    BY <1>3 DEF Owners, IndexInv, Covered
  <2>2. \A p \in entries[hash] : p < podCount
    BY <1>1, <1>6, <2>1 DEF BitSet
  <2> QED
    BY <1>3, <1>6, <2>2 DEF IndexInv, Covered
<1> HIDE DEF entries, after, before, home, hash
<1>9. /\ DOMAIN shards' = Shards
      /\ \A x \in Shards : IsShardMap(shards'[x])
      /\ HomeShard'
      /\ \A x \in Shards : \A y \in DOMAIN shards'[x] :
            \A p \in shards'[x][y] : p < podCount
  BY <1>3, <1>5, <1>6, <1>7, <1>8, ShardUpdate
<1>10. UNCHANGED <<alive, podCount, calls>>
  BY DEF RegisterBlock
<1>11. CASE Len(todo[t]) = 1
  <2>1. Finish(t)
    BY <1>11 DEF RegisterBlock
  <2>2. IndexTypeOK'
    BY <2>1, <1>9, <1>10, FinishLocals DEF IndexInv, IndexTypeOK
  <2>3. LocalsOK'
    BY <2>1, <1>10, FinishLocals DEF IndexInv, LocalsOK
  <2> QED
    BY <2>2, <2>3, <1>9, <1>10 DEF IndexInv, Covered
<1>12. CASE Len(todo[t]) # 1
  <2>1. /\ pc' = [pc EXCEPT ![t] = "load"]
        /\ todo' = [todo EXCEPT ![t] = Tail(@)]
        /\ UNCHANGED <<pod, cur, next, mask, seen>>
    BY <1>12 DEF RegisterBlock, Goto
  <2>2. pc' \in [Threads -> Labels] /\ todo' \in [Threads -> Seq(Hashes)]
    BY <1>2, <2>1 DEF IndexInv, IndexTypeOK, Labels
  <2>3. IndexTypeOK'
    BY <2>1, <2>2, <1>9, <1>10 DEF IndexInv, IndexTypeOK
  <2>4. LocalsOK'
    BY <2>1, <1>1, <1>10 DEF IndexInv, IndexTypeOK, LocalsOK
  <2> QED
    BY <2>3, <2>4, <1>9, <1>10 DEF IndexInv, Covered
<1> QED
  BY <1>11, <1>12

\* evict removes one owner, or the entry with its last owner, from the shard
\* of the hash.
LEMMA EvictBlockInv ==
    ASSUME IndexInv, NEW t \in Threads, EvictBlock(t)
    PROVE  IndexInv'
<1> USE IndexAssumption
<1> DEFINE hash == Head(todo[t])
           home == ShardFor[hash]
           after == BitClear(Owners(shards[home], hash), pod[t])
           entries == IF hash \notin DOMAIN shards[home] THEN shards[home]
                      ELSE IF after = {} THEN Remove(shards[home], hash)
                      ELSE Put(shards[home], hash, after)
<1>1. pc[t] = "evict" /\ todo[t] \in Seq(Hashes) /\ todo[t] # <<>> /\ next[t] = 0
  BY DEF EvictBlock, IndexInv, IndexTypeOK, LocalsOK
<1>2. hash \in Hashes /\ Tail(todo[t]) \in Seq(Hashes) /\ Len(todo[t]) \in Nat \ {0}
      /\ (Len(todo[t]) # 1 => Tail(todo[t]) # <<>>)
  <2>1. Len(Tail(todo[t])) = Len(todo[t]) - 1
    BY <1>1, HeadTailProperties
  <2>2. Tail(todo[t]) = <<>> => Len(Tail(todo[t])) = 0
    BY EmptySeq
  <2> QED
    BY <1>1, <2>1, <2>2, HeadTailProperties, LenProperties, EmptySeq
<1>3. home \in Shards /\ IsShardMap(shards[home])
  BY <1>2 DEF IndexInv, IndexTypeOK
<1>4. after \in SUBSET Bits /\ after \subseteq Owners(shards[home], hash)
  BY <1>3, OwnersBits DEF BitClear
<1>5. shards' = [shards EXCEPT ![home] = entries]
  BY DEF EvictBlock
<1>6. /\ IsShardMap(entries)
      /\ DOMAIN entries \subseteq DOMAIN shards[home]
      /\ \A x \in DOMAIN entries : entries[x] \subseteq shards[home][x]
  <2> HIDE DEF home, hash, after
  <2>1. CASE hash \notin DOMAIN shards[home]
    BY <2>1, <1>3
  <2>2. CASE hash \in DOMAIN shards[home] /\ after = {}
    BY <2>2, <1>2, <1>3 DEF IsShardMap, Remove
  <2>3. CASE hash \in DOMAIN shards[home] /\ after # {}
    <3>1. entries = Put(shards[home], hash, after)
      BY <2>3
    <3>2. /\ IsShardMap(entries)
          /\ DOMAIN entries = DOMAIN shards[home]
          /\ entries[hash] = after
          /\ \A x \in DOMAIN shards[home] \ {hash} : entries[x] = shards[home][x]
      BY <2>3, <3>1, <1>2, <1>3, <1>4 DEF IsShardMap, Put
    <3>3. after \subseteq shards[home][hash]
      BY <2>3, <1>4 DEF Owners
    <3> QED
      BY <3>2, <3>3
  <2> QED
    BY <2>1, <2>2, <2>3
<1>7. \A x \in DOMAIN entries : ShardFor[x] = home
  BY <1>6, <1>3 DEF IndexInv, HomeShard
<1>8. \A x \in DOMAIN entries : \A p \in entries[x] : p < podCount
  BY <1>3, <1>6 DEF IndexInv, Covered
<1> HIDE DEF entries, after, home, hash
<1>9. /\ DOMAIN shards' = Shards
      /\ \A x \in Shards : IsShardMap(shards'[x])
      /\ HomeShard'
      /\ \A x \in Shards : \A y \in DOMAIN shards'[x] :
            \A p \in shards'[x][y] : p < podCount
  BY <1>3, <1>5, <1>6, <1>7, <1>8, ShardUpdate
<1>10. UNCHANGED <<alive, podCount, calls>>
  BY DEF EvictBlock
<1>11. CASE Len(todo[t]) = 1
  <2>1. Finish(t)
    BY <1>11 DEF EvictBlock
  <2>2. IndexTypeOK'
    BY <2>1, <1>9, <1>10, FinishLocals DEF IndexInv, IndexTypeOK
  <2>3. LocalsOK'
    BY <2>1, <1>10, FinishLocals DEF IndexInv, LocalsOK
  <2> QED
    BY <2>2, <2>3, <1>9, <1>10 DEF IndexInv, Covered
<1>12. CASE Len(todo[t]) # 1
  <2>1. /\ todo' = [todo EXCEPT ![t] = Tail(@)]
        /\ UNCHANGED <<pc, pod, cur, next, mask, seen>>
    BY <1>12 DEF EvictBlock
  <2>2. todo' \in [Threads -> Seq(Hashes)] /\ todo'[t] # <<>>
    BY <1>2, <1>12, <2>1 DEF IndexInv, IndexTypeOK
  <2>3. IndexTypeOK'
    BY <2>1, <2>2, <1>9, <1>10 DEF IndexInv, IndexTypeOK
  <2>4. LocalsOK'
    BY <2>1, <2>2, <1>1, <1>10 DEF IndexInv, IndexTypeOK, LocalsOK
  <2> QED
    BY <2>3, <2>4, <1>9, <1>10 DEF IndexInv, Covered
<1> QED
  BY <1>11, <1>12

\* mark_alive sets the bit of a pod the count covers.
LEMMA SetAliveInv ==
    ASSUME IndexInv, NEW t \in Threads, SetAlive(t)
    PROVE  IndexInv'
<1> USE IndexAssumption
<1>1. /\ pod[t] < podCount /\ Finish(t)
      /\ alive' = BitSet(alive, pod[t])
      /\ UNCHANGED <<shards, podCount, calls>>
  BY DEF SetAlive, IndexInv, LocalsOK
<1>2. alive' \in SUBSET Bits /\ \A p \in alive' : p < podCount
  BY <1>1 DEF BitSet, IndexInv, IndexTypeOK, Covered
<1>3. IndexTypeOK'
  BY <1>1, <1>2, FinishLocals DEF IndexInv, IndexTypeOK, IsShardMap
<1>4. LocalsOK'
  BY <1>1, FinishLocals DEF IndexInv, LocalsOK
<1> QED
  BY <1>1, <1>2, <1>3, <1>4 DEF IndexInv, HomeShard, Covered

\* A sweep only removes owners and entries, in the shard it is at.
LEMMA SweepShardInv ==
    ASSUME IndexInv, NEW t \in Threads, SweepShard(t)
    PROVE  IndexInv'
<1> USE IndexAssumption
<1> DEFINE here == next[t]
           entries == Retain(shards[here], mask[t])
<1>1. /\ pc[t] = "sweep" /\ here \in Shards /\ here < NumShards
      /\ IsShardMap(shards[here])
  BY DEF SweepShard, IndexInv, IndexTypeOK, LocalsOK, Shards
<1>2. shards' = [shards EXCEPT ![here] = entries]
  BY DEF SweepShard
<1>3. /\ IsShardMap(entries)
      /\ DOMAIN entries \subseteq DOMAIN shards[here]
      /\ \A x \in DOMAIN entries : entries[x] \subseteq shards[here][x]
  <2> HIDE DEF here
  <2> QED
    BY <1>1 DEF IsShardMap, Retain
<1>4. \A x \in DOMAIN entries : ShardFor[x] = here
  BY <1>1, <1>3 DEF IndexInv, HomeShard
<1>5. \A x \in DOMAIN entries : \A p \in entries[x] : p < podCount
  BY <1>1, <1>3 DEF IndexInv, Covered
<1> HIDE DEF entries
<1>6. /\ DOMAIN shards' = Shards
      /\ \A x \in Shards : IsShardMap(shards'[x])
      /\ HomeShard'
      /\ \A x \in Shards : \A y \in DOMAIN shards'[x] :
            \A p \in shards'[x][y] : p < podCount
  BY <1>1, <1>2, <1>3, <1>4, <1>5, ShardUpdate
<1>7. /\ next' = [next EXCEPT ![t] = @ + 1]
      /\ pc' = [pc EXCEPT ![t] = IF here + 1 = NumShards THEN "swept" ELSE "sweep"]
      /\ UNCHANGED <<alive, podCount, pod, todo, cur, mask, seen, calls>>
  BY <1>1 DEF SweepShard, Goto, IndexInv, IndexTypeOK
<1>8. /\ next' \in [Threads -> 0 .. NumShards]
      /\ pc' \in [Threads -> Labels]
  BY <1>1, <1>7 DEF IndexInv, IndexTypeOK, Labels, Observing
<1>9. IndexTypeOK'
  BY <1>6, <1>7, <1>8 DEF IndexInv, IndexTypeOK
<1>10. LocalsOK'
  BY <1>1, <1>7 DEF IndexInv, IndexTypeOK, LocalsOK
<1> QED
  BY <1>6, <1>7, <1>9, <1>10 DEF IndexInv, Covered

\* Reads change only the locals of their thread.
LEMMA ReadInv ==
    ASSUME IndexInv, NEW t \in Threads,
           ScanShard(t) \/ ReadOwners(t) \/ MaskAlive(t) \/ Return(t)
    PROVE  IndexInv'
<1> USE IndexAssumption
<1>1. UNCHANGED <<shards, alive, podCount, calls>>
  BY DEF ScanShard, ReadOwners, MaskAlive, Return, index
<1>2. HomeShard' /\ Covered'
  BY <1>1 DEF IndexInv, HomeShard, Covered
<1>3. CASE ScanShard(t)
  <2> DEFINE here == next[t]
             found == {<<h, shards[here][h]>> : h \in DOMAIN shards[here]}
  <2>1. /\ pc[t] = "scan" /\ here \in Shards /\ here < NumShards
        /\ IsShardMap(shards[here])
    BY <1>3 DEF ScanShard, IndexInv, IndexTypeOK, LocalsOK, Shards
  <2>2. found \in SUBSET (Hashes \X SUBSET Bits)
    BY <2>1 DEF IsShardMap
  <2>3. /\ next' = [next EXCEPT ![t] = @ + 1]
        /\ seen' = [seen EXCEPT ![t] = @ \cup found]
        /\ pc' = [pc EXCEPT ![t] = IF here + 1 = NumShards THEN "scanned" ELSE "scan"]
        /\ UNCHANGED <<pod, todo, cur, mask>>
    BY <1>3, <2>1 DEF ScanShard, Goto, IndexInv, IndexTypeOK
  <2> HIDE DEF found
  <2>4. /\ next' \in [Threads -> 0 .. NumShards]
        /\ pc' \in [Threads -> Labels]
    BY <2>1, <2>3 DEF IndexInv, IndexTypeOK, Labels, Observing
  <2>5. seen' \in [Threads -> SUBSET (Hashes \X SUBSET Bits)]
    BY <2>2, <2>3 DEF IndexInv, IndexTypeOK
  <2>6. IndexTypeOK'
    BY <1>1, <2>3, <2>4, <2>5 DEF IndexInv, IndexTypeOK, IsShardMap
  <2>7. LocalsOK'
    BY <1>1, <2>1, <2>3 DEF IndexInv, IndexTypeOK, LocalsOK
  <2> QED
    BY <1>2, <2>6, <2>7 DEF IndexInv
<1>4. CASE ReadOwners(t) \/ MaskAlive(t)
  <2>1. /\ pc[t] \in {"owners", "mask"} /\ todo[t] # <<>> /\ next[t] = 0
        /\ \/ pc' = [pc EXCEPT ![t] = "mask"]
           \/ pc' = [pc EXCEPT ![t] = "masked"]
        /\ UNCHANGED <<pod, todo, cur, next, seen>>
    BY <1>4 DEF ReadOwners, MaskAlive, Goto, IndexInv, LocalsOK
  <2>2. mask' \in [Threads -> SUBSET Bits]
    <3>1. CASE ReadOwners(t)
      <4>1. todo[t] \in Seq(Hashes) /\ todo[t][1] = Head(todo[t]) /\ todo[t][1] \in Hashes
        BY <2>1, HeadTailProperties DEF IndexInv, IndexTypeOK
      <4>2. IsShardMap(shards[ShardFor[todo[t][1]]])
        BY <4>1 DEF IndexInv, IndexTypeOK
      <4>3. Owners(shards[ShardFor[todo[t][1]]], todo[t][1]) \in SUBSET Bits
        BY <4>2, OwnersBits
      <4> QED
        BY <3>1, <4>3 DEF ReadOwners, IndexInv, IndexTypeOK
    <3>2. CASE MaskAlive(t)
      BY <3>2 DEF MaskAlive, IndexInv, IndexTypeOK
    <3> QED
      BY <1>4, <3>1, <3>2
  <2>3. pc' \in [Threads -> Labels]
    BY <2>1 DEF IndexInv, IndexTypeOK, Labels, Observing
  <2>4. IndexTypeOK'
    BY <1>1, <2>1, <2>2, <2>3 DEF IndexInv, IndexTypeOK, IsShardMap
  <2>5. LocalsOK'
    BY <1>1, <2>1 DEF IndexInv, IndexTypeOK, LocalsOK
  <2> QED
    BY <1>2, <2>4, <2>5 DEF IndexInv
<1>5. CASE Return(t)
  <2>1. Finish(t)
    BY <1>5 DEF Return
  <2>2. IndexTypeOK'
    BY <1>1, <2>1, FinishLocals DEF IndexInv, IndexTypeOK, IsShardMap
  <2>3. LocalsOK'
    BY <1>1, <2>1, FinishLocals DEF IndexInv, LocalsOK
  <2> QED
    BY <1>2, <2>2, <2>3 DEF IndexInv
<1> QED
  BY <1>3, <1>4, <1>5

\* Every step of every thread preserves the invariant of the index.
LEMMA NextIndexInv == IndexInv /\ [Next]_vars => IndexInv'
<1> SUFFICES ASSUME IndexInv, [Next]_vars PROVE IndexInv'
  OBVIOUS
<1>1. CASE Next
  <2>1. PICK t \in Threads : Begin(t) \/ Proceed(t)
    BY <1>1 DEF Next
  <2> QED
    BY <2>1, BeginInv, ObservePodInv, RegisterBlockInv, SetAliveInv, EvictBlockInv,
       SweepShardInv, ReadInv DEF Proceed
<1>2. CASE UNCHANGED vars
  BY <1>2 DEF vars, index, locals, IndexInv, IndexTypeOK, IsShardMap, HomeShard, LocalsOK, Covered
<1> QED
  BY <1>1, <1>2

\* The invariant holds whatever the threads do.
THEOREM IndexInvHolds == Spec => []IndexInv
  BY InitIndexInv, NextIndexInv, PTL DEF Spec

-----------------------------------------------------------------------------
(* The theorems.                                                           *)

\* The histories are sets of pairs and of pods: what the index holds is.
LEMMA NextHistory ==
    ASSUME IndexInv, IndexInv', HistoryTypeOK, [Next]_vars
    PROVE  HistoryTypeOK'
<1>1. Owned \in SUBSET (Bits \X Hashes) /\ Owned' \in SUBSET (Bits \X Hashes)
  BY DEF Owned
<1>2. alive \in SUBSET Bits /\ alive' \in SUBSET Bits
  BY DEF IndexInv, IndexTypeOK
<1>3. CASE Next
  BY <1>1, <1>2, <1>3 DEF Next, Observe, HistoryTypeOK
<1>4. CASE UNCHANGED vars
  BY <1>4 DEF vars, history, HistoryTypeOK
<1> QED
  BY <1>3, <1>4

\* Every variable of the index and of the history keeps its type, and every
\* call the locals its step reads, whatever the threads do.
THEOREM TypeHolds == Spec => []TypeOK
<1>1. Init => HistoryTypeOK
  BY DEF Init, HistoryTypeOK
<1> QED
  BY <1>1, IndexInvHolds, NextHistory, PTL DEF Spec, TypeOK, IndexInv

\* pod_count is above every pod that owns a block or is alive.
THEOREM PodCountHolds == Spec => []PodCountCovers
<1>1. IndexInv => PodCountCovers
  BY DEF IndexInv, Covered, PodCountCovers, Owned
<1> QED
  BY <1>1, IndexInvHolds, PTL

-----------------------------------------------------------------------------
(* What a step of one thread does to another.                              *)

\* The locals of a thread change by its own steps only.
LEMMA OthersUntouched ==
    ASSUME IndexInv, NEW u \in Threads, Begin(u) \/ Proceed(u), NEW t \in Threads, t # u
    PROVE  /\ pc'[t] = pc[t] /\ todo'[t] = todo[t] /\ next'[t] = next[t]
           /\ mask'[t] = mask[t] /\ seen'[t] = seen[t] /\ pod'[t] = pod[t]
<1> USE DEF IndexInv, IndexTypeOK, Goto
<1>1. CASE Begin(u)
  BY <1>1 DEF Begin, RegisterChain, MarkAlive, EvictChain, Shutdown, CleanupDeadPod,
     CleanupNotAlive, Clear, Scan, OwnersAlive, Call, locals
<1>2. CASE LoadCount(u) \/ CasOk(u) \/ CasErr(u)
  BY <1>2 DEF LoadCount, CasOk, CasErr, ObserveLoop
<1>3. CASE RegisterBlock(u)
  BY <1>3 DEF RegisterBlock, Finish
<1>4. CASE EvictBlock(u)
  BY <1>4 DEF EvictBlock, Finish
<1>5. CASE SetAlive(u) \/ Return(u)
  BY <1>5 DEF SetAlive, Return, Finish
<1>6. CASE SweepShard(u) \/ ScanShard(u)
  BY <1>6 DEF SweepShard, ScanShard
<1>7. CASE ReadOwners(u) \/ MaskAlive(u)
  BY <1>7 DEF ReadOwners, MaskAlive
<1> QED
  BY <1>1, <1>2, <1>3, <1>4, <1>5, <1>6, <1>7 DEF Proceed

\* Which steps of a thread can leave it in an observing call, and what they
\* do to its locals: it begins one, or goes on with it.
LEMMA ObservingSteps ==
    ASSUME IndexInv, NEW t \in Threads, Begin(t) \/ Proceed(t), pc'[t] \in Observing
    PROVE  \/ /\ pc[t] = "idle" /\ pc'[t] \in {"sweep", "scan", "owners"}
              /\ next'[t] = next[t] /\ seen'[t] = seen[t]
              /\ UNCHANGED <<shards, alive>>
           \/ SweepShard(t) \/ ScanShard(t) \/ ReadOwners(t) \/ MaskAlive(t)
<1> USE DEF IndexInv, IndexTypeOK, Goto, Observing
<1>1. CASE RegisterChain(t) \/ MarkAlive(t) \/ EvictChain(t) \/ Shutdown(t)
  BY <1>1 DEF RegisterChain, MarkAlive, EvictChain, Shutdown, Call, locals
<1>2. CASE CleanupDeadPod(t) \/ CleanupNotAlive(t) \/ Clear(t) \/ Scan(t) \/ OwnersAlive(t)
  BY <1>2 DEF CleanupDeadPod, CleanupNotAlive, Clear, Scan, OwnersAlive, Call, index
<1>3. CASE LoadCount(t) \/ CasOk(t) \/ CasErr(t)
  BY <1>3 DEF LoadCount, CasOk, CasErr, ObserveLoop, Observed
<1>4. CASE RegisterBlock(t) \/ EvictBlock(t)
  BY <1>4 DEF RegisterBlock, EvictBlock, Finish
<1>5. CASE SetAlive(t) \/ Return(t)
  BY <1>5 DEF SetAlive, Return, Finish
<1> QED
  BY <1>1, <1>2, <1>3, <1>4, <1>5 DEF Begin, Proceed

\* A thread that is not scanning has collected nothing.
LEMMA SeenEmptied ==
    ASSUME IndexInv, NEW t \in Threads, Begin(t) \/ Proceed(t),
           pc[t] \notin {"scan", "scanned"} => seen[t] = {},
           pc'[t] \notin {"scan", "scanned"}
    PROVE  seen'[t] = {}
<1> USE DEF IndexInv, IndexTypeOK, Goto
<1>1. CASE Begin(t)
  BY <1>1 DEF Begin, RegisterChain, MarkAlive, EvictChain, Shutdown, CleanupDeadPod,
     CleanupNotAlive, Clear, Scan, OwnersAlive, Call, locals
<1>2. CASE LoadCount(t) \/ CasOk(t) \/ CasErr(t)
  BY <1>2 DEF LoadCount, CasOk, CasErr, ObserveLoop
<1>3. CASE RegisterBlock(t) \/ EvictBlock(t)
  BY <1>3 DEF RegisterBlock, EvictBlock, Finish
<1>4. CASE SetAlive(t) \/ Return(t)
  BY <1>4 DEF SetAlive, Return, Finish
<1>5. CASE SweepShard(t) \/ ScanShard(t)
  BY <1>5 DEF SweepShard, ScanShard
<1>6. CASE ReadOwners(t) \/ MaskAlive(t)
  BY <1>6 DEF ReadOwners, MaskAlive
<1> QED
  BY <1>1, <1>2, <1>3, <1>4, <1>5, <1>6 DEF Proceed

\* While a thread observes, the pairs held throughout only shrink and stay
\* owned, the pairs met only grow and have what is owned; so for the pods up.
LEMMA HistorySteps ==
    ASSUME HistoryTypeOK, Observe, NEW t \in Threads, pc'[t] \in Observing
    PROVE  /\ pc[t] # "idle" => /\ held'[t] = held[t] \cap Owned'
                                /\ met'[t] = met[t] \cup Owned'
                                /\ up'[t] = up[t] \cap alive'
                                /\ upOnce'[t] = upOnce[t] \cup alive'
           /\ pc[t] = "idle" => held'[t] = Owned /\ met'[t] = Owned
  BY DEF Observe

\* What is owned is owned in the shard of the hash.
LEMMA OwnedAtHome ==
    ASSUME IndexInv, NEW p \in Bits, NEW h \in Hashes
    PROVE  <<p, h>> \in Owned <=> /\ h \in DOMAIN shards[ShardFor[h]]
                                  /\ p \in shards[ShardFor[h]][h]
<1>1. ShardFor[h] \in Shards
  BY IndexAssumption
<1> QED
  BY <1>1 DEF Owned, IndexInv, HomeShard

-----------------------------------------------------------------------------
(* Sweeps.                                                                 *)

\* A sweep step passes one more shard, and nothing it had to remove is left
\* in that shard; no step of another thread brings back a pair held.
LEMMA SweepStep ==
    ASSUME IndexInv, IndexInv', HistoryTypeOK, SweepComplete, [Next]_vars
    PROVE  SweepComplete'
<1>1. CASE Next
  <2>1. PICK u \in Threads : Begin(u) \/ Proceed(u)
    BY <1>1 DEF Next
  <2>2. Observe
    BY <1>1 DEF Next
  <2> SUFFICES ASSUME NEW t \in Threads, pc'[t] \in {"sweep", "swept"},
                      NEW e \in held'[t], ShardFor[e[2]] < next'[t]
               PROVE  e[1] \in mask'[t]
    BY DEF SweepComplete
  <2>3. pc'[t] \in Observing
    BY DEF Observing
  <2>4. CASE t # u
    <3>1. pc[t] \in {"sweep", "swept"} /\ next'[t] = next[t] /\ mask'[t] = mask[t]
      BY <2>1, <2>4, OthersUntouched
    <3>2. e \in held[t]
      BY <2>2, <2>3, <3>1, HistorySteps
    <3> QED
      BY <3>1, <3>2 DEF SweepComplete
  <2>5. CASE t = u
    <3>1. CASE pc[t] = "idle" /\ next'[t] = next[t]
      <4>1. next[t] = 0
        BY <3>1 DEF IndexInv, LocalsOK
      <4>2. e \in Bits \X Hashes
        BY <2>2, <2>3, <3>1, HistorySteps DEF Owned
      <4>3. ShardFor[e[2]] \in Nat
        BY <4>2, IndexAssumption DEF Shards
      <4> QED
        BY <3>1, <4>1, <4>3
    <3>2. CASE SweepShard(t)
      <4>1. /\ pc[t] = "sweep" /\ next[t] \in Shards /\ next'[t] = next[t] + 1
            /\ mask'[t] = mask[t]
            /\ shards'[next[t]] = Retain(shards[next[t]], mask[t])
        BY <3>2, IndexAssumption DEF SweepShard, IndexInv, IndexTypeOK, LocalsOK, Shards
      <4>2. e \in held[t] /\ e \in Owned' /\ e \in Bits \X Hashes
        BY <2>2, <2>3, <4>1, HistorySteps DEF HistoryTypeOK
      <4>3. ShardFor[e[2]] \in Nat /\ next[t] \in Nat
        BY <4>1, <4>2, IndexAssumption DEF Shards
      <4>4. CASE ShardFor[e[2]] < next[t]
        BY <4>1, <4>2, <4>4 DEF SweepComplete
      <4>5. CASE ShardFor[e[2]] = next[t]
        <5>1. PICK s \in Shards : e[2] \in DOMAIN shards'[s] /\ e[1] \in shards'[s][e[2]]
          BY <4>2 DEF Owned
        <5>2. s = next[t]
          BY <4>5, <5>1 DEF IndexInv, HomeShard
        <5> QED
          BY <4>1, <5>1, <5>2 DEF Retain
      <4> QED
        BY <4>1, <4>3, <4>4, <4>5
    <3>3. CASE ScanShard(t) \/ ReadOwners(t) \/ MaskAlive(t)
      BY <3>3 DEF ScanShard, ReadOwners, MaskAlive, Goto, IndexInv, IndexTypeOK
    <3> QED
      BY <2>1, <2>3, <2>5, <3>1, <3>2, <3>3, ObservingSteps
  <2> QED
    BY <2>4, <2>5
<1>2. CASE UNCHANGED vars
  BY <1>2 DEF vars, locals, history, SweepComplete
<1> QED
  BY <1>1, <1>2

\* cleanup_dead_pod, cleanup_not_alive and clear leave nothing they had to
\* remove in the shards they have passed, but what was registered meanwhile.
THEOREM SweepHolds == Spec => []SweepComplete
<1>1. Init => SweepComplete
  BY DEF Init, SweepComplete
<1>2. TypeOK => HistoryTypeOK
  BY DEF TypeOK
<1> QED
  BY <1>1, <1>2, IndexInvHolds, TypeHolds, SweepStep, PTL DEF Spec

-----------------------------------------------------------------------------
(* block_owners.                                                           *)

\* ScanRegular at every step of a scan: it holds of the shards passed.
ScanInv ==
    \A t \in Threads :
        /\ pc[t] \notin {"scan", "scanned"} => seen[t] = {}
        /\ pc[t] = "scanned" => next[t] = NumShards
        /\ pc[t] \in {"scan", "scanned"} =>
              /\ \A e \in held[t] : ShardFor[e[2]] < next[t] =>
                    \E x \in seen[t] : x[1] = e[2] /\ e[1] \in x[2]
              /\ \A x \in seen[t] : \A p \in x[2] : <<p, x[1]>> \in met[t]
              /\ \A x \in seen[t] : ShardFor[x[1]] < next[t]
              /\ \A x, y \in seen[t] : x[1] = y[1] => x = y

\* A scan step adds one shard, whose hashes are in no other; no step of
\* another thread adds to what was held or takes from what was met.
LEMMA ScanStep ==
    ASSUME IndexInv, IndexInv', HistoryTypeOK, ScanInv, [Next]_vars
    PROVE  ScanInv'
<1>1. CASE Next
  <2>1. PICK u \in Threads : Begin(u) \/ Proceed(u)
    BY <1>1 DEF Next
  <2>2. Observe
    BY <1>1 DEF Next
  <2>3. \A t \in Threads \ {u} :
           /\ pc'[t] = pc[t] /\ next'[t] = next[t] /\ seen'[t] = seen[t]
    BY <2>1, OthersUntouched
  <2>4. ASSUME NEW t \in Threads, pc'[t] \notin {"scan", "scanned"} PROVE seen'[t] = {}
    <3>1. CASE t # u
      BY <2>3, <2>4, <3>1 DEF ScanInv
    <3>2. CASE t = u
      BY <2>1, <2>4, <3>2, SeenEmptied DEF ScanInv
    <3> QED
      BY <3>1, <3>2
  <2>5. ASSUME NEW t \in Threads, pc'[t] \in {"scan", "scanned"}
        PROVE  /\ pc'[t] = "scanned" => next'[t] = NumShards
               /\ \A e \in held'[t] : ShardFor[e[2]] < next'[t] =>
                     \E x \in seen'[t] : x[1] = e[2] /\ e[1] \in x[2]
               /\ \A x \in seen'[t] : \A p \in x[2] : <<p, x[1]>> \in met'[t]
               /\ \A x \in seen'[t] : ShardFor[x[1]] < next'[t]
               /\ \A x, y \in seen'[t] : x[1] = y[1] => x = y
    <3>1. pc'[t] \in Observing
      BY <2>5 DEF Observing
    <3>2. CASE t # u
      <4>1. pc[t] \in {"scan", "scanned"} /\ held'[t] \subseteq held[t] /\ met[t] \subseteq met'[t]
        BY <2>2, <2>3, <2>5, <3>1, <3>2, HistorySteps
      <4> QED
        BY <2>3, <3>2, <4>1 DEF ScanInv
    <3>3. CASE t = u /\ pc[t] = "idle" /\ pc'[t] = "scan" /\ next'[t] = next[t] /\ seen'[t] = seen[t]
      <4>1. next'[t] = 0 /\ seen'[t] = {}
        BY <3>3 DEF IndexInv, LocalsOK, ScanInv
      <4>2. held'[t] \subseteq Bits \X Hashes
        BY <2>2, <3>1, <3>3, HistorySteps DEF Owned
      <4>3. \A e \in held'[t] : ShardFor[e[2]] \in Nat
        BY <4>2, IndexAssumption DEF Shards
      <4> QED
        BY <3>3, <4>1, <4>3
    <3>4. CASE ScanShard(t)
      <4> DEFINE here == next[t]
                 m == shards[here]
                 found == {<<h, m[h]>> : h \in DOMAIN m}
      <4>1. /\ pc[t] = "scan" /\ here \in Shards /\ next'[t] = here + 1
            /\ seen'[t] = seen[t] \cup found
            /\ UNCHANGED shards
            /\ pc'[t] = "scanned" => next'[t] = NumShards
        BY <3>4, IndexAssumption
        DEF ScanShard, Goto, index, IndexInv, IndexTypeOK, LocalsOK, Shards
      <4>2. /\ IsShardMap(m) /\ \A h \in DOMAIN m : ShardFor[h] = here
        BY <4>1 DEF IndexInv, IndexTypeOK, HomeShard
      <4>3. held'[t] = held[t] \cap Owned' /\ met'[t] = met[t] \cup Owned'
        BY <2>2, <3>1, <4>1, HistorySteps
      <4>4. held[t] \subseteq Bits \X Hashes /\ here \in Nat
        BY <4>1 DEF HistoryTypeOK, Shards
      <4>5. \A x \in seen[t] : ShardFor[x[1]] < here /\ ShardFor[x[1]] \in Nat
        <5>1. \A x \in seen[t] : ShardFor[x[1]] < here
          BY <4>1 DEF ScanInv
        <5>2. seen[t] \in SUBSET (Hashes \X SUBSET Bits)
          BY DEF IndexInv, IndexTypeOK
        <5>3. \A x \in seen[t] : x[1] \in Hashes
          BY <5>2
        <5>4. \A x \in seen[t] : ShardFor[x[1]] \in Nat
          BY <5>3, IndexAssumption DEF Shards
        <5> QED
          BY <5>1, <5>4
      <4>6. \A e \in held'[t] : ShardFor[e[2]] < here + 1 =>
               \E x \in seen'[t] : x[1] = e[2] /\ e[1] \in x[2]
        <5> SUFFICES ASSUME NEW e \in held'[t], ShardFor[e[2]] < here + 1
                     PROVE  \E x \in seen'[t] : x[1] = e[2] /\ e[1] \in x[2]
          OBVIOUS
        <5>1. e \in held[t] /\ e \in Owned' /\ ShardFor[e[2]] \in Nat
          BY <4>3, <4>4, IndexAssumption DEF Shards
        <5>2. CASE ShardFor[e[2]] < here
          <6>1. PICK x \in seen[t] : x[1] = e[2] /\ e[1] \in x[2]
            BY <4>1, <5>1, <5>2 DEF ScanInv
          <6> QED
            BY <4>1, <6>1
        <5>3. CASE ShardFor[e[2]] = here
          <6>1. PICK s \in Shards : e[2] \in DOMAIN shards[s] /\ e[1] \in shards[s][e[2]]
            BY <4>1, <5>1 DEF Owned
          <6>2. s = here
            BY <5>3, <6>1 DEF IndexInv, HomeShard
          <6>3. <<e[2], m[e[2]]>> \in seen'[t]
            BY <4>1, <6>1, <6>2
          <6> QED
            BY <6>1, <6>2, <6>3
        <5> QED
          BY <4>4, <5>1, <5>2, <5>3
      <4>7. \A x \in found : \A p \in x[2] : <<p, x[1]>> \in Owned'
        BY <4>1, <4>2 DEF Owned, IsShardMap
      <4>8. \A x \in seen'[t] : \A p \in x[2] : <<p, x[1]>> \in met'[t]
        BY <4>1, <4>3, <4>7 DEF ScanInv
      <4>9. \A x \in found : ShardFor[x[1]] = here
        BY <4>2
      <4>10. \A x \in seen'[t] : ShardFor[x[1]] < here + 1
        BY <4>1, <4>4, <4>5, <4>9
      <4>11. \A x, y \in found : x[1] = y[1] => x = y
        OBVIOUS
      <4>12. \A x, y \in seen[t] : x[1] = y[1] => x = y
        BY <4>1 DEF ScanInv
      <4> HIDE DEF found
      <4>13. \A x, y \in seen'[t] : x[1] = y[1] => x = y
        BY <4>1, <4>4, <4>5, <4>9, <4>11, <4>12
      <4> QED
        BY <4>1, <4>6, <4>8, <4>10, <4>13
    <3>5. CASE SweepShard(t) \/ ReadOwners(t) \/ MaskAlive(t)
      BY <2>5, <3>5 DEF SweepShard, ReadOwners, MaskAlive, Goto, IndexInv, IndexTypeOK
    <3> QED
      BY <2>1, <2>5, <3>1, <3>2, <3>3, <3>4, <3>5, ObservingSteps
  <2> QED
    BY <2>4, <2>5 DEF ScanInv
<1>2. CASE UNCHANGED vars
  BY <1>2 DEF vars, locals, history, ScanInv
<1> QED
  BY <1>1, <1>2

\* block_owners lists every pair owned throughout the call, only pairs owned
\* at some time during it, and no hash twice.
THEOREM ScanHolds == Spec => []ScanRegular
<1>1. Init => ScanInv
  BY DEF Init, ScanInv
<1>2. TypeOK => HistoryTypeOK
  BY DEF TypeOK
<1>3. IndexInv /\ HistoryTypeOK /\ ScanInv => ScanRegular
  <2> SUFFICES ASSUME HistoryTypeOK, ScanInv, NEW t \in Threads, pc[t] = "scanned"
               PROVE  /\ \A e \in held[t] : \E x \in seen[t] : x[1] = e[2] /\ e[1] \in x[2]
                      /\ \A x \in seen[t] : \A p \in x[2] : <<p, x[1]>> \in met[t]
                      /\ \A x, y \in seen[t] : x[1] = y[1] => x = y
    BY DEF ScanRegular
  <2>1. \A e \in held[t] : ShardFor[e[2]] < next[t]
    BY IndexAssumption DEF HistoryTypeOK, ScanInv, Shards
  <2> QED
    BY <2>1 DEF ScanInv
<1> QED
  BY <1>1, <1>2, <1>3, IndexInvHolds, TypeHolds, ScanStep, PTL DEF Spec

-----------------------------------------------------------------------------
(* owners_alive.                                                           *)

\* OwnersAliveRegular at every step of the call: first of the owners read,
\* then of the alive pods among them.
OwnersInv ==
    \A t \in Threads : pc[t] \in {"mask", "masked"} =>
        LET h == todo[t][1] IN
        /\ \A p \in Bits : <<p, h>> \in held[t] /\ (pc[t] = "masked" => p \in up[t]) => p \in mask[t]
        /\ \A p \in mask[t] : <<p, h>> \in met[t]
        /\ pc[t] = "masked" => mask[t] \subseteq upOnce[t]

\* The owners are read while owned and masked while alive; what other threads
\* do in between moves a pair or a pod out of `held` or into `met`.
LEMMA OwnersStep ==
    ASSUME IndexInv, IndexInv', HistoryTypeOK, OwnersInv, [Next]_vars
    PROVE  OwnersInv'
<1>1. CASE Next
  <2>1. PICK u \in Threads : Begin(u) \/ Proceed(u)
    BY <1>1 DEF Next
  <2>2. Observe
    BY <1>1 DEF Next
  <2> SUFFICES ASSUME NEW t \in Threads, pc'[t] \in {"mask", "masked"}
               PROVE  /\ \A p \in Bits : <<p, todo'[t][1]>> \in held'[t]
                                           /\ (pc'[t] = "masked" => p \in up'[t]) => p \in mask'[t]
                      /\ \A p \in mask'[t] : <<p, todo'[t][1]>> \in met'[t]
                      /\ pc'[t] = "masked" => mask'[t] \subseteq upOnce'[t]
    BY DEF OwnersInv
  <2>3. pc'[t] \in Observing
    BY DEF Observing
  <2>4. pc[t] # "idle" => /\ held'[t] = held[t] \cap Owned'
                          /\ met'[t] = met[t] \cup Owned'
                          /\ up'[t] = up[t] \cap alive'
                          /\ upOnce'[t] = upOnce[t] \cup alive'
    BY <2>2, <2>3, HistorySteps
  <2>5. CASE t # u
    <3>1. pc'[t] = pc[t] /\ todo'[t] = todo[t] /\ mask'[t] = mask[t]
      BY <2>1, <2>5, OthersUntouched
    <3> QED
      BY <2>4, <3>1 DEF OwnersInv
  <2>6. CASE ReadOwners(t)
    <3>1. /\ pc[t] = "owners" /\ pc'[t] = "mask" /\ todo'[t] = todo[t]
          /\ mask'[t] = Owners(shards[ShardFor[todo[t][1]]], todo[t][1])
          /\ UNCHANGED shards
      BY <2>6 DEF ReadOwners, Goto, index, IndexInv, IndexTypeOK
    <3>2. todo[t] \in Seq(Hashes) /\ todo[t] # <<>>
      BY <3>1 DEF IndexInv, IndexTypeOK, LocalsOK
    <3>3. todo[t][1] = Head(todo[t]) /\ Head(todo[t]) \in Hashes
      BY <3>2, HeadTailProperties
    <3>4. \A p \in Bits : p \in mask'[t] <=> <<p, todo[t][1]>> \in Owned
      BY <3>1, <3>3, OwnedAtHome DEF Owners
    <3>5. Owned' = Owned
      BY <3>1 DEF Owned
    <3>6. mask'[t] \subseteq Bits
      BY DEF IndexInv, IndexTypeOK
    <3> QED
      BY <2>4, <3>1, <3>4, <3>5, <3>6
  <2>7. CASE MaskAlive(t)
    <3>1. /\ pc[t] = "mask" /\ pc'[t] = "masked" /\ todo'[t] = todo[t]
          /\ mask'[t] = mask[t] \cap alive
          /\ UNCHANGED <<shards, alive>>
      BY <2>7 DEF MaskAlive, Goto, index, IndexInv, IndexTypeOK
    <3> QED
      BY <2>4, <3>1 DEF OwnersInv
  <2>8. CASE SweepShard(t) \/ ScanShard(t)
    BY <2>8 DEF SweepShard, ScanShard, Goto, IndexInv, IndexTypeOK
  <2> QED
    BY <2>1, <2>3, <2>5, <2>6, <2>7, <2>8, ObservingSteps
<1>2. CASE UNCHANGED vars
  BY <1>2 DEF vars, locals, history, OwnersInv
<1> QED
  BY <1>1, <1>2

\* owners_alive returns every pod that owned the block and was alive during
\* the whole call, and only pods that owned it and were alive during it.
THEOREM OwnersAliveHolds == Spec => []OwnersAliveRegular
<1>1. Init => OwnersInv
  BY DEF Init, OwnersInv
<1>2. TypeOK => HistoryTypeOK
  BY DEF TypeOK
<1>3. HistoryTypeOK /\ OwnersInv => OwnersAliveRegular
  BY DEF HistoryTypeOK, OwnersInv, OwnersAliveRegular
<1> QED
  BY <1>1, <1>2, <1>3, IndexInvHolds, TypeHolds, OwnersStep, PTL DEF Spec
=============================================================================
