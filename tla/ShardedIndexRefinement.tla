------------------------ MODULE ShardedIndexRefinement ------------------------
(***************************************************************************)
(* The sharded, locked index implements the ownership relation of module   *)
(* Ownership, and keeps no entry without an owner, for every number of     *)
(* threads, pods, blocks and shards.                                       *)
(***************************************************************************)
EXTENDS ShardedIndexProofs

-----------------------------------------------------------------------------
(* Entries without an owner.                                               *)

\* With every pod id below MAX_PODS, a call in progress is for such a pod.
PodsFit == \A t \in Threads : pod[t] \in Bits

\* A call takes its pod from its caller and drops it when it returns.
LEMMA PodsFitStep ==
    ASSUME PodIds \subseteq Bits, IndexInv, PodsFit, [Next]_vars
    PROVE  PodsFit'
<1> USE DEF IndexInv, IndexTypeOK, PodsFit
<1>0. 0 \in Bits
  BY IndexAssumption DEF Bits
<1>1. CASE Next
  <2>1. PICK t \in Threads : Begin(t) \/ Proceed(t)
    BY <1>1 DEF Next
  <2>2. pod' = pod \/ \E p \in Bits : pod' = [pod EXCEPT ![t] = p]
    <3>1. CASE Begin(t)
      BY <1>0, <3>1 DEF Begin, RegisterChain, MarkAlive, EvictChain, Shutdown, CleanupDeadPod,
         CleanupNotAlive, Clear, Scan, OwnersAlive, Call, locals
    <3>2. CASE LoadCount(t) \/ CasOk(t) \/ CasErr(t)
      BY <3>2 DEF LoadCount, CasOk, CasErr
    <3>3. CASE RegisterBlock(t) \/ EvictBlock(t) \/ SetAlive(t) \/ Return(t)
      BY <1>0, <3>3 DEF RegisterBlock, EvictBlock, SetAlive, Return, Finish
    <3>4. CASE SweepShard(t) \/ ScanShard(t) \/ ReadOwners(t) \/ MaskAlive(t)
      BY <3>4 DEF SweepShard, ScanShard, ReadOwners, MaskAlive
    <3> QED
      BY <2>1, <3>1, <3>2, <3>3, <3>4 DEF Proceed
  <2> QED
    BY <2>2
<1>2. CASE UNCHANGED vars
  BY <1>2 DEF vars, locals
<1> QED
  BY <1>1, <1>2

\* Each step that writes a shard, by what it puts there: register an entry
\* with the bit of a pod that fits, evict and the sweeps no empty one.
LEMMA EmptyEntryStep ==
    ASSUME IndexInv, [Next]_vars
    PROVE  EmptyStep
<1> USE IndexAssumption DEF EmptyStep
<1>1. CASE Next
  <2>1. PICK t \in Threads : Begin(t) \/ Proceed(t)
    BY <1>1 DEF Next
  <2>2. CASE UNCHANGED shards
    BY <2>2
  <2>3. CASE RegisterBlock(t)
    <3> DEFINE h == Head(todo[t])
               s == ShardFor[h]
               b == Owners(shards[s], h)
               c == IF pod[t] \in b THEN b ELSE BitSet(b, pod[t])
    <3>1. DOMAIN shards = Shards /\ shards' = [shards EXCEPT ![s] = Put(@, h, c)]
      BY <2>3 DEF RegisterBlock, IndexInv, IndexTypeOK
    <3>2. c = {} => pod[t] \notin Bits
      BY DEF BitSet
    <3> HIDE DEF s, c
    <3>3. \A x \in Shards : \A y \in DOMAIN shards'[x] : shards'[x][y] = {} =>
             (y \in DOMAIN shards[x] /\ shards[x][y] = {}) \/ (c = {} /\ y = h)
      <4> HIDE DEF h
      <4> QED
        BY <3>1 DEF Put
    <3> QED
      BY <2>3, <3>2, <3>3
  <2>4. CASE EvictBlock(t)
    <3> DEFINE h == Head(todo[t])
               s == ShardFor[h]
               b == BitClear(Owners(shards[s], h), pod[t])
               m == IF h \notin DOMAIN shards[s] THEN shards[s]
                    ELSE IF b = {} THEN Remove(shards[s], h) ELSE Put(shards[s], h, b)
    <3>1. DOMAIN shards = Shards /\ shards' = [shards EXCEPT ![s] = m]
      BY <2>4 DEF EvictBlock, IndexInv, IndexTypeOK
    <3> HIDE DEF h, s, b
    <3>2. \A x \in DOMAIN m : m[x] = {} => x \in DOMAIN shards[s] /\ shards[s][x] = {}
      BY DEF Put, Remove
    <3> HIDE DEF m
    <3> QED
      BY <3>1, <3>2
  <2>5. CASE SweepShard(t)
    <3> DEFINE m == Retain(shards[next[t]], mask[t])
    <3>1. DOMAIN shards = Shards /\ shards' = [shards EXCEPT ![next[t]] = m]
      BY <2>5 DEF SweepShard, IndexInv, IndexTypeOK
    <3>2. \A x \in DOMAIN m : m[x] # {}
      BY DEF Retain
    <3> HIDE DEF m
    <3> QED
      BY <3>1, <3>2
  <2>6. CASE Begin(t)
    BY <2>2, <2>6 DEF Begin, RegisterChain, MarkAlive, EvictChain, Shutdown, CleanupDeadPod,
       CleanupNotAlive, Clear, Scan, OwnersAlive, Call, index
  <2>7. CASE \/ LoadCount(t) \/ CasOk(t) \/ CasErr(t) \/ SetAlive(t) \/ ScanShard(t)
             \/ ReadOwners(t) \/ MaskAlive(t) \/ Return(t)
    BY <2>2, <2>7 DEF LoadCount, CasOk, CasErr, SetAlive, ScanShard, ReadOwners, MaskAlive,
       Return, index
  <2> QED
    BY <2>1, <2>3, <2>4, <2>5, <2>6, <2>7 DEF Proceed
<1>2. CASE UNCHANGED vars
  BY <1>2 DEF vars, index
<1> QED
  BY <1>1, <1>2

\* Whatever the ids: an entry without owners comes from a register of an id
\* above the bitmap, never from an evict or a cleanup.
THEOREM EmptyByMisfitHolds == Spec => EmptyByMisfitOnly
<1>1. IndexInv /\ [Next]_vars => [EmptyStep]_vars
  BY EmptyEntryStep
<1> QED
  BY <1>1, IndexInvHolds, PTL DEF Spec, EmptyByMisfitOnly

\* No such register is possible when every id fits.
LEMMA NoEmptyStep ==
    ASSUME IndexInv, PodsFit, NoEmptyEntry, [Next]_vars
    PROVE  NoEmptyEntry'
<1>1. EmptyStep
  BY EmptyEntryStep
<1>2. \A t \in Threads : pod[t] \in Bits
  BY DEF PodsFit
<1> QED
  BY <1>1, <1>2 DEF EmptyStep, NoEmptyEntry

\* With every pod id below MAX_PODS, no entry without an owner stays in the
\* index.  (register of a pod id that does not fit leaves one.)
THEOREM NoEmptyEntryHolds ==
    ASSUME PodIds \subseteq Bits
    PROVE  Spec => []NoEmptyEntry
<1>1. Init => PodsFit /\ NoEmptyEntry
  BY IndexAssumption DEF Init, PodsFit, NoEmptyEntry, EmptyMap, Bits
<1>2. IndexInv /\ PodsFit /\ [Next]_vars => PodsFit'
  BY PodsFitStep
<1> QED
  BY <1>1, <1>2, IndexInvHolds, NoEmptyStep, PTL DEF Spec

-----------------------------------------------------------------------------
(* Refinement.                                                             *)

\* What a change of one shard does to the pairs of the index.
LEMMA OwnedAfter ==
    ASSUME IndexInv, IndexInv', NEW s \in Shards,
           \A x \in Shards \ {s} : shards'[x] = shards[x]
    PROVE  \A p \in Bits, h \in Hashes :
              <<p, h>> \in Owned' <=>
                 IF ShardFor[h] = s THEN h \in DOMAIN shards'[s] /\ p \in shards'[s][h]
                                    ELSE <<p, h>> \in Owned
<1> SUFFICES ASSUME NEW p \in Bits, NEW h \in Hashes
             PROVE  <<p, h>> \in Owned' <=>
                      IF ShardFor[h] = s THEN h \in DOMAIN shards'[s] /\ p \in shards'[s][h]
                                         ELSE <<p, h>> \in Owned
  OBVIOUS
<1>1. <<p, h>> \in Owned' <=> /\ h \in DOMAIN shards'[ShardFor[h]]
                              /\ p \in shards'[ShardFor[h]][h]
  <2>1. ShardFor[h] \in Shards
    BY IndexAssumption
  <2> QED
    BY <2>1 DEF Owned, IndexInv, HomeShard
<1>2. ShardFor[h] \in Shards
  BY IndexAssumption
<1> QED
  BY <1>1, <1>2, OwnedAtHome

\* register is Register of the pod, or nothing for a pod id that does not fit.
LEMMA RegisterRefines ==
    ASSUME IndexInv, IndexInv', NEW t \in Threads, RegisterBlock(t)
    PROVE  [Promise!Next]_(Promise!vars)
<1> DEFINE hash == Head(todo[t])
           home == ShardFor[hash]
<1>1. hash \in Hashes
  BY HeadTailProperties DEF RegisterBlock, IndexInv, IndexTypeOK, LocalsOK
<1>2. home \in Shards
  BY <1>1, IndexAssumption
<1>3. /\ \A x \in Shards \ {home} : shards'[x] = shards[x]
      /\ DOMAIN shards'[home] = DOMAIN shards[home] \cup {hash}
      /\ shards'[home][hash] = Owners(shards[home], hash) \cup ({pod[t]} \cap Bits)
      /\ \A x \in DOMAIN shards[home] \ {hash} : shards'[home][x] = shards[home][x]
      /\ UNCHANGED alive
  <2>1. IsShardMap(shards[home])
    BY <1>2 DEF IndexInv, IndexTypeOK
  <2>2. Owners(shards[home], hash) \in SUBSET Bits
    BY <2>1, OwnersBits
  <2> DEFINE b == Owners(shards[home], hash)
             new == IF pod[t] \in b THEN b ELSE BitSet(b, pod[t])
  <2>3. shards' = [shards EXCEPT ![home] = Put(shards[home], hash, new)] /\ UNCHANGED alive
    BY DEF RegisterBlock
  <2>4. new = b \cup ({pod[t]} \cap Bits)
    BY <2>2 DEF BitSet
  <2> HIDE DEF b, new
  <2>5. /\ \A x \in Shards \ {home} : shards'[x] = shards[x]
        /\ shards'[home] = Put(shards[home], hash, new)
    BY <1>2, <2>3 DEF IndexInv, IndexTypeOK
  <2>6. /\ DOMAIN shards'[home] = DOMAIN shards[home] \cup {hash}
        /\ shards'[home][hash] = new
        /\ \A x \in DOMAIN shards[home] \ {hash} : shards'[home][x] = shards[home][x]
    BY <2>5 DEF Put
  <2> QED
    BY <2>3, <2>4, <2>5, <2>6 DEF b
<1>4. Owned \subseteq Bits \X Hashes /\ Owned' \subseteq Bits \X Hashes
  BY DEF Owned
<1> HIDE DEF hash, home
<1>5. \A p \in Bits, h \in Hashes :
         <<p, h>> \in Owned' <=> <<p, h>> \in Owned \/ (p = pod[t] /\ h = hash)
  <2> SUFFICES ASSUME NEW p \in Bits, NEW h \in Hashes
               PROVE  <<p, h>> \in Owned' <=> <<p, h>> \in Owned \/ (p = pod[t] /\ h = hash)
    OBVIOUS
  <2>1. <<p, h>> \in Owned' <=>
           IF ShardFor[h] = home THEN h \in DOMAIN shards'[home] /\ p \in shards'[home][h]
                                 ELSE <<p, h>> \in Owned
    BY <1>2, <1>3, OwnedAfter
  <2>2. <<p, h>> \in Owned <=> h \in DOMAIN shards[ShardFor[h]] /\ p \in shards[ShardFor[h]][h]
    BY OwnedAtHome
  <2>3. ShardFor[hash] = home
    BY DEF home
  <2> QED
    BY <1>3, <2>1, <2>2, <2>3 DEF Owners
<1>6. CASE pod[t] \in Bits
  <2>1. Owned' = Owned \cup {<<pod[t], hash>>}
    BY <1>1, <1>4, <1>5, <1>6
  <2> QED
    BY <1>1, <1>3, <1>6, <2>1 DEF Promise!Next, Promise!Register
<1>7. CASE pod[t] \notin Bits
  <2>1. Owned' = Owned
    BY <1>4, <1>5, <1>7
  <2> QED
    BY <1>3, <2>1 DEF Promise!vars
<1> QED
  BY <1>6, <1>7

\* evict is Evict of the pod, or nothing for a pod that does not own the block.
LEMMA EvictRefines ==
    ASSUME IndexInv, IndexInv', NEW t \in Threads, EvictBlock(t)
    PROVE  [Promise!Next]_(Promise!vars)
<1> DEFINE hash == Head(todo[t])
           home == ShardFor[hash]
<1>1. hash \in Hashes
  BY HeadTailProperties DEF EvictBlock, IndexInv, IndexTypeOK, LocalsOK
<1>2. home \in Shards
  BY <1>1, IndexAssumption
<1>3. /\ \A x \in Shards \ {home} : shards'[x] = shards[x]
      /\ \A x \in Hashes \ {hash} : /\ x \in DOMAIN shards'[home] <=> x \in DOMAIN shards[home]
                                    /\ x \in DOMAIN shards[home] =>
                                          shards'[home][x] = shards[home][x]
      /\ \A p : hash \in DOMAIN shards'[home] /\ p \in shards'[home][hash] <=>
                   hash \in DOMAIN shards[home] /\ p \in shards[home][hash] /\ p # pod[t]
      /\ UNCHANGED alive
  BY <1>2 DEF EvictBlock, Put, Remove, Owners, BitClear, IndexInv, IndexTypeOK
<1>4. Owned \subseteq Bits \X Hashes /\ Owned' \subseteq Bits \X Hashes
  BY DEF Owned
<1> HIDE DEF hash, home
<1>5. \A p \in Bits, h \in Hashes :
         <<p, h>> \in Owned' <=> <<p, h>> \in Owned /\ ~(p = pod[t] /\ h = hash)
  <2> SUFFICES ASSUME NEW p \in Bits, NEW h \in Hashes
               PROVE  <<p, h>> \in Owned' <=> <<p, h>> \in Owned /\ ~(p = pod[t] /\ h = hash)
    OBVIOUS
  <2>1. <<p, h>> \in Owned' <=>
           IF ShardFor[h] = home THEN h \in DOMAIN shards'[home] /\ p \in shards'[home][h]
                                 ELSE <<p, h>> \in Owned
    BY <1>2, <1>3, OwnedAfter
  <2>2. <<p, h>> \in Owned <=> h \in DOMAIN shards[ShardFor[h]] /\ p \in shards[ShardFor[h]][h]
    BY OwnedAtHome
  <2>3. ShardFor[hash] = home
    BY DEF home
  <2> QED
    BY <1>3, <2>1, <2>2, <2>3
<1>6. CASE pod[t] \in Bits
  <2>1. Owned' = Owned \ {<<pod[t], hash>>}
    BY <1>1, <1>4, <1>5, <1>6
  <2> QED
    BY <1>1, <1>3, <1>6, <2>1 DEF Promise!Next, Promise!Evict
<1>7. CASE pod[t] \notin Bits
  <2>1. Owned' = Owned
    BY <1>4, <1>5, <1>7
  <2> QED
    BY <1>3, <2>1 DEF Promise!vars
<1> QED
  BY <1>6, <1>7

\* One shard of a sweep is Cleanup over the hashes of that shard.
LEMMA SweepRefines ==
    ASSUME IndexInv, IndexInv', NEW t \in Threads, SweepShard(t)
    PROVE  [Promise!Next]_(Promise!vars)
<1> DEFINE here == next[t]
           H == {h \in Hashes : ShardFor[h] = here}
<1>1. here \in Shards /\ mask[t] \in SUBSET Bits
  BY IndexAssumption DEF SweepShard, IndexInv, IndexTypeOK, LocalsOK, Shards
<1>2. /\ \A x \in Shards \ {here} : shards'[x] = shards[x]
      /\ shards'[here] = Retain(shards[here], mask[t])
      /\ UNCHANGED alive
  BY <1>1 DEF SweepShard, IndexInv, IndexTypeOK
<1>3. Owned \subseteq Bits \X Hashes /\ Owned' \subseteq Bits \X Hashes
  BY DEF Owned
<1> HIDE DEF here
<1>4. \A p \in Bits, h \in Hashes :
         <<p, h>> \in Owned' <=> <<p, h>> \in Owned /\ (h \in H => p \in mask[t])
  <2> SUFFICES ASSUME NEW p \in Bits, NEW h \in Hashes
               PROVE  <<p, h>> \in Owned' <=> <<p, h>> \in Owned /\ (h \in H => p \in mask[t])
    OBVIOUS
  <2>1. <<p, h>> \in Owned' <=>
           IF ShardFor[h] = here THEN h \in DOMAIN shards'[here] /\ p \in shards'[here][h]
                                 ELSE <<p, h>> \in Owned
    BY <1>1, <1>2, OwnedAfter
  <2>2. <<p, h>> \in Owned <=> h \in DOMAIN shards[ShardFor[h]] /\ p \in shards[ShardFor[h]][h]
    BY OwnedAtHome
  <2> QED
    BY <1>2, <2>1, <2>2 DEF Retain
<1>5. Owned' = {e \in Owned : e[2] \in H => e[1] \in mask[t]}
  BY <1>3, <1>4
<1>6. H \in SUBSET Hashes
  OBVIOUS
<1> HIDE DEF H
<1> QED
  BY <1>1, <1>2, <1>5, <1>6 DEF Promise!Next, Promise!Cleanup

\* The other steps change liveness only, or nothing of the index.
LEMMA OthersRefine ==
    ASSUME IndexInv, NEW t \in Threads,
           \/ Begin(t) \/ LoadCount(t) \/ CasOk(t) \/ CasErr(t) \/ SetAlive(t)
           \/ ScanShard(t) \/ ReadOwners(t) \/ MaskAlive(t) \/ Return(t)
    PROVE  [Promise!Next]_(Promise!vars)
<1>1. UNCHANGED shards
  BY DEF Begin, RegisterChain, MarkAlive, EvictChain, Shutdown, CleanupDeadPod,
     CleanupNotAlive, Clear, Scan, OwnersAlive, Call, index, LoadCount, CasOk, CasErr,
     SetAlive, ScanShard, ReadOwners, MaskAlive, Return
<1>2. UNCHANGED Owned
  BY <1>1 DEF Owned
<1>3. CASE SetAlive(t)
  <2>1. (alive' = alive \cup {pod[t]} /\ pod[t] \in Bits) \/ UNCHANGED alive
    BY <1>3 DEF SetAlive, BitSet
  <2> QED
    BY <1>2, <2>1 DEF Promise!vars, Promise!Next, Promise!MarkAlive
<1>4. CASE Shutdown(t)
  <2>1. PICK p \in PodIds : alive' = alive \ {p}
    BY <1>4 DEF Shutdown, BitClear
  <2>2. p \in Bits \/ UNCHANGED alive
    BY <2>1 DEF IndexInv, IndexTypeOK
  <2> QED
    BY <1>2, <2>1, <2>2 DEF Promise!vars, Promise!Next, Promise!Shutdown
<1>5. CASE UNCHANGED alive
  BY <1>2, <1>5 DEF Promise!vars
<1> QED
  BY <1>3, <1>4, <1>5 DEF Begin, RegisterChain, MarkAlive, EvictChain, CleanupDeadPod,
     CleanupNotAlive, Clear, Scan, OwnersAlive, Call, index, LoadCount, CasOk, CasErr,
     ScanShard, ReadOwners, MaskAlive, Return

\* To its callers, the sharded index under any interleaving of its threads is
\* a set of pairs and a set of alive pods, changed one promised step at a time.
THEOREM Refinement == Spec => ImplementsOwnership
<1>1. Init => Promise!Init
  BY IndexAssumption DEF Init, Promise!Init, Owned, EmptyMap, FullForCount
<1>2. ASSUME IndexInv, IndexInv', [Next]_vars
      PROVE  [Promise!Next]_(Promise!vars)
  <2>1. CASE Next
    <3>1. PICK t \in Threads : Begin(t) \/ Proceed(t)
      BY <2>1 DEF Next
    <3> QED
      BY <1>2, <3>1, RegisterRefines, EvictRefines, SweepRefines, OthersRefine DEF Proceed
  <2>2. CASE UNCHANGED vars
    BY <2>2 DEF vars, index, Promise!vars, Owned
  <2> QED
    BY <1>2, <2>1, <2>2
<1> QED
  BY <1>1, <1>2, IndexInvHolds, PTL DEF Spec, ImplementsOwnership, Promise!Spec

=============================================================================
