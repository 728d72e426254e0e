---------------------------- MODULE PrefixQuery ----------------------------
(***************************************************************************)
(* The prefix query: longest_prefix_lengths_into, which the routing        *)
(* pipeline uses, and best_prefix_match_for_candidates.                    *)
(*                                                                         *)
(* Both search the depths of all candidate pods at once.  A frame is a set *)
(* of pods whose depth is between two bounds; probing the block half way   *)
(* splits it.  The alive bitmap is copied once, the owners of a block are  *)
(* read when it is probed, and the registry changes between two probes.    *)
(*                                                                         *)
(* The frames are a sequence here; that SearchStack is one is shown in the *)
(* module SearchStack.  A result has a length for every pod: the callers   *)
(* make it as long as the highest candidate needs.                         *)
(***************************************************************************)
EXTENDS PrefixDepth

CONSTANTS Pods,     \* the pods of the registry
          Hashes,   \* cumulative block hashes
          Chains,   \* the hash chains that are queried
          Start,    \* what the pods may own to begin with
          Changes,  \* what other threads do: "register", "evict", "alive", "shutdown"
          Holes     \* whether they may leave a pod with a hole in a chain

\* No pod owns a block of a chain without all the blocks before it.
Closed(rel) ==
    \A p \in Pods, hs \in Chains : \A j \in 1 .. Len(hs) : \A i \in 1 .. j :
        <<p, hs[j]>> \in rel => <<p, hs[i]>> \in rel

ASSUME QueryAssumption ==
    /\ Pods \subseteq Nat
    /\ Chains \subseteq Seq(Hashes)
    /\ Start \subseteq SUBSET (Pods \X Hashes)
    /\ Holes \in BOOLEAN
    /\ Holes \/ \A rel \in Start : Closed(rel)

VARIABLES
    owned, alive,  \* the registry, as Ownership promises it
    pc,            \* "idle", "search" or "done"
    kind,          \* the query: "lengths" or "best"
    chain,         \* cumulative_hashes
    live,          \* alive_candidates
    stack,         \* the frames of the search, the top one last
    lengths,       \* result of longest_prefix_lengths_into
    best,          \* result of best_prefix_match_for_candidates
    held,          \* history: the pairs owned ever since the query began
    met            \* history: the pairs owned at some time since then

registry == <<owned, alive>>
query == <<pc, kind, chain, live, stack, lengths, best>>
history == <<held, met>>
vars == <<registry, query, history>>

Registry == INSTANCE Ownership WITH Bits <- Pods

None == -1

-----------------------------------------------------------------------------
(* What the searches are made of.                                          *)

\* Mutant: the highest pod instead of the lowest.
LastSetBit(pods) == CHOOSE p \in pods : \A q \in pods : p >= q

FirstSetBit(pods) == CHOOSE p \in pods : \A q \in pods : p <= q

Fallback(cands, aliveCands) ==
    IF aliveCands # {} THEN FirstSetBit(aliveCands)
    ELSE IF cands # {} THEN FirstSetBit(cands) ELSE None

Frame(lo, hi, pods) == [lo |-> lo, hi |-> hi, pods |-> pods]

\* A frame without pods is not pushed.
Push(s, lo, hi, pods) == IF pods = {} THEN s ELSE Append(s, Frame(lo, hi, pods))

Top == stack[Len(stack)]
Rest == SubSeq(stack, 1, Len(stack) - 1)

\* Mutant: the search goes down block by block.
ProbeLast(f) == f.hi

\* (min + max).div_ceil(2)
ProbeDepth(f) == (f.lo + f.hi + 1) \div 2

\* Mutant: one owner of the probed block stands for all pods of the frame.
OneForAll(f) == IF \E p \in f.pods : <<p, chain[ProbeDepth(f)]>> \in owned THEN f.pods ELSE {}

AtOrAbove(f) == {p \in f.pods : <<p, chain[ProbeDepth(f)]>> \in owned}

\* Mutants: pods above the probe are searched below it too; the probed depth
\* stays in the range below it, or the one below leaves it too; the search
\* above a hit is given up.
BelowAll(f) == f.pods
KeepProbe(f) == ProbeDepth(f)
DropTwo(f) == ProbeDepth(f) - 2
StopAtProbe(f) == ProbeDepth(f)

Below(f) == f.pods \ AtOrAbove(f)
BelowMax(f) == ProbeDepth(f) - 1
AboveMax(f) == f.hi

PushAbove(s, f) == Push(s, ProbeDepth(f), AboveMax(f), AtOrAbove(f))
PushBelow(s, f) == Push(s, f.lo, BelowMax(f), Below(f))

-----------------------------------------------------------------------------
(* The queries.                                                            *)

\* Requests and events have registered and evicted blocks before.
Init ==
    /\ owned \in Start
    /\ alive \in SUBSET Pods
    /\ pc = "idle"
    /\ kind = "lengths"
    /\ chain = <<>>
    /\ live = {}
    /\ stack = <<>>
    /\ lengths = [p \in Pods |-> 0]
    /\ best = [pod |-> None, depth |-> 0]
    /\ held = {}
    /\ met = {}

\* A query begins by reading the alive bitmap, and is over at once if there
\* is nothing to search.
Begin(k, hs, cands) ==
    /\ pc = "idle"
    /\ kind' = k
    /\ chain' = hs
    /\ live' = cands \cap alive
    /\ lengths' = [p \in Pods |-> 0]
    /\ best' = [pod |-> Fallback(cands, cands \cap alive), depth |-> 0]
    /\ IF hs = <<>> \/ cands \cap alive = {}
       THEN pc' = "done" /\ stack' = <<>>
       ELSE pc' = "search" /\ stack' = <<Frame(0, Len(hs), cands \cap alive)>>
    /\ held' = owned
    /\ met' = owned
    /\ UNCHANGED registry

\* A frame is popped; whether it is skipped, settled or probed depends on it.
Pops(k) == pc = "search" /\ kind = k /\ stack # <<>>

SettleLengths ==
    /\ Pops("lengths")
    /\ Top.lo = Top.hi
    /\ lengths' = [p \in Pods |-> IF p \in Top.pods THEN Top.lo ELSE lengths[p]]
    /\ stack' = Rest
    /\ UNCHANGED <<registry, pc, kind, chain, live, best, history>>

ProbeLengths ==
    /\ Pops("lengths")
    /\ Top.lo # Top.hi
    /\ stack' = PushBelow(PushAbove(Rest, Top), Top)
    /\ UNCHANGED <<registry, pc, kind, chain, live, lengths, best, history>>

\* The deepest frame first, and none that cannot do better than the best.
SkipBest ==
    /\ Pops("best")
    /\ Top.hi < best.depth
    /\ stack' = Rest
    /\ UNCHANGED <<registry, pc, kind, chain, live, lengths, best, history>>

SettleBest ==
    LET p == FirstSetBit(Top.pods)
        better == \/ Top.lo > best.depth
                  \/ Top.lo = best.depth /\ p < best.pod
    IN /\ Pops("best")
       /\ Top.hi >= best.depth
       /\ Top.lo = Top.hi
       /\ best' = IF better THEN [pod |-> p, depth |-> Top.lo] ELSE best
       /\ stack' = Rest
       /\ UNCHANGED <<registry, pc, kind, chain, live, lengths, history>>

\* A pod that has the last block ends the search.
FullMatch == ProbeDepth(Top) = Len(chain) /\ AtOrAbove(Top) # {}

ProbeBest ==
    /\ Pops("best")
    /\ Top.hi >= best.depth
    /\ Top.lo # Top.hi
    /\ ~FullMatch
    /\ stack' = PushAbove(PushBelow(Rest, Top), Top)
    /\ UNCHANGED <<registry, pc, kind, chain, live, lengths, best, history>>

FindFull ==
    /\ Pops("best")
    /\ Top.hi >= best.depth
    /\ Top.lo # Top.hi
    /\ FullMatch
    /\ best' = [pod |-> FirstSetBit(AtOrAbove(Top)), depth |-> Len(chain)]
    /\ stack' = <<>>
    /\ pc' = "done"
    /\ UNCHANGED <<registry, kind, chain, live, lengths, history>>

\* pop returns None: the loop is over.
Finish ==
    /\ pc = "search"
    /\ stack = <<>>
    /\ pc' = "done"
    /\ UNCHANGED <<registry, kind, chain, live, stack, lengths, best, history>>

\* The caller has used the result.
Return ==
    /\ pc = "done"
    /\ pc' = "idle"
    /\ kind' = "lengths"
    /\ chain' = <<>>
    /\ live' = {}
    /\ lengths' = [p \in Pods |-> 0]
    /\ best' = [pod |-> None, depth |-> 0]
    /\ held' = {}
    /\ met' = {}
    /\ UNCHANGED <<registry, stack>>

-----------------------------------------------------------------------------
\* Another thread changes the registry between two steps of the query.  When
\* chains are only registered from their first block on and only evicted from
\* their last (Gateway!PrefixClosed), no hole comes about.
Change ==
    /\ \/ "register" \in Changes /\ \E p \in Pods, h \in Hashes : Registry!Register(p, h)
       \/ "evict" \in Changes /\ \E p \in Pods, h \in Hashes : Registry!Evict(p, h)
       \/ "alive" \in Changes /\ \E p \in Pods : Registry!MarkAlive(p)
       \/ "shutdown" \in Changes /\ \E p \in Pods : Registry!Shutdown(p)
    /\ Holes \/ Closed(owned')
    /\ held' = held \cap owned'
    /\ met' = IF pc = "idle" THEN met ELSE met \cup owned'
    /\ UNCHANGED query

Search == \/ SettleLengths \/ ProbeLengths
          \/ SkipBest \/ SettleBest \/ ProbeBest \/ FindFull
          \/ Finish

Next == \/ \E k \in {"lengths", "best"}, hs \in Chains, cands \in SUBSET Pods : Begin(k, hs, cands)
        \/ Search
        \/ Return
        \/ Change

\* A query does not wait for anything.
Fairness == WF_vars(Search)

Spec == Init /\ [][Next]_vars
FairSpec == Spec /\ Fairness

-----------------------------------------------------------------------------
(* Properties.                                                             *)

Frames == [lo : Nat, hi : Nat, pods : SUBSET Pods]

\* Every variable holds a value of its Rust type, and every frame probes
\* inside the chain.
TypeOK ==
    /\ owned \subseteq Pods \X Hashes
    /\ alive \subseteq Pods
    /\ pc \in {"idle", "search", "done"}
    /\ kind \in {"lengths", "best"}
    /\ chain \in Seq(Hashes)
    /\ live \subseteq Pods
    /\ stack \in Seq(Frames)
    /\ \A i \in 1 .. Len(stack) : stack[i].lo <= stack[i].hi /\ stack[i].hi <= Len(chain)
    /\ lengths \in [Pods -> Nat]
    /\ best \in [pod : Pods \cup {None}, depth : Nat]
    /\ held \subseteq Pods \X Hashes
    /\ met \subseteq Pods \X Hashes

\* Frames never overlap, neither in their pods nor in their depths: no pod is
\* answered twice, and pods of the same depth are always in the same frame,
\* which is why taking its first set bit breaks ties by the lowest id.
FramesApart ==
    \A i, j \in 1 .. Len(stack) : i # j =>
        /\ stack[i].pods \cap stack[j].pods = {}
        /\ stack[i].hi < stack[j].lo \/ stack[j].hi < stack[i].lo

\* The first n blocks of the chain were all owned by p, each at some time
\* during the query; or each of them throughout.
Once(p, n) == \A i \in 1 .. n : <<p, chain[i]>> \in met
Throughout(p, n) == \A i \in 1 .. n : <<p, chain[i]>> \in held

\* The query never reports less than a pod owned throughout, whatever other
\* threads register and evict meanwhile.
DepthNotShort ==
    pc = "done" /\ kind = "lengths" /\ chain # <<>> =>
        \A p \in live : lengths[p] = Len(chain) \/ ~Throughout(p, lengths[p] + 1)

\* A match means that the pod has the whole prefix: every block up to the
\* reported depth was owned at some time during the query.
WholePrefix ==
    pc = "done" =>
        /\ kind = "lengths" => \A p \in Pods : Once(p, lengths[p])
        /\ kind = "best" => Once(best.pod, best.depth)

\* No alive candidate owned more of the chain throughout than the best match
\* is said to have, and none with a lower id owned as much.
BestRegular ==
    pc = "done" /\ kind = "best" /\ chain # <<>> =>
        \A p \in live :
            /\ best.depth = Len(chain) \/ ~Throughout(p, best.depth + 1)
            /\ p < best.pod => ~Throughout(p, best.depth)

\* The powers of two.
Pow2[n \in Nat] == IF n = 0 THEN 1 ELSE 2 * Pow2[n - 1]

\* Frames halve from the bottom of the stack to its top, so the stack has at
\* most two frames more than the length of the chain has halvings: 32 inline
\* frames suffice for any chain of less than 2^31 blocks.
StackShallow ==
    /\ \A i \in 1 .. Len(stack) - 1 : (stack[i].hi - stack[i].lo) * Pow2[i] <= Len(chain)
    /\ Len(stack) > 1 => /\ (Top.hi - Top.lo) * Pow2[Len(stack) - 1] <= Len(chain)
                         /\ Pow2[Len(stack) - 2] <= Len(chain)

\* When nobody changes the registry during a query, the search of all pods at
\* once gives each pod the depth of its own binary search, holes included, and
\* both queries agree: the best match is the pod with the greatest length, and
\* the lowest id among those.
QuietExact ==
    pc = "done" /\ held = met =>
        /\ kind = "lengths" =>
              \A p \in Pods : lengths[p] = CacheDepth(p, chain, owned, live)
        /\ kind = "best" /\ live # {} =>
              /\ best.pod \in live
              /\ best.depth = PrefixDepth(best.pod, chain, owned)
              /\ \A p \in live \ {best.pod} :
                    \/ PrefixDepth(p, chain, owned) < best.depth
                    \/ PrefixDepth(p, chain, owned) = best.depth /\ best.pod < p

\* A query returns, although other threads go on changing the registry.
QueryReturns == pc = "search" ~> pc = "done"
=============================================================================
