------------------------- MODULE PrefixQueryProofs -------------------------
(***************************************************************************)
(* Proofs about PrefixQuery, for any pods, chains and number of changes    *)
(* other threads make while a query runs.                                  *)
(*                                                                         *)
(* The invariant says what the bounds of a frame mean: the block at its    *)
(* lower bound was owned by its pods when it was probed, and the block     *)
(* after its upper bound was not, so it is not one they own throughout.    *)
(* Every live pod is in a frame or has such an answer.                     *)
(***************************************************************************)
EXTENDS PrefixQuery, ChainProofs

FrameOK(f) ==
    /\ f \in Frames
    /\ f.lo <= f.hi /\ f.hi <= Len(chain)
    /\ f.pods # {} /\ f.pods \subseteq live
    /\ kind = "best" => f.lo < Len(chain)
    /\ \A p \in f.pods : /\ f.lo > 0 => <<p, chain[f.lo]>> \in met
                         /\ f.hi < Len(chain) => <<p, chain[f.hi + 1]>> \notin held

Apart(f, g) ==
    /\ f.pods \cap g.pods = {}
    /\ f.hi < g.lo \/ g.hi < f.lo

GoodStack(s) ==
    /\ s \in Seq(Frames)
    /\ \A i \in 1 .. Len(s) : FrameOK(s[i])
    /\ \A i, j \in 1 .. Len(s) : i # j => Apart(s[i], s[j])

\* A pod that is still searched for.
Waiting(s, p) == \E i \in 1 .. Len(s) : p \in s[i].pods

\* A pod of which longest_prefix_lengths_into says enough, and one that
\* best_prefix_match_for_candidates need not look at again.
Answered(p) == lengths[p] < Len(chain) => <<p, chain[lengths[p] + 1]>> \notin held

Beaten(p) ==
    /\ best.depth < Len(chain) => ~Throughout(p, best.depth + 1)
    /\ p < best.pod => ~Throughout(p, best.depth)

VarsOK ==
    /\ owned \subseteq Pods \X Hashes
    /\ alive \subseteq Pods
    /\ pc \in {"idle", "search", "done"}
    /\ kind \in {"lengths", "best"}
    /\ chain \in Seq(Hashes)
    /\ live \subseteq Pods
    /\ lengths \in [Pods -> Nat]
    /\ best \in [pod : Pods \cup {None}, depth : Nat]
    /\ held \subseteq Pods \X Hashes
    /\ met \subseteq Pods \X Hashes

\* What the two histories say of the registry.
HistoryOK ==
    /\ pc # "idle" => held \subseteq owned /\ owned \subseteq met
    /\ pc # "idle" => chain \in Chains
    /\ ~Holes => Closed(owned) /\ Closed(met)

LengthsOK ==
    /\ \A p \in Pods : /\ lengths[p] <= Len(chain)
                       /\ lengths[p] > 0 => <<p, chain[lengths[p]]>> \in met
    /\ pc # "idle" /\ kind = "lengths" => \A p \in live : Waiting(stack, p) \/ Answered(p)

BestOK ==
    /\ best.depth <= Len(chain)
    /\ best.depth > 0 => best.pod \in Pods /\ <<best.pod, chain[best.depth]>> \in met
    /\ pc = "search" /\ kind = "best" => best.depth < Len(chain) /\ best.pod \in live
    /\ pc # "idle" /\ kind = "best" => \A p \in live : Waiting(stack, p) \/ Beaten(p)

QueryInv ==
    /\ VarsOK
    /\ HistoryOK
    /\ GoodStack(stack)
    /\ pc # "search" => stack = <<>>
    /\ LengthsOK
    /\ BestOK

-----------------------------------------------------------------------------
\* first_set_bit is the lowest bit of the bitmap.
LEMMA FirstSetBitLeast ==
    ASSUME NEW S \in SUBSET Nat, S # {}
    PROVE  FirstSetBit(S) \in S /\ \A q \in S : FirstSetBit(S) <= q
  BY LeastNat DEF FirstSetBit

\* What a query whose candidates are not all dead falls back to is alive.
LEMMA FallbackType ==
    ASSUME NEW cands \in SUBSET Pods, NEW aliveCands \in SUBSET cands
    PROVE  /\ Fallback(cands, aliveCands) \in Pods \cup {None}
           /\ aliveCands # {} => /\ Fallback(cands, aliveCands) \in aliveCands
                                 /\ \A q \in aliveCands : Fallback(cands, aliveCands) <= q
<1>1. cands \in SUBSET Nat /\ aliveCands \in SUBSET Nat
  BY QueryAssumption
<1> QED
  BY <1>1, FirstSetBitLeast DEF Fallback

\* The frames under the top of the stack.
LEMMA RestOfStack ==
    ASSUME stack \in Seq(Frames), stack # <<>>
    PROVE  /\ Len(stack) \in Nat /\ Len(stack) > 0
           /\ Top \in Frames
           /\ Rest \in Seq(Frames)
           /\ Len(Rest) = Len(stack) - 1
           /\ \A i \in 1 .. Len(Rest) : Rest[i] = stack[i]
<1> DEFINE n == Len(stack) - 1
<1>1. n \in Nat /\ n \in Int /\ 1 \in Int /\ Len(stack) = n + 1
  BY EmptySeq
<1>2. \A i \in 1 .. n : stack[i] \in Frames
  OBVIOUS
<1>3. Top \in Frames
  BY <1>1 DEF Top
<1>4. Rest = SubSeq(stack, 1, n)
  BY DEF Rest
<1> HIDE DEF n
<1>5. /\ Rest \in Seq(Frames)
      /\ Len(Rest) = IF 1 <= n THEN n - 1 + 1 ELSE 0
      /\ \A i \in 1 .. n - 1 + 1 : Rest[i] = stack[1 + i - 1]
  BY <1>1, <1>2, <1>4, SubSeqProperties
<1>6. /\ Rest \in Seq(Frames)
      /\ Len(Rest) = n
      /\ \A i \in 1 .. n : Rest[i] = stack[i]
  BY <1>1, <1>5
<1> QED
  BY <1>1, <1>3, <1>6

\* Popping leaves a good stack, whose frames are apart from the popped one.
LEMMA PopGood ==
    ASSUME GoodStack(stack), stack # <<>>
    PROVE  /\ FrameOK(Top)
           /\ GoodStack(Rest)
           /\ \A i \in 1 .. Len(Rest) : Apart(Top, Rest[i])
           /\ \A p : Waiting(stack, p) <=> Waiting(Rest, p) \/ p \in Top.pods
<1>1. /\ Len(stack) \in Nat /\ Len(stack) > 0
      /\ Rest \in Seq(Frames)
      /\ Len(Rest) = Len(stack) - 1
      /\ \A i \in 1 .. Len(Rest) : Rest[i] = stack[i]
  BY RestOfStack DEF GoodStack
<1>2. FrameOK(Top)
  BY <1>1 DEF GoodStack, Top
<1>3. GoodStack(Rest)
  BY <1>1 DEF GoodStack
<1>4. \A i \in 1 .. Len(Rest) : Apart(Top, Rest[i])
  BY <1>1 DEF GoodStack, Top
<1>5. ASSUME NEW p
      PROVE  Waiting(stack, p) <=> Waiting(Rest, p) \/ p \in Top.pods
  BY <1>1 DEF Waiting, Top
<1> QED
  BY <1>2, <1>3, <1>4, <1>5

\* Pushing a frame that is apart from the others leaves a good stack.
LEMMA PushGood ==
    ASSUME NEW s, GoodStack(s), NEW lo, NEW hi, NEW pods,
           pods # {} => FrameOK(Frame(lo, hi, pods)),
           \A i \in 1 .. Len(s) : Apart(Frame(lo, hi, pods), s[i])
    PROVE  /\ GoodStack(Push(s, lo, hi, pods))
           /\ \A p : Waiting(Push(s, lo, hi, pods), p) <=> Waiting(s, p) \/ p \in pods
           /\ \A g : (\A i \in 1 .. Len(s) : Apart(g, s[i])) /\ Apart(g, Frame(lo, hi, pods))
                     => \A i \in 1 .. Len(Push(s, lo, hi, pods)) : Apart(g, Push(s, lo, hi, pods)[i])
<1>1. CASE pods = {}
  BY <1>1 DEF Push
<1>2. CASE pods # {}
  <2> DEFINE f == Frame(lo, hi, pods)
             t == Append(s, f)
  <2>1. Push(s, lo, hi, pods) = t
    BY <1>2 DEF Push
  <2>2. f \in Frames /\ f.pods = pods /\ FrameOK(f)
    BY <1>2 DEF FrameOK, Frame
  <2>3. \A i \in 1 .. Len(s) : Apart(f, s[i]) /\ Apart(s[i], f)
    BY DEF Apart
  <2>4. s \in Seq(Frames)
    BY DEF GoodStack
  <2> HIDE DEF f
  <2>5. /\ t \in Seq(Frames)
        /\ Len(t) = Len(s) + 1 /\ Len(s) \in Nat
        /\ \A i \in 1 .. Len(s) : t[i] = s[i]
        /\ t[Len(s) + 1] = f
    BY <2>2, <2>4, AppendProperties
  <2> HIDE DEF t
  <2>6. \A i \in 1 .. Len(t) : i \in 1 .. Len(s) \/ i = Len(s) + 1
    BY <2>5
  <2>7. GoodStack(t)
    BY <2>2, <2>3, <2>5, <2>6 DEF GoodStack
  <2>8. ASSUME NEW p PROVE Waiting(t, p) <=> Waiting(s, p) \/ p \in pods
    BY <2>2, <2>5, <2>6 DEF Waiting
  <2>9. ASSUME NEW g, \A i \in 1 .. Len(s) : Apart(g, s[i]), Apart(g, f)
        PROVE  \A i \in 1 .. Len(t) : Apart(g, t[i])
    BY <2>5, <2>6, <2>9
  <2> QED
    BY <2>1, <2>7, <2>8, <2>9 DEF f
<1> QED
  BY <1>1, <1>2

\* Probing splits the popped frame in two: its pods stay in the search, each
\* in a frame whose bounds are what the probe told about it.
LEMMA SplitGood ==
    ASSUME GoodStack(stack), stack # <<>>, chain \in Seq(Hashes),
           held \subseteq owned, owned \subseteq met,
           Top.lo # Top.hi, kind = "best" => ~FullMatch,
           NEW s \in {PushBelow(PushAbove(Rest, Top), Top), PushAbove(PushBelow(Rest, Top), Top)}
    PROVE  /\ GoodStack(s)
           /\ \A p : Waiting(s, p) <=> Waiting(stack, p)
<1> DEFINE f == Top
           d == ProbeDepth(f)
           above == Frame(d, f.hi, AtOrAbove(f))
           below == Frame(f.lo, d - 1, Below(f))
<1>1. /\ FrameOK(f)
      /\ GoodStack(Rest)
      /\ \A i \in 1 .. Len(Rest) : Apart(f, Rest[i])
      /\ \A p : Waiting(stack, p) <=> Waiting(Rest, p) \/ p \in f.pods
  BY PopGood
<1>2. /\ f.lo \in Nat /\ f.hi \in Nat /\ Len(chain) \in Nat
      /\ f.pods \subseteq live
      /\ f.lo < f.hi /\ f.hi <= Len(chain)
  BY <1>1 DEF FrameOK, Frames
<1>3. d \in Nat /\ f.lo < d /\ d <= f.hi /\ d - 1 \in Nat
  BY <1>2 DEF ProbeDepth
<1>4. AtOrAbove(f) \cup Below(f) = f.pods /\ AtOrAbove(f) \cap Below(f) = {}
  BY DEF AtOrAbove, Below
<1>5. AtOrAbove(f) # {} => FrameOK(above)
  <2> SUFFICES ASSUME AtOrAbove(f) # {} PROVE FrameOK(above)
    OBVIOUS
  <2>1. kind = "best" => d < Len(chain)
    BY <1>2, <1>3 DEF FullMatch
  <2>2. ASSUME NEW p \in AtOrAbove(f)
        PROVE  /\ <<p, chain[d]>> \in met
               /\ f.hi < Len(chain) => <<p, chain[f.hi + 1]>> \notin held
    BY <1>1, <2>2 DEF AtOrAbove, FrameOK
  <2>3. AtOrAbove(f) \in SUBSET Pods /\ AtOrAbove(f) \subseteq live
    BY <1>1, <1>4 DEF FrameOK, Frames
  <2> HIDE DEF d, f
  <2> QED
    BY <1>2, <1>3, <2>1, <2>2, <2>3 DEF FrameOK, Frame, Frames
<1>6. Below(f) # {} => FrameOK(below)
  <2> SUFFICES ASSUME Below(f) # {} PROVE FrameOK(below)
    OBVIOUS
  <2>1. ASSUME NEW p \in Below(f)
        PROVE  /\ <<p, chain[d]>> \notin held
               /\ f.lo > 0 => <<p, chain[f.lo]>> \in met
    BY <1>1, <2>1 DEF Below, AtOrAbove, FrameOK
  <2>2. Below(f) \in SUBSET Pods /\ Below(f) \subseteq live
    BY <1>1, <1>4 DEF FrameOK, Frames
  <2>3. kind = "best" => f.lo < Len(chain)
    BY <1>1 DEF FrameOK
  <2> HIDE DEF d, f
  <2>4. (d - 1) + 1 = d
    BY <1>3
  <2> QED
    BY <1>2, <1>3, <2>1, <2>2, <2>3, <2>4 DEF FrameOK, Frame, Frames
<1>7. Apart(above, below) /\ Apart(below, above)
  <2> HIDE DEF d, f
  <2> QED
    BY <1>2, <1>3, <1>4 DEF Apart, Frame
<1>8. \A i \in 1 .. Len(Rest) : Apart(above, Rest[i]) /\ Apart(below, Rest[i])
  <2> SUFFICES ASSUME NEW i \in 1 .. Len(Rest)
               PROVE  Apart(above, Rest[i]) /\ Apart(below, Rest[i])
    OBVIOUS
  <2>1. Rest[i].lo \in Nat /\ Rest[i].hi \in Nat
    BY <1>1 DEF GoodStack, FrameOK, Frames
  <2>2. Apart(f, Rest[i])
    BY <1>1
  <2> HIDE DEF d, f
  <2> QED
    BY <1>2, <1>3, <1>4, <2>1, <2>2 DEF Apart, Frame
<1>9. /\ PushAbove(Rest, Top) = Push(Rest, d, f.hi, AtOrAbove(f))
      /\ PushBelow(Rest, Top) = Push(Rest, f.lo, d - 1, Below(f))
      /\ PushBelow(PushAbove(Rest, Top), Top) = Push(PushAbove(Rest, Top), f.lo, d - 1, Below(f))
      /\ PushAbove(PushBelow(Rest, Top), Top) = Push(PushBelow(Rest, Top), d, f.hi, AtOrAbove(f))
  BY DEF PushAbove, PushBelow, AboveMax, BelowMax
<1> HIDE DEF d, f
<1>10. /\ GoodStack(PushAbove(Rest, Top))
       /\ \A p : Waiting(PushAbove(Rest, Top), p) <=> Waiting(Rest, p) \/ p \in AtOrAbove(f)
       /\ \A i \in 1 .. Len(PushAbove(Rest, Top)) : Apart(below, PushAbove(Rest, Top)[i])
  BY <1>1, <1>5, <1>7, <1>8, <1>9, PushGood
<1>11. /\ GoodStack(PushBelow(Rest, Top))
       /\ \A p : Waiting(PushBelow(Rest, Top), p) <=> Waiting(Rest, p) \/ p \in Below(f)
       /\ \A i \in 1 .. Len(PushBelow(Rest, Top)) : Apart(above, PushBelow(Rest, Top)[i])
  BY <1>1, <1>6, <1>7, <1>8, <1>9, PushGood
<1>12. CASE s = PushBelow(PushAbove(Rest, Top), Top)
  <2>1. /\ GoodStack(s)
        /\ \A p : Waiting(s, p) <=> Waiting(PushAbove(Rest, Top), p) \/ p \in Below(f)
    BY <1>6, <1>9, <1>10, <1>12, PushGood
  <2> QED
    BY <1>1, <1>4, <1>10, <2>1
<1>13. CASE s = PushAbove(PushBelow(Rest, Top), Top)
  <2>1. /\ GoodStack(s)
        /\ \A p : Waiting(s, p) <=> Waiting(PushBelow(Rest, Top), p) \/ p \in AtOrAbove(f)
    BY <1>5, <1>9, <1>11, <1>13, PushGood
  <2> QED
    BY <1>1, <1>4, <1>11, <2>1
<1> QED
  BY <1>12, <1>13

\* While the query searches, only its stack and its results change: the frames
\* mean the same after the step.
LEMMA StackKept ==
    ASSUME GoodStack(stack'), UNCHANGED <<kind, chain, live, history>>
    PROVE  GoodStack(stack)'
  BY DEF GoodStack, FrameOK, history

-----------------------------------------------------------------------------
LEMMA InitInv == Init => QueryInv
<1> SUFFICES ASSUME Init PROVE QueryInv
  OBVIOUS
<1>1. VarsOK
  BY QueryAssumption DEF Init, VarsOK
<1>2. HistoryOK
  BY QueryAssumption DEF Init, HistoryOK, Closed
<1>3. stack = <<>> /\ GoodStack(stack)
  BY EmptySeq DEF Init, GoodStack
<1>4. LengthsOK /\ BestOK
  BY DEF Init, LengthsOK, BestOK
<1> QED
  BY <1>1, <1>2, <1>3, <1>4 DEF QueryInv

\* A query begins with one frame, of all alive candidates and all depths.
LEMMA BeginStep ==
    ASSUME QueryInv, NEW k \in {"lengths", "best"}, NEW hs \in Chains,
           NEW cands \in SUBSET Pods, Begin(k, hs, cands)
    PROVE  QueryInv'
<1>1. hs \in Seq(Hashes) /\ Len(hs) \in Nat /\ (hs # <<>> => Len(hs) > 0)
  BY QueryAssumption, EmptySeq
<1>2. /\ live' = cands \cap alive /\ chain' = hs /\ kind' = k
      /\ live' \in SUBSET cands /\ live' \in SUBSET Pods
      /\ best' = [pod |-> Fallback(cands, live'), depth |-> 0]
      /\ lengths' = [p \in Pods |-> 0]
      /\ UNCHANGED registry /\ held' = owned /\ met' = owned
  BY DEF Begin
<1>3. /\ best'.pod \in Pods \cup {None} /\ best'.depth = 0
      /\ live' # {} => best'.pod \in live' /\ \A q \in live' : best'.pod <= q
  BY <1>2, FallbackType
<1>4. VarsOK'
  BY <1>1, <1>2, <1>3 DEF Begin, QueryInv, VarsOK, registry
<1>5. HistoryOK'
  BY <1>2 DEF QueryInv, HistoryOK, Closed, registry
<1>6. CASE hs = <<>> \/ live' = {}
  <2>1. pc' = "done" /\ stack' = <<>>
    BY <1>2, <1>6 DEF Begin
  <2>2. GoodStack(stack)'
    BY <2>1, EmptySeq DEF GoodStack
  <2>3. Len(chain') = 0 \/ live' = {}
    BY <1>2, <1>6
  <2>4. LengthsOK'
    BY <1>1, <1>2, <2>1, <2>3 DEF LengthsOK, Answered
  <2>5. ASSUME NEW p \in live' PROVE ~(p < best'.pod) /\ ~(best'.depth < Len(chain'))
    <3>1. p \in Nat /\ best'.pod \in Nat /\ best'.pod <= p
      BY <1>2, <1>3, <2>5, QueryAssumption
    <3> QED
      BY <1>3, <2>3, <3>1
  <2>6. BestOK'
    <3>1. (\A p \in live : Beaten(p))'
      BY <2>5 DEF Beaten
    <3>2. pc' # "search" /\ best'.depth <= Len(chain') /\ ~(best'.depth > 0)
      BY <1>1, <1>2, <1>3, <2>1
    <3> QED
      BY <3>1, <3>2 DEF BestOK
  <2> QED
    BY <1>4, <1>5, <2>1, <2>2, <2>4, <2>6 DEF QueryInv
<1>7. CASE hs # <<>> /\ live' # {}
  <2> DEFINE f == Frame(0, Len(hs), live')
  <2>1. pc' = "search" /\ stack' = <<f>>
    BY <1>2, <1>7 DEF Begin
  <2>2. f \in Frames /\ f.lo = 0 /\ f.hi = Len(hs) /\ f.pods = live'
    BY <1>1, <1>2 DEF Frame, Frames
  <2> HIDE DEF f
  <2>3. Len(stack') = 1 /\ stack'[1] = f /\ stack' \in Seq(Frames)
    BY <2>1, <2>2
  <2>4. GoodStack(stack)'
    BY <1>1, <1>2, <1>7, <2>2, <2>3 DEF GoodStack, FrameOK
  <2>5. \A p \in live' : Waiting(stack', p)
    BY <2>2, <2>3 DEF Waiting
  <2>6. LengthsOK'
    BY <1>1, <1>2, <2>5 DEF LengthsOK
  <2>7. BestOK'
    BY <1>1, <1>2, <1>3, <1>7, <2>5 DEF BestOK
  <2> QED
    BY <1>4, <1>5, <2>1, <2>4, <2>6, <2>7 DEF QueryInv
<1> QED
  BY <1>6, <1>7

\* A frame of one depth answers for its pods.
LEMMA SettleLengthsStep ==
    ASSUME QueryInv, SettleLengths
    PROVE  QueryInv'
<1>1. /\ pc = "search" /\ kind = "lengths" /\ stack # <<>> /\ Top.lo = Top.hi
      /\ lengths' = [p \in Pods |-> IF p \in Top.pods THEN Top.lo ELSE lengths[p]]
      /\ stack' = Rest
      /\ UNCHANGED <<registry, pc, kind, chain, live, best, history>>
  BY DEF SettleLengths, Pops
<1>2. /\ FrameOK(Top)
      /\ GoodStack(Rest)
      /\ \A p : Waiting(stack, p) <=> Waiting(Rest, p) \/ p \in Top.pods
  BY <1>1, PopGood DEF QueryInv
<1>3. VarsOK'
  BY <1>1, <1>2 DEF QueryInv, VarsOK, FrameOK, Frames, registry, history
<1>4. HistoryOK'
  BY <1>1 DEF QueryInv, HistoryOK, Closed, registry, history
<1>5. GoodStack(stack)'
  BY <1>1, <1>2, StackKept
<1>6. LengthsOK'
  <2>1. ASSUME NEW p \in Pods
        PROVE  /\ lengths'[p] <= Len(chain)
               /\ lengths'[p] > 0 => <<p, chain[lengths'[p]]>> \in met
    BY <1>1, <1>2 DEF QueryInv, LengthsOK, FrameOK
  <2>2. ASSUME NEW p \in live
        PROVE  \/ Waiting(Rest, p)
               \/ lengths'[p] < Len(chain) => <<p, chain[lengths'[p] + 1]>> \notin held
    BY <1>1, <1>2 DEF QueryInv, VarsOK, LengthsOK, Answered, FrameOK
  <2> QED
    BY <1>1, <2>1, <2>2 DEF LengthsOK, Answered, history
<1>7. BestOK'
  BY <1>1 DEF QueryInv, BestOK, history
<1> QED
  BY <1>1, <1>3, <1>4, <1>5, <1>6, <1>7 DEF QueryInv

\* A probe keeps every pod in the search.
LEMMA ProbeStep ==
    ASSUME QueryInv, ProbeLengths \/ ProbeBest
    PROVE  QueryInv'
<1>1. /\ pc = "search" /\ stack # <<>> /\ Top.lo # Top.hi
      /\ kind = "best" => ~FullMatch
      /\ stack' \in {PushBelow(PushAbove(Rest, Top), Top), PushAbove(PushBelow(Rest, Top), Top)}
      /\ UNCHANGED <<registry, pc, kind, chain, live, lengths, best, history>>
  BY DEF ProbeLengths, ProbeBest, Pops
<1>2. held \subseteq owned /\ owned \subseteq met /\ chain \in Seq(Hashes)
  BY <1>1 DEF QueryInv, HistoryOK, VarsOK
<1>3. /\ GoodStack(stack')
      /\ \A p : Waiting(stack', p) <=> Waiting(stack, p)
  BY <1>1, <1>2, SplitGood DEF QueryInv
<1>4. VarsOK'
  BY <1>1 DEF QueryInv, VarsOK, registry, history
<1>5. HistoryOK'
  BY <1>1 DEF QueryInv, HistoryOK, Closed, registry, history
<1>6. GoodStack(stack)'
  BY <1>1, <1>3, StackKept
<1>7. LengthsOK'
  BY <1>1, <1>3 DEF QueryInv, LengthsOK, Answered, history
<1>8. BestOK'
  BY <1>1, <1>3 DEF QueryInv, BestOK, Beaten, Throughout, history
<1> QED
  BY <1>1, <1>4, <1>5, <1>6, <1>7, <1>8 DEF QueryInv

\* A chain whose block n is not owned throughout is not owned throughout up to
\* any depth from n on.
LEMMA NotThroughout ==
    ASSUME NEW p, NEW n \in Nat, NEW m \in Nat, n <= m, n > 0,
           <<p, chain[n]>> \notin held
    PROVE  ~Throughout(p, m)
  BY DEF Throughout

LEMMA ThroughoutLess ==
    ASSUME NEW p, NEW n \in Nat, NEW m \in Nat, n <= m, ~Throughout(p, n)
    PROVE  ~Throughout(p, m)
  BY DEF Throughout

\* A frame that cannot reach the best depth holds no pod that beats it.
LEMMA SkipBestStep ==
    ASSUME QueryInv, SkipBest
    PROVE  QueryInv'
<1>1. /\ pc = "search" /\ kind = "best" /\ stack # <<>> /\ Top.hi < best.depth
      /\ stack' = Rest
      /\ UNCHANGED <<registry, pc, kind, chain, live, lengths, best, history>>
  BY DEF SkipBest, Pops
<1>2. /\ FrameOK(Top)
      /\ GoodStack(Rest)
      /\ \A p : Waiting(stack, p) <=> Waiting(Rest, p) \/ p \in Top.pods
  BY <1>1, PopGood DEF QueryInv
<1>3. VarsOK'
  BY <1>1 DEF QueryInv, VarsOK, registry, history
<1>4. HistoryOK'
  BY <1>1 DEF QueryInv, HistoryOK, Closed, registry, history
<1>5. GoodStack(stack)'
  BY <1>1, <1>2, StackKept
<1>6. LengthsOK'
  BY <1>1 DEF QueryInv, LengthsOK, history
<1>7. ASSUME NEW p \in Top.pods PROVE Beaten(p)
  <2>1. /\ Top.hi + 1 \in Nat /\ Top.hi + 1 > 0 /\ best.depth \in Nat
        /\ Top.hi + 1 <= best.depth /\ Top.hi + 1 <= best.depth + 1
    BY <1>1, <1>2 DEF FrameOK, Frames, QueryInv, VarsOK
  <2>2. <<p, chain[Top.hi + 1]>> \notin held
    <3>1. Top.hi \in Nat /\ Len(chain) \in Nat /\ best.depth <= Len(chain)
      BY <1>2 DEF FrameOK, Frames, QueryInv, BestOK, VarsOK
    <3>2. Top.hi < Len(chain)
      BY <1>1, <2>1, <3>1
    <3> QED
      BY <1>2, <1>7, <3>2 DEF FrameOK
  <2>3. ~Throughout(p, best.depth) /\ ~Throughout(p, best.depth + 1)
    BY <2>1, <2>2, NotThroughout
  <2> QED
    BY <2>3 DEF Beaten
<1>8. \A p \in live : Waiting(stack', p) \/ Beaten(p)
  BY <1>1, <1>2, <1>7 DEF QueryInv, BestOK
<1>9. BestOK'
  BY <1>1, <1>8 DEF QueryInv, BestOK, Beaten, Throughout, history
<1> QED
  BY <1>1, <1>3, <1>4, <1>5, <1>6, <1>9 DEF QueryInv

\* A frame of one depth replaces the best match when it is deeper, or as deep
\* and its first pod lower: no pod that was beaten before beats the new best.
LEMMA SettleBestStep ==
    ASSUME QueryInv, SettleBest
    PROVE  QueryInv'
<1> DEFINE p == FirstSetBit(Top.pods)
           better == \/ Top.lo > best.depth
                     \/ Top.lo = best.depth /\ p < best.pod
<1>1. /\ pc = "search" /\ kind = "best" /\ stack # <<>>
      /\ Top.hi >= best.depth /\ Top.lo = Top.hi
      /\ best' = IF better THEN [pod |-> p, depth |-> Top.lo] ELSE best
      /\ stack' = Rest
      /\ UNCHANGED <<registry, pc, kind, chain, live, lengths, history>>
  BY DEF SettleBest, Pops
<1>2. /\ FrameOK(Top)
      /\ GoodStack(Rest)
      /\ \A q : Waiting(stack, q) <=> Waiting(Rest, q) \/ q \in Top.pods
  BY <1>1, PopGood DEF QueryInv
<1>3. /\ p \in Top.pods /\ \A q \in Top.pods : p <= q
      /\ Top.pods \subseteq live /\ live \subseteq Pods /\ Pods \subseteq Nat
  <2>1. Top.pods \subseteq live /\ live \subseteq Pods /\ Pods \subseteq Nat /\ Top.pods # {}
    BY <1>2, QueryAssumption DEF FrameOK, QueryInv, VarsOK
  <2> QED
    BY <2>1, FirstSetBitLeast
<1> HIDE DEF p
<1>4. /\ Top.lo \in Nat /\ best.depth \in Nat /\ Len(chain) \in Nat
      /\ Top.lo < Len(chain) /\ best.depth < Len(chain)
      /\ best.pod \in live /\ Top.lo >= best.depth
      /\ best \in [pod : Pods \cup {None}, depth : Nat]
  BY <1>1, <1>2 DEF FrameOK, Frames, QueryInv, VarsOK, BestOK
<1>5. VarsOK'
  BY <1>1, <1>3, <1>4 DEF QueryInv, VarsOK, registry, history
<1>6. HistoryOK'
  BY <1>1 DEF QueryInv, HistoryOK, Closed, registry, history
<1>7. GoodStack(stack)'
  BY <1>1, <1>2, StackKept
<1>8. LengthsOK'
  BY <1>1 DEF QueryInv, LengthsOK, history
<1>9. /\ best'.depth < Len(chain) /\ best'.pod \in live
      /\ best'.depth > 0 => <<best'.pod, chain[best'.depth]>> \in met
  BY <1>1, <1>2, <1>3, <1>4 DEF FrameOK, QueryInv, BestOK
<1>10. ASSUME NEW q \in live, Waiting(Rest, q) \/ q \in Top.pods \/ Beaten(q)
       PROVE  \/ Waiting(Rest, q)
              \/ /\ ~Throughout(q, best'.depth + 1)
                 /\ q < best'.pod => ~Throughout(q, best'.depth)
  <2>1. q \in Nat /\ best.pod \in Nat /\ p \in Nat
    BY <1>3, <1>4
  <2>2. CASE q \in Top.pods
    <3>1. p <= q /\ <<q, chain[Top.lo + 1]>> \notin held
      BY <1>1, <1>2, <1>3, <1>4, <2>2 DEF FrameOK
    <3>2. ~Throughout(q, Top.lo + 1)
      BY <1>4, <3>1, NotThroughout
    <3>3. best'.depth = Top.lo /\ best'.pod <= p
      BY <1>1, <1>4, <2>1
    <3> QED
      BY <1>1, <2>1, <3>1, <3>2, <3>3
  <2>3. CASE Beaten(q)
    <3>1. ~Throughout(q, best.depth + 1) /\ (q < best.pod => ~Throughout(q, best.depth))
      BY <1>4, <2>3 DEF Beaten
    <3>2. CASE Top.lo > best.depth
      <4>1. best'.depth = Top.lo /\ Top.lo + 1 \in Nat /\ best.depth + 1 \in Nat
        BY <1>1, <1>4, <3>2
      <4>2. ~Throughout(q, Top.lo) /\ ~Throughout(q, Top.lo + 1)
        BY <1>4, <3>1, <3>2, <4>1, ThroughoutLess
      <4> QED
        BY <4>1, <4>2
    <3>3. CASE Top.lo = best.depth
      <4>1. best'.depth = best.depth /\ best'.pod <= best.pod /\ best'.pod \in Nat
        BY <1>1, <1>4, <2>1, <3>3
      <4> QED
        BY <2>1, <3>1, <4>1
    <3> QED
      BY <1>4, <3>2, <3>3
  <2> QED
    BY <1>10, <2>2, <2>3
<1>11. BestOK'
  <2>1. \A q \in live : Waiting(Rest, q) \/ q \in Top.pods \/ Beaten(q)
    BY <1>1, <1>2 DEF QueryInv, BestOK
  <2>2. \A q \in live : \/ Waiting(stack', q)
                       \/ /\ ~Throughout(q, best'.depth + 1)
                          /\ q < best'.pod => ~Throughout(q, best'.depth)
    BY <1>1, <1>10, <2>1
  <2> QED
    BY <1>1, <1>3, <1>4, <1>9, <2>2, <1>5 DEF BestOK, Beaten, Throughout, VarsOK, history
<1> QED
  BY <1>1, <1>5, <1>6, <1>7, <1>8, <1>11 DEF QueryInv

\* A pod that has the last block ends the search.  The pods under the probe do
\* not have it, those of the other frames do not reach it, and neither do those
\* beaten before.
LEMMA FindFullStep ==
    ASSUME QueryInv, FindFull
    PROVE  QueryInv'
<1> DEFINE above == AtOrAbove(Top)
           p == FirstSetBit(above)
<1>1. /\ pc = "search" /\ kind = "best" /\ stack # <<>> /\ Top.lo # Top.hi
      /\ ProbeDepth(Top) = Len(chain) /\ above # {}
      /\ best' = [pod |-> p, depth |-> Len(chain)]
      /\ stack' = <<>> /\ pc' = "done"
      /\ UNCHANGED <<registry, kind, chain, live, lengths, history>>
  BY DEF FindFull, FullMatch, Pops
<1>2. /\ FrameOK(Top)
      /\ GoodStack(Rest)
      /\ \A i \in 1 .. Len(Rest) : Apart(Top, Rest[i])
      /\ \A q : Waiting(stack, q) <=> Waiting(Rest, q) \/ q \in Top.pods
  BY <1>1, PopGood DEF QueryInv
<1>3. /\ Top.lo \in Nat /\ Top.hi \in Nat /\ Len(chain) \in Nat /\ Len(chain) > 0
      /\ Top.lo < Top.hi /\ Top.hi = Len(chain)
  BY <1>1, <1>2 DEF FrameOK, Frames, ProbeDepth, QueryInv, VarsOK
<1>4. above \subseteq Top.pods /\ Top.pods \subseteq live /\ live \subseteq Pods /\ Pods \subseteq Nat
  BY <1>2, QueryAssumption DEF AtOrAbove, FrameOK, QueryInv, VarsOK
<1>5. p \in above /\ \A q \in above : p <= q
  BY <1>1, <1>4, FirstSetBitLeast
<1>6. <<p, chain[Len(chain)]>> \in met
  BY <1>1, <1>5 DEF AtOrAbove, QueryInv, HistoryOK
<1>7. VarsOK'
  BY <1>1, <1>3, <1>4, <1>5 DEF QueryInv, VarsOK, registry, history
<1>8. HistoryOK'
  BY <1>1 DEF QueryInv, HistoryOK, Closed, registry, history
<1>9. GoodStack(stack)'
  BY <1>1, EmptySeq DEF GoodStack
<1>10. LengthsOK'
  BY <1>1 DEF QueryInv, LengthsOK, history
<1> HIDE DEF p
<1>11. ASSUME NEW q \in live, q < p PROVE ~Throughout(q, Len(chain))
  <2>1. CASE q \in Top.pods
    <3>1. q \notin above
      <4>1. p \in Nat /\ q \in Nat
        BY <1>4, <1>5
      <4>2. ~(p <= q)
        BY <1>11, <4>1
      <4> QED
        BY <1>5, <4>2
    <3>2. <<q, chain[Len(chain)]>> \notin held
      BY <1>1, <2>1, <3>1 DEF AtOrAbove, QueryInv, HistoryOK
    <3> QED
      BY <1>3, <3>2, NotThroughout
  <2>2. CASE Waiting(Rest, q)
    <3>1. PICK i \in 1 .. Len(Rest) : q \in Rest[i].pods
      BY <2>2 DEF Waiting
    <3>2. FrameOK(Rest[i]) /\ Apart(Top, Rest[i])
      BY <1>2 DEF GoodStack
    <3>3. Rest[i].lo \in Nat /\ Rest[i].hi \in Nat /\ Rest[i].lo <= Rest[i].hi /\ Rest[i].hi <= Len(chain)
      BY <3>2 DEF FrameOK, Frames
    <3>4. Rest[i].hi < Len(chain)
      BY <1>3, <3>2, <3>3 DEF Apart
    <3>5. <<q, chain[Rest[i].hi + 1]>> \notin held
      BY <3>1, <3>2, <3>4 DEF FrameOK
    <3> QED
      BY <1>3, <3>3, <3>4, <3>5, NotThroughout
  <2>3. CASE Beaten(q)
    <3>1. best.depth \in Nat /\ best.depth + 1 \in Nat /\ best.depth < Len(chain)
      BY <1>1 DEF QueryInv, VarsOK, BestOK
    <3>2. ~Throughout(q, best.depth + 1)
      BY <2>3, <3>1 DEF Beaten
    <3>3. best.depth + 1 <= Len(chain)
      BY <1>3, <3>1
    <3> QED
      BY <1>3, <3>1, <3>2, <3>3, ThroughoutLess
  <2> QED
    BY <1>1, <1>2, <1>11, <2>1, <2>2, <2>3 DEF QueryInv, BestOK
<1> HIDE DEF above
<1>12. (\A q \in live : Beaten(q))'
  <2>1. Throughout(p, 0)' \in BOOLEAN /\ \A q, n : Throughout(q, n)' <=> Throughout(q, n)
    BY <1>1 DEF Throughout, history
  <2> QED
    BY <1>1, <1>3, <1>11, <2>1 DEF Beaten
<1>13. BestOK'
  <2>1. /\ best'.pod = p /\ p \in Pods /\ best'.depth = Len(chain)
        /\ pc' = "done" /\ chain' = chain /\ met' = met
    BY <1>1, <1>4, <1>5 DEF history
  <2> QED
    BY <1>3, <1>6, <1>12, <2>1 DEF BestOK
<1> QED
  BY <1>1, <1>7, <1>8, <1>9, <1>10, <1>13 DEF QueryInv

\* The end of the search, and the return to the caller.
LEMMA FinishStep ==
    ASSUME QueryInv, Finish
    PROVE  QueryInv'
<1>1. /\ pc = "search" /\ stack = <<>> /\ pc' = "done"
      /\ UNCHANGED <<registry, kind, chain, live, stack, lengths, best, history>>
  BY DEF Finish
<1>2. GoodStack(stack)'
  BY <1>1, EmptySeq DEF GoodStack
<1>3. VarsOK' /\ HistoryOK'
  BY <1>1 DEF QueryInv, VarsOK, HistoryOK, Closed, registry, history
<1>4. LengthsOK' /\ BestOK'
  BY <1>1 DEF QueryInv, LengthsOK, BestOK, Answered, Beaten, Throughout, history
<1> QED
  BY <1>1, <1>2, <1>3, <1>4 DEF QueryInv

LEMMA ReturnStep ==
    ASSUME QueryInv, Return
    PROVE  QueryInv'
<1>1. stack' = <<>> /\ GoodStack(stack)'
  BY EmptySeq DEF Return, QueryInv, GoodStack
<1>2. VarsOK'
  BY DEF Return, QueryInv, VarsOK, registry
<1>3. HistoryOK'
  BY DEF Return, QueryInv, HistoryOK, Closed, registry
<1>4. LengthsOK' /\ BestOK'
  BY EmptySeq DEF Return, LengthsOK, BestOK
<1> QED
  BY <1>1, <1>2, <1>3, <1>4 DEF QueryInv, Return

\* Another thread's change makes fewer blocks owned throughout and more owned
\* once, so what the frames and the answers say stays true.
LEMMA ChangeStep ==
    ASSUME QueryInv, Change
    PROVE  QueryInv'
<1>1. /\ UNCHANGED <<pc, kind, chain, live, stack, lengths, best>>
      /\ held' \subseteq held /\ held' \subseteq owned' /\ met \subseteq met'
      /\ pc # "idle" => owned' \subseteq met'
      /\ met' \subseteq met \cup owned'
      /\ Holes \/ Closed(owned')
  BY DEF Change, query
<1>2. owned' \subseteq Pods \X Hashes /\ alive' \subseteq Pods
  BY DEF Change, QueryInv, VarsOK, Registry!Register, Registry!Evict, Registry!MarkAlive, Registry!Shutdown
<1>3. VarsOK'
  BY <1>1, <1>2 DEF QueryInv, VarsOK
<1>4. ASSUME ~Holes PROVE Closed(met')
  BY <1>4 DEF Change, QueryInv, HistoryOK, Closed
<1>5. HistoryOK'
  BY <1>1, <1>4, QueryAssumption DEF QueryInv, HistoryOK, Closed
<1>6. GoodStack(stack)'
  <2>1. ASSUME NEW f, FrameOK(f) PROVE FrameOK(f)'
    BY <1>1, <2>1 DEF FrameOK
  <2> QED
    BY <1>1, <2>1 DEF QueryInv, GoodStack
<1>7. LengthsOK'
  BY <1>1 DEF QueryInv, LengthsOK, Answered
<1>8. ASSUME NEW p, Beaten(p) PROVE Beaten(p)'
  BY <1>1, <1>8 DEF Beaten, Throughout
<1>9. BestOK'
  BY <1>1, <1>8 DEF QueryInv, BestOK
<1> QED
  BY <1>1, <1>3, <1>5, <1>6, <1>7, <1>9 DEF QueryInv

\* The invariant holds of every state, whatever the other threads do.
THEOREM QueryInvHolds == Spec => []QueryInv
<1>1. ASSUME QueryInv, UNCHANGED vars PROVE QueryInv'
  <2>1. UNCHANGED <<owned, alive, pc, kind, chain, live, stack, lengths, best, held, met>>
    BY <1>1 DEF vars, registry, query, history
  <2>2. VarsOK' /\ HistoryOK' /\ GoodStack(stack)'
    BY <1>1, <2>1 DEF QueryInv, VarsOK, HistoryOK, Closed, GoodStack, FrameOK
  <2>3. LengthsOK' /\ BestOK'
    BY <1>1, <2>1 DEF QueryInv, LengthsOK, BestOK, Answered, Beaten, Throughout
  <2> QED
    BY <1>1, <2>1, <2>2, <2>3 DEF QueryInv
<1>2. ASSUME QueryInv, Search PROVE QueryInv'
  BY <1>2, SettleLengthsStep, ProbeStep, SkipBestStep, SettleBestStep, FindFullStep, FinishStep
     DEF Search
<1>3. ASSUME QueryInv, [Next]_vars PROVE QueryInv'
  BY <1>1, <1>2, <1>3, BeginStep, ReturnStep, ChangeStep DEF Next
<1> QED
  BY <1>3, InitInv, PTL DEF Spec

\* Frames stay inside the chain, and everything keeps its type.
THEOREM QueryTypeHolds == Spec => []TypeOK
<1>1. QueryInv => TypeOK
  BY DEF QueryInv, VarsOK, GoodStack, FrameOK, TypeOK
<1> QED
  BY <1>1, QueryInvHolds, PTL

\* No two frames share a pod or a depth.
THEOREM FramesApartHolds == Spec => []FramesApart
<1>1. QueryInv => FramesApart
  BY DEF QueryInv, GoodStack, Apart, FramesApart
<1> QED
  BY <1>1, QueryInvHolds, PTL

\* longest_prefix_lengths_into never reports less of the chain than a pod owned
\* throughout the query, with holes or without.
THEOREM DepthNotShortHolds == Spec => []DepthNotShort
<1>1. QueryInv => DepthNotShort
  <2> SUFFICES ASSUME QueryInv, pc = "done", kind = "lengths", NEW p \in live,
                      lengths[p] # Len(chain)
               PROVE  ~Throughout(p, lengths[p] + 1)
    BY DEF DepthNotShort
  <2>1. ~Waiting(stack, p) /\ p \in Pods /\ Len(chain) \in Nat
    BY EmptySeq DEF QueryInv, VarsOK, Waiting
  <2>2. lengths[p] \in Nat /\ lengths[p] <= Len(chain) /\ Answered(p)
    BY <2>1 DEF QueryInv, VarsOK, LengthsOK
  <2>3. lengths[p] < Len(chain) /\ lengths[p] + 1 \in Nat /\ lengths[p] + 1 > 0
    BY <2>1, <2>2
  <2>4. <<p, chain[lengths[p] + 1]>> \notin held
    BY <2>2, <2>3 DEF Answered
  <2> QED
    BY <2>3, <2>4, NotThroughout
<1> QED
  BY <1>1, QueryInvHolds, PTL

\* best_prefix_match_for_candidates finds no pod that is beaten by another one
\* throughout the query, and breaks ties by the lowest id.
THEOREM BestRegularHolds == Spec => []BestRegular
<1>1. QueryInv => BestRegular
  <2> SUFFICES ASSUME QueryInv, pc = "done", kind = "best", NEW p \in live
               PROVE  /\ best.depth = Len(chain) \/ ~Throughout(p, best.depth + 1)
                      /\ p < best.pod => ~Throughout(p, best.depth)
    BY DEF BestRegular
  <2>1. ~Waiting(stack, p)
    BY EmptySeq DEF QueryInv, Waiting
  <2>2. Beaten(p)
    BY <2>1 DEF QueryInv, BestOK
  <2>3. best.depth \in Nat /\ Len(chain) \in Nat /\ best.depth <= Len(chain)
    BY DEF QueryInv, VarsOK, BestOK
  <2> QED
    BY <2>2, <2>3 DEF Beaten
<1> QED
  BY <1>1, QueryInvHolds, PTL

\* While no pod has a hole in a chain, a match is a match of the whole prefix.
THEOREM WholePrefixHolds == Spec /\ ~Holes => []WholePrefix
<1>1. QueryInv /\ ~Holes => WholePrefix
  <2> SUFFICES ASSUME QueryInv, ~Holes, pc = "done"
               PROVE  /\ kind = "lengths" => \A p \in Pods : Once(p, lengths[p])
                      /\ kind = "best" => Once(best.pod, best.depth)
    BY DEF WholePrefix
  <2>1. chain \in Chains /\ Closed(met) /\ Len(chain) \in Nat
    BY DEF QueryInv, HistoryOK, VarsOK
  <2>2. ASSUME NEW p \in Pods, NEW n \in Nat, n <= Len(chain), n > 0 => <<p, chain[n]>> \in met
        PROVE  Once(p, n)
    BY <2>1, <2>2 DEF Closed, Once
  <2>3. \A p \in Pods : Once(p, lengths[p])
    BY <2>2 DEF QueryInv, VarsOK, LengthsOK
  <2>4. CASE best.depth > 0
    BY <2>2, <2>3, <2>4 DEF QueryInv, VarsOK, BestOK
  <2>5. CASE ~(best.depth > 0)
    BY <2>3, <2>5 DEF QueryInv, VarsOK, Once
  <2> QED
    BY <2>4, <2>5
<1>2. CASE Holes
  BY <1>2, PTL
<1>3. CASE ~Holes
  BY <1>1, <1>3, QueryInvHolds, PTL
<1> QED
  BY <1>2, <1>3

-----------------------------------------------------------------------------
(* The size of the stack.                                                  *)

\* The powers of two are what their recursive definition says.
LEMMA Pow2Def ==
    /\ Pow2 \in [Nat -> Nat]
    /\ Pow2[0] = 1
    /\ \A n \in Nat : Pow2[n + 1] = 2 * Pow2[n] /\ Pow2[n] > 0
<1> DEFINE step == [x \in Nat \X Nat |-> 2 * x[2]]
           Is(g) == g = [n \in Nat |-> IF n = 0 THEN 1 ELSE 2 * g[n - 1]]
<1>1. step \in StepFunctions(Nat) /\ \A n, v \in Nat : step[<<n, v>>] = 2 * v
  BY DEF StepFunctions
<1> HIDE DEF step
<1>2. PICK g : Iterates(Nat, 1, step, g)
  BY <1>1, RecursionOnNat
<1>3. ASSUME NEW n \in Nat PROVE g[n] = IF n = 0 THEN 1 ELSE 2 * g[n - 1]
  <2>1. CASE n # 0
    <3>1. n - 1 \in Nat /\ (n - 1) + 1 = n
      BY <2>1
    <3> QED
      BY <1>1, <1>2, <2>1, <3>1 DEF Iterates
  <2> QED
    BY <1>2, <2>1 DEF Iterates
<1>4. Is(g)
  BY <1>2, <1>3 DEF Iterates
<1>5. Pow2 = CHOOSE h : Is(h)
  BY DEF Pow2
<1>6. Is(Pow2)
  <2> HIDE DEF Is
  <2> QED
    BY <1>4, <1>5
<1>7. \A n \in Nat : Pow2[n] = IF n = 0 THEN 1 ELSE 2 * Pow2[n - 1]
  BY <1>6
<1>8. Pow2 = [n \in Nat |-> Pow2[n]]
  BY <1>6
<1>9. Pow2[0] = 1 /\ \A n \in Nat : Pow2[n + 1] = 2 * Pow2[n]
  <2>1. ASSUME NEW n \in Nat PROVE Pow2[n + 1] = 2 * Pow2[n]
    <3>1. n + 1 \in Nat /\ n + 1 # 0 /\ (n + 1) - 1 = n
      OBVIOUS
    <3> QED
      BY <1>7, <3>1
  <2> QED
    BY <1>7, <2>1
<1> DEFINE S == {n \in Nat : Pow2[n] \in Nat /\ Pow2[n] > 0}
<1>10. 0 \in S
  BY <1>9
<1>11. ASSUME NEW n \in S PROVE n + 1 \in S
  BY <1>9
<1>12. S \in SUBSET Nat
  OBVIOUS
<1> HIDE DEF S
<1>13. S = Nat
  BY <1>10, <1>11, <1>12, InductionOnNat
<1>14. \A n \in Nat : Pow2[n] \in Nat /\ Pow2[n] > 0
  BY <1>13 DEF S
<1> QED
  BY <1>8, <1>9, <1>14

Width(f) == f.hi - f.lo

\* StackShallow, of any stack.
Shallow(s) ==
    /\ \A i \in 1 .. Len(s) - 1 : Width(s[i]) * Pow2[i] <= Len(chain)
    /\ Len(s) > 1 => /\ Width(s[Len(s)]) * Pow2[Len(s) - 1] <= Len(chain)
                     /\ Pow2[Len(s) - 2] <= Len(chain)

LEMMA TimesHalf ==
    ASSUME NEW w \in Nat, NEW v \in Nat, NEW q \in Nat, NEW n \in Nat, w * q <= n, 2 * v <= w
    PROVE  v * (2 * q) <= n /\ v * q <= n
<1>1. v * (2 * q) = (2 * v) * q
  OBVIOUS
<1>2. (2 * v) * q <= w * q /\ v * q <= w * q
  OBVIOUS
<1> QED
  BY <1>1, <1>2

\* Popping a frame leaves a shallow stack.
LEMMA ShallowPop ==
    ASSUME GoodStack(stack), stack # <<>>, chain \in Seq(Hashes), Shallow(stack)
    PROVE  /\ Shallow(Rest)
           /\ Width(Top) \in Nat
           /\ Width(Top) * Pow2[Len(Rest)] <= Len(chain)
           /\ \A i \in 1 .. Len(Rest) : Width(Rest[i]) \in Nat /\ Width(Rest[i]) * Pow2[i] <= Len(chain)
<1> DEFINE n == Len(Rest)
<1>1. /\ Len(stack) = n + 1 /\ n \in Nat /\ Len(chain) \in Nat
      /\ \A i \in 1 .. n : Rest[i] = stack[i]
  BY RestOfStack DEF GoodStack
<1>2. \A i \in 1 .. n + 1 : Width(stack[i]) \in Nat /\ Width(stack[i]) <= Len(chain)
  BY <1>1 DEF GoodStack, FrameOK, Frames, Width
<1> HIDE DEF n
<1>3. Top = stack[n + 1] /\ Width(Top) \in Nat
  BY <1>1, <1>2 DEF Top
<1>4. \A i \in 1 .. n : Width(Rest[i]) \in Nat /\ Width(Rest[i]) * Pow2[i] <= Len(chain)
  <2>1. (n + 1) - 1 = n
    BY <1>1
  <2> QED
    BY <1>1, <1>2, <2>1 DEF Shallow
<1>5. Width(Top) * Pow2[n] <= Len(chain)
  <2>1. CASE n = 0
    BY <1>2, <1>3, <2>1, Pow2Def
  <2>2. CASE n > 0
    <3>1. Len(stack) > 1 /\ Len(stack) - 1 = n
      BY <1>1, <2>2
    <3> QED
      BY <1>1, <1>3, <3>1 DEF Shallow
  <2> QED
    BY <1>1, <2>1, <2>2
<1>6. ASSUME n > 1
      PROVE  Width(Rest[n]) * Pow2[n - 1] <= Len(chain) /\ Pow2[n - 2] <= Len(chain)
  <2>1. n - 1 \in Nat /\ n - 2 \in Nat /\ (n - 1) + 1 = n /\ (n - 2) + 1 = n - 1 /\ n \in 1 .. n
    BY <1>1, <1>6
  <2>2. /\ Pow2[n] = 2 * Pow2[n - 1] /\ Pow2[n - 1] = 2 * Pow2[n - 2]
        /\ Pow2[n - 1] \in Nat /\ Pow2[n - 2] \in Nat
    BY <2>1, Pow2Def
  <2>3. Len(stack) > 1 /\ Len(stack) - 2 = n - 1
    BY <1>1, <1>6
  <2>4. Pow2[n - 1] <= Len(chain)
    BY <2>3 DEF Shallow
  <2>5. Pow2[n - 2] <= Len(chain)
    BY <1>1, <2>2, <2>4
  <2> DEFINE w == Width(Rest[n])
             q == Pow2[n - 1]
  <2>6. w \in Nat /\ w * (2 * q) <= Len(chain)
    BY <1>4, <2>1, <2>2
  <2>7. q \in Nat
    BY <2>2
  <2> HIDE DEF w, q
  <2>8. w * (2 * q) = w * q + w * q /\ w * q \in Nat
    BY <2>6, <2>7
  <2>9. w * q <= Len(chain)
    BY <1>1, <2>6, <2>8
  <2> QED
    BY <2>5, <2>9 DEF w, q
<1>7. Shallow(Rest)
  BY <1>1, <1>4, <1>6 DEF Shallow, n
<1> QED
  BY <1>3, <1>4, <1>5, <1>7 DEF n

\* The halves of the popped frame, one or both, go on top of the others.
LEMMA ShallowPush ==
    ASSUME GoodStack(stack), stack # <<>>, chain \in Seq(Hashes), Shallow(stack), Top.lo # Top.hi,
           NEW x \in Frames, NEW y \in Frames, Width(x) \in Nat, Width(y) \in Nat,
           2 * Width(x) <= Width(Top), 2 * Width(y) <= Width(Top)
    PROVE  Shallow(Append(Rest, x)) /\ Shallow(Append(Append(Rest, x), y))
<1> DEFINE n == Len(Rest)
           s == Append(Rest, x)
           t == Append(s, y)
           w == Width(Top)
           q == Pow2[n]
<1>1. /\ Rest \in Seq(Frames) /\ n \in Nat /\ Len(chain) \in Nat
  BY RestOfStack DEF GoodStack
<1>2. /\ w \in Nat /\ w * q <= Len(chain)
      /\ \A i \in 1 .. n : Width(Rest[i]) * Pow2[i] <= Len(chain)
      /\ Shallow(Rest)
  BY ShallowPop
<1>3. w > 0
  <2>1. FrameOK(Top)
    BY PopGood
  <2>2. Top.lo \in Nat /\ Top.hi \in Nat /\ Top.lo <= Top.hi
    BY <2>1 DEF FrameOK, Frames
  <2> QED
    BY <2>2 DEF Width
<1>4. q \in Nat /\ q > 0 /\ Pow2[n + 1] = 2 * q
  BY <1>1, Pow2Def
<1>5. /\ Len(s) = n + 1 /\ Len(t) = n + 2
      /\ \A i \in 1 .. n : s[i] = Rest[i] /\ t[i] = Rest[i]
      /\ s[n + 1] = x /\ t[n + 1] = x /\ t[n + 2] = y
  <2>1. s \in Seq(Frames) /\ Len(s) = n + 1 /\ s[n + 1] = x /\ \A i \in 1 .. n : s[i] = Rest[i]
    BY <1>1, AppendProperties
  <2> HIDE DEF s
  <2>2. Len(t) = Len(s) + 1 /\ t[Len(s) + 1] = y /\ \A i \in 1 .. Len(s) : t[i] = s[i]
    BY <2>1, AppendProperties
  <2> HIDE DEF t
  <2>3. n + 1 \in 1 .. n + 1 /\ \A i \in 1 .. n : i \in 1 .. n + 1
    BY <1>1
  <2> QED
    BY <1>1, <2>1, <2>2, <2>3
<1> HIDE DEF n, s, t, w, q
<1>6. /\ Width(x) * q <= Len(chain) /\ Width(x) * (2 * q) <= Len(chain)
      /\ Width(y) * q <= Len(chain) /\ Width(y) * (2 * q) <= Len(chain)
  BY <1>1, <1>2, <1>4, TimesHalf DEF w
<1>7. q <= Len(chain)
  <2>1. w * q >= q /\ w * q \in Nat
    BY <1>2, <1>3, <1>4
  <2> QED
    BY ONLY <1>1, <1>2, <1>4, <2>1
<1>8. ASSUME n + 1 > 1 PROVE Pow2[(n + 1) - 2] <= Len(chain)
  <2>1. n - 1 \in Nat /\ (n - 1) + 1 = n /\ (n + 1) - 2 = n - 1
    BY <1>1, <1>8
  <2>2. Pow2[n] = 2 * Pow2[n - 1] /\ Pow2[n - 1] \in Nat
    BY <2>1, Pow2Def
  <2> QED
    BY <1>1, <1>4, <1>7, <2>1, <2>2 DEF q
<1>9. Shallow(s)
  <2>1. (n + 1) - 1 = n
    BY <1>1
  <2>2. \A i \in 1 .. n : Width(s[i]) * Pow2[i] <= Len(chain)
    BY <1>2, <1>5
  <2>3. Width(s[n + 1]) * Pow2[n] <= Len(chain)
    BY <1>5, <1>6 DEF q
  <2> QED
    BY <1>5, <1>8, <2>1, <2>2, <2>3 DEF Shallow
<1>10. Shallow(t)
  <2>1. (n + 2) - 1 = n + 1 /\ (n + 2) - 2 = n
    BY <1>1
  <2>2. ASSUME NEW i \in 1 .. n + 1 PROVE Width(t[i]) * Pow2[i] <= Len(chain)
    <3>1. CASE i = n + 1
      BY <1>4, <1>5, <1>6, <3>1
    <3>2. CASE i # n + 1
      <4>1. i \in 1 .. n
        BY <1>1, <3>2
      <4> QED
        BY <1>2, <1>5, <4>1
    <3> QED
      BY <3>1, <3>2
  <2>3. Width(t[n + 2]) * Pow2[n + 1] <= Len(chain)
    BY <1>4, <1>5, <1>6
  <2>4. Pow2[n] <= Len(chain)
    BY <1>7 DEF q
  <2> QED
    BY <1>5, <2>1, <2>2, <2>3, <2>4 DEF Shallow
<1> QED
  BY <1>9, <1>10 DEF s, t

\* The probe leaves at most half of the frame on either side.
LEMMA ProbeHalves ==
    ASSUME NEW lo \in Nat, NEW hi \in Nat, lo < hi
    PROVE  LET d == (lo + hi + 1) \div 2 IN
           /\ d \in Nat /\ d - 1 \in Nat
           /\ hi - d \in Nat /\ (d - 1) - lo \in Nat
           /\ 2 * (hi - d) <= hi - lo /\ 2 * ((d - 1) - lo) <= hi - lo
  OBVIOUS

\* Probing a frame leaves a shallow stack.
LEMMA ShallowSplit ==
    ASSUME GoodStack(stack), stack # <<>>, chain \in Seq(Hashes), Shallow(stack), Top.lo # Top.hi,
           NEW s \in {PushBelow(PushAbove(Rest, Top), Top), PushAbove(PushBelow(Rest, Top), Top)}
    PROVE  Shallow(s)
<1> DEFINE f == Top
           d == ProbeDepth(f)
           above == Frame(d, f.hi, AtOrAbove(f))
           below == Frame(f.lo, d - 1, Below(f))
<1>1. /\ f.lo \in Nat /\ f.hi \in Nat /\ f.lo < f.hi /\ f.pods # {} /\ f.pods \in SUBSET Pods
  BY PopGood DEF FrameOK, Frames
<1>2. /\ d \in Nat /\ d - 1 \in Nat
      /\ f.hi - d \in Nat /\ (d - 1) - f.lo \in Nat
      /\ 2 * (f.hi - d) <= f.hi - f.lo /\ 2 * ((d - 1) - f.lo) <= f.hi - f.lo
  BY <1>1, ProbeHalves DEF ProbeDepth
<1>3. /\ AtOrAbove(f) \in SUBSET Pods /\ Below(f) \in SUBSET Pods
      /\ AtOrAbove(f) # {} \/ Below(f) # {}
  BY <1>1 DEF AtOrAbove, Below
<1>4. \A s0 : /\ PushAbove(s0, Top) = IF AtOrAbove(f) = {} THEN s0 ELSE Append(s0, above)
              /\ PushBelow(s0, Top) = IF Below(f) = {} THEN s0 ELSE Append(s0, below)
  BY DEF PushAbove, PushBelow, AboveMax, BelowMax, Push
<1> HIDE DEF d
<1>5. /\ above \in Frames /\ Width(above) = f.hi - d
      /\ below \in Frames /\ Width(below) = (d - 1) - f.lo /\ Width(f) = f.hi - f.lo
  BY <1>1, <1>2, <1>3 DEF Frame, Frames, Width
<1> HIDE DEF above, below
<1>6. /\ Shallow(Append(Rest, above)) /\ Shallow(Append(Rest, below))
      /\ Shallow(Append(Append(Rest, above), below)) /\ Shallow(Append(Append(Rest, below), above))
  BY <1>2, <1>5, ShallowPush
<1> QED
  BY <1>3, <1>4, <1>6

\* The bound on the stack holds of every chain: the inline frames of SearchStack
\* suffice unless a chain has 2^31 blocks.
THEOREM StackShallowHolds == Spec => []StackShallow
<1>1. StackShallow <=> Shallow(stack)
  BY DEF StackShallow, Shallow, Width, Top
<1>2. ASSUME NEW s, Len(s) = 0 \/ Len(s) = 1 PROVE Shallow(s)
  BY <1>2 DEF Shallow
<1>3. ASSUME Len(stack') = 0 \/ Len(stack') = 1 PROVE Shallow(stack)'
  <2> DEFINE n == Len(stack')
  <2>1. n = 0 \/ n = 1
    BY <1>3
  <2> HIDE DEF n
  <2>2. ~(n > 1) /\ \A i \in 1 .. n - 1 : FALSE
    BY <2>1
  <2> QED
    BY <2>2 DEF Shallow, n
<1>4. ASSUME NEW s, Shallow(s), stack' = s, chain' = chain PROVE Shallow(stack)'
  BY <1>4 DEF Shallow
<1>5. Init => Shallow(stack)
  <2>1. Init => Len(stack) = 0
    BY EmptySeq DEF Init
  <2> QED
    BY <1>2, <2>1
<1>6. ASSUME QueryInv, Shallow(stack), [Next]_vars PROVE Shallow(stack)'
  <2>1. ASSUME stack # <<>>
        PROVE  GoodStack(stack) /\ chain \in Seq(Hashes) /\ Shallow(Rest)
    BY <1>6, <2>1, ShallowPop DEF QueryInv, VarsOK
  <2>2. ASSUME SettleLengths \/ SkipBest \/ SettleBest PROVE Shallow(stack)'
    <3>1. stack # <<>> /\ stack' = Rest /\ chain' = chain
      BY <2>2 DEF SettleLengths, SkipBest, SettleBest, Pops
    <3> QED
      BY <1>4, <2>1, <3>1
  <2>3. ASSUME ProbeLengths \/ ProbeBest PROVE Shallow(stack)'
    <3> DEFINE a == PushBelow(PushAbove(Rest, Top), Top)
               b == PushAbove(PushBelow(Rest, Top), Top)
    <3>1. stack # <<>> /\ Top.lo # Top.hi /\ stack' \in {a, b} /\ chain' = chain
      BY <2>3 DEF ProbeLengths, ProbeBest, Pops
    <3>2. Shallow(a) /\ Shallow(b)
      BY <1>6, <2>1, <3>1, ShallowSplit
    <3> HIDE DEF a, b
    <3> QED
      BY <1>4, <3>1, <3>2
  <2>4. ASSUME FindFull \/ Finish \/ Return PROVE Shallow(stack)'
    <3>1. stack' = <<>>
      BY <1>6, <2>4 DEF FindFull, Finish, Return, QueryInv
    <3> QED
      BY <1>3, <3>1, EmptySeq
  <2>5. ASSUME NEW k, NEW hs, NEW cands, Begin(k, hs, cands) PROVE Shallow(stack)'
    <3>1. stack' = <<>> \/ stack' = <<Frame(0, Len(hs), cands \cap alive)>>
      BY <2>5 DEF Begin
    <3> QED
      BY <1>3, <3>1, EmptySeq
  <2>6. ASSUME Change \/ UNCHANGED vars PROVE Shallow(stack)'
    BY <1>4, <1>6, <2>6 DEF Change, vars, query
  <2> QED
    BY <1>6, <2>2, <2>3, <2>4, <2>5, <2>6 DEF Next, Search
<1> QED
  BY <1>1, <1>5, <1>6, QueryInvHolds, PTL DEF Spec

-----------------------------------------------------------------------------
(* A registry that nobody changes during the query.                        *)

\* The depth of a pod's own binary search, and the frames that lead to it.
Depth(p) == PrefixDepth(p, chain, owned)

OnTheWay(f) == \A p \in f.pods : Depth(p) = DepthFrom(p, chain, owned)[<<f.lo, f.hi>>]
AllOnTheWay(s) == \A i \in 1 .. Len(s) : OnTheWay(s[i])

Worse(p) == Depth(p) < best.depth \/ (Depth(p) = best.depth /\ best.pod <= p)

\* Every pod is where its own binary search would be, or has its answer.
QuietInv ==
    /\ pc # "idle" /\ kind = "lengths" => \A p \in Pods \ live : lengths[p] = 0
    /\ pc # "idle" /\ held = met =>
          /\ AllOnTheWay(stack)
          /\ kind = "lengths" => \A p \in live : Waiting(stack, p) \/ lengths[p] = Depth(p)
          /\ kind = "best" =>
                /\ \A p \in live : Waiting(stack, p) \/ Worse(p)
                /\ live # {} =>
                      /\ best.pod \in live
                      /\ \/ best.depth = Depth(best.pod)
                         \/ best.depth = 0 /\ Waiting(stack, best.pod)

\* A depth is a number, and one within the frame.
LEMMA DepthBounds ==
    ASSUME chain \in Seq(Hashes), NEW p
    PROVE  Len(chain) \in Nat /\ Depth(p) \in Nat /\ Depth(p) <= Len(chain)
<1>1. Len(chain) \in Nat
  OBVIOUS
<1>2. Found(p, chain, owned, 0, Len(chain), Depth(p))
  BY <1>1, DepthIsABoundary DEF Depth
<1> QED
  BY <1>1, <1>2 DEF Found

LEMMA FrameBounds ==
    ASSUME chain \in Seq(Hashes), NEW f, FrameOK(f), OnTheWay(f), NEW p \in f.pods
    PROVE  /\ f.lo \in Nat /\ f.hi \in Nat
           /\ f.lo <= Depth(p) /\ Depth(p) <= f.hi
<1>1. /\ Len(chain) \in Nat /\ f.lo \in 0 .. Len(chain) /\ f.hi \in 0 .. Len(chain) /\ f.lo <= f.hi
      /\ f.lo \in Nat /\ f.hi \in Nat
  BY DEF FrameOK, Frames
<1>2. Found(p, chain, owned, f.lo, f.hi, Depth(p))
  BY <1>1, SearchFinds DEF OnTheWay
<1> QED
  BY <1>1, <1>2 DEF Found

\* Probing a frame sends each of its pods to where its own search goes.
LEMMA ProbeOnTheWay ==
    ASSUME chain \in Seq(Hashes), FrameOK(Top), Top.lo # Top.hi, OnTheWay(Top)
    PROVE  LET d == ProbeDepth(Top) IN
           /\ OnTheWay(Frame(d, Top.hi, AtOrAbove(Top)))
           /\ OnTheWay(Frame(Top.lo, d - 1, Below(Top)))
<1> DEFINE lo == Top.lo
           hi == Top.hi
           d == ProbeDepth(Top)
<1>1. Len(chain) \in Nat /\ lo \in 0 .. Len(chain) /\ hi \in 0 .. Len(chain) /\ lo <= hi
  BY DEF FrameOK, Frames
<1>2. ASSUME NEW p \in Top.pods
      PROVE  Depth(p) = IF <<p, chain[d]>> \in owned
                        THEN DepthFrom(p, chain, owned)[<<d, hi>>]
                        ELSE DepthFrom(p, chain, owned)[<<lo, d - 1>>]
  <2>1. Depth(p) = DepthFrom(p, chain, owned)[<<lo, hi>>]
    BY DEF OnTheWay
  <2>2. DepthFrom(p, chain, owned)[<<lo, hi>>] =
            IF lo = hi THEN lo
            ELSE IF <<p, chain[(lo + hi + 1) \div 2]>> \in owned
                 THEN DepthFrom(p, chain, owned)[<<(lo + hi + 1) \div 2, hi>>]
                 ELSE DepthFrom(p, chain, owned)[<<lo, (lo + hi + 1) \div 2 - 1>>]
    BY <1>1, SearchStep
  <2>3. d = (lo + hi + 1) \div 2
    BY DEF ProbeDepth
  <2> QED
    BY <2>1, <2>2, <2>3
<1> QED
  BY <1>2 DEF OnTheWay, Frame, AtOrAbove, Below

LEMMA PushOnTheWay ==
    ASSUME NEW s \in Seq(Frames), AllOnTheWay(s), NEW lo \in Nat, NEW hi \in Nat,
           NEW pods \in SUBSET Pods, OnTheWay(Frame(lo, hi, pods))
    PROVE  Push(s, lo, hi, pods) \in Seq(Frames) /\ AllOnTheWay(Push(s, lo, hi, pods))
<1>1. CASE pods = {}
  BY <1>1 DEF Push
<1>2. CASE pods # {}
  <2> DEFINE f == Frame(lo, hi, pods)
             t == Append(s, f)
  <2>1. f \in Frames /\ Push(s, lo, hi, pods) = t
    BY <1>2 DEF Frame, Frames, Push
  <2> HIDE DEF f
  <2>2. /\ t \in Seq(Frames) /\ Len(t) = Len(s) + 1 /\ Len(s) \in Nat
        /\ \A i \in 1 .. Len(s) : t[i] = s[i]
        /\ t[Len(s) + 1] = f
    BY <2>1, AppendProperties
  <2> HIDE DEF t
  <2>3. \A i \in 1 .. Len(t) : i \in 1 .. Len(s) \/ i = Len(s) + 1
    BY <2>2
  <2>4. OnTheWay(f)
    BY DEF f
  <2> QED
    BY <2>1, <2>2, <2>3, <2>4 DEF AllOnTheWay
<1> QED
  BY <1>1, <1>2

\* So does a probe of the top frame, in either order of the halves.
LEMMA SplitOnTheWay ==
    ASSUME GoodStack(stack), stack # <<>>, chain \in Seq(Hashes), Top.lo # Top.hi,
           AllOnTheWay(stack),
           NEW s \in {PushBelow(PushAbove(Rest, Top), Top), PushAbove(PushBelow(Rest, Top), Top)}
    PROVE  AllOnTheWay(s)
<1> DEFINE f == Top
           d == ProbeDepth(f)
<1>1. FrameOK(f) /\ OnTheWay(f) /\ Rest \in Seq(Frames) /\ AllOnTheWay(Rest)
  <2>1. /\ FrameOK(f) /\ Rest \in Seq(Frames)
        /\ Len(stack) \in Nat /\ Len(stack) > 0 /\ Len(Rest) = Len(stack) - 1
        /\ \A i \in 1 .. Len(Rest) : Rest[i] = stack[i]
    BY PopGood, RestOfStack DEF GoodStack
  <2>2. OnTheWay(f)
    BY <2>1 DEF AllOnTheWay, Top
  <2>3. AllOnTheWay(Rest)
    BY <2>1 DEF AllOnTheWay
  <2> QED
    BY <2>1, <2>2, <2>3
<1>2. /\ OnTheWay(Frame(d, f.hi, AtOrAbove(f)))
      /\ OnTheWay(Frame(f.lo, d - 1, Below(f)))
  BY <1>1, ProbeOnTheWay
<1>3. f.lo \in Nat /\ f.hi \in Nat /\ f.lo < f.hi /\ f.pods \in SUBSET Pods
  BY <1>1 DEF FrameOK, Frames
<1>4. d \in Nat /\ d - 1 \in Nat
  BY <1>3, ProbeHalves DEF ProbeDepth
<1>5. AtOrAbove(f) \in SUBSET Pods /\ Below(f) \in SUBSET Pods
  BY <1>3 DEF AtOrAbove, Below
<1>6. \A s0 : /\ PushAbove(s0, f) = Push(s0, d, f.hi, AtOrAbove(f))
              /\ PushBelow(s0, f) = Push(s0, f.lo, d - 1, Below(f))
  BY DEF PushAbove, PushBelow, AboveMax, BelowMax
<1> HIDE DEF f, d
<1>7. ASSUME NEW s0 \in Seq(Frames), AllOnTheWay(s0)
      PROVE  /\ PushAbove(s0, f) \in Seq(Frames) /\ AllOnTheWay(PushAbove(s0, f))
             /\ PushBelow(s0, f) \in Seq(Frames) /\ AllOnTheWay(PushBelow(s0, f))
  BY <1>2, <1>3, <1>4, <1>5, <1>6, <1>7, PushOnTheWay
<1> QED
  BY <1>1, <1>7 DEF f

\* The search itself changes neither the chain nor the registry.
LEMMA SearchKeepsDepths ==
    ASSUME UNCHANGED <<chain, registry>>
    PROVE  /\ \A p : Depth(p)' = Depth(p)
           /\ \A s : AllOnTheWay(s) /\ stack' = s => AllOnTheWay(stack)'
  BY DEF Depth, AllOnTheWay, OnTheWay, registry

\* A query begins with all its pods where their own searches begin.
LEMMA QuietBegin ==
    ASSUME QueryInv, NEW k \in {"lengths", "best"}, NEW hs \in Chains,
           NEW cands \in SUBSET Pods, Begin(k, hs, cands)
    PROVE  QuietInv'
<1>1. hs \in Seq(Hashes) /\ Len(hs) \in Nat
  BY QueryAssumption
<1>2. /\ live' = cands \cap alive /\ chain' = hs /\ kind' = k /\ owned' = owned
      /\ live' \in SUBSET cands /\ live' \in SUBSET Pods
      /\ best' = [pod |-> Fallback(cands, live'), depth |-> 0]
      /\ lengths' = [p \in Pods |-> 0]
  BY DEF Begin, registry
<1>3. best'.depth = 0 /\ (live' # {} => best'.pod \in live' /\ \A q \in live' : best'.pod <= q)
  BY <1>2, FallbackType
<1>4. CASE hs = <<>> \/ live' = {}
  <2>1. stack' = <<>>
    BY <1>2, <1>4 DEF Begin
  <2>2. AllOnTheWay(stack)'
    BY <2>1, EmptySeq DEF AllOnTheWay
  <2>3. ASSUME NEW p \in live' PROVE Depth(p)' = 0
    <3>1. hs = <<>> /\ Len(hs) = 0
      BY <1>4, <2>3
    <3>2. PrefixDepth(p, hs, owned) = 0
      BY <3>1, SearchSettles DEF PrefixDepth
    <3> QED
      BY <1>2, <3>2 DEF Depth
  <2>4. (\A p \in live : lengths[p] = Depth(p))'
    BY <1>2, <2>3
  <2>5. (\A p \in live : Worse(p))'
    BY <1>3, <2>3 DEF Worse
  <2>6. (live # {} => best.pod \in live /\ best.depth = Depth(best.pod))'
    BY <1>3, <2>3
  <2> QED
    BY <1>2, <2>2, <2>4, <2>5, <2>6 DEF QuietInv
<1>5. CASE hs # <<>> /\ live' # {}
  <2> DEFINE f == Frame(0, Len(hs), live')
  <2>1. stack' = <<f>>
    BY <1>2, <1>5 DEF Begin
  <2>2. f.lo = 0 /\ f.hi = Len(hs) /\ f.pods = live'
    BY DEF Frame
  <2> HIDE DEF f
  <2>3. Len(stack') = 1 /\ stack'[1] = f /\ 1 \in 1 .. 1
    BY <2>1
  <2>4. \A p : Depth(p)' = DepthFrom(p, chain', owned')[<<f.lo, f.hi>>]
    BY <1>2, <2>2 DEF Depth, PrefixDepth
  <2>5. AllOnTheWay(stack)'
    BY <2>3, <2>4 DEF AllOnTheWay, OnTheWay
  <2>6. \A p \in live' : Waiting(stack', p)
    BY <2>2, <2>3 DEF Waiting
  <2> QED
    BY <1>2, <1>3, <1>5, <2>5, <2>6 DEF QuietInv, Waiting
<1> QED
  BY <1>4, <1>5

\* The top frame of a quiet search, and those under it.
LEMMA QuietPop ==
    ASSUME QueryInv, QuietInv, pc = "search", held = met, stack # <<>>
    PROVE  /\ chain \in Seq(Hashes) /\ GoodStack(stack) /\ AllOnTheWay(stack)
           /\ FrameOK(Top) /\ OnTheWay(Top) /\ GoodStack(Rest) /\ AllOnTheWay(Rest)
           /\ \A i \in 1 .. Len(Rest) : Apart(Top, Rest[i])
           /\ \A p : Waiting(stack, p) <=> Waiting(Rest, p) \/ p \in Top.pods
<1>1. chain \in Seq(Hashes) /\ GoodStack(stack) /\ AllOnTheWay(stack)
  BY DEF QueryInv, VarsOK, QuietInv
<1>2. /\ FrameOK(Top) /\ GoodStack(Rest)
      /\ \A i \in 1 .. Len(Rest) : Apart(Top, Rest[i])
      /\ \A p : Waiting(stack, p) <=> Waiting(Rest, p) \/ p \in Top.pods
  BY <1>1, PopGood
<1>3. /\ Len(stack) \in Nat /\ Len(stack) > 0 /\ Len(Rest) = Len(stack) - 1
      /\ \A i \in 1 .. Len(Rest) : Rest[i] = stack[i]
  BY <1>1, RestOfStack DEF GoodStack
<1>4. OnTheWay(Top) /\ AllOnTheWay(Rest)
  BY <1>1, <1>3 DEF AllOnTheWay, Top
<1> QED
  BY <1>1, <1>2, <1>4

LEMMA QuietSettleLengths ==
    ASSUME QueryInv, QuietInv, SettleLengths
    PROVE  QuietInv'
<1>1. /\ pc = "search" /\ kind = "lengths" /\ stack # <<>> /\ Top.lo = Top.hi
      /\ lengths' = [p \in Pods |-> IF p \in Top.pods THEN Top.lo ELSE lengths[p]]
      /\ stack' = Rest
      /\ UNCHANGED <<registry, pc, kind, chain, live, best, history>>
  BY DEF SettleLengths, Pops
<1>2. FrameOK(Top) /\ live \subseteq Pods
  BY <1>1, PopGood DEF QueryInv, VarsOK
<1>3. \A p \in Pods \ live : lengths'[p] = 0
  BY <1>1, <1>2 DEF QuietInv, FrameOK
<1>4. ASSUME held = met
      PROVE  AllOnTheWay(stack)' /\ (\A p \in live : Waiting(stack, p) \/ lengths[p] = Depth(p))'
  <2>1. /\ chain \in Seq(Hashes) /\ OnTheWay(Top) /\ AllOnTheWay(Rest)
        /\ \A p : Waiting(stack, p) <=> Waiting(Rest, p) \/ p \in Top.pods
    BY <1>1, <1>4, QuietPop
  <2>2. (\A p : Depth(p)' = Depth(p)) /\ AllOnTheWay(stack)'
    BY <1>1, <2>1, SearchKeepsDepths
  <2>3. ASSUME NEW p \in Top.pods PROVE lengths'[p] = Depth(p)
    <3>1. /\ Top.lo \in Nat /\ Top.hi \in Nat
          /\ Top.lo <= Depth(p) /\ Depth(p) <= Top.hi /\ Depth(p) \in Nat
      BY <1>2, <2>1, FrameBounds, DepthBounds
    <3>2. p \in Pods
      BY <1>2 DEF FrameOK
    <3> QED
      BY <1>1, <3>1, <3>2
  <2>4. ASSUME NEW p \in live PROVE Waiting(Rest, p) \/ lengths'[p] = Depth(p)
    <3>1. Waiting(stack, p) \/ lengths[p] = Depth(p)
      BY <1>1, <1>4 DEF QuietInv
    <3>2. lengths'[p] = IF p \in Top.pods THEN Top.lo ELSE lengths[p]
      BY <1>1, <1>2
    <3> QED
      BY <2>1, <2>3, <3>1, <3>2
  <2> QED
    BY <1>1, <2>2, <2>4
<1> QED
  BY <1>1, <1>3, <1>4 DEF QuietInv, history

LEMMA QuietProbe ==
    ASSUME QueryInv, QuietInv, ProbeLengths \/ ProbeBest
    PROVE  QuietInv'
<1> DEFINE a == PushBelow(PushAbove(Rest, Top), Top)
           b == PushAbove(PushBelow(Rest, Top), Top)
<1>1. /\ pc = "search" /\ stack # <<>> /\ Top.lo # Top.hi
      /\ kind = "best" => ~FullMatch
      /\ stack' \in {a, b}
      /\ UNCHANGED <<registry, pc, kind, chain, live, lengths, best, history>>
  BY DEF ProbeLengths, ProbeBest, Pops
<1>2. \A s \in {a, b} : \A p : Waiting(s, p) <=> Waiting(stack, p)
  BY <1>1, SplitGood DEF QueryInv, VarsOK, HistoryOK
<1>3. ASSUME held = met PROVE AllOnTheWay(a) /\ AllOnTheWay(b)
  <2>1. GoodStack(stack) /\ chain \in Seq(Hashes) /\ AllOnTheWay(stack)
    BY <1>1, <1>3, QuietPop
  <2> QED
    BY <1>1, <2>1, SplitOnTheWay
<1> HIDE DEF a, b
<1>4. held = met => AllOnTheWay(stack)'
  BY <1>1, <1>3, SearchKeepsDepths
<1>5. \A p : Waiting(stack', p) <=> Waiting(stack, p)
  BY <1>1, <1>2
<1>6. \A p : Depth(p)' = Depth(p) /\ (Worse(p)' <=> Worse(p))
  BY <1>1 DEF Depth, Worse, registry
<1>7. UNCHANGED <<pc, kind, live, lengths, best, held, met>>
  BY <1>1 DEF history
<1> QED
  BY <1>4, <1>5, <1>6, <1>7 DEF QuietInv

\* The pods of a frame that is skipped have less than the best match.
LEMMA QuietSkipBest ==
    ASSUME QueryInv, QuietInv, SkipBest
    PROVE  QuietInv'
<1>1. /\ pc = "search" /\ kind = "best" /\ stack # <<>> /\ Top.hi < best.depth
      /\ stack' = Rest
      /\ UNCHANGED <<registry, pc, kind, chain, live, lengths, best, history>>
  BY DEF SkipBest, Pops
<1> SUFFICES ASSUME held = met
             PROVE  /\ AllOnTheWay(stack)'
                    /\ (\A p \in live : Waiting(stack, p) \/ Worse(p))'
                    /\ (live # {} => /\ best.pod \in live
                                     /\ \/ best.depth = Depth(best.pod)
                                        \/ best.depth = 0 /\ Waiting(stack, best.pod))'
  BY <1>1 DEF QuietInv, history
<1>2. /\ chain \in Seq(Hashes) /\ FrameOK(Top) /\ OnTheWay(Top) /\ AllOnTheWay(Rest)
      /\ \A p : Waiting(stack, p) <=> Waiting(Rest, p) \/ p \in Top.pods
  BY <1>1, QuietPop
<1>3. (\A p : Depth(p)' = Depth(p)) /\ AllOnTheWay(stack)'
  BY <1>1, <1>2, SearchKeepsDepths
<1>4. best.depth \in Nat /\ Top.hi \in Nat /\ best.depth # 0
  BY <1>1, <1>2 DEF QueryInv, VarsOK, FrameOK, Frames
<1>5. ASSUME NEW p \in Top.pods PROVE Worse(p)
  <2>1. Depth(p) <= Top.hi /\ Depth(p) \in Nat
    BY <1>2, FrameBounds, DepthBounds
  <2> QED
    BY <1>1, <1>4, <2>1 DEF Worse
<1>6. /\ \A p \in live : Waiting(stack, p) \/ Worse(p)
      /\ live # {} => best.pod \in live /\ best.depth = Depth(best.pod)
  BY <1>1, <1>4 DEF QuietInv
<1>7. \A p : Worse(p)' <=> Worse(p)
  BY <1>1, <1>3 DEF Worse
<1> QED
  BY <1>1, <1>2, <1>3, <1>5, <1>6, <1>7

\* A frame of one depth holds all the pods of that depth that are not worse.
LEMMA QuietSettleBest ==
    ASSUME QueryInv, QuietInv, SettleBest
    PROVE  QuietInv'
<1> DEFINE p == FirstSetBit(Top.pods)
           better == \/ Top.lo > best.depth
                     \/ Top.lo = best.depth /\ p < best.pod
<1>1. /\ pc = "search" /\ kind = "best" /\ stack # <<>>
      /\ Top.hi >= best.depth /\ Top.lo = Top.hi
      /\ best' = IF better THEN [pod |-> p, depth |-> Top.lo] ELSE best
      /\ stack' = Rest
      /\ UNCHANGED <<registry, pc, kind, chain, live, lengths, history>>
  BY DEF SettleBest, Pops
<1> SUFFICES ASSUME held = met
             PROVE  /\ AllOnTheWay(stack)'
                    /\ (\A q \in live : Waiting(stack, q) \/ Worse(q))'
                    /\ (live # {} => /\ best.pod \in live
                                     /\ \/ best.depth = Depth(best.pod)
                                        \/ best.depth = 0 /\ Waiting(stack, best.pod))'
  BY <1>1 DEF QuietInv, history
<1>2. /\ chain \in Seq(Hashes) /\ FrameOK(Top) /\ OnTheWay(Top) /\ AllOnTheWay(Rest)
      /\ \A q : Waiting(stack, q) <=> Waiting(Rest, q) \/ q \in Top.pods
  BY <1>1, QuietPop
<1>3. (\A q : Depth(q)' = Depth(q)) /\ AllOnTheWay(stack)'
  BY <1>1, <1>2, SearchKeepsDepths
<1>4. Top.pods \subseteq live /\ live \subseteq Pods /\ Pods \subseteq Nat /\ Top.pods # {}
  BY <1>2, QueryAssumption DEF FrameOK, QueryInv, VarsOK
<1>5. p \in Top.pods /\ \A q \in Top.pods : p <= q
  BY <1>4, FirstSetBitLeast
<1> HIDE DEF p
<1>6. /\ best.depth \in Nat /\ Top.lo \in Nat /\ Top.lo >= best.depth
      /\ best.pod \in live /\ best.pod \in Nat /\ p \in Nat
      /\ \A q \in live : q \in Nat
  BY <1>1, <1>2, <1>4, <1>5 DEF QueryInv, VarsOK, BestOK, FrameOK, Frames
<1>7. \A q : Depth(q) \in Nat
  BY <1>2, DepthBounds
<1>8. ASSUME NEW q \in Top.pods PROVE Depth(q) = Top.lo
  <2>1. Top.lo <= Depth(q) /\ Depth(q) <= Top.hi
    BY <1>2, FrameBounds
  <2> QED
    BY <1>1, <1>6, <1>7, <2>1
<1>9. /\ best'.depth = Top.lo
      /\ best'.pod \in live /\ best'.pod \in Nat
      /\ best'.pod <= p
      /\ Top.lo = best.depth => best'.pod <= best.pod
      /\ best'.pod = p \/ (best' = best /\ Top.lo = best.depth)
  BY <1>1, <1>4, <1>5, <1>6
<1>10. ASSUME NEW q \in live, ~Waiting(Rest, q)
       PROVE  Depth(q) < best'.depth \/ (Depth(q) = best'.depth /\ best'.pod <= q)
  <2>1. q \in Nat /\ Depth(q) \in Nat
    BY <1>6, <1>7
  <2>2. CASE q \in Top.pods
    BY <1>5, <1>6, <1>8, <1>9, <2>1, <2>2
  <2>3. CASE Worse(q)
    <3>1. Depth(q) < best.depth \/ (Depth(q) = best.depth /\ best.pod <= q)
      BY <2>3 DEF Worse
    <3> QED
      BY <1>6, <1>9, <2>1, <3>1
  <2>4. Waiting(stack, q) \/ Worse(q)
    BY <1>1 DEF QuietInv
  <2> QED
    BY <1>2, <1>10, <2>2, <2>3, <2>4
<1>11. \/ best'.depth = Depth(best'.pod)
       \/ best'.depth = 0 /\ Waiting(Rest, best'.pod)
  <2>1. CASE best'.pod = p
    BY <1>5, <1>8, <1>9, <2>1
  <2>2. CASE best' = best /\ Top.lo = best.depth
    <3>1. \/ best.depth = Depth(best.pod)
          \/ best.depth = 0 /\ Waiting(stack, best.pod)
      BY <1>1, <1>6 DEF QuietInv
    <3> QED
      BY <1>2, <1>8, <2>2, <3>1
  <2> QED
    BY <1>9, <2>1, <2>2
<1>12. (\A q \in live : Waiting(stack, q) \/ Worse(q))'
  BY <1>1, <1>3, <1>10 DEF Worse
<1> QED
  BY <1>1, <1>3, <1>9, <1>11, <1>12

\* Only the pods that own the probed last block have the whole chain.
LEMMA QuietFindFull ==
    ASSUME QueryInv, QuietInv, FindFull
    PROVE  QuietInv'
<1> DEFINE above == AtOrAbove(Top)
           p == FirstSetBit(above)
           n == Len(chain)
<1>1. /\ pc = "search" /\ kind = "best" /\ stack # <<>> /\ Top.lo # Top.hi
      /\ ProbeDepth(Top) = n /\ above # {}
      /\ best' = [pod |-> p, depth |-> n]
      /\ stack' = <<>> /\ pc' = "done"
      /\ UNCHANGED <<registry, kind, chain, live, lengths, history>>
  BY DEF FindFull, FullMatch, Pops
<1> SUFFICES ASSUME held = met
             PROVE  /\ AllOnTheWay(stack)'
                    /\ (\A q \in live : Worse(q))'
                    /\ (best.pod \in live /\ best.depth = Depth(best.pod))'
  BY <1>1 DEF QuietInv, history
<1>2. /\ chain \in Seq(Hashes) /\ FrameOK(Top) /\ OnTheWay(Top) /\ AllOnTheWay(Rest)
      /\ GoodStack(Rest)
      /\ \A i \in 1 .. Len(Rest) : Apart(Top, Rest[i])
      /\ \A q : Waiting(stack, q) <=> Waiting(Rest, q) \/ q \in Top.pods
  BY <1>1, QuietPop
<1>3. /\ n \in Nat /\ Top.lo \in Nat /\ Top.hi \in Nat /\ Top.lo < Top.hi /\ Top.hi = n
  BY <1>1, <1>2 DEF FrameOK, Frames, ProbeDepth
<1>4. above \subseteq Top.pods /\ Top.pods \subseteq live /\ live \subseteq Pods /\ Pods \subseteq Nat
  BY <1>2, QueryAssumption DEF AtOrAbove, FrameOK, QueryInv, VarsOK
<1>5. p \in above /\ \A q \in above : p <= q
  BY <1>1, <1>4, FirstSetBitLeast
<1> HIDE DEF p
<1>6. \A q : Depth(q) \in Nat /\ Depth(q) <= n
  BY <1>2, DepthBounds
<1>7. ASSUME NEW q \in above PROVE Depth(q) = n
  <2>1. OnTheWay(Frame(n, Top.hi, above))
    BY <1>1, <1>2, ProbeOnTheWay
  <2>2. Depth(q) = DepthFrom(q, chain, owned)[<<n, n>>]
    BY <1>3, <2>1 DEF OnTheWay, Frame
  <2>3. n \in 0 .. n
    BY <1>3
  <2> QED
    BY <1>3, <2>2, <2>3, SearchSettles
<1>8. ASSUME NEW q \in Top.pods \ above PROVE Depth(q) < n
  <2>1. Found(q, chain, owned, Top.lo, n - 1, DepthFrom(q, chain, owned)[<<Top.lo, n - 1>>])
    <3>1. Top.lo \in 0 .. n /\ n - 1 \in 0 .. n /\ Top.lo <= n - 1
      BY <1>3
    <3> QED
      BY <1>3, <3>1, SearchFinds
  <2>2. OnTheWay(Frame(Top.lo, n - 1, Below(Top)))
    BY <1>1, <1>2, ProbeOnTheWay
  <2>3. Depth(q) = DepthFrom(q, chain, owned)[<<Top.lo, n - 1>>]
    BY <2>2 DEF OnTheWay, Frame, Below
  <2>4. Depth(q) \in Top.lo .. n - 1
    BY <2>1, <2>3 DEF Found
  <2> QED
    BY <1>3, <1>6, <2>4
<1>9. ASSUME NEW q, Waiting(Rest, q) PROVE Depth(q) < n
  <2>1. PICK i \in 1 .. Len(Rest) : q \in Rest[i].pods
    BY <1>9 DEF Waiting
  <2>2. FrameOK(Rest[i]) /\ OnTheWay(Rest[i]) /\ Apart(Top, Rest[i])
    BY <1>2 DEF GoodStack, AllOnTheWay
  <2>3. Rest[i].lo \in Nat /\ Rest[i].hi \in Nat /\ Rest[i].lo <= Rest[i].hi /\ Rest[i].hi <= n
    BY <2>2 DEF FrameOK, Frames
  <2>4. Rest[i].hi < n
    BY <1>3, <2>2, <2>3 DEF Apart
  <2>5. Depth(q) <= Rest[i].hi
    BY <1>2, <2>1, <2>2, FrameBounds
  <2> QED
    BY <1>3, <1>6, <2>3, <2>4, <2>5
<1>10. ASSUME NEW q, Worse(q) PROVE Depth(q) < n
  <2>1. best.depth \in Nat /\ best.depth < n
    BY <1>1 DEF QueryInv, VarsOK, BestOK
  <2> QED
    BY <1>3, <1>6, <1>10, <2>1 DEF Worse
<1>11. ASSUME NEW q \in live PROVE Depth(q) < n \/ (Depth(q) = n /\ p <= q)
  <2>1. Waiting(stack, q) \/ Worse(q)
    BY <1>1 DEF QuietInv
  <2>2. CASE q \in Top.pods
    BY <1>5, <1>7, <1>8, <2>2
  <2> QED
    BY <1>2, <1>9, <1>10, <2>1, <2>2
<1>12. \A q : Depth(q)' = Depth(q)
  BY <1>1 DEF Depth, registry
<1>13. AllOnTheWay(stack)'
  BY <1>1, EmptySeq DEF AllOnTheWay
<1> HIDE DEF n, above
<1>14. best'.pod = p /\ best'.depth = n /\ live' = live
  BY <1>1
<1>15. (\A q \in live : Worse(q))'
  BY <1>11, <1>12, <1>14 DEF Worse
<1>16. (best.pod \in live /\ best.depth = Depth(best.pod))'
  BY <1>4, <1>5, <1>7, <1>12, <1>14
<1> QED
  BY <1>13, <1>15, <1>16

\* When the registry was changed during the query and all pairs are still as
\* they were, it is what it was.
LEMMA QuietChange ==
    ASSUME QueryInv, QuietInv, Change
    PROVE  QuietInv'
<1>1. /\ UNCHANGED <<pc, kind, chain, live, stack, lengths, best>>
      /\ held' = held \cap owned'
      /\ pc # "idle" => met' = met \cup owned'
  BY DEF Change, query
<1>2. ASSUME pc # "idle", held' = met' PROVE held = met /\ owned' = owned
  <2>1. held \subseteq owned /\ owned \subseteq met
    BY <1>2 DEF QueryInv, HistoryOK
  <2> QED
    BY <1>1, <1>2, <2>1
<1>3. ASSUME owned' = owned
      PROVE  /\ \A p : Depth(p)' = Depth(p) /\ (Worse(p)' <=> Worse(p))
             /\ AllOnTheWay(stack) => AllOnTheWay(stack)'
  BY <1>1, <1>3 DEF Depth, Worse, AllOnTheWay, OnTheWay
<1>4. \A p : Waiting(stack', p) <=> Waiting(stack, p)
  BY <1>1
<1> QED
  BY <1>1, <1>2, <1>3, <1>4 DEF QuietInv

\* With nobody changing the registry, the shared search gives each pod what its
\* own binary search would give it, and the best match is the deepest pod with
\* the lowest id: both queries agree, holes or not.
THEOREM QuietExactHolds == Spec => []QuietExact
<1>1. Init => QuietInv
  BY DEF Init, QuietInv
<1>2. ASSUME QueryInv, QuietInv, Finish PROVE QuietInv'
  <2>1. /\ pc = "search" /\ pc' = "done"
        /\ UNCHANGED <<owned, kind, chain, live, stack, lengths, best, held, met>>
    BY <1>2 DEF Finish, registry, history
  <2>2. /\ \A p : Depth(p)' = Depth(p) /\ (Worse(p)' <=> Worse(p))
        /\ AllOnTheWay(stack) => AllOnTheWay(stack)'
        /\ \A p : Waiting(stack', p) <=> Waiting(stack, p)
    BY <2>1 DEF Depth, Worse, AllOnTheWay, OnTheWay
  <2> QED
    BY <1>2, <2>1, <2>2 DEF QuietInv
<1>3. ASSUME Return PROVE QuietInv'
  BY <1>3 DEF Return, QuietInv
<1>4. ASSUME QueryInv, QuietInv, UNCHANGED vars PROVE QuietInv'
  <2>1. UNCHANGED <<owned, pc, kind, chain, live, stack, lengths, best, held, met>>
    BY <1>4 DEF vars, registry, query, history
  <2> QED
    BY <1>4, <2>1 DEF QuietInv, AllOnTheWay, OnTheWay, Depth, Worse, Waiting
<1>5. ASSUME QueryInv, QuietInv, [Next]_vars PROVE QuietInv'
  BY <1>2, <1>3, <1>4, <1>5, QuietBegin, QuietSettleLengths, QuietProbe, QuietSkipBest,
     QuietSettleBest, QuietFindFull, QuietChange DEF Next, Search
<1>6. QueryInv /\ QuietInv => QuietExact
  <2> SUFFICES ASSUME QueryInv, QuietInv, pc = "done", held = met
               PROVE  /\ kind = "lengths" =>
                            \A p \in Pods : lengths[p] = CacheDepth(p, chain, owned, live)
                      /\ kind = "best" /\ live # {} =>
                            /\ best.pod \in live
                            /\ best.depth = Depth(best.pod)
                            /\ \A p \in live \ {best.pod} :
                                  \/ Depth(p) < best.depth
                                  \/ Depth(p) = best.depth /\ best.pod < p
    BY DEF QuietExact, Depth
  <2>1. \A p : ~Waiting(stack, p)
    BY EmptySeq DEF QueryInv, Waiting
  <2>2. ASSUME kind = "lengths", NEW p \in Pods
        PROVE  lengths[p] = CacheDepth(p, chain, owned, live)
    BY <2>1, <2>2 DEF QuietInv, CacheDepth, Depth
  <2>3. ASSUME kind = "best", live # {}
        PROVE  /\ best.pod \in live
               /\ best.depth = Depth(best.pod)
               /\ \A p \in live : Worse(p)
    BY <2>1, <2>3 DEF QuietInv
  <2>4. ASSUME kind = "best", live # {}, NEW p \in live \ {best.pod}
        PROVE  Depth(p) < best.depth \/ (Depth(p) = best.depth /\ best.pod < p)
    <3>1. p \in Nat /\ best.pod \in Nat
      BY <2>3, <2>4, QueryAssumption DEF QueryInv, VarsOK
    <3> QED
      BY <2>3, <2>4, <3>1 DEF Worse
  <2> QED
    BY <2>2, <2>3, <2>4
<1> QED
  BY <1>1, <1>5, <1>6, QueryInvHolds, PTL DEF Spec
=============================================================================
