----------------------------- MODULE ChainProofs -----------------------------
(***************************************************************************)
(* What is computed with hash chains, for every prompt, chain and state of *)
(* the registry: that both ways to hash a prompt give the same chain, what *)
(* a hash of a chain stands for, and what the binary search of PrefixDepth *)
(* finds.  First the induction over the natural numbers that the proofs    *)
(* about recursive functions rest on.                                      *)
(***************************************************************************)
EXTENDS PrefixDepth, Prompt, SequenceTheorems, WellFoundedInduction, TLAPS

-----------------------------------------------------------------------------
(* Induction.  A property is given as the set of numbers that have it.     *)

\* A set of natural numbers that is not empty has a least element.
LEMMA LeastNat ==
    ASSUME NEW S \in SUBSET Nat, S # {}
    PROVE  \E m \in S : \A n \in S : m <= n
<1>1. PICK m \in S : \A n \in S : <<n, m>> \notin OpToRel(<, Nat)
  BY NatLessThanWellFounded, WFMin
<1>2. ASSUME NEW n \in S, n < m PROVE FALSE
  <2>1. <<n, m>> \in Nat \X Nat /\ <<n, m>>[1] < <<n, m>>[2]
    BY <1>2
  <2>2. <<n, m>> \in OpToRel(<, Nat)
    BY <2>1, Zenon DEF OpToRel
  <2> QED
    BY <1>1, <2>2
<1> QED
  BY <1>2

LEMMA InductionOnNat ==
    ASSUME NEW S \in SUBSET Nat, 0 \in S, \A n \in S : n + 1 \in S
    PROVE  S = Nat
<1> SUFFICES ASSUME Nat \ S # {} PROVE FALSE
  OBVIOUS
<1>1. PICK m \in Nat \ S : \A n \in Nat \ S : m <= n
  BY LeastNat
<1>2. m - 1 \in Nat /\ m - 1 \in S
  BY <1>1
<1> QED
  BY <1>1, <1>2

\* Two functions on initial segments of the numbers that take the same steps
\* from the same value agree where both are defined.
StepsTo(V, v0, step, n, h) ==
    /\ h \in [0 .. n -> V]
    /\ h[0] = v0
    /\ \A i \in 0 .. n - 1 : h[i + 1] = step[<<i, h[i]>>]

LEMMA StepsAgree ==
    ASSUME NEW V, NEW v0, NEW step, NEW m \in Nat, NEW n \in Nat, m <= n, NEW h, NEW k,
           StepsTo(V, v0, step, m, h), StepsTo(V, v0, step, n, k)
    PROVE  h[m] = k[m]
<1> DEFINE S == {i \in Nat : i <= m => h[i] = k[i]}
<1>1. 0 \in S
  BY DEF StepsTo
<1>2. ASSUME NEW i \in S PROVE i + 1 \in S
  <2>1. i \in Nat /\ (i <= m => h[i] = k[i])
    OBVIOUS
  <2>2. ASSUME i + 1 <= m PROVE h[i + 1] = k[i + 1]
    <3>1. i \in 0 .. m - 1 /\ i \in 0 .. n - 1 /\ h[i] = k[i]
      BY <2>1, <2>2
    <3> QED
      BY <3>1 DEF StepsTo
  <2> QED
    BY <2>1, <2>2
<1>3. S \in SUBSET Nat
  OBVIOUS
<1> HIDE DEF S
<1>4. S = Nat
  BY <1>1, <1>2, <1>3, InductionOnNat
<1> QED
  BY <1>4 DEF S

\* A value to begin with and a step define a function of the natural numbers.
StepFunctions(V) == [Nat \X V -> V]

Iterates(V, v0, step, g) ==
    /\ g \in [Nat -> V]
    /\ g[0] = v0
    /\ \A i \in Nat : g[i + 1] = step[<<i, g[i]>>]

LEMMA RecursionOnNat ==
    ASSUME NEW V, NEW v0 \in V, NEW step \in StepFunctions(V)
    PROVE  \E g : Iterates(V, v0, step, g)
<1> DEFINE P(n, h) == StepsTo(V, v0, step, n, h)
           S == {n \in Nat : \E h : P(n, h)}
<1>1. 0 \in S
  <2>1. P(0, [i \in 0 .. 0 |-> v0])
    BY DEF StepsTo
  <2> QED
    BY <2>1
<1>2. ASSUME NEW n \in Nat, NEW h, P(n, h) PROVE \E k : P(n + 1, k)
  <2> DEFINE k == [i \in 0 .. n + 1 |-> IF i = n + 1 THEN step[<<n, h[n]>>] ELSE h[i]]
  <2>1. h \in [0 .. n -> V] /\ h[n] \in V /\ step[<<n, h[n]>>] \in V
    BY <1>2 DEF StepsTo, StepFunctions
  <2>2. k \in [0 .. n + 1 -> V]
    BY <2>1
  <2>3. \A i \in 0 .. n : k[i] = h[i]
    OBVIOUS
  <2>4. k[n + 1] = step[<<n, h[n]>>]
    OBVIOUS
  <2> HIDE DEF k
  <2>5. ASSUME NEW i \in 0 .. n PROVE k[i + 1] = step[<<i, k[i]>>]
    <3>1. CASE i = n
      BY <2>3, <2>4, <3>1
    <3>2. CASE i # n
      <4>1. i \in 0 .. n - 1 /\ i + 1 \in 0 .. n
        BY <3>2
      <4> QED
        BY <1>2, <2>3, <4>1 DEF StepsTo
    <3> QED
      BY <3>1, <3>2
  <2>6. k[0] = v0
    BY <1>2, <2>3 DEF StepsTo
  <2>7. 0 .. (n + 1) - 1 = 0 .. n
    OBVIOUS
  <2>8. P(n + 1, k)
    BY <2>2, <2>5, <2>6, <2>7 DEF StepsTo
  <2> QED
    BY <2>8
<1>3. \A n \in Nat : \E h : P(n, h)
  <2>1. ASSUME NEW n \in S PROVE n + 1 \in S
    <3>1. n \in Nat /\ \E h : P(n, h)
      OBVIOUS
    <3> HIDE DEF P
    <3> QED
      BY <1>2, <3>1
  <2>2. S \in SUBSET Nat
    OBVIOUS
  <2> HIDE DEF S
  <2>3. S = Nat
    BY <1>1, <2>1, <2>2, InductionOnNat
  <2> QED
    BY <2>3 DEF S
<1> DEFINE upTo(n) == CHOOSE h : P(n, h)
           g == [n \in Nat |-> upTo(n)[n]]
<1>4. ASSUME NEW n \in Nat PROVE P(n, upTo(n))
  <2> HIDE DEF P
  <2> QED
    BY <1>3
<1> HIDE DEF upTo
<1>5. g \in [Nat -> V]
  BY <1>4 DEF StepsTo
<1>6. g[0] = v0
  BY <1>4 DEF StepsTo
<1>7. ASSUME NEW i \in Nat PROVE g[i + 1] = step[<<i, g[i]>>]
  <2>1. P(i, upTo(i)) /\ P(i + 1, upTo(i + 1))
    BY <1>4
  <2>2. upTo(i)[i] = upTo(i + 1)[i]
    BY <2>1, StepsAgree
  <2>3. upTo(i + 1)[i + 1] = step[<<i, upTo(i + 1)[i]>>]
    BY <2>1 DEF StepsTo
  <2> QED
    BY <2>2, <2>3
<1> HIDE DEF g
<1> QED
  BY <1>5, <1>6, <1>7 DEF Iterates

-----------------------------------------------------------------------------
(* The search.                                                             *)

\* The equation that defines the search, on the frames in D.
Searches(D, p, chain, owned, g) ==
    g = [f \in D |->
            IF f[1] = f[2] THEN f[1]
            ELSE IF <<p, chain[(f[1] + f[2] + 1) \div 2]>> \in owned
                 THEN g[<<(f[1] + f[2] + 1) \div 2, f[2]>>]
                 ELSE g[<<f[1], (f[1] + f[2] + 1) \div 2 - 1>>]]

\* Both halves of a frame of more than one depth are shorter frames.
LEMMA HalvesShorter ==
    ASSUME NEW n \in Nat, NEW lo \in 0 .. n, NEW hi \in 0 .. n, lo < hi
    PROVE  LET probe == (lo + hi + 1) \div 2 IN
           /\ probe \in 1 .. n /\ lo < probe /\ probe <= hi
           /\ <<probe, hi>> \in Spans(n) /\ hi - probe < hi - lo
           /\ <<lo, probe - 1>> \in Spans(n) /\ probe - 1 - lo < hi - lo
  BY DEF Spans

LEMMA SpanParts ==
    ASSUME NEW n \in Nat, NEW f \in Spans(n)
    PROVE  f[1] \in 0 .. n /\ f[2] \in 0 .. n /\ f[1] <= f[2] /\ f = <<f[1], f[2]>>
  BY DEF Spans

\* The search is defined on every frame: it ends.
LEMMA SearchExists ==
    ASSUME NEW p, NEW chain, NEW owned, Len(chain) \in Nat
    PROVE  \E g : Searches(Spans(Len(chain)), p, chain, owned, g)
<1> DEFINE n == Len(chain)
           D(w) == {f \in Spans(n) : f[2] - f[1] <= w}
           S == {w \in Nat : \E g : Searches(D(w), p, chain, owned, g)}
<1>1. 0 \in S
  <2> DEFINE g == [f \in D(0) |-> f[1]]
  <2>1. \A f \in D(0) : f[1] = f[2]
    BY SpanParts
  <2>2. Searches(D(0), p, chain, owned, g)
    BY <2>1 DEF Searches
  <2> QED
    BY <2>2
<1>2. ASSUME NEW w \in Nat, NEW g, Searches(D(w), p, chain, owned, g)
      PROVE  \E h : Searches(D(w + 1), p, chain, owned, h)
  <2> DEFINE probe(f) == (f[1] + f[2] + 1) \div 2
             val(f) == IF f[1] = f[2] THEN f[1]
                       ELSE IF <<p, chain[probe(f)]>> \in owned
                            THEN g[<<probe(f), f[2]>>]
                            ELSE g[<<f[1], probe(f) - 1>>]
             h == [f \in D(w + 1) |-> val(f)]
  <2>1. ASSUME NEW f \in D(w)
        PROVE  f \in D(w + 1) /\ h[f] = g[f]
    <3>1. f \in D(w + 1)
      BY SpanParts
    <3>2. g[f] = val(f)
      BY <1>2 DEF Searches
    <3> HIDE DEF D, val
    <3> QED
      BY <3>1, <3>2
  <2>2. ASSUME NEW f \in D(w + 1), f[1] # f[2]
        PROVE  <<probe(f), f[2]>> \in D(w) /\ <<f[1], probe(f) - 1>> \in D(w)
    <3>1. f \in Spans(n) /\ f[2] - f[1] <= w + 1
      OBVIOUS
    <3>2. f[1] \in 0 .. n /\ f[2] \in 0 .. n /\ f[1] <= f[2]
      BY <3>1, SpanParts
    <3>3. f[1] < f[2]
      BY <2>2, <3>2
    <3>4. /\ <<probe(f), f[2]>> \in Spans(n) /\ f[2] - probe(f) < f[2] - f[1]
          /\ <<f[1], probe(f) - 1>> \in Spans(n) /\ probe(f) - 1 - f[1] < f[2] - f[1]
          /\ probe(f) \in 1 .. n
      BY <3>2, <3>3, HalvesShorter
    <3> HIDE DEF probe
    <3>5. f[2] - probe(f) <= w /\ probe(f) - 1 - f[1] <= w
      BY <3>1, <3>2, <3>4
    <3> QED
      BY <3>4, <3>5
  <2>3. Searches(D(w + 1), p, chain, owned, h)
    <3>1. ASSUME NEW f \in D(w + 1), f[1] # f[2]
          PROVE  /\ h[<<probe(f), f[2]>>] = g[<<probe(f), f[2]>>]
                 /\ h[<<f[1], probe(f) - 1>>] = g[<<f[1], probe(f) - 1>>]
      BY <2>1, <2>2, <3>1
    <3> HIDE DEF D
    <3> QED
      BY <3>1 DEF Searches
  <2> HIDE DEF h
  <2> QED
    BY <2>3
<1>3. S = Nat
  <2>1. ASSUME NEW w \in S PROVE w + 1 \in S
    <3>1. w \in Nat /\ \E g : Searches(D(w), p, chain, owned, g)
      OBVIOUS
    <3> HIDE DEF D
    <3> QED
      BY <1>2, <3>1
  <2>2. S \in SUBSET Nat
    OBVIOUS
  <2> HIDE DEF S
  <2> QED
    BY <1>1, <2>1, <2>2, InductionOnNat
<1>4. D(n) = Spans(n)
  BY SpanParts
<1> QED
  BY <1>3, <1>4

\* The search of a frame is the one its code says.
LEMMA SearchUnfolds ==
    ASSUME NEW p, NEW chain, NEW owned, Len(chain) \in Nat
    PROVE  Searches(Spans(Len(chain)), p, chain, owned, DepthFrom(p, chain, owned))
<1>1. DepthFrom(p, chain, owned) = CHOOSE g : Searches(Spans(Len(chain)), p, chain, owned, g)
  BY DEF DepthFrom, Searches
<1> QED
  BY <1>1, SearchExists

\* One step of the search: it is over, or goes on above or below the probe.
LEMMA SearchStep ==
    ASSUME NEW p, NEW chain, NEW owned, Len(chain) \in Nat,
           NEW lo \in 0 .. Len(chain), NEW hi \in 0 .. Len(chain), lo <= hi
    PROVE  LET search == DepthFrom(p, chain, owned)
               probe == (lo + hi + 1) \div 2
           IN search[<<lo, hi>>] = IF lo = hi THEN lo
                                   ELSE IF <<p, chain[probe]>> \in owned THEN search[<<probe, hi>>]
                                   ELSE search[<<lo, probe - 1>>]
<1> DEFINE f == <<lo, hi>>
<1>1. f \in Spans(Len(chain)) /\ f[1] = lo /\ f[2] = hi
  BY DEF Spans
<1>2. Searches(Spans(Len(chain)), p, chain, owned, DepthFrom(p, chain, owned))
  BY SearchUnfolds
<1> HIDE DEF f
<1>3. DepthFrom(p, chain, owned)[f] =
          IF f[1] = f[2] THEN f[1]
          ELSE IF <<p, chain[(f[1] + f[2] + 1) \div 2]>> \in owned
               THEN DepthFrom(p, chain, owned)[<<(f[1] + f[2] + 1) \div 2, f[2]>>]
               ELSE DepthFrom(p, chain, owned)[<<f[1], (f[1] + f[2] + 1) \div 2 - 1>>]
  BY <1>1, <1>2 DEF Searches
<1> QED
  BY <1>1, <1>3 DEF f

LEMMA SearchSettles ==
    ASSUME NEW p, NEW chain, NEW owned, Len(chain) \in Nat, NEW d \in 0 .. Len(chain)
    PROVE  DepthFrom(p, chain, owned)[<<d, d>>] = d
<1> DEFINE f == <<d, d>>
<1>1. f \in Spans(Len(chain)) /\ f[1] = d /\ f[2] = d
  BY DEF Spans
<1> HIDE DEF f
<1>2. Searches(Spans(Len(chain)), p, chain, owned, DepthFrom(p, chain, owned))
  BY SearchUnfolds
<1>3. DepthFrom(p, chain, owned)[f] = IF f[1] = f[2] THEN f[1] ELSE DepthFrom(p, chain, owned)[f]
  BY <1>1, <1>2 DEF Searches
<1> QED
  BY <1>1, <1>3 DEF f

\* What the search says of a pod: a depth within the frame, at which the pod
\* owns the block unless it is the frame's least, and after which it does not
\* own the next unless it is the frame's greatest.
Found(p, chain, owned, lo, hi, d) ==
    /\ d \in lo .. hi
    /\ d > lo => <<p, chain[d]>> \in owned
    /\ d < hi => <<p, chain[d + 1]>> \notin owned

\* The search finds such a depth from every frame on.
LEMMA SearchFinds ==
    ASSUME NEW p, NEW chain, NEW owned, Len(chain) \in Nat,
           NEW lo \in 0 .. Len(chain), NEW hi \in 0 .. Len(chain), lo <= hi
    PROVE  Found(p, chain, owned, lo, hi, DepthFrom(p, chain, owned)[<<lo, hi>>])
<1> DEFINE n == Len(chain)
           search == DepthFrom(p, chain, owned)
           P(w) == \A l, h \in 0 .. n :
                      l <= h /\ h - l <= w => Found(p, chain, owned, l, h, search[<<l, h>>])
           S == {w \in Nat : P(w)}
<1>1. 0 \in S
  <2> SUFFICES ASSUME NEW l \in 0 .. n, NEW h \in 0 .. n, l <= h, h - l <= 0
               PROVE  Found(p, chain, owned, l, h, search[<<l, h>>])
    OBVIOUS
  <2>1. l = h
    OBVIOUS
  <2>2. search[<<l, l>>] = l
    BY SearchSettles
  <2> HIDE DEF search
  <2> QED
    BY <2>1, <2>2 DEF Found
<1>2. ASSUME NEW w \in Nat, P(w), NEW l \in 0 .. n, NEW h \in 0 .. n, l <= h, h - l <= w + 1
      PROVE  Found(p, chain, owned, l, h, search[<<l, h>>])
  <2> DEFINE m == (l + h + 1) \div 2
             d == search[<<l, h>>]
  <2>1. CASE l = h
    <3>1. search[<<l, l>>] = l
      BY SearchSettles
    <3> HIDE DEF search
    <3> QED
      BY <2>1, <3>1 DEF Found
  <2>2. CASE l # h
    <3>1. l < m /\ m <= h /\ m \in 0 .. n /\ m - 1 \in 0 .. n /\ h - m <= w /\ m - 1 - l <= w
      BY <1>2, <2>2
    <3>2. d = IF <<p, chain[m]>> \in owned THEN search[<<m, h>>] ELSE search[<<l, m - 1>>]
      BY <1>2, <2>2, SearchStep
    <3> HIDE DEF m
    <3>3. Found(p, chain, owned, m, h, search[<<m, h>>])
      BY <1>2, <3>1
    <3>4. Found(p, chain, owned, l, m - 1, search[<<l, m - 1>>])
      BY <1>2, <3>1
    <3> HIDE DEF d, search
    <3>5. Found(p, chain, owned, l, h, d)
      <4>1. CASE <<p, chain[m]>> \in owned
        <5>1. Found(p, chain, owned, m, h, d)
          BY <3>2, <3>3, <4>1
        <5>2. d > l /\ (d = m \/ d > m)
          BY <3>1, <5>1 DEF Found
        <5> QED
          BY <3>1, <4>1, <5>1, <5>2 DEF Found
      <4>2. CASE <<p, chain[m]>> \notin owned
        <5>1. Found(p, chain, owned, l, m - 1, d)
          BY <3>2, <3>4, <4>2
        <5>2. d + 1 = m \/ d < m - 1
          BY <3>1, <5>1 DEF Found
        <5> QED
          BY <3>1, <4>2, <5>1, <5>2 DEF Found
      <4> QED
        BY <4>1, <4>2
    <3> QED
      BY <3>5 DEF d
  <2> QED
    BY <2>1, <2>2
<1>3. S = Nat
  <2>1. ASSUME NEW w \in S PROVE w + 1 \in S
    <3>1. w \in Nat /\ P(w)
      OBVIOUS
    <3>2. P(w + 1)
      BY <1>2, <3>1
    <3> HIDE DEF P
    <3> QED
      BY <3>1, <3>2
  <2>2. S \in SUBSET Nat
    OBVIOUS
  <2> HIDE DEF S
  <2> QED
    BY <1>1, <2>1, <2>2, InductionOnNat
<1>4. hi - lo \in Nat
  OBVIOUS
<1>5. P(hi - lo)
  BY <1>3, <1>4
<1> QED
  BY <1>5

\* A binary search answers with a depth of the chain at which the pod owns the
\* block and after which it does not own the next, holes or not.
THEOREM DepthIsABoundary ==
    ASSUME NEW p, NEW chain, NEW owned, Len(chain) \in Nat
    PROVE  Found(p, chain, owned, 0, Len(chain), PrefixDepth(p, chain, owned))
  BY SearchFinds DEF PrefixDepth

\* When the pod owns no block of the chain without those before it, the depth
\* is the length of the longest prefix it owns: it owns exactly the blocks up
\* to there.
THEOREM DepthIsLongestPrefix ==
    ASSUME NEW p, NEW chain, NEW owned, Len(chain) \in Nat,
           \A j \in 1 .. Len(chain) : \A i \in 1 .. j :
               <<p, chain[j]>> \in owned => <<p, chain[i]>> \in owned
    PROVE  \A i \in 1 .. Len(chain) :
               <<p, chain[i]>> \in owned <=> i <= PrefixDepth(p, chain, owned)
<1> DEFINE d == PrefixDepth(p, chain, owned)
<1>1. Found(p, chain, owned, 0, Len(chain), d)
  BY DepthIsABoundary
<1> HIDE DEF d
<1> SUFFICES ASSUME NEW i \in 1 .. Len(chain)
             PROVE  <<p, chain[i]>> \in owned <=> i <= d
  BY DEF d
<1>2. CASE i <= d
  <2>1. d \in 1 .. Len(chain) /\ i \in 1 .. d /\ <<p, chain[d]>> \in owned
    BY <1>1, <1>2 DEF Found
  <2> QED
    BY <1>2, <2>1
<1>3. CASE ~(i <= d)
  <2>1. d + 1 \in 1 .. i /\ <<p, chain[d + 1]>> \notin owned
    BY <1>1, <1>3 DEF Found
  <2> QED
    BY <1>3, <2>1
<1> QED
  BY <1>2, <1>3

-----------------------------------------------------------------------------
(* The hash chain of a prompt.                                             *)

LEMMA MinOfTwo ==
    ASSUME NEW a \in Int, NEW b \in Int
    PROVE  Min({a, b}) = IF a <= b THEN a ELSE b
<1> DEFINE c == IF a <= b THEN a ELSE b
<1>1. c \in {a, b} /\ \A y \in {a, b} : c <= y
  OBVIOUS
<1>2. \A x \in {a, b} : (\A y \in {a, b} : x <= y) => x = c
  OBVIOUS
<1> HIDE DEF c
<1>3. Min({a, b}) = c
  BY <1>1, <1>2 DEF Min
<1> QED
  BY <1>3 DEF c

\* How many blocks of size tokens there are among m: the last may be partial.
LEMMA BlockCount ==
    ASSUME NEW m \in Nat, NEW size \in Nat \ {0}
    PROVE  LET k == (m + size - 1) \div size IN
           k \in Nat /\ m <= k * size /\ k * size < m + size
<1> DEFINE x == m + size - 1
           k == x \div size
<1>1. x \in Nat
  OBVIOUS
<1> HIDE DEF x
<1>2. k \in Nat /\ k * size <= x /\ x < k * size + size
  BY <1>1
<1> HIDE DEF k
<1>3. k * size \in Nat
  BY <1>2
<1> QED
  BY <1>2, <1>3 DEF x, k

\* Multiples of size in order.
LEMMA Multiples ==
    ASSUME NEW a \in Nat, NEW b \in Nat, NEW size \in Nat \ {0}
    PROVE  /\ a * size \in Nat
           /\ (a + 1) * size = a * size + size
           /\ a * size < b * size + size => a <= b
           /\ a <= b => a * size <= b * size
<1>1. a * size \in Nat /\ b * size \in Nat /\ (a + 1) * size = a * size + size
  OBVIOUS
<1>2. ASSUME a <= b PROVE a * size <= b * size
  BY <1>2
<1>3. ASSUME a >= b + 1 PROVE a * size >= b * size + size
  <2>1. a * size >= (b + 1) * size
    BY <1>3
  <2> QED
    BY <2>1
<1>4. ASSUME a * size < b * size + size PROVE a <= b
  BY <1>1, <1>3, <1>4
<1> QED
  BY <1>1, <1>2, <1>4

\* The i-th block of a prompt, which it has when (i - 1) * size < Len(tokens).
Block(tokens, size, i) ==
    SubSeq(tokens, (i - 1) * size + 1, IF i * size <= Len(tokens) THEN i * size ELSE Len(tokens))

LEMMA ChunksAreBlocks ==
    ASSUME NEW T, NEW tokens \in Seq(T), NEW size \in Nat \ {0}
    PROVE  LET chunks == Chunks(tokens, size) IN
           /\ chunks \in Seq(Seq(T))
           /\ Len(tokens) <= Len(chunks) * size /\ Len(chunks) * size < Len(tokens) + size
           /\ \A i \in 1 .. Len(chunks) : chunks[i] = Block(tokens, size, i)
<1> DEFINE m == Len(tokens)
           k == (m + size - 1) \div size
           chunks == Chunks(tokens, size)
<1>1. m \in Nat /\ k \in Nat /\ m <= k * size /\ k * size < m + size
  <2>1. m \in Nat
    OBVIOUS
  <2> HIDE DEF m
  <2> QED
    BY <2>1, BlockCount
<1>2. chunks = [i \in 1 .. k |-> SubSeq(tokens, (i - 1) * size + 1, Min({i * size, m}))]
  BY DEF Chunks
<1> HIDE DEF k, chunks
<1>3. ASSUME NEW i \in 1 .. k
      PROVE  chunks[i] = Block(tokens, size, i) /\ Block(tokens, size, i) \in Seq(T)
  <2>1. i * size \in Int /\ (i - 1) * size \in Nat
    OBVIOUS
  <2>2. Min({i * size, m}) = IF i * size <= m THEN i * size ELSE m
    BY <1>1, <2>1, MinOfTwo
  <2>3. chunks[i] = Block(tokens, size, i)
    BY <1>2, <2>2 DEF Block
  <2> DEFINE a == (i - 1) * size + 1
             b == IF i * size <= m THEN i * size ELSE m
  <2>4. a \in Nat /\ a > 0 /\ b \in Int /\ b <= m
    BY <1>1, <2>1
  <2>5. Block(tokens, size, i) = SubSeq(tokens, a, b)
    BY DEF Block
  <2> HIDE DEF a, b
  <2>6. \A j \in a .. b : tokens[j] \in T
    BY <1>1, <2>4
  <2>7. SubSeq(tokens, a, b) \in Seq(T)
    BY <2>4, <2>6, SubSeqProperties
  <2> QED
    BY <2>3, <2>5, <2>7
<1>4. chunks \in [1 .. k -> Seq(T)]
  BY <1>2, <1>3
<1>5. chunks \in Seq(Seq(T)) /\ Len(chunks) = k
  BY <1>1, <1>4
<1> QED
  BY <1>1, <1>3, <1>5 DEF chunks

\* The hash of the first i blocks stands for these blocks.
LEMMA CumulativeIs ==
    ASSUME NEW B, NEW blocks \in Seq(B)
    PROVE  /\ \A i \in 0 .. Len(blocks) : PrevHashes(blocks)[i] = SubSeq(blocks, 1, i)
           /\ \A i \in 1 .. Len(blocks) :
                 PrevHashes(blocks)[i] = CombineCumulative(PrevHashes(blocks)[i - 1], blocks[i])
<1> DEFINE n == Len(blocks)
           Is(g) == g = [i \in 0 .. n |-> IF i = 0 THEN EmptyHash ELSE CombineCumulative(g[i - 1], blocks[i])]
           h == [i \in 0 .. n |-> SubSeq(blocks, 1, i)]
           c == PrevHashes(blocks)
<1>1. n \in Nat
  OBVIOUS
<1>2. SubSeq(blocks, 1, 0) = EmptyHash
  BY SubSeqEmpty DEF EmptyHash
<1>3. ASSUME NEW i \in 1 .. n
      PROVE  SubSeq(blocks, 1, i) = CombineCumulative(SubSeq(blocks, 1, i - 1), blocks[i])
  <2>1. SubSeq(blocks, 1, i) = SubSeq(blocks, 1, i - 1) \o <<blocks[i]>>
    BY <1>1, SubSeqRecursiveSecond
  <2>2. SubSeq(blocks, 1, i - 1) \in Seq(B) /\ blocks[i] \in B
    BY <1>1, SubSeqProperties
  <2> QED
    BY <2>1, <2>2, AppendIsConcat DEF CombineCumulative
<1>4. Is(h)
  <2>1. ASSUME NEW i \in 0 .. n
        PROVE  h[i] = IF i = 0 THEN EmptyHash ELSE CombineCumulative(h[i - 1], blocks[i])
    <3>1. CASE i = 0
      BY <1>2, <3>1
    <3>2. CASE i # 0
      <4>1. i \in 1 .. n /\ i - 1 \in 0 .. n
        BY <1>1, <3>2
      <4> QED
        BY <1>3, <3>2, <4>1
    <3> QED
      BY <3>1, <3>2
  <2>2. h = [i \in 0 .. n |-> h[i]]
    OBVIOUS
  <2> HIDE DEF h
  <2> QED
    BY <2>1, <2>2
<1>5. c = CHOOSE g : Is(g)
  BY DEF PrevHashes
<1>6. Is(c)
  <2> HIDE DEF Is, c, h
  <2> QED
    BY <1>4, <1>5
<1> HIDE DEF c
<1>7. \A i \in 0 .. n : c[i] = IF i = 0 THEN EmptyHash ELSE CombineCumulative(c[i - 1], blocks[i])
  BY <1>6
<1> DEFINE S == {i \in Nat : i <= n => c[i] = SubSeq(blocks, 1, i)}
<1>8. 0 \in S
  <2>1. 0 \in 0 .. n
    BY <1>1
  <2>2. c[0] = EmptyHash
    BY <1>7, <2>1
  <2> QED
    BY <1>2, <2>2
<1>9. ASSUME NEW i \in S PROVE i + 1 \in S
  <2>1. i \in Nat /\ (i <= n => c[i] = SubSeq(blocks, 1, i))
    OBVIOUS
  <2>2. ASSUME i + 1 <= n PROVE c[i + 1] = SubSeq(blocks, 1, i + 1)
    <3>1. i + 1 \in 1 .. n /\ i + 1 \in 0 .. n /\ i + 1 # 0 /\ (i + 1) - 1 = i /\ i <= n
      BY <1>1, <2>1, <2>2
    <3> QED
      BY <1>3, <1>7, <2>1, <3>1
  <2> QED
    BY <2>1, <2>2
<1>10. S \in SUBSET Nat
  OBVIOUS
<1> HIDE DEF S
<1>11. S = Nat
  BY <1>8, <1>9, <1>10, InductionOnNat
<1>12. \A i \in 0 .. n : c[i] = SubSeq(blocks, 1, i)
  BY <1>1, <1>11 DEF S
<1>13. \A i \in 1 .. n : c[i] = CombineCumulative(c[i - 1], blocks[i])
  BY <1>1, <1>7
<1> QED
  BY <1>12, <1>13 DEF c

\* The states of the streaming loop.
HashesOf(T) == Seq(Seq(T))
LoopStates(T) == [out : Seq(HashesOf(T)), prev : HashesOf(T), block : Seq(T)]

LEMMA ConsumeType ==
    ASSUME NEW T, NEW st \in LoopStates(T), NEW token \in T, NEW size
    PROVE  LET block == Append(st.block, token)
               hash == CombineCumulative(st.prev, block)
           IN /\ Consume(st, token, size) \in LoopStates(T)
              /\ Consume(st, token, size) =
                    IF Len(block) = size
                    THEN [out |-> Append(st.out, hash), prev |-> hash, block |-> <<>>]
                    ELSE [out |-> st.out, prev |-> st.prev, block |-> block]
<1> DEFINE block == Append(st.block, token)
           hash == CombineCumulative(st.prev, block)
<1>1. /\ st.out \in Seq(HashesOf(T)) /\ st.prev \in HashesOf(T) /\ st.block \in Seq(T)
      /\ st = [out |-> st.out, prev |-> st.prev, block |-> st.block]
  BY DEF LoopStates
<1>2. block \in Seq(T)
  BY <1>1
<1>3. Consume(st, token, size) = IF Len(block) = size
          THEN [out |-> Append(st.out, hash), prev |-> hash, block |-> <<>>]
          ELSE [st EXCEPT !.block = block]
  BY DEF Consume
<1> HIDE DEF block
<1>4. hash \in HashesOf(T)
  BY <1>1, <1>2, AppendProperties DEF HashesOf, CombineCumulative
<1> HIDE DEF hash
<1>5. Append(st.out, hash) \in Seq(HashesOf(T)) /\ <<>> \in Seq(T)
  BY <1>1, <1>4, AppendProperties, EmptySeq
<1>6. [st EXCEPT !.block = block] = [out |-> st.out, prev |-> st.prev, block |-> block]
  BY <1>1
<1>7. Consume(st, token, size) = IF Len(block) = size
          THEN [out |-> Append(st.out, hash), prev |-> hash, block |-> <<>>]
          ELSE [out |-> st.out, prev |-> st.prev, block |-> block]
  BY <1>3, <1>6
<1>8. /\ [out |-> Append(st.out, hash), prev |-> hash, block |-> <<>>] \in LoopStates(T)
      /\ [out |-> st.out, prev |-> st.prev, block |-> block] \in LoopStates(T)
  BY <1>1, <1>2, <1>4, <1>5 DEF LoopStates
<1>9. Consume(st, token, size) \in LoopStates(T)
  BY <1>7, <1>8
<1> QED
  BY <1>7, <1>9 DEF block, hash

\* The loop is what its code says.
LEMMA ConsumedIs ==
    ASSUME NEW T, NEW tokens \in Seq(T), NEW size
    PROVE  LET c == Consumed(tokens, size) IN
           /\ c[0] = [out |-> <<>>, prev |-> EmptyHash, block |-> <<>>]
           /\ \A n \in 0 .. Len(tokens) : c[n] \in LoopStates(T)
           /\ \A n \in 0 .. Len(tokens) - 1 : c[n + 1] = Consume(c[n], tokens[n + 1], size)
<1> DEFINE m == Len(tokens)
           V == LoopStates(T)
           v0 == [out |-> <<>>, prev |-> EmptyHash, block |-> <<>>]
           Is(g) == g = [n \in 0 .. m |-> IF n = 0 THEN v0 ELSE Consume(g[n - 1], tokens[n], size)]
           step == [x \in Nat \X V |->
                       IF x[1] < m THEN Consume(x[2], tokens[x[1] + 1], size) ELSE x[2]]
           c == Consumed(tokens, size)
<1>1. m \in Nat
  OBVIOUS
<1>2. v0 \in V
  BY EmptySeq DEF LoopStates, HashesOf, EmptyHash
<1>3. ASSUME NEW v \in V, NEW n \in 0 .. m - 1 PROVE Consume(v, tokens[n + 1], size) \in V
  <2>1. n + 1 \in 1 .. m
    BY <1>1
  <2>2. tokens[n + 1] \in T
    BY <2>1
  <2> QED
    BY <2>2, ConsumeType
<1> HIDE DEF V, v0
<1>4. step \in StepFunctions(V)
  <2>1. ASSUME NEW x \in Nat \X V
        PROVE  (IF x[1] < m THEN Consume(x[2], tokens[x[1] + 1], size) ELSE x[2]) \in V
    <3>1. x[1] \in Nat /\ x[2] \in V
      OBVIOUS
    <3>2. CASE x[1] < m
      <4>1. x[1] \in 0 .. m - 1
        BY <1>1, <3>1, <3>2
      <4> QED
        BY <1>3, <3>1, <3>2, <4>1
    <3> QED
      BY <3>1, <3>2
  <2> QED
    BY <2>1 DEF StepFunctions
<1>5. \A n \in 0 .. m - 1 : \A v \in V : step[<<n, v>>] = Consume(v, tokens[n + 1], size)
  BY <1>1
<1> HIDE DEF step
<1>6. PICK f : Iterates(V, v0, step, f)
  BY <1>2, <1>4, RecursionOnNat
<1> DEFINE g == [n \in 0 .. m |-> f[n]]
<1>7. Is(g)
  <2>1. ASSUME NEW n \in 0 .. m
        PROVE  g[n] = IF n = 0 THEN v0 ELSE Consume(g[n - 1], tokens[n], size)
    <3>1. CASE n = 0
      BY <1>1, <1>6, <3>1 DEF Iterates
    <3>2. CASE n # 0
      <4>1. n - 1 \in 0 .. m - 1 /\ n - 1 \in 0 .. m /\ n - 1 \in Nat /\ (n - 1) + 1 = n
        BY <1>1, <3>2
      <4>2. f[n - 1] \in V /\ f[n] = step[<<n - 1, f[n - 1]>>]
        BY <1>6, <4>1 DEF Iterates
      <4> QED
        BY <1>5, <3>2, <4>1, <4>2
    <3> QED
      BY <3>1, <3>2
  <2>2. g = [n \in 0 .. m |-> g[n]]
    OBVIOUS
  <2> HIDE DEF g
  <2> QED
    BY <2>1, <2>2
<1>8. c = CHOOSE h : Is(h)
  BY DEF Consumed, v0
<1>9. Is(c)
  <2> HIDE DEF Is, c, g
  <2> QED
    BY <1>7, <1>8
<1> HIDE DEF c
<1>10. \A n \in 0 .. m : c[n] = IF n = 0 THEN v0 ELSE Consume(c[n - 1], tokens[n], size)
  BY <1>9
<1>11. c[0] = v0
  BY <1>1, <1>10
<1>12. ASSUME NEW n \in 0 .. m - 1 PROVE c[n + 1] = Consume(c[n], tokens[n + 1], size)
  <2>1. n + 1 \in 0 .. m /\ n + 1 # 0 /\ (n + 1) - 1 = n
    BY <1>1
  <2> QED
    BY <1>10, <2>1
<1> DEFINE S == {n \in Nat : n <= m => c[n] \in V}
<1>13. 0 \in S
  BY <1>2, <1>11
<1>14. ASSUME NEW n \in S PROVE n + 1 \in S
  <2>1. n \in Nat /\ (n <= m => c[n] \in V)
    OBVIOUS
  <2>2. ASSUME n + 1 <= m PROVE c[n + 1] \in V
    <3>1. n \in 0 .. m - 1 /\ n <= m
      BY <1>1, <2>1, <2>2
    <3> QED
      BY <1>3, <1>12, <2>1, <3>1
  <2> QED
    BY <2>1, <2>2
<1>15. S \in SUBSET Nat
  OBVIOUS
<1> HIDE DEF S
<1>16. S = Nat
  BY <1>13, <1>14, <1>15, InductionOnNat
<1>17. \A n \in 0 .. m : c[n] \in V
  BY <1>1, <1>16 DEF S
<1> QED
  BY <1>11, <1>12, <1>17 DEF c, V, v0

\* What the loop has done after n tokens, of which q * size make full blocks.
LoopIsAt(tokens, size, n, q, st) ==
    LET blocks == Chunks(tokens, size) IN
    /\ q * size <= n /\ n < q * size + size
    /\ st.block = SubSeq(tokens, q * size + 1, n)
    /\ Len(st.out) = q
    /\ \A i \in 1 .. q : st.out[i] = SubSeq(blocks, 1, i)
    /\ st.prev = SubSeq(blocks, 1, q)

\* The block the loop has begun, with the next token.
LEMMA BlockGrows ==
    ASSUME NEW T, NEW tokens \in Seq(T), NEW a \in Nat, NEW n \in Nat, a <= n, n < Len(tokens)
    PROVE  /\ Append(SubSeq(tokens, a + 1, n), tokens[n + 1]) = SubSeq(tokens, a + 1, n + 1)
           /\ Len(SubSeq(tokens, a + 1, n + 1)) = n + 1 - a
<1>1. /\ a + 1 \in 1 .. Len(tokens) /\ n + 1 \in a + 1 .. Len(tokens) /\ (n + 1) - 1 = n
      /\ a + 1 \in Int /\ n \in Int /\ n + 1 \in Int /\ Len(tokens) \in Nat
  OBVIOUS
<1>2. SubSeq(tokens, a + 1, n + 1) = SubSeq(tokens, a + 1, n) \o <<tokens[n + 1]>>
  BY <1>1, SubSeqRecursiveSecond
<1>3. \A i \in a + 1 .. n + 1 : tokens[i] \in T
  BY <1>1
<1>4. SubSeq(tokens, a + 1, n) \in Seq(T) /\ tokens[n + 1] \in T
  BY <1>1, <1>3, SubSeqProperties
<1>5. Len(SubSeq(tokens, a + 1, n + 1)) = (n + 1) - (a + 1) + 1
  BY <1>1, <1>3, SubSeqProperties
<1> QED
  BY <1>2, <1>4, <1>5, AppendIsConcat

\* The hash of one block more.
LEMMA HashGrows ==
    ASSUME NEW B, NEW blocks \in Seq(B), NEW q \in 0 .. Len(blocks) - 1
    PROVE  CombineCumulative(SubSeq(blocks, 1, q), blocks[q + 1]) = SubSeq(blocks, 1, q + 1)
<1>1. Len(blocks) \in Nat
  OBVIOUS
<1>2. q \in 0 .. Len(blocks) /\ q + 1 \in 1 .. Len(blocks) /\ q + 1 \in 0 .. Len(blocks) /\ (q + 1) - 1 = q
  BY <1>1
<1> QED
  BY <1>2, CumulativeIs

LEMMA LoopStep ==
    ASSUME NEW T, NEW tokens \in Seq(T), NEW size \in Nat \ {0}, NEW n \in 0 .. Len(tokens) - 1,
           NEW q \in Nat, NEW st \in LoopStates(T), LoopIsAt(tokens, size, n, q, st)
    PROVE  \E p \in Nat : LoopIsAt(tokens, size, n + 1, p, Consume(st, tokens[n + 1], size))
<1> DEFINE m == Len(tokens)
           a == q * size
           blocks == Chunks(tokens, size)
           block == SubSeq(tokens, a + 1, n + 1)
           hash == CombineCumulative(st.prev, block)
           next == Consume(st, tokens[n + 1], size)
<1>1. m \in Nat /\ n \in Nat /\ n < m /\ n + 1 \in 1 .. m /\ tokens[n + 1] \in T
  OBVIOUS
<1>2. a \in Nat /\ (q + 1) * size = a + size
  BY Multiples
<1>3. /\ a <= n /\ n < a + size
      /\ st.block = SubSeq(tokens, a + 1, n)
      /\ Len(st.out) = q
      /\ \A i \in 1 .. q : st.out[i] = SubSeq(blocks, 1, i)
      /\ st.prev = SubSeq(blocks, 1, q)
  BY DEF LoopIsAt
<1> HIDE DEF m, a
<1>4. Append(st.block, tokens[n + 1]) = block /\ Len(block) = n + 1 - a
  BY <1>1, <1>2, <1>3, BlockGrows DEF m
<1>5. next = IF Len(block) = size
             THEN [out |-> Append(st.out, hash), prev |-> hash, block |-> <<>>]
             ELSE [out |-> st.out, prev |-> st.prev, block |-> block]
  <2> DEFINE b == Append(st.block, tokens[n + 1])
             h == CombineCumulative(st.prev, b)
  <2>1. next = IF Len(b) = size THEN [out |-> Append(st.out, h), prev |-> h, block |-> <<>>]
               ELSE [out |-> st.out, prev |-> st.prev, block |-> b]
    BY <1>1, ConsumeType
  <2>2. b = block /\ h = hash
    BY <1>4
  <2> HIDE DEF b, h, block, hash, next
  <2> QED
    BY <2>1, <2>2
<1>6. /\ blocks \in Seq(Seq(T)) /\ Len(blocks) \in Nat
      /\ m <= Len(blocks) * size
      /\ \A i \in 1 .. Len(blocks) : blocks[i] = Block(tokens, size, i)
  BY ChunksAreBlocks DEF m
<1> HIDE DEF blocks, block, hash, next
<1>7. CASE Len(block) = size
  <2>1. n + 1 = a + size /\ (q + 1) * size <= m
    BY <1>1, <1>2, <1>3, <1>4, <1>7
  <2>2. q + 1 <= Len(blocks)
    <3> DEFINE k == Len(blocks)
    <3>1. k \in Nat /\ q + 1 \in Nat /\ k * size \in Nat /\ (q + 1) * size \in Nat
      BY <1>6
    <3>2. (q + 1) * size < k * size + size
      BY <1>1, <1>6, <2>1, <3>1
    <3> HIDE DEF k
    <3>3. q + 1 <= k
      BY <3>1, <3>2, Multiples
    <3> QED
      BY <3>3 DEF k
  <2>3. blocks[q + 1] = block
    <3>1. q + 1 \in 1 .. Len(blocks) /\ (q + 1) - 1 = q
      BY <1>6, <2>2
    <3>2. blocks[q + 1] = Block(tokens, size, q + 1)
      BY <1>6, <3>1
    <3>3. Block(tokens, size, q + 1) = SubSeq(tokens, q * size + 1, (q + 1) * size)
      BY <2>1, <3>1 DEF Block, m
    <3> QED
      BY <1>2, <2>1, <3>2, <3>3 DEF block, a
  <2>4. hash = SubSeq(blocks, 1, q + 1)
    <3>1. q \in 0 .. Len(blocks) - 1
      BY <1>6, <2>2
    <3> QED
      BY <1>3, <1>6, <2>3, <3>1, HashGrows DEF hash
  <2>5. st.out \in Seq(HashesOf(T)) /\ hash \in HashesOf(T)
    <3>1. /\ \A i \in 1 .. q + 1 : blocks[i] \in Seq(T)
          /\ q + 1 \in Int
      BY <1>6, <2>2
    <3> QED
      BY <2>4, <3>1, SubSeqProperties DEF LoopStates, HashesOf
  <2>6. /\ Len(Append(st.out, hash)) = q + 1
        /\ \A i \in 1 .. q : Append(st.out, hash)[i] = st.out[i]
        /\ Append(st.out, hash)[q + 1] = hash
    <3>1. /\ Len(Append(st.out, hash)) = Len(st.out) + 1
          /\ \A i \in 1 .. Len(st.out) : Append(st.out, hash)[i] = st.out[i]
          /\ Append(st.out, hash)[Len(st.out) + 1] = hash
      BY <2>5, AppendProperties
    <3> QED
      BY <1>3, <3>1
  <2>7. SubSeq(tokens, (q + 1) * size + 1, n + 1) = <<>>
    <3>1. (q + 1) * size + 1 \in Int /\ n + 1 \in Int /\ n + 1 < (q + 1) * size + 1
      BY <1>1, <1>2, <2>1
    <3> QED
      BY <3>1, SubSeqEmpty
  <2>8. /\ next.out = Append(st.out, hash) /\ next.prev = hash /\ next.block = <<>>
    BY <1>5, <1>7
  <2>9. \A i \in 1 .. q + 1 : next.out[i] = SubSeq(blocks, 1, i)
    <3> SUFFICES ASSUME NEW i \in 1 .. q + 1 PROVE next.out[i] = SubSeq(blocks, 1, i)
      OBVIOUS
    <3>1. i \in 1 .. q \/ i = q + 1
      OBVIOUS
    <3> QED
      BY <1>3, <2>4, <2>6, <2>8, <3>1
  <2>10. (q + 1) * size <= n + 1 /\ n + 1 < (q + 1) * size + size
    BY <1>1, <1>2, <2>1
  <2>11. LoopIsAt(tokens, size, n + 1, q + 1, next)
    BY <2>4, <2>6, <2>7, <2>8, <2>9, <2>10 DEF LoopIsAt, blocks
  <2> QED
    BY <2>11 DEF next
<1>8. CASE Len(block) # size
  <2>1. a <= n + 1 /\ n + 1 < a + size
    BY <1>1, <1>2, <1>3, <1>4, <1>8
  <2>2. next.out = st.out /\ next.prev = st.prev /\ next.block = block
    BY <1>5, <1>8
  <2>3. LoopIsAt(tokens, size, n + 1, q, next)
    BY <1>3, <2>1, <2>2 DEF LoopIsAt, blocks, block, a
  <2> QED
    BY <2>3 DEF next
<1> QED
  BY <1>7, <1>8

\* The loop at every token: the full blocks so far are hashed.
LEMMA LoopIsAlwaysAt ==
    ASSUME NEW T, NEW tokens \in Seq(T), NEW size \in Nat \ {0}, NEW n \in 0 .. Len(tokens)
    PROVE  \E q \in Nat : LoopIsAt(tokens, size, n, q, Consumed(tokens, size)[n])
<1> DEFINE m == Len(tokens)
           c == Consumed(tokens, size)
           At(k) == \E q \in Nat : LoopIsAt(tokens, size, k, q, c[k])
           S == {k \in Nat : k <= m => At(k)}
<1>1. m \in Nat
  OBVIOUS
<1>2. /\ c[0] = [out |-> <<>>, prev |-> EmptyHash, block |-> <<>>]
      /\ \A k \in 0 .. m : c[k] \in LoopStates(T)
      /\ \A k \in 0 .. m - 1 : c[k + 1] = Consume(c[k], tokens[k + 1], size)
  BY ConsumedIs
<1> HIDE DEF c
<1>3. At(0)
  <2>1. c[0].out = <<>> /\ c[0].prev = <<>> /\ c[0].block = <<>>
    BY <1>2 DEF EmptyHash
  <2>2. 0 * size = 0 /\ 0 < 0 * size + size
    OBVIOUS
  <2>3. SubSeq(tokens, 1, 0) = <<>> /\ SubSeq(Chunks(tokens, size), 1, 0) = <<>>
    BY SubSeqEmpty
  <2>4. LoopIsAt(tokens, size, 0, 0, c[0])
    BY <2>1, <2>2, <2>3 DEF LoopIsAt
  <2> QED
    BY <2>4
<1>4. ASSUME NEW k \in 0 .. m - 1, At(k) PROVE At(k + 1)
  <2>1. PICK q \in Nat : LoopIsAt(tokens, size, k, q, c[k])
    BY <1>4
  <2>2. k \in 0 .. m
    BY <1>1
  <2>3. \E p \in Nat : LoopIsAt(tokens, size, k + 1, p, Consume(c[k], tokens[k + 1], size))
    BY <1>2, <2>1, <2>2, LoopStep
  <2> QED
    BY <1>2, <2>3
<1> HIDE DEF At
<1>5. ASSUME NEW k \in S PROVE k + 1 \in S
  <2>1. k \in Nat /\ (k <= m => At(k))
    OBVIOUS
  <2>2. ASSUME k + 1 <= m PROVE At(k + 1)
    <3>1. k \in 0 .. m - 1 /\ k <= m
      BY <1>1, <2>1, <2>2
    <3> QED
      BY <1>4, <2>1, <3>1
  <2> QED
    BY <2>1, <2>2
<1>6. S \in SUBSET Nat /\ 0 \in S
  BY <1>3
<1> HIDE DEF S
<1>7. S = Nat
  BY <1>5, <1>6, InductionOnNat
<1>8. At(n)
  BY <1>1, <1>7 DEF S
<1> QED
  BY <1>8 DEF At, c

\* The chain of a prompt: the i-th hash stands for the first i blocks, of
\* which the last may be partial.
LEMMA StreamingIs ==
    ASSUME NEW T, NEW tokens \in Seq(T), NEW size \in Nat \ {0}
    PROVE  LET blocks == Chunks(tokens, size) IN
           Streaming(tokens, size) = [i \in 1 .. Len(blocks) |-> SubSeq(blocks, 1, i)]
<1> DEFINE m == Len(tokens)
           blocks == Chunks(tokens, size)
           k == Len(blocks)
           st == Consumed(tokens, size)[m]
           chain == Streaming(tokens, size)
<1>1. m \in Nat /\ m \in 0 .. m
  OBVIOUS
<1>2. st \in LoopStates(T) /\ \E q \in Nat : LoopIsAt(tokens, size, m, q, st)
  BY <1>1, ConsumedIs, LoopIsAlwaysAt
<1>3. chain = Flush(st)
  BY DEF Streaming
<1> HIDE DEF st
<1>4. PICK q \in Nat : LoopIsAt(tokens, size, m, q, st)
  BY <1>2
<1> DEFINE a == q * size
<1>5. /\ a <= m /\ m < a + size
      /\ st.block = SubSeq(tokens, a + 1, m)
      /\ Len(st.out) = q
      /\ \A i \in 1 .. q : st.out[i] = SubSeq(blocks, 1, i)
      /\ st.prev = SubSeq(blocks, 1, q)
  BY <1>4 DEF LoopIsAt
<1>6. /\ blocks \in Seq(Seq(T)) /\ k \in Nat
      /\ m <= k * size /\ k * size < m + size
      /\ \A i \in 1 .. k : blocks[i] = Block(tokens, size, i)
  BY ChunksAreBlocks
<1>7. a \in Nat /\ (q + 1) * size = a + size /\ k * size \in Nat /\ q + 1 \in Nat
  BY <1>6, Multiples
<1>8. st.out \in Seq(HashesOf(T)) /\ st.prev \in HashesOf(T)
  BY <1>2 DEF LoopStates
<1> HIDE DEF m, k, blocks, chain
<1>9. CASE m = a
  <2>1. q <= k /\ k <= q
    <3>1. a < k * size + size /\ k * size < a + size
      BY <1>6, <1>7, <1>9
    <3> QED
      BY <1>6, <3>1, Multiples
  <2>2. st.block = <<>>
    <3>1. a + 1 \in Int /\ m \in Int /\ m < a + 1
      BY <1>7, <1>9
    <3> QED
      BY <1>5, <3>1, SubSeqEmpty
  <2>3. chain = st.out /\ q = k
    BY <1>3, <1>6, <2>1, <2>2 DEF Flush
  <2>4. st.out = [i \in 1 .. q |-> st.out[i]]
    BY <1>5, <1>8
  <2> QED
    BY <1>5, <2>3, <2>4 DEF k, blocks, chain
<1>10. CASE m # a
  <2>1. q + 1 <= k /\ k <= q + 1
    <3>1. (q + 1) * size < k * size + size /\ k * size < (q + 1) * size + size
      <4> DEFINE x == k * size
      <4>1. m \in Nat /\ x \in Nat /\ a \in Nat /\ size \in Nat
        BY <1>1, <1>7 DEF m
      <4>2. a <= m /\ m < a + size /\ m <= x /\ x < m + size /\ m # a
        BY <1>5, <1>6, <1>10
      <4> HIDE DEF x, a
      <4>3. a + size < x + size /\ x < a + size + size
        BY <4>1, <4>2
      <4> QED
        BY <1>7, <4>3 DEF x, a
    <3> QED
      BY <1>6, <1>7, <3>1, Multiples
  <2>2. q + 1 = k /\ q \in 0 .. k - 1 /\ q + 1 \in 1 .. k /\ (q + 1) - 1 = q
    BY <1>6, <2>1
  <2>3. blocks[q + 1] = st.block
    <3>1. ~((q + 1) * size <= m)
      BY <1>1, <1>5, <1>7 DEF m
    <3>2. Block(tokens, size, q + 1) = SubSeq(tokens, a + 1, m)
      BY <2>2, <3>1 DEF Block, m
    <3> QED
      BY <1>5, <1>6, <2>2, <3>2
  <2>4. st.block # <<>>
    <3>1. a + 1 \in 1 .. m /\ m \in a + 1 .. m /\ \A i \in a + 1 .. m : tokens[i] \in T
      BY <1>1, <1>5, <1>7, <1>10 DEF m
    <3>2. Len(SubSeq(tokens, a + 1, m)) = m - (a + 1) + 1
      BY <1>1, <1>7, <3>1, SubSeqProperties
    <3>3. Len(st.block) > 0
      BY <1>1, <1>5, <1>7, <1>10, <3>2
    <3> QED
      BY <3>3
  <2> DEFINE hash == CombineCumulative(st.prev, st.block)
  <2>5. hash = SubSeq(blocks, 1, q + 1)
    BY <1>5, <1>6, <2>2, <2>3, HashGrows DEF k
  <2>6. chain = Append(st.out, hash)
    BY <1>3, <2>4 DEF Flush
  <2>7. hash \in HashesOf(T)
    <3>1. \A i \in 1 .. q + 1 : blocks[i] \in Seq(T)
      BY <1>6, <2>2 DEF k
    <3> QED
      BY <2>5, <3>1, SubSeqProperties DEF HashesOf
  <2> HIDE DEF hash
  <2>8. /\ chain \in Seq(HashesOf(T))
        /\ Len(chain) = Len(st.out) + 1
        /\ \A i \in 1 .. Len(st.out) : chain[i] = st.out[i]
        /\ chain[Len(st.out) + 1] = hash
    BY <1>8, <2>6, <2>7, AppendProperties
  <2>9. Len(chain) = k /\ chain[q + 1] = hash /\ \A i \in 1 .. q : chain[i] = st.out[i]
    BY <1>5, <2>2, <2>8
  <2>10. ASSUME NEW i \in 1 .. k PROVE chain[i] = SubSeq(blocks, 1, i)
    <3>1. i \in 1 .. q \/ i = q + 1
      BY <2>2
    <3> QED
      BY <1>5, <2>5, <2>9, <3>1
  <2>11. chain = [i \in 1 .. k |-> chain[i]]
    BY <2>8, <2>9
  <2> QED
    BY <2>10, <2>11 DEF k, blocks, chain
<1> QED
  BY <1>9, <1>10

\* Hashing a prompt token by token, as routing does, gives the chain that
\* hashing it in blocks gives, for every prompt and every block size.
THEOREM StreamingIsBatch ==
    ASSUME NEW T, NEW tokens \in Seq(T), NEW size \in Nat \ {0}
    PROVE  Streaming(tokens, size) = CumulativeFromBlocks(Chunks(tokens, size))
<1> DEFINE blocks == Chunks(tokens, size)
<1>1. blocks \in Seq(Seq(T)) /\ Len(blocks) \in Nat
  BY ChunksAreBlocks
<1>2. Streaming(tokens, size) = [i \in 1 .. Len(blocks) |-> SubSeq(blocks, 1, i)]
  BY StreamingIs
<1> HIDE DEF blocks
<1>3. \A i \in 0 .. Len(blocks) : PrevHashes(blocks)[i] = SubSeq(blocks, 1, i)
  BY <1>1, CumulativeIs
<1>4. \A i \in 1 .. Len(blocks) : PrevHashes(blocks)[i] = SubSeq(blocks, 1, i)
  BY <1>1, <1>3
<1>5. CumulativeFromBlocks(blocks) = [i \in 1 .. Len(blocks) |-> SubSeq(blocks, 1, i)]
  BY <1>4 DEF CumulativeFromBlocks
<1> QED
  BY <1>2, <1>5 DEF blocks

\* A chain is a sequence; only the empty prompt has the empty one.
LEMMA ChainType ==
    ASSUME NEW T, NEW tokens \in Seq(T), NEW size \in Nat \ {0}
    PROVE  LET chain == Streaming(tokens, size) IN
           /\ chain \in Seq(HashesOf(T))
           /\ Len(chain) = Len(Chunks(tokens, size))
           /\ \A i \in 1 .. Len(chain) : chain[i] = SubSeq(Chunks(tokens, size), 1, i)
           /\ tokens # <<>> => Len(chain) > 0
<1> DEFINE blocks == Chunks(tokens, size)
           chain == Streaming(tokens, size)
<1>1. /\ blocks \in Seq(Seq(T)) /\ Len(blocks) \in Nat
      /\ Len(tokens) <= Len(blocks) * size
  BY ChunksAreBlocks
<1>2. chain = [i \in 1 .. Len(blocks) |-> SubSeq(blocks, 1, i)]
  BY StreamingIs
<1> HIDE DEF blocks, chain
<1>3. ASSUME NEW i \in 1 .. Len(blocks) PROVE SubSeq(blocks, 1, i) \in HashesOf(T)
  <2>1. \A j \in 1 .. i : blocks[j] \in Seq(T)
    BY <1>1
  <2> QED
    BY <2>1, SubSeqProperties DEF HashesOf
<1>4. chain \in [1 .. Len(blocks) -> HashesOf(T)]
  BY <1>2, <1>3
<1>5. chain \in Seq(HashesOf(T)) /\ Len(chain) = Len(blocks)
  <2>1. PICK k \in Nat : k = Len(blocks)
    BY <1>1
  <2>2. PICK H : H = HashesOf(T)
    OBVIOUS
  <2>3. chain \in [1 .. k -> H]
    BY <1>4, <2>1, <2>2
  <2>4. chain \in Seq(H) /\ Len(chain) = k
    BY <2>3
  <2> QED
    BY <2>1, <2>2, <2>4
<1>6. ASSUME tokens # <<>> PROVE Len(blocks) > 0
  <2>1. Len(tokens) > 0
    BY <1>6
  <2>2. Len(blocks) # 0
    BY <1>1, <2>1
  <2> QED
    BY <1>1, <2>2
<1> QED
  BY <1>2, <1>5, <1>6 DEF blocks, chain

\* The tokens of a block.
LEMMA BlockTokens ==
    ASSUME NEW T, NEW tokens \in Seq(T), NEW a \in Nat, NEW b \in Nat, a <= b, b <= Len(tokens)
    PROVE  /\ SubSeq(tokens, a + 1, b) \in Seq(T)
           /\ Len(SubSeq(tokens, a + 1, b)) = b - a
           /\ \A x \in 1 .. b - a : SubSeq(tokens, a + 1, b)[x] = tokens[a + x]
<1>1. \A i \in a + 1 .. b : tokens[i] \in T
  OBVIOUS
<1>2. /\ SubSeq(tokens, a + 1, b) \in Seq(T)
      /\ Len(SubSeq(tokens, a + 1, b)) = IF a + 1 <= b THEN b - (a + 1) + 1 ELSE 0
      /\ \A i \in 1 .. b - (a + 1) + 1 : SubSeq(tokens, a + 1, b)[i] = tokens[(a + 1) + i - 1]
  BY <1>1, SubSeqProperties
<1>3. b - (a + 1) + 1 = b - a /\ \A x \in 1 .. b - a : (a + 1) + x - 1 = a + x
  OBVIOUS
<1>4. Len(SubSeq(tokens, a + 1, b)) = b - a
  BY <1>2
<1> QED
  BY <1>2, <1>3, <1>4

LEMMA PrefixOf ==
    ASSUME NEW T, NEW s \in Seq(T), NEW t \in Seq(T), NEW n \in 0 .. Len(s),
           n <= Len(t), \A k \in 1 .. n : s[k] = t[k]
    PROVE  IsPrefix(SubSeq(s, 1, n), t)
<1>1. Len(s) \in Nat /\ Len(t) \in Nat /\ n \in Nat /\ 0 <= n /\ 0 + 1 = 1 /\ n - 0 = n
  OBVIOUS
<1>2. /\ SubSeq(s, 1, n) \in Seq(T) /\ Len(SubSeq(s, 1, n)) = n
      /\ \A x \in 1 .. n : SubSeq(s, 1, n)[x] = s[x]
  <2>1. /\ SubSeq(s, 0 + 1, n) \in Seq(T) /\ Len(SubSeq(s, 0 + 1, n)) = n - 0
        /\ \A x \in 1 .. n - 0 : SubSeq(s, 0 + 1, n)[x] = s[0 + x]
    BY <1>1, BlockTokens
  <2> QED
    BY <1>1, <2>1
<1>3. /\ SubSeq(t, 1, n) \in Seq(T) /\ Len(SubSeq(t, 1, n)) = n
      /\ \A x \in 1 .. n : SubSeq(t, 1, n)[x] = t[x]
  <2>1. /\ SubSeq(t, 0 + 1, n) \in Seq(T) /\ Len(SubSeq(t, 0 + 1, n)) = n - 0
        /\ \A x \in 1 .. n - 0 : SubSeq(t, 0 + 1, n)[x] = t[0 + x]
    BY <1>1, BlockTokens
  <2> QED
    BY <1>1, <2>1
<1> DEFINE u == SubSeq(s, 1, n)
           v == SubSeq(t, 1, n)
<1> HIDE DEF u, v
<1>4. u \in Seq(T) /\ v \in Seq(T) /\ Len(u) = n /\ Len(v) = n /\ \A x \in 1 .. n : u[x] = v[x]
  BY <1>2, <1>3 DEF u, v
<1>5. u = v
  BY <1>4, SeqEqual
<1>6. SubSeq(u, 1, n) = u
  <2>1. SubSeq(u, 1, Len(u)) = u
    BY <1>4
  <2> QED
    BY <1>4, <2>1
<1> QED
  BY <1>4, <1>5, <1>6 DEF IsPrefix, u, v

\* What two prompts with the same block have at a position of that block.
LEMMA SameBlock ==
    ASSUME NEW T, NEW s \in Seq(T), NEW t \in Seq(T), NEW size \in Nat \ {0}, NEW j \in Nat \ {0},
           NEW k \in 1 .. Len(s), (j - 1) * size < k, k <= j * size, (j - 1) * size < Len(t),
           Block(s, size, j) = Block(t, size, j)
    PROVE  k <= Len(t) /\ s[k] = t[k]
<1> DEFINE a == (j - 1) * size
           End(u) == IF j * size <= Len(u) THEN j * size ELSE Len(u)
<1>1. j - 1 \in Nat /\ a \in Nat /\ j * size \in Nat
  OBVIOUS
<1>2. Len(s) \in Nat /\ Len(t) \in Nat /\ k \in Nat /\ k <= Len(s) /\ j * size = a + size
  OBVIOUS
<1>3. /\ a < k /\ k <= j * size /\ a < Len(t)
      /\ Block(s, size, j) = SubSeq(s, a + 1, End(s)) /\ Block(t, size, j) = SubSeq(t, a + 1, End(t))
  BY DEF Block
<1> HIDE DEF a
<1>4. /\ End(s) \in Nat /\ a <= End(s) /\ End(s) <= Len(s) /\ k <= End(s)
      /\ End(t) \in Nat /\ a <= End(t) /\ End(t) <= Len(t)
  BY <1>1, <1>2, <1>3
<1> HIDE DEF End
<1> DEFINE b == SubSeq(s, a + 1, End(s))
           c == SubSeq(t, a + 1, End(t))
<1>5. /\ Len(b) = End(s) - a /\ \A x \in 1 .. End(s) - a : b[x] = s[a + x]
      /\ Len(c) = End(t) - a /\ \A x \in 1 .. End(t) - a : c[x] = t[a + x]
  <2>1. PICK e \in Nat, f \in Nat : e = End(s) /\ f = End(t)
    BY <1>4
  <2>2. a <= e /\ e <= Len(s) /\ a <= f /\ f <= Len(t)
    BY <1>4, <2>1
  <2> HIDE DEF b, c
  <2>3. Len(SubSeq(s, a + 1, e)) = e - a /\ \A x \in 1 .. e - a : SubSeq(s, a + 1, e)[x] = s[a + x]
    BY <1>1, <2>2, BlockTokens
  <2>4. Len(SubSeq(t, a + 1, f)) = f - a /\ \A x \in 1 .. f - a : SubSeq(t, a + 1, f)[x] = t[a + x]
    BY <1>1, <2>2, BlockTokens
  <2> QED
    BY <2>1, <2>3, <2>4 DEF b, c
<1>6. b = c
  BY <1>3
<1> HIDE DEF b, c
<1>7. End(s) = End(t)
  BY <1>1, <1>4, <1>5, <1>6
<1>8. k - a \in 1 .. End(s) - a /\ a + (k - a) = k
  BY <1>1, <1>2, <1>3, <1>4
<1> QED
  BY <1>2, <1>4, <1>5, <1>6, <1>7, <1>8

\* Two chains with the same hash, wherever it stands in them: the prompts
\* begin with the same tokens, as many as the hash covers.
THEOREM SameHash ==
    ASSUME NEW T, NEW s \in Seq(T), NEW t \in Seq(T), NEW size \in Nat \ {0},
           NEW d \in 1 .. Len(Streaming(s, size)), NEW i \in 1 .. Len(Streaming(t, size)),
           Streaming(s, size)[d] = Streaming(t, size)[i]
    PROVE  IsPrefix(SubSeq(s, 1, Min({d * size, Len(s)})), t)
<1> DEFINE bs == Chunks(s, size)
           bt == Chunks(t, size)
           n == Min({d * size, Len(s)})
<1>1. /\ bs \in Seq(Seq(T)) /\ Len(bs) \in Nat
      /\ \A j \in 1 .. Len(bs) : bs[j] = Block(s, size, j)
  BY ChunksAreBlocks
<1>2. /\ bt \in Seq(Seq(T)) /\ Len(bt) \in Nat
      /\ Len(bt) * size < Len(t) + size
      /\ \A j \in 1 .. Len(bt) : bt[j] = Block(t, size, j)
  BY ChunksAreBlocks
<1>3. /\ d \in 1 .. Len(bs) /\ i \in 1 .. Len(bt)
      /\ SubSeq(bs, 1, d) = SubSeq(bt, 1, i)
  <2>1. Len(Streaming(s, size)) = Len(bs) /\ Streaming(s, size)[d] = SubSeq(bs, 1, d)
    BY ChainType
  <2>2. Len(Streaming(t, size)) = Len(bt) /\ Streaming(t, size)[i] = SubSeq(bt, 1, i)
    BY ChainType
  <2> HIDE DEF bs, bt
  <2> QED
    BY <2>1, <2>2
<1>4. n = (IF d * size <= Len(s) THEN d * size ELSE Len(s)) /\ d * size \in Nat /\ Len(s) \in Nat
  <2>1. d \in Nat /\ Len(s) \in Nat /\ d * size \in Nat
    <3> HIDE DEF bs, bt, n
    <3>1. d \in Nat /\ Len(s) \in Nat
      BY <1>1, <1>3
    <3> QED
      BY <3>1
  <2>2. PICK x \in Nat, y \in Nat : x = d * size /\ y = Len(s)
    BY ONLY <2>1
  <2>3. x \in Int /\ y \in Int
    OBVIOUS
  <2> HIDE DEF bs, bt, n
  <2>4. Min({x, y}) = IF x <= y THEN x ELSE y
    BY <2>3, MinOfTwo
  <2> QED
    BY <2>2, <2>4 DEF n
<1> HIDE DEF bs, bt, n
<1>5. /\ Len(SubSeq(bs, 1, d)) = d /\ \A j \in 1 .. d : SubSeq(bs, 1, d)[j] = bs[j]
  <2>1. /\ Len(SubSeq(bs, 0 + 1, d)) = d - 0
        /\ \A x \in 1 .. d - 0 : SubSeq(bs, 0 + 1, d)[x] = bs[0 + x]
    <3>1. d \in Nat /\ 0 <= d /\ d <= Len(bs)
      BY <1>1, <1>3
    <3> QED
      BY <1>1, <3>1, BlockTokens
  <2> QED
    BY <2>1
<1>6. /\ Len(SubSeq(bt, 1, i)) = i /\ \A j \in 1 .. i : SubSeq(bt, 1, i)[j] = bt[j]
  <2>1. /\ Len(SubSeq(bt, 0 + 1, i)) = i - 0
        /\ \A x \in 1 .. i - 0 : SubSeq(bt, 0 + 1, i)[x] = bt[0 + x]
    <3>1. i \in Nat /\ 0 <= i /\ i <= Len(bt)
      BY <1>2, <1>3
    <3> QED
      BY <1>2, <3>1, BlockTokens
  <2> QED
    BY <2>1
<1>7. i = d
  BY <1>3, <1>5, <1>6
<1>8. \A j \in 1 .. d : bs[j] = bt[j] /\ j \in 1 .. Len(bs) /\ j \in 1 .. Len(bt)
  <2>1. \A j \in 1 .. d : j \in 1 .. Len(bs) /\ j \in 1 .. Len(bt)
    BY <1>1, <1>2, <1>3, <1>7
  <2>2. \A j \in 1 .. d : bs[j] = bt[j]
    BY ONLY <1>3, <1>5, <1>6, <1>7
  <2> QED
    BY <2>1, <2>2
<1>9. ASSUME NEW k \in 1 .. n PROVE k <= Len(t) /\ s[k] = t[k]
  <2>1. k \in Nat /\ k <= d * size /\ k \in 1 .. Len(s)
    BY <1>4
  <2> DEFINE j == (k + size - 1) \div size
  <2>2. j \in Nat /\ k <= j * size /\ j * size < k + size
    BY <2>1, BlockCount
  <2> HIDE DEF j
  <2>3. j # 0
    <3>1. 0 * size = 0
      OBVIOUS
    <3> QED
      BY <2>1, <2>2, <3>1
  <2>4. j <= d
    <3>1. d \in Nat
      BY <1>1, <1>3
    <3> DEFINE x == j * size
               y == d * size
    <3>2. x \in Nat /\ y \in Nat /\ x < k + size /\ k <= y
      BY <1>4, <2>1, <2>2
    <3> HIDE DEF x, y
    <3>3. x < y + size
      BY <2>1, <3>2
    <3> QED
      BY <2>2, <3>1, <3>3, Multiples DEF x, y
  <2>5. j \in 1 .. d
    BY <2>2, <2>3, <2>4
  <2>6. (j - 1) * size \in Nat /\ j * size = (j - 1) * size + size
    <3>1. j - 1 \in Nat /\ (j - 1) + 1 = j
      BY <2>2, <2>3
    <3>2. (j - 1) * size \in Nat /\ ((j - 1) + 1) * size = (j - 1) * size + size
      BY <3>1, Multiples
    <3> QED
      BY <3>1, <3>2
  <2>7. j * size <= Len(bt) * size
    <3>1. j \in 1 .. Len(bt)
      BY <1>8, <2>5
    <3>2. PICK x \in Nat : x = Len(bt)
      BY <1>2
    <3>3. j <= x
      BY <3>1, <3>2
    <3>4. j * size <= x * size
      BY <2>2, <3>2, <3>3, Multiples
    <3> QED
      BY <3>2, <3>4
  <2>8. (j - 1) * size < k /\ (j - 1) * size < Len(t)
    <3> DEFINE x == (j - 1) * size
               y == Len(bt) * size
    <3>1. x \in Nat /\ y \in Int /\ x + size <= y /\ y < Len(t) + size /\ Len(t) \in Nat /\ x + size < k + size
      BY <1>2, <2>2, <2>6, <2>7
    <3> HIDE DEF x, y
    <3>2. x < k /\ x < Len(t)
      BY <2>1, <3>1
    <3> QED
      BY <3>2 DEF x
  <2>9. Block(s, size, j) = Block(t, size, j)
    BY <1>1, <1>2, <1>8, <2>5
  <2> QED
    BY <2>1, <2>2, <2>3, <2>8, <2>9, SameBlock
<1>10. n \in 0 .. Len(s) /\ n <= Len(t)
  <2>1. n \in 0 .. Len(s)
    BY <1>4
  <2>2. CASE n = 0
    BY <2>2
  <2>3. CASE n # 0
    <3>1. n \in 1 .. n
      BY <2>1, <2>3
    <3> QED
      BY <1>9, <2>1, <3>1
  <2> QED
    BY <2>1, <2>2, <2>3
<1>11. IsPrefix(SubSeq(s, 1, n), t)
  BY <1>9, <1>10, PrefixOf
<1> QED
  BY <1>11 DEF n

\* The hash of a block tells the hash of the block before it, in whatever
\* chains and at whatever places it occurs: combine_cumulative hashes the
\* hash so far together with the block.
THEOREM ChainsAreCumulative ==
    ASSUME NEW T, NEW s \in Seq(T), NEW t \in Seq(T), NEW size \in Nat \ {0},
           NEW i \in 1 .. Len(Streaming(s, size)) - 1, NEW j \in 1 .. Len(Streaming(t, size)),
           Streaming(s, size)[i + 1] = Streaming(t, size)[j]
    PROVE  j > 1 /\ Streaming(s, size)[i] = Streaming(t, size)[j - 1]
<1> DEFINE bs == Chunks(s, size)
           bt == Chunks(t, size)
           cs == Streaming(s, size)
           ct == Streaming(t, size)
<1>1. bs \in Seq(Seq(T)) /\ Len(bs) \in Nat /\ bt \in Seq(Seq(T)) /\ Len(bt) \in Nat
  BY ChunksAreBlocks
<1>2. /\ Len(cs) = Len(bs) /\ \A k \in 1 .. Len(cs) : cs[k] = SubSeq(bs, 1, k)
      /\ Len(ct) = Len(bt) /\ \A k \in 1 .. Len(ct) : ct[k] = SubSeq(bt, 1, k)
  BY ChainType
<1>3. i \in 1 .. Len(cs) - 1 /\ j \in 1 .. Len(ct) /\ cs[i + 1] = ct[j]
  OBVIOUS
<1> HIDE DEF bs, bt, cs, ct
<1>4. \A k \in Nat : k <= Len(bs) =>
         /\ SubSeq(bs, 1, k) \in Seq(Seq(T)) /\ Len(SubSeq(bs, 1, k)) = k
         /\ \A x \in 1 .. k : SubSeq(bs, 1, k)[x] = bs[x]
  <2> SUFFICES ASSUME NEW k \in Nat, k <= Len(bs)
               PROVE  /\ SubSeq(bs, 1, k) \in Seq(Seq(T)) /\ Len(SubSeq(bs, 1, k)) = k
                      /\ \A x \in 1 .. k : SubSeq(bs, 1, k)[x] = bs[x]
    OBVIOUS
  <2>1. /\ SubSeq(bs, 0 + 1, k) \in Seq(Seq(T)) /\ Len(SubSeq(bs, 0 + 1, k)) = k - 0
        /\ \A x \in 1 .. k - 0 : SubSeq(bs, 0 + 1, k)[x] = bs[0 + x]
    BY <1>1, BlockTokens
  <2> QED
    BY <2>1
<1>5. \A k \in Nat : k <= Len(bt) =>
         /\ SubSeq(bt, 1, k) \in Seq(Seq(T)) /\ Len(SubSeq(bt, 1, k)) = k
         /\ \A x \in 1 .. k : SubSeq(bt, 1, k)[x] = bt[x]
  <2> SUFFICES ASSUME NEW k \in Nat, k <= Len(bt)
               PROVE  /\ SubSeq(bt, 1, k) \in Seq(Seq(T)) /\ Len(SubSeq(bt, 1, k)) = k
                      /\ \A x \in 1 .. k : SubSeq(bt, 1, k)[x] = bt[x]
    OBVIOUS
  <2>1. /\ SubSeq(bt, 0 + 1, k) \in Seq(Seq(T)) /\ Len(SubSeq(bt, 0 + 1, k)) = k - 0
        /\ \A x \in 1 .. k - 0 : SubSeq(bt, 0 + 1, k)[x] = bt[0 + x]
    BY <1>1, BlockTokens
  <2> QED
    BY <2>1
<1>6. /\ i \in Nat /\ i + 1 \in Nat /\ i + 1 <= Len(bs) /\ i <= Len(bs) /\ i \in 1 .. Len(cs)
      /\ i + 1 \in 1 .. Len(cs) /\ j \in Nat /\ j <= Len(bt)
  BY <1>1, <1>2, <1>3
<1>7. SubSeq(bs, 1, i + 1) = SubSeq(bt, 1, j)
  BY <1>2, <1>3, <1>6
<1>8. j = i + 1
  BY <1>4, <1>5, <1>6, <1>7
<1>9. j > 1 /\ j - 1 = i /\ i <= Len(bt) /\ i \in 1 .. Len(ct)
  BY <1>1, <1>2, <1>6, <1>8
<1>10. \A x \in 1 .. i : bs[x] = bt[x]
  <2> SUFFICES ASSUME NEW x \in 1 .. i PROVE bs[x] = bt[x]
    OBVIOUS
  <2>1. x \in 1 .. i + 1
    BY <1>6
  <2>2. SubSeq(bs, 1, i + 1)[x] = bs[x]
    BY <1>4, <1>6, <2>1
  <2>3. SubSeq(bt, 1, j)[x] = bt[x]
    BY <1>5, <1>6, <1>8, <2>1
  <2> QED
    BY <1>7, <2>2, <2>3
<1>11. SubSeq(bs, 1, i) = SubSeq(bt, 1, i)
  <2>1. PICK u \in Seq(Seq(T)) : u = SubSeq(bs, 1, i)
    BY <1>4, <1>6
  <2>2. PICK v \in Seq(Seq(T)) : v = SubSeq(bt, 1, i)
    BY <1>5, <1>6, <1>9
  <2>3. Len(u) = i /\ Len(v) = i /\ \A x \in 1 .. i : u[x] = v[x]
    BY <1>4, <1>5, <1>6, <1>9, <1>10, <2>1, <2>2
  <2>4. u = v
    BY <2>3, SeqEqual
  <2> QED
    BY <2>1, <2>2, <2>4
<1>12. cs[i] = ct[j - 1]
  BY <1>2, <1>6, <1>9, <1>11
<1> QED
  BY <1>9, <1>12 DEF cs, ct

-----------------------------------------------------------------------------
(* The text of a prompt.                                                   *)

\* Joining lists of tokens gives a list of tokens.
LEMMA FlattenType ==
    ASSUME NEW T, NEW seqs \in Seq(Seq(T))
    PROVE  FlattenSeq(seqs) \in Seq(T)
<1> DEFINE n == Len(seqs)
           V == Seq(T)
           Is(g) == g = [i \in 1 .. n |-> IF i = 1 THEN seqs[i] ELSE g[i - 1] \o seqs[i]]
           c == CHOOSE g : Is(g)
           step == [x \in Nat \X V |-> IF x[1] < n THEN x[2] \o seqs[x[1] + 1] ELSE x[2]]
<1>1. n \in Nat /\ \A i \in 1 .. n : seqs[i] \in V
  OBVIOUS
<1>2. CASE n = 0
  <2>1. seqs = <<>>
    BY <1>2
  <2> QED
    BY <1>2, <2>1 DEF FlattenSeq
<1>3. CASE n # 0
  <2>1. FlattenSeq(seqs) = c[n]
    BY <1>3 DEF FlattenSeq
  <2>2. \A v \in V, w \in V : v \o w \in V
    OBVIOUS
  <2>3. <<>> \in V /\ \A v \in V : <<>> \o v = v
    OBVIOUS
  <2> HIDE DEF V
  <2>4. step \in StepFunctions(V)
    <3>1. ASSUME NEW x \in Nat \X V
          PROVE  (IF x[1] < n THEN x[2] \o seqs[x[1] + 1] ELSE x[2]) \in V
      <4>1. x[1] \in Nat /\ x[2] \in V
        OBVIOUS
      <4>2. CASE x[1] < n
        <5>1. x[1] + 1 \in 1 .. n
          BY <1>1, <4>1, <4>2
        <5>2. seqs[x[1] + 1] \in V
          BY <1>1, <5>1
        <5> QED
          BY <2>2, <4>1, <4>2, <5>2
      <4> QED
        BY <4>1, <4>2
    <3> QED
      BY <3>1 DEF StepFunctions
  <2>5. \A i \in 0 .. n - 1 : \A v \in V : step[<<i, v>>] = v \o seqs[i + 1]
    <3> SUFFICES ASSUME NEW i \in 0 .. n - 1, NEW v \in V
                 PROVE  step[<<i, v>>] = v \o seqs[i + 1]
      OBVIOUS
    <3>1. i \in Nat /\ i < n
      BY <1>1
    <3> DEFINE x == <<i, v>>
    <3>2. x \in Nat \X V /\ x[1] = i /\ x[2] = v
      BY <3>1
    <3> HIDE DEF x
    <3>3. step[x] = x[2] \o seqs[x[1] + 1]
      BY <3>1, <3>2
    <3> QED
      BY <3>2, <3>3 DEF x
  <2> HIDE DEF step
  <2>6. PICK f : Iterates(V, <<>>, step, f)
    BY <2>3, <2>4, RecursionOnNat
  <2> DEFINE g == [i \in 1 .. n |-> f[i]]
  <2>7. Is(g)
    <3>1. ASSUME NEW i \in 1 .. n
          PROVE  g[i] = IF i = 1 THEN seqs[i] ELSE g[i - 1] \o seqs[i]
      <4>1. i - 1 \in 0 .. n - 1 /\ i - 1 \in Nat /\ (i - 1) + 1 = i /\ i \in Nat
        BY <1>1
      <4>2. f[i - 1] \in V /\ f[i] = step[<<i - 1, f[i - 1]>>]
        BY <2>6, <4>1 DEF Iterates
      <4>3. f[i] = f[i - 1] \o seqs[i]
        BY <2>5, <4>1, <4>2
      <4>4. CASE i = 1
        <5>1. f[0] = <<>>
          BY <2>6 DEF Iterates
        <5>2. i - 1 = 0 /\ seqs[i] \in V
          BY <1>1, <4>4
        <5>3. f[i] = <<>> \o seqs[i]
          BY <4>3, <5>1, <5>2
        <5>4. f[i] = seqs[i]
          BY <2>3, <5>2, <5>3
        <5> QED
          BY <4>4, <5>4
      <4>5. CASE i # 1
        <5>1. i - 1 \in 1 .. n
          BY <1>1, <4>5
        <5> QED
          BY <4>3, <4>5, <5>1
      <4> QED
        BY <4>4, <4>5
    <3>2. g = [i \in 1 .. n |-> g[i]]
      OBVIOUS
    <3> HIDE DEF g
    <3> QED
      BY <3>1, <3>2
  <2>8. Is(c)
    <3> HIDE DEF Is, g
    <3> QED
      BY <2>7
  <2> HIDE DEF c
  <2>9. \A i \in 1 .. n : c[i] = IF i = 1 THEN seqs[i] ELSE c[i - 1] \o seqs[i]
    BY <2>8
  <2> DEFINE S == {i \in Nat : i + 1 <= n => c[i + 1] \in V}
  <2>10. 0 \in S
    <3>1. 1 \in 1 .. n /\ 0 + 1 = 1
      BY <1>1, <1>3
    <3> QED
      BY <1>1, <2>9, <3>1
  <2>11. ASSUME NEW i \in S PROVE i + 1 \in S
    <3>1. i \in Nat /\ (i + 1 <= n => c[i + 1] \in V)
      OBVIOUS
    <3>2. ASSUME (i + 1) + 1 <= n PROVE c[(i + 1) + 1] \in V
      <4>1. /\ (i + 1) + 1 \in 1 .. n /\ (i + 1) + 1 # 1 /\ ((i + 1) + 1) - 1 = i + 1
            /\ c[i + 1] \in V
        BY <1>1, <3>1, <3>2
      <4> QED
        BY <1>1, <2>2, <2>9, <4>1
    <3> QED
      BY <3>1, <3>2
  <2>12. S \in SUBSET Nat
    OBVIOUS
  <2> HIDE DEF S
  <2>13. S = Nat
    BY <2>10, <2>11, <2>12, InductionOnNat
  <2>14. n - 1 \in S /\ n - 1 \in Nat /\ (n - 1) + 1 = n
    BY <1>1, <1>3, <2>13
  <2>15. c[n] \in V
    BY <1>1, <2>14 DEF S
  <2> QED
    BY <2>1, <2>15 DEF V
<1> QED
  BY <1>2, <1>3

\* The prompt of a body is a list of tokens.
LEMMA ExtractType ==
    ASSUME NEW T, NEW kind, NEW body \in Bodies(T)
    PROVE  Extract(kind, body) \in Seq(T)
<1> DEFINE parts == body.parts
           seqs == [i \in DOMAIN parts |-> PartTokens(parts[i])]
<1>1. PICK s \in Seq(Parts(T)) : s = body.parts
  BY DEF Bodies
<1>2. \A i \in 1 .. Len(s) : PartTokens(s[i]) \in Seq(T)
  <2> SUFFICES ASSUME NEW i \in 1 .. Len(s) PROVE PartTokens(s[i]) \in Seq(T)
    OBVIOUS
  <2>1. s[i] \in Parts(T)
    OBVIOUS
  <2>2. s[i].tokens \in Seq(T)
    BY <2>1 DEF Parts
  <2> QED
    BY <2>2, EmptySeq DEF PartTokens
<1>3. seqs \in [1 .. Len(s) -> Seq(T)] /\ Len(s) \in Nat
  BY <1>1, <1>2
<1>4. seqs \in Seq(Seq(T))
  <2>1. PICK V : V = Seq(T)
    OBVIOUS
  <2> HIDE DEF seqs
  <2>2. seqs \in Seq(V)
    BY <1>3, <2>1
  <2> QED
    BY <2>1, <2>2
<1>5. FlattenSeq(seqs) \in Seq(T)
  <2> HIDE DEF seqs
  <2> QED
    BY <1>4, FlattenType
<1> QED
  BY <1>5, EmptySeq DEF Extract, PromptText
=============================================================================
