---------------------------- MODULE PrefixDepth ----------------------------
(***************************************************************************)
(* What the prefix query computes for one pod from one state of the        *)
(* registry: a binary search in the chain, in which a pod that owns the    *)
(* block at the probed depth is taken to own all the blocks before it.     *)
(***************************************************************************)
EXTENDS Integers, Sequences

\* The bounds of a frame: a least and a greatest depth in a chain of n blocks.
Spans(n) == {f \in (0 .. n) \X (0 .. n) : f[1] <= f[2]}

\* The depth that the search finds from each frame on.
DepthFrom(p, chain, owned) ==
    LET search[f \in Spans(Len(chain))] ==
            LET lo == f[1]
                hi == f[2]
                probe == (lo + hi + 1) \div 2
            IN IF lo = hi THEN lo
               ELSE IF <<p, chain[probe]>> \in owned THEN search[<<probe, hi>>]
               ELSE search[<<lo, probe - 1>>]
    IN search

PrefixDepth(p, chain, owned) == DepthFrom(p, chain, owned)[<<0, Len(chain)>>]

\* A pod that is not alive when the query begins has depth 0.
CacheDepth(p, chain, owned, live) ==
    IF p \in live THEN PrefixDepth(p, chain, owned) ELSE 0
=============================================================================
