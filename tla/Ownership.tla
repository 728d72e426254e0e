----------------------------- MODULE Ownership -----------------------------
(***************************************************************************)
(* What the cache registry promises its callers, without shards, locks or  *)
(* threads: a set of (pod, block) pairs and a set of alive pods.           *)
(*                                                                         *)
(* A pair is added one at a time.  Pairs are removed one at a time by an   *)
(* eviction, or by a cleanup, which keeps the pairs of the pods of one     *)
(* mask over some of the blocks (the blocks of one shard).  Liveness of a  *)
(* pod never changes ownership, and ownership never changes liveness: a    *)
(* pod that is shut down keeps its blocks until somebody cleans them up.   *)
(***************************************************************************)
CONSTANTS Bits,     \* the pods a HostBitmap can hold
          Hashes    \* the cumulative block hashes

VARIABLES owned,    \* the (pod, block) pairs of the index
          alive     \* the alive bitmap

vars == <<owned, alive>>

\* A registry starts with no blocks, and with any of the alive bitmaps the
\* constructors build.
Init == /\ owned = {}
        /\ alive \in SUBSET Bits

Register(p, h) == /\ owned' = owned \cup {<<p, h>>}
                  /\ UNCHANGED alive

Evict(p, h) == /\ owned' = owned \ {<<p, h>>}
               /\ UNCHANGED alive

\* Only the pods of mask keep their blocks in H.
Cleanup(mask, H) == /\ owned' = {e \in owned : e[2] \in H => e[1] \in mask}
                    /\ UNCHANGED alive

MarkAlive(p) == /\ alive' = alive \cup {p}
                /\ UNCHANGED owned

Shutdown(p) == /\ alive' = alive \ {p}
               /\ UNCHANGED owned

Next == \/ \E p \in Bits : MarkAlive(p) \/ Shutdown(p)
        \/ \E p \in Bits, h \in Hashes : Register(p, h) \/ Evict(p, h)
        \/ \E mask \in SUBSET Bits, H \in SUBSET Hashes : Cleanup(mask, H)

Spec == Init /\ [][Next]_vars
=============================================================================
