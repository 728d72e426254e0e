--------------------------- MODULE MCShardedIndex ---------------------------
(***************************************************************************)
(* ShardedIndex for TLC: two threads, two blocks in different shards, and  *)
(* pods whose ids are above the initial pod count, so that observe_pod has *)
(* to raise it and its compare-exchange can lose a race.                   *)
(***************************************************************************)
EXTENDS ShardedIndex, TLC

CONSTANTS t1, t2, h1, h2

MCShardFor == (h1 :> 0) @@ (h2 :> 1)
MCChains == {<<h1>>, <<h1, h2>>}
=============================================================================
