--------------------------- MODULE MCPrefixQuery ---------------------------
(***************************************************************************)
(* PrefixQuery for TLC: chains of one and three blocks, whose searches are *)
(* one and two probes deep.                                                *)
(***************************************************************************)
EXTENDS PrefixQuery

CONSTANTS a, b, c

MCChains == {<<>>, <<a>>, <<a, b, c>>}
ThreeBlocks == {<<a, b, c>>}

AllRelations == SUBSET (Pods \X Hashes)
ClosedRelations == {rel \in AllRelations : Closed(rel)}
=============================================================================
