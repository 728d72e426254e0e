----------------------------- MODULE MCGateway -----------------------------
(***************************************************************************)
(* Gateway for TLC: catalogs of up to three pods, and prompts that share   *)
(* their first block.                                                      *)
(***************************************************************************)
EXTENDS Gateway, TLC

CONSTANTS r1, r2, s1, a, b

OneSingle == [p \in {0} |-> "single"]
TwoPrefillOneDecode == (0 :> "prefill") @@ (1 :> "prefill") @@ (2 :> "decode")
PrefillDecode == (0 :> "prefill") @@ (1 :> "decode")

OwnRole == [p \in Pods |-> {Role[p]}]
AllRoles == [p \in Pods |-> Roles]
OneConn == [p \in Pods |-> 1]
ConnsTwoOne == [p \in Pods |-> IF p = 0 THEN 2 ELSE 1]

MCPrompts == {<<a>>, <<a, b>>}
ShortPrompts == {<<>>, <<a>>}
MCSymmetry == Permutations({r1, r2})
=============================================================================
