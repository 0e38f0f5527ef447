-------------------------- MODULE MCJsonMergePatch ---------------------------
(* Documents and patches two levels deep.  Keys and scalars have no order, *)
(* and no definition tells one from another.                               *)
EXTENDS JsonMergePatch, TLC

MCPaths == [1..1 -> Keys] \cup [1..2 -> Keys]
MCSymmetry == Permutations(Keys) \cup Permutations(Scalars)
==============================================================================
