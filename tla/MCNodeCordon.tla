---------------------------- MODULE MCNodeCordon -----------------------------
(* A cordon and an uncordon, and a second cordon to race with the first. *)
EXTENDS NodeCordon, TLC

CONSTANTS c1, c2, c3, r1, r2

MCCalls == {c1, c2, c3}
MCKind  == c1 :> "cordon" @@ c2 :> "uncordon" @@ c3 :> "cordon"
MCRests == {r1, r2}
MCSymmetry == Permutations(MCRests)
==============================================================================
