--------------------------- MODULE MCModuleSource ----------------------------
(* A deletion with and one without force, and a creation. *)
EXTENDS ModuleSource, TLC

CONSTANTS del, force, new, r1, r2

MCCalls    == {del, force, new}
MCKind     == del :> "delete" @@ force :> "force" @@ new :> "create"
MCReleases == {r1, r2}
MCSymmetry == Permutations(MCReleases)
==============================================================================
