------------------------- MODULE MCKubernetesVersion -------------------------
(* Two calls that ask for different versions, beside other writers. *)
EXTENDS KubernetesVersion, TLC

CONSTANTS c1, c2, v1, v2, r1, r2

MCCalls    == {c1, c2}
MCVersions == {v1, v2}
MCRests    == {r1, r2}
MCTarget   == c1 :> v1 @@ c2 :> v2
==============================================================================
