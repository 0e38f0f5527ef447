-------------------------- MODULE MCServedReleases ---------------------------
(* Two calls by two clients; c2 may come after a restart. *)
EXTENDS ServedReleases, TLC

CONSTANTS c1, c2, k1, k2

MCCalls    == {c1, c2}
MCClients  == {k1, k2}
MCClientOf == c1 :> k1 @@ c2 :> k2
==============================================================================
