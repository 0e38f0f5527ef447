--------------------------- MODULE MCReadOnlyTools ---------------------------
(* Two Nodes, one of a group and with two roles, the other without a       *)
(* StaticInstance; a pending and a running Deckhouse pod beside a pending  *)
(* pod of d8-system and a failed one of elsewhere; a module with an error, *)
(* and a release to follow the deployed one, for Deckhouse and for the     *)
(* module alike.                                                           *)
EXTENDS ReaderPromises, TLC

CONSTANTS n1, n2, g1, ra, rb, p1, p2, p3, p4, m1, x1, x2, s1

MCStart ==
  [node     |-> n1 :> [ready |-> "True", group |-> g1, roles |-> {ra, rb}]
             @@ n2 :> [ready |-> "Unknown", group |-> None, roles |-> {rb}],
   instance |-> n1 :> [phase |-> "Running", group |-> g1] @@ n2 :> None,
   events   |-> n1 :> "old" @@ n2 :> None,
   group    |-> g1 :> "old",
   pod      |-> p1 :> "Pending" @@ p2 :> "Running" @@ p3 :> "Pending" @@ p4 :> "Failed",
   config   |-> m1 :> [enabled |-> TRUE, message |-> "error"],
   module   |-> m1 :> "old",
   release  |-> x1 :> "Deployed" @@ x2 :> "Pending",
   moduleRelease |-> x1 :> [module |-> m1, phase |-> "Deployed"]
                  @@ x2 :> [module |-> m1, phase |-> "Pending"],
   source   |-> s1 :> "old",
   policy   |-> s1 :> None,
   secret   |-> "d8-cluster-configuration" :> {"cluster-configuration.yaml"}]
==============================================================================
