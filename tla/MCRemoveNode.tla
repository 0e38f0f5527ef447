---------------------------- MODULE MCRemoveNode -----------------------------
(* A pod to delete, a mirror pod and a DaemonSet pod. *)
EXTENDS RemoveNode, TLC

CONSTANTS p1, m1, d1

MCPods    == {p1, m1, d1}
MCPodKind == p1 :> "plain" @@ m1 :> "mirror" @@ d1 :> "daemon"
==============================================================================
