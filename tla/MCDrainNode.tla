----------------------------- MODULE MCDrainNode -----------------------------
(* Two pods to evict, one of which tolerates the cordon.  The pods that a  *)
(* drain passes over, mirror pods and those of DaemonSets, only multiply   *)
(* the states here; MCRemoveNode has both.                                 *)
EXTENDS DrainNode, TLC

CONSTANTS p1, p2

MCPods    == {p1, p2}
MCPodKind == p1 :> "plain" @@ p2 :> "tolerant"
==============================================================================
