----------------------------- MODULE RemoveNode ------------------------------
(***************************************************************************)
(* One call of NodesHandler.RemoveNode: look the StaticInstance up, drain  *)
(* the Node (drainNode: cordon, list, delete pod by pod), and delete the   *)
(* StaticInstance.  Unlike DrainNode it deletes the pods instead of        *)
(* evicting them, spares no mirror pods, waits for nothing, and gives up   *)
(* at the first error.  Every API request is one step; a request that the  *)
(* caller cancels fails like any other.                                    *)
(***************************************************************************)
EXTENDS NodePods

VARIABLES
  inst,      \* the StaticInstance: "none", "present" or "deleting"
  withDrain, \* drain of the request
  pc,        \* where the call is, or how it ended
  snap,      \* the Node returned by the GET of client.CordonNode
  todo,      \* the listed pods the loop has not come to yet
  drained,   \* the flag of the answer
  listed,    \* history: uids of the pods to delete, as listed
  listUid,   \* history: nextUid when the pods were listed, 0 before
  unbound,   \* history: uids of the pods that were unbound at that moment
  removed    \* history: the server took the deletion of the StaticInstance

historyVars == <<listed, listUid, unbound, removed>>
callVars == <<withDrain, pc, snap, todo, drained, historyVars>>
vars == <<clusterVars, inst, callVars>>

Init ==
  /\ InitCluster
  /\ inst \in {"none", "present"}
  /\ withDrain \in BOOLEAN
  /\ pc = "check"
  /\ snap = node
  /\ todo = {} /\ drained = FALSE
  /\ listed = <<>> /\ listUid = 0 /\ unbound = {} /\ removed = FALSE
------------------------------------------------------------------------------
(* The call. *)

(* GetStaticInstance; also finds one that is being deleted. *)
Check ==
  /\ pc = "check"
  /\ inst # "none"
  /\ pc' = IF withDrain THEN "get" ELSE "inst"
  /\ UNCHANGED <<clusterVars, inst, withDrain, snap, todo, drained, historyVars>>

CordonGet ==
  /\ pc = "get"
  /\ snap' = node
  /\ pc' = "put"
  /\ UNCHANGED <<clusterVars, inst, withDrain, todo, drained, historyVars>>

CordonPut ==
  /\ pc = "put"
  /\ Accepts(node, snap)
  /\ node' = Stored(node, TRUE)
  /\ uncordoned' = FALSE
  /\ pc' \in {"list", "error"}
  /\ UNCHANGED <<podVars, seen, inst, withDrain, snap, todo, drained, historyVars>>

(* A mutant of CordonConflict: the Conflict is ignored. *)
CordonConflictIgnored ==
  /\ pc = "put"
  /\ ~Accepts(node, snap)
  /\ uncordoned' = FALSE
  /\ pc' = "list"
  /\ UNCHANGED <<node, podVars, seen, inst, withDrain, snap, todo, drained, historyVars>>

CordonConflict ==
  /\ pc = "put"
  /\ ~Accepts(node, snap)
  /\ pc' = "error"
  /\ UNCHANGED <<clusterVars, inst, withDrain, snap, todo, drained, historyVars>>

(* A mutant of RequestFails: a pod that cannot be deleted is passed over. *)
RequestFailsIgnored ==
  /\ \/ pc \in {"check", "get", "put", "list", "inst"} /\ pc' = "error" /\ UNCHANGED todo
     \/ pc = "pods" /\ UNCHANGED pc /\ \E p \in todo : todo' = todo \ {p}
  /\ UNCHANGED <<clusterVars, inst, withDrain, snap, drained, historyVars>>

(* A request fails without effect; a StaticInstance or a pod that does not *)
(* exist is such a failure.                                                *)
RequestFails ==
  /\ pc \in {"check", "get", "put", "list", "inst"} \/ (pc = "pods" /\ todo # {})
  /\ pc' = "error"
  /\ UNCHANGED <<clusterVars, inst, withDrain, snap, todo, drained, historyVars>>

(* What isDaemonSetPod and the comparison of spec.nodeName leave. *)
Removable(p) == OnNode(p) /\ PodKind[p] # "daemon"

List ==
  /\ pc = "list"
  /\ todo' = {p \in Pods : Removable(p)}
  /\ listed' = [p \in todo' |-> pod[p].uid]
  /\ listUid' = nextUid
  /\ unbound' = {pod[p].uid : p \in {q \in Pods : pod[q].phase = "unbound"}}
  /\ pc' = "pods"
  /\ UNCHANGED <<clusterVars, inst, withDrain, snap, drained, removed>>

(* DeletePod of whatever has the name now; when the answer is lost the     *)
(* whole call fails.                                                       *)
DeletePod(p) ==
  /\ pc = "pods"
  /\ p \in todo
  /\ pod[p].phase # "absent"
  /\ pod' = [pod EXCEPT ![p] = Leaving(@)]
  /\ todo' = todo \ {p}
  /\ pc' \in {"pods", "error"}
  /\ UNCHANGED <<node, nextUid, seen, uncordoned, lagging, inst, withDrain, snap, drained, historyVars>>

(* A mutant of DrainDone: the loop is left at any pod. *)
DrainDoneEarly ==
  /\ pc = "pods"
  /\ drained' = TRUE
  /\ pc' = "inst"
  /\ UNCHANGED <<clusterVars, inst, withDrain, snap, todo, historyVars>>

DrainDone ==
  /\ pc = "pods"
  /\ todo = {}
  /\ drained' = TRUE
  /\ pc' = "inst"
  /\ UNCHANGED <<clusterVars, inst, withDrain, snap, todo, historyVars>>

(* DeleteStaticInstance, by name; the answer may be lost. *)
DeleteInst ==
  /\ pc = "inst"
  /\ inst # "none"
  /\ inst' \in {"none", "deleting"}
  /\ removed' = TRUE
  /\ pc' \in {"ok", "error"}
  /\ UNCHANGED <<clusterVars, withDrain, snap, todo, drained, listed, listUid, unbound>>
------------------------------------------------------------------------------
(* Everybody else: other tools and Deckhouse create, delete and finalise   *)
(* the StaticInstance, the cluster lives on.                               *)
InstChanges ==
  /\ inst' \in CASE inst = "none"    -> {"present"}
                 [] inst = "present" -> {"none", "deleting"}
                 [] OTHER            -> {"none"}
  /\ UNCHANGED <<clusterVars, callVars>>

Call ==
  \/ Check \/ CordonGet \/ CordonPut \/ CordonConflict \/ RequestFails
  \/ List \/ (\E p \in Pods : DeletePod(p)) \/ DrainDone \/ DeleteInst
World == InstChanges \/ (Others /\ UNCHANGED <<inst, callVars>>)
Next == Call \/ World

Spec == Init /\ [][Next]_vars
------------------------------------------------------------------------------
TypeOK ==
  /\ node \in Objects(BOOLEAN)
  /\ pod \in [Pods -> PodRecs]
  /\ nextUid \in Nat /\ seen \in BOOLEAN /\ uncordoned \in BOOLEAN /\ lagging \subseteq Nat
  /\ inst \in {"none", "present", "deleting"}
  /\ withDrain \in BOOLEAN /\ drained \in BOOLEAN /\ removed \in BOOLEAN
  /\ pc \in {"check", "get", "put", "list", "pods", "inst", "ok", "error"}
  /\ snap \in Objects(BOOLEAN)
  /\ todo \subseteq DOMAIN listed /\ (pc \in {"inst", "ok"} => todo = {})
  /\ DOMAIN listed \subseteq Pods /\ listed \in [DOMAIN listed -> Nat]
  /\ listUid \in Nat /\ unbound \subseteq Nat

Going(p) == pod[p].phase \in {"terminating", "absent"}

(* A RemoveNode that drains deletes the StaticInstance only when each pod  *)
(* it has listed is gone or going, whichever of its requests failed or     *)
(* lost their answers before; and it answers drained in that case only.    *)
RemovedOnlyAfterDrain ==
  (removed /\ withDrain) \/ drained =>
    listUid > 0 /\ \A p \in DOMAIN listed : pod[p].uid = listed[p] => Going(p)

(* What can still run on a Node that RemoveNode has drained, if nobody     *)
(* made it schedulable again, are DaemonSet pods, mirror pods that came    *)
(* back, pods the scheduler had assigned to it when the pods were listed,  *)
(* and pods that came later because they tolerate the cordon or the        *)
(* scheduler had not seen it yet.                                          *)
OnlyLateBindingsRemain ==
  drained /\ ~uncordoned =>
    \A p \in Pods :
      PodKind[p] \in {"plain", "tolerant"} /\ OnNode(p) /\ ~Going(p) =>
        \/ pod[p].uid \in unbound
        \/ pod[p].uid >= listUid /\ (PodKind[p] = "tolerant" \/ pod[p].uid \in lagging)
==============================================================================
