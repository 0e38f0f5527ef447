------------------------------ MODULE NodePods -------------------------------
(***************************************************************************)
(* A Node and the pods around it, as the drains of DrainNode and           *)
(* RemoveNode meet them: the cordon, and what everybody else does while a  *)
(* drain is running.  Pods are created, scheduled, bound, deleted and      *)
(* terminated; kubelet, controllers and operators write the Node.          *)
(***************************************************************************)
EXTENDS ApiServer, FiniteSets

CONSTANTS
  Pods,    \* namespace/name of the pods
  PodKind, \* PodKind[p]: "plain", "tolerant", "daemon" or "mirror"
  MaxUid,  \* bound: pods are created while uids last
  MaxRev   \* bound: others write the Node up to this revision

(* A "tolerant" pod is an ordinary one that tolerates the taint            *)
(* node.kubernetes.io/unschedulable, as the pods of DaemonSets do.         *)
ASSUME PodKindAssumption ==
  PodKind \in [Pods -> {"plain", "tolerant", "daemon", "mirror"}]
ASSUME PodsAssumption == IsFiniteSet(Pods)

VARIABLES
  node,      \* the Node in the API server; its body is spec.unschedulable
  pod,       \* pod[p]: the pod that has name p, or had it last
  nextUid,   \* the uid of the next pod created
  seen,      \* spec.unschedulable as the scheduler's cache has it
  uncordoned, \* history: others have made the Node schedulable since the cordon
  lagging    \* history: uids of the pods assigned to the cordoned Node by a
             \* scheduler that had not seen the cordon yet

podVars == <<pod, nextUid, lagging>>
clusterVars == <<node, podVars, seen, uncordoned>>

(* A pod that is unbound has been assigned a host by the scheduler, but    *)
(* its spec.nodeName is not set yet.                                       *)
Hosts   == {"here", "elsewhere", "none"}
Phases  == {"absent", "unbound", "running", "terminating"}
PodRecs == [uid : Nat, host : Hosts, phase : Phases]
Absent(r) == [r EXCEPT !.phase = "absent", !.host = "none"]

(* A name is that of a pod on the Node, or free.  Pods of other nodes do   *)
(* not matter until their name is free, so they only come in later.        *)
InitCluster ==
  /\ node \in [rv : {0}, body : BOOLEAN]
  /\ pod \in [Pods -> [uid : {0}, host : {"here"}, phase : {"running"}]
                         \cup [uid : {0}, host : {"none"}, phase : {"absent"}]]
  /\ nextUid = 1
  /\ seen \in BOOLEAN
  /\ uncordoned = FALSE
  /\ lagging = {}

(* spec.nodeName names the Node. *)
OnNode(p) == pod[p].phase \in {"running", "terminating"} /\ pod[p].host = "here"

(* The pod that has the name now is deleted or evicted: a pod no kubelet   *)
(* has taken over vanishes at once, others begin to terminate.             *)
Leaving(r) == IF r.phase = "unbound" THEN Absent(r) ELSE [r EXCEPT !.phase = "terminating"]

(* Kubelet, controllers, operators (kubectl uncordon) write the Node. *)
OtherNodeWriter ==
  /\ node.rv < MaxRev
  /\ node' \in [rv : {node.rv + 1}, body : BOOLEAN]
  /\ uncordoned' = (uncordoned \/ ~node'.body)
  /\ UNCHANGED <<podVars, seen>>

(* The watch of the scheduler brings its cache up to date. *)
SchedulerCatchesUp ==
  /\ seen # node.body
  /\ seen' = node.body
  /\ UNCHANGED <<node, podVars, uncordoned>>

(* Where a new pod is assigned to: the scheduler chooses this Node only    *)
(* while it sees it schedulable, but for the pods that tolerate a cordon,  *)
(* those of DaemonSets among them.  A mirror pod is created by the kubelet *)
(* of its own node.                                                        *)
Placements(p) ==
  CASE PodKind[p] = "mirror" -> {"here"}
    [] PodKind[p] = "plain" /\ seen -> {"elsewhere"}
    [] OTHER -> {"here", "elsewhere"}

(* A pod is created under a free name, for a StatefulSet the name of the   *)
(* pod it replaces.                                                        *)
PodCreated(p) ==
  /\ pod[p].phase = "absent"
  /\ nextUid <= MaxUid
  /\ nextUid' = nextUid + 1
  /\ \E h \in Placements(p) :
       /\ pod' = [pod EXCEPT ![p] =
            [uid |-> nextUid, host |-> h,
             phase |-> IF PodKind[p] = "mirror" THEN "running" ELSE "unbound"]]
       /\ lagging' = IF PodKind[p] = "plain" /\ h = "here" /\ node.body
                     THEN lagging \cup {nextUid} ELSE lagging
  /\ UNCHANGED <<node, seen, uncordoned>>

(* The binding of a pod lands; the server does not look at the cordon. *)
PodBound(p) ==
  /\ pod[p].phase = "unbound"
  /\ pod' = [pod EXCEPT ![p].phase = "running"]
  /\ UNCHANGED <<node, nextUid, seen, uncordoned, lagging>>

PodDeleted(p) ==
  /\ pod[p].phase = "running"
  /\ pod' = [pod EXCEPT ![p].phase = "terminating"]
  /\ UNCHANGED <<node, nextUid, seen, uncordoned, lagging>>

PodGone(p) ==
  /\ pod[p].phase = "terminating"
  /\ pod' = [pod EXCEPT ![p] = Absent(@)]
  /\ UNCHANGED <<node, nextUid, seen, uncordoned, lagging>>

PodLives(p) == PodCreated(p) \/ PodBound(p) \/ PodDeleted(p) \/ PodGone(p)
Others == OtherNodeWriter \/ SchedulerCatchesUp \/ \E p \in Pods : PodLives(p)
==============================================================================
