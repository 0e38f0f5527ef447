------------------------------ MODULE DrainNode ------------------------------
(***************************************************************************)
(* One call of NodesHandler.DrainNode: cordon the Node, list the pods on   *)
(* it once, then evict the listed pods round by round until all are dealt  *)
(* with or the deadline has passed.                                        *)
(*                                                                         *)
(* Every API request and every wait is one step.  Around the call the      *)
(* cluster lives on (NodePods), disruption budgets admit or refuse         *)
(* evictions (any answer the server can give is possible), the caller may  *)
(* cancel, and time passes.                                                *)
(***************************************************************************)
EXTENDS NodePods, Integers, Sequences

CONSTANTS
  TimeoutSeconds,      \* timeout_seconds of the request, in clock ticks
  DefaultDrainTimeout, \* defaultDrainTimeout, in clock ticks
  PollInterval,        \* pollInterval, in clock ticks
  MaxTime              \* bound: the clock stops here, after the deadline

ASSUME TimeAssumption ==
  /\ TimeoutSeconds \in Int
  /\ DefaultDrainTimeout \in Nat \ {0}
  /\ PollInterval \in Nat \ {0}
  /\ MaxTime \in Nat

VARIABLES
  now,        \* the clock; the call began at 0
  cancelled,  \* the context of the call is done
  pc,         \* where the call is, or how it ended
  snap,       \* the Node returned by the GET of client.CordonNode
  pending,    \* the work-set
  todo,       \* the part of it that this round has not come to yet
  wakeAt,     \* when the timer of the wait fires
  evicted,    \* the counter of the answer
  failedPods, \* the list of the answer
  timedOut,   \* the flag of the answer
  listed,     \* history: uids of the pods the work-set started with
  listUid,    \* history: nextUid when the pods were listed, 0 before
  unbound,    \* history: uids of the pods then assigned a host but not bound
  astray,     \* history: a pod of another host was evicted
  lateRounds  \* history: rounds started after the deadline, up to two

answerVars  == <<evicted, failedPods, timedOut>>
loopVars    == <<pending, todo, wakeAt>>
historyVars == <<listed, listUid, unbound, astray, lateRounds>>
vars == <<clusterVars, now, cancelled, pc, snap, loopVars, answerVars, historyVars>>

(* timeout_seconds, or the default when it is not positive. *)
deadline == IF TimeoutSeconds <= 0 THEN DefaultDrainTimeout ELSE TimeoutSeconds

Init ==
  /\ InitCluster
  /\ now = 0
  /\ cancelled = FALSE
  /\ pc = "get"
  /\ snap = node
  /\ pending = {} /\ todo = {} /\ wakeAt = 0
  /\ evicted = 0 /\ failedPods = <<>> /\ timedOut = FALSE
  /\ listed = <<>> /\ listUid = 0 /\ unbound = {} /\ astray = FALSE /\ lateRounds = 0
------------------------------------------------------------------------------
(* The call. *)

(* Step 1 of the handler, client.CordonNode: a GET and a PUT. *)
CordonGet ==
  /\ pc = "get"
  /\ ~cancelled
  /\ snap' = node
  /\ pc' = "put"
  /\ UNCHANGED <<clusterVars, now, cancelled, loopVars, answerVars, historyVars>>

CordonPut ==
  /\ pc = "put"
  /\ Accepts(node, snap)
  /\ node' = Stored(node, TRUE)
  /\ uncordoned' = FALSE
  /\ pc' \in {"error"} \cup (IF cancelled THEN {} ELSE {"list"})
  /\ UNCHANGED <<podVars, seen, now, cancelled, snap, loopVars, answerVars, historyVars>>

(* A mutant of CordonConflict: the Conflict is ignored. *)
CordonConflictIgnored ==
  /\ pc = "put"
  /\ ~Accepts(node, snap)
  /\ uncordoned' = FALSE
  /\ pc' = IF cancelled THEN "error" ELSE "list"
  /\ UNCHANGED <<node, podVars, seen, now, cancelled, snap, loopVars, answerVars, historyVars>>

CordonConflict ==
  /\ pc = "put"
  /\ ~Accepts(node, snap)
  /\ pc' = "error"
  /\ UNCHANGED <<clusterVars, now, cancelled, snap, loopVars, answerVars, historyVars>>

(* A request of step 1 or 2 fails without effect: the drain is aborted. *)
RequestFails ==
  /\ pc \in {"get", "put", "list"}
  /\ pc' = "error"
  /\ UNCHANGED <<clusterVars, now, cancelled, snap, loopVars, answerVars, historyVars>>

(* What isDaemonSetPod and isMirrorPod leave of the pods on the Node. *)
Drainable(p) == OnNode(p) /\ PodKind[p] \in {"plain", "tolerant"}

(* Step 2: ListPods, once.  With nothing to do, no round is made. *)
List ==
  /\ pc = "list"
  /\ ~cancelled
  /\ pending' = {p \in Pods : Drainable(p)}
  /\ todo' = pending'
  /\ listed' = [p \in pending' |-> pod[p].uid]
  /\ listUid' = nextUid
  /\ unbound' = {pod[p].uid : p \in {q \in Pods : pod[q].phase = "unbound"}}
  /\ pc' = IF pending' = {} THEN "answer" ELSE "evict"
  /\ lateRounds' = IF pending' # {} /\ now > deadline THEN 1 ELSE 0
  /\ UNCHANGED <<clusterVars, now, cancelled, snap, wakeAt, answerVars, astray>>

(* Step 3: the eviction of p, in whatever order the map yields the pods.   *)
(* Its possible outcomes for the work-set and the answer are the next      *)
(* three definitions.                                                      *)
Counted(p) ==
  /\ evicted' = evicted + 1
  /\ pending' = pending \ {p}
  /\ UNCHANGED <<failedPods, timedOut>>

(* A mutant of Recorded: the failed pod stays in the work-set. *)
RecordedAndKept(p) ==
  /\ failedPods' = Append(failedPods, p)
  /\ UNCHANGED <<pending, evicted, timedOut>>

Recorded(p) ==
  /\ failedPods' = Append(failedPods, p)
  /\ pending' = pending \ {p}
  /\ UNCHANGED <<evicted, timedOut>>

Kept == UNCHANGED <<pending, evicted, failedPods, timedOut>>

Visit(p) ==
  /\ pc = "evict"
  /\ p \in todo
  /\ todo' = todo \ {p}
  /\ UNCHANGED <<node, nextUid, seen, uncordoned, lagging, now, cancelled, pc, snap, wakeAt,
                 listed, listUid, unbound, lateRounds>>

(* The eviction is granted; if the answer is lost, the pod has "failed". *)
EvictGranted(p) ==
  /\ Visit(p)
  /\ pod[p].phase # "absent"
  /\ pod' = [pod EXCEPT ![p] = Leaving(@)]
  /\ astray' = (astray \/ pod[p].host # "here")
  /\ (~cancelled /\ Counted(p)) \/ Recorded(p)

EvictNotFound(p) ==
  /\ Visit(p)
  /\ pod[p].phase = "absent"
  /\ ~cancelled
  /\ Counted(p)
  /\ UNCHANGED <<pod, astray>>

(* A mutant of EvictRefused: the pod is counted as evicted. *)
EvictRefusedCounted(p) ==
  /\ Visit(p)
  /\ ~cancelled
  /\ Counted(p)
  /\ UNCHANGED <<pod, astray>>

(* TooManyRequests, of a disruption budget or of the server's rate limit. *)
EvictRefused(p) ==
  /\ Visit(p)
  /\ ~cancelled
  /\ Kept
  /\ UNCHANGED <<pod, astray>>

EvictFails(p) ==
  /\ Visit(p)
  /\ Recorded(p)
  /\ UNCHANGED <<pod, astray>>

(* A mutant of PastDeadline: the loop stops at the deadline itself. *)
AtOrPastDeadline == now >= deadline

(* A mutant of PastDeadline: the loop has no end of its own. *)
NeverPastDeadline == FALSE

(* The check of the deadline between two rounds, time.Now().After(deadline). *)
PastDeadline == now > deadline

(* The round is over: the loop is left, or waits for the next round. *)
LeaveLoop ==
  /\ pc = "evict" /\ todo = {}
  /\ pending = {} \/ PastDeadline
  /\ pc' = "answer"
  /\ UNCHANGED <<clusterVars, now, cancelled, snap, loopVars, answerVars, historyVars>>

(* The answer, for which the clock is read again. *)
Return ==
  /\ pc = "answer"
  /\ pc' = "ok"
  /\ timedOut' = (pending # {} /\ now > deadline)
  /\ UNCHANGED <<clusterVars, now, cancelled, snap, loopVars, evicted, failedPods, historyVars>>

Wait ==
  /\ pc = "evict" /\ todo = {}
  /\ pending # {} /\ ~PastDeadline
  /\ pc' = "wait"
  /\ wakeAt' = IF deadline - now < PollInterval THEN deadline ELSE now + PollInterval
  /\ UNCHANGED <<clusterVars, now, cancelled, snap, pending, todo, answerVars, historyVars>>

(* A mutant of NextRound: a round goes through all the listed pods again. *)
NextRoundOfListed == DOMAIN listed

(* The pods a round goes through. *)
NextRound == pending

(* The select: the timer fires, perhaps late, or the context is done. *)
Wake ==
  /\ pc = "wait"
  /\ now >= wakeAt
  /\ pc' = "evict"
  /\ todo' = NextRound
  /\ lateRounds' = IF now > deadline /\ lateRounds < 2 THEN lateRounds + 1 ELSE lateRounds
  /\ UNCHANGED <<clusterVars, now, cancelled, snap, pending, wakeAt, answerVars, listed, listUid, unbound, astray>>

WaitCancelled ==
  /\ pc = "wait"
  /\ cancelled
  /\ pc' = "error"
  /\ UNCHANGED <<clusterVars, now, cancelled, snap, loopVars, answerVars, historyVars>>
------------------------------------------------------------------------------
(* The rest of the world. *)
callVars == <<pc, snap, loopVars, answerVars, historyVars>>

Tick ==
  /\ now < MaxTime
  /\ now' = now + 1
  /\ UNCHANGED <<clusterVars, cancelled, callVars>>

Cancel ==
  /\ ~cancelled
  /\ cancelled' = TRUE
  /\ UNCHANGED <<clusterVars, now, callVars>>

Evict(p) == EvictGranted(p) \/ EvictNotFound(p) \/ EvictRefused(p) \/ EvictFails(p)
Call ==
  \/ CordonGet \/ CordonPut \/ CordonConflict \/ RequestFails \/ List
  \/ \E p \in Pods : Evict(p)
  \/ LeaveLoop \/ Return \/ Wait \/ Wake \/ WaitCancelled
World ==
  \/ Tick \/ Cancel
  \/ Others /\ UNCHANGED <<now, cancelled, callVars>>
Next == Call \/ World

Spec == Init /\ [][Next]_vars
(* Requests are answered, timers fire and the clock runs.  Nothing is      *)
(* assumed of disruption budgets, of kubelets or of the caller.            *)
FairSpec == Spec /\ WF_vars(Call) /\ WF_vars(Tick)
------------------------------------------------------------------------------
TypeOK ==
  /\ node \in Objects(BOOLEAN)
  /\ pod \in [Pods -> PodRecs]
  /\ nextUid \in Nat /\ seen \in BOOLEAN /\ uncordoned \in BOOLEAN /\ lagging \subseteq Nat
  /\ now \in Nat /\ cancelled \in BOOLEAN
  /\ pc \in {"get", "put", "list", "evict", "wait", "answer", "ok", "error"}
  /\ snap \in Objects(BOOLEAN)
  /\ pending \subseteq Pods /\ todo \subseteq pending /\ wakeAt \in Int
  /\ evicted \in Nat /\ failedPods \in Seq(Pods) /\ timedOut \in BOOLEAN
  /\ DOMAIN listed \subseteq Pods /\ listUid \in Nat /\ lateRounds \in Nat
  /\ listed \in [DOMAIN listed -> Nat]
  /\ unbound \subseteq Nat /\ astray \in BOOLEAN

Failed == {failedPods[i] : i \in DOMAIN failedPods}

(* Every pod of the work-set is accounted for exactly once: it is counted  *)
(* in evicted_count, or named once in failed_pods, or still pending; no    *)
(* failed pod is evicted again.                                            *)
Accounting ==
  /\ evicted + Len(failedPods) + Cardinality(pending) = Cardinality(DOMAIN listed)
  /\ Failed \subseteq DOMAIN listed \ pending
  /\ \A i, j \in DOMAIN failedPods : failedPods[i] = failedPods[j] => i = j

(* A pod that DrainNode found on the Node and neither keeps pending nor    *)
(* names in failed_pods is gone or going: no later event makes the answer  *)
(* claim an eviction of a pod that keeps running there.                    *)
CountedAreLeaving ==
  \A p \in DOMAIN listed \ (pending \cup Failed) :
    pod[p].uid = listed[p] => pod[p].phase \in {"terminating", "absent"}

(* What goes on running on the Node from the list on, unless somebody else *)
(* makes it schedulable, are DaemonSet and mirror pods, the listed pods    *)
(* that the answer calls failed or the work-set still holds, pods the      *)
(* scheduler had assigned to the Node without their spec.nodeName saying   *)
(* so when the pods were listed, and pods that came after the list because *)
(* they tolerate the cordon or the scheduler had not seen it yet.          *)
OnlyLateBindingsRemain ==
  listUid > 0 /\ ~uncordoned =>
    \A p \in Pods :
      Drainable(p) /\ pod[p].phase = "running" =>
        \/ pod[p].uid \in unbound
        \/ pod[p].uid >= listUid /\ (PodKind[p] = "tolerant" \/ pod[p].uid \in lagging)
        \/ p \in (pending \cup Failed) /\ listed[p] = pod[p].uid

(* timed_out is set in exactly the answers that leave pods pending, and    *)
(* never before the deadline: the two places of DrainNode that compare the *)
(* clock with the deadline, each by a reading of its own, agree.           *)
TimedOutIffPending ==
  /\ pc = "ok" => (timedOut <=> pending # {})
  /\ timedOut => now > deadline

(* At most one round of evictions starts after the deadline, however late  *)
(* timers fire and however long requests take.                             *)
AtMostOneLateRound == lateRounds <= 1

(* The call returns, also when a disruption budget never gives way. *)
DrainEnds == <>(pc \in {"ok", "error"})

(* "DrainNode evicts non-DaemonSet pods from a node" (nodes.proto): only   *)
(* pods of that node are evicted.                                          *)
EvictsFromNodeOnly == ~astray
==============================================================================
