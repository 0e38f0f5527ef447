--------------------------- MODULE RemoveNodeProofs ---------------------------
(***************************************************************************)
(* Theorems about RemoveNode, for any set of pods and any behaviour of the *)
(* cluster, of Deckhouse and of other tools around the call.               *)
(***************************************************************************)
EXTENDS RemoveNode, TLAPS

USE DEF vars, podVars, clusterVars, historyVars, callVars

(* What each phase of the call has behind it. *)
Phased ==
  /\ pc \in {"check", "get", "put", "list"} =>
       todo = {} /\ listed = <<>> /\ listUid = 0 /\ ~drained /\ ~removed
  /\ pc \in {"get", "put", "list", "pods"} => withDrain
  /\ pc = "pods" => listUid > 0 /\ ~drained /\ ~removed
  /\ pc = "inst" => ~removed /\ (withDrain => drained)
  /\ drained => todo = {} /\ listUid > 0
  /\ removed /\ withDrain => drained

(* Uids are never reused, and no listed incarnation is unbound. *)
Incarnations ==
  /\ nextUid > 0 /\ \A p \in Pods : pod[p].uid < nextUid
  /\ \A p \in DOMAIN listed :
       /\ listed[p] < nextUid
       /\ pod[p].uid = listed[p] => pod[p].phase # "unbound"

(* The loop leaves no listed incarnation behind that goes on. *)
LoopDone == \A p \in DOMAIN listed \ todo : pod[p].uid = listed[p] => Going(p)

(* From the cordon on, the Node is unschedulable until somebody else makes *)
(* it schedulable, and a later plain pod is assigned to it only by a       *)
(* scheduler that lags.                                                    *)
Cordoned ==
  /\ (pc = "list" \/ listUid > 0) /\ ~uncordoned => node.body
  /\ listUid <= nextUid
Newcomers ==
  listUid > 0 /\ ~uncordoned =>
    \A p \in Pods : PodKind[p] = "plain" /\ pod[p].uid >= listUid =>
      pod[p].host # "here" \/ pod[p].uid \in lagging

(* A pod assigned to the Node that was there before the list was listed,   *)
(* or was unbound at that moment.                                          *)
Seen ==
  listUid > 0 =>
    \A p \in Pods :
      PodKind[p] \in {"plain", "tolerant"}
        /\ pod[p].uid < listUid /\ pod[p].host = "here" /\ ~Going(p) =>
        \/ p \in DOMAIN listed /\ listed[p] = pod[p].uid
        \/ pod[p].uid \in unbound

IInv ==
  TypeOK /\ Phased /\ Incarnations /\ LoopDone /\ Cordoned /\ Newcomers /\ Seen
------------------------------------------------------------------------------
LEMMA InitInv == Init => IInv
<1> SUFFICES ASSUME Init PROVE IInv
  OBVIOUS
<1>1. DOMAIN listed = {}  BY DEF Init
<1>2. TypeOK
  <2>1. node \in Objects(BOOLEAN) /\ snap \in Objects(BOOLEAN)
    BY DEF Init, InitCluster, Objects
  <2>2. pod \in [Pods -> PodRecs]  BY DEF Init, InitCluster, PodRecs, Hosts, Phases
  <2>3. listed \in [DOMAIN listed -> Nat]
    <3>1. listed = [p \in {} |-> 0]  BY DEF Init
    <3> QED  BY <3>1
  <2>4. /\ uncordoned \in BOOLEAN /\ withDrain \in BOOLEAN
        /\ drained \in BOOLEAN /\ removed \in BOOLEAN /\ seen \in BOOLEAN
    BY Zenon DEF Init, InitCluster
  <2>5. /\ nextUid \in Nat /\ listUid \in Nat /\ inst \in {"none", "present", "deleting"}
        /\ lagging \subseteq Nat
    BY DEF Init, InitCluster
  <2> QED  BY <1>1, <2>1, <2>2, <2>3, <2>4, <2>5 DEF Init, TypeOK
<1>3. Phased  BY DEF Init, Phased
<1>4. Incarnations
  <2>1. \A p \in Pods : pod[p].uid = 0  BY DEF Init, InitCluster
  <2> QED  BY <1>1, <2>1 DEF Init, InitCluster, Incarnations
<1>5. LoopDone /\ Cordoned /\ Newcomers /\ Seen
  BY <1>1 DEF Init, InitCluster, LoopDone, Cordoned, Newcomers, Seen
<1> QED  BY <1>2, <1>3, <1>4, <1>5 DEF IInv

LEMMA TypeStep == TypeOK /\ Phased /\ [Next]_vars => TypeOK'
<1> SUFFICES ASSUME TypeOK, Phased, [Next]_vars PROVE TypeOK'
  OBVIOUS
<1> USE DEF TypeOK
<1>1. CASE Check  BY <1>1 DEF Check, Phased
<1>2. CASE CordonGet \/ CordonConflict \/ RequestFails
  BY <1>2 DEF CordonGet, CordonConflict, RequestFails
<1>3. CASE CordonPut
  <2>1. node' \in Objects(BOOLEAN)  BY <1>3 DEF CordonPut, Stored, Objects
  <2> QED  BY <1>3, <2>1 DEF CordonPut
<1>4. CASE List
  <2>1. \A p \in Pods : pod[p].uid \in Nat  BY DEF PodRecs
  <2>2. listed' \in [todo' -> Nat] /\ DOMAIN listed' = todo' /\ todo' \subseteq Pods
    BY <1>4, <2>1 DEF List
  <2>3. unbound' \subseteq Nat  BY <1>4, <2>1 DEF List
  <2> QED  BY <1>4, <2>2, <2>3 DEF List
<1>5. ASSUME NEW p \in Pods, DeletePod(p) PROVE TypeOK'
  <2>1. Leaving(pod[p]) \in PodRecs  BY DEF Leaving, Absent, PodRecs, Phases, Hosts
  <2>2. pod' \in [Pods -> PodRecs]  BY <1>5, <2>1 DEF DeletePod
  <2> QED  BY <1>5, <2>2 DEF DeletePod
<1>6. CASE DrainDone \/ DeleteInst  BY <1>6 DEF DrainDone, DeleteInst
<1>7. CASE InstChanges  BY <1>7 DEF InstChanges
<1>8. CASE OtherNodeWriter /\ UNCHANGED <<inst, callVars>>
  <2>1. node' \in Objects(BOOLEAN) /\ UNCHANGED <<podVars, seen>>
    BY <1>8 DEF OtherNodeWriter, Objects
  <2>2. uncordoned' \in BOOLEAN
    <3>1. uncordoned' = (uncordoned \/ ~node'.body)  BY <1>8, Zenon DEF OtherNodeWriter
    <3> QED  BY <3>1, Zenon
  <2> QED  BY <1>8, <2>1, <2>2
<1>9. ASSUME NEW p \in Pods, PodCreated(p), UNCHANGED <<inst, callVars>> PROVE TypeOK'
  <2>1. PICK h \in Hosts, ph \in Phases :
          /\ pod' = [pod EXCEPT ![p] = [uid |-> nextUid, host |-> h, phase |-> ph]]
          /\ lagging' \in {lagging, lagging \cup {nextUid}}
    BY <1>9 DEF PodCreated, Placements, Hosts, Phases
  <2>2. lagging' \subseteq Nat  BY <2>1
  <2> QED  BY <1>9, <2>1, <2>2 DEF PodCreated, PodRecs
<1>10. ASSUME NEW p \in Pods, PodBound(p) \/ PodDeleted(p) \/ PodGone(p),
              UNCHANGED <<inst, callVars>>
       PROVE  TypeOK'
  <2>1. /\ [pod[p] EXCEPT !.phase = "running"] \in PodRecs
        /\ [pod[p] EXCEPT !.phase = "terminating"] \in PodRecs
        /\ Absent(pod[p]) \in PodRecs
    BY DEF PodRecs, Phases, Hosts, Absent
  <2> QED  BY <1>10, <2>1 DEF PodBound, PodDeleted, PodGone
<1>11. CASE SchedulerCatchesUp /\ UNCHANGED <<inst, callVars>>
  BY <1>11 DEF SchedulerCatchesUp, Objects
<1>12. CASE UNCHANGED vars  BY <1>12
<1> QED
  BY <1>1, <1>2, <1>3, <1>4, <1>5, <1>6, <1>7, <1>8, <1>9, <1>10, <1>11, <1>12
     DEF Next, Call, World, Others, PodLives

(* Steps of everybody but the call. *)
LEMMA WorldLeavesCall == World => UNCHANGED callVars
  BY DEF World, InstChanges

LEMMA PhasedStep == TypeOK /\ Incarnations /\ Phased /\ [Next]_vars => Phased'
<1> SUFFICES ASSUME TypeOK, Incarnations, Phased, [Next]_vars PROVE Phased'
  OBVIOUS
<1> USE DEF Phased
<1>1. CASE Check
  <2>1. UNCHANGED <<withDrain, todo, drained, historyVars>> /\ pc' \in {"get", "inst"}
    BY <1>1 DEF Check
  <2>2. (pc' = "get" => withDrain) /\ (pc' = "inst" => ~withDrain)
    BY <1>1 DEF Check
  <2> QED  BY <1>1, <2>1, <2>2 DEF Check
<1>2. CASE CordonGet  BY <1>2 DEF CordonGet
<1>3. CASE CordonPut  BY <1>3 DEF CordonPut
<1>4. CASE CordonConflict \/ RequestFails
  BY <1>4 DEF CordonConflict, RequestFails
<1>5. CASE List
  <2>1. pc = "list" /\ pc' = "pods" /\ UNCHANGED <<withDrain, drained, removed>>
    BY <1>5 DEF List
  <2>2. listUid' > 0  BY <1>5 DEF List, Incarnations
  <2> QED  BY <2>1, <2>2
<1>6. ASSUME NEW p \in Pods, DeletePod(p) PROVE Phased'
  BY <1>6 DEF DeletePod
<1>7. CASE DrainDone \/ DeleteInst  BY <1>7 DEF DrainDone, DeleteInst
<1>8. CASE World  BY <1>8, WorldLeavesCall
<1>9. CASE UNCHANGED vars  BY <1>9
<1> QED
  BY <1>1, <1>2, <1>3, <1>4, <1>5, <1>6, <1>7, <1>8, <1>9 DEF Next, Call

(* What happens to pod p in one step: its incarnation goes on, in a phase  *)
(* that never leads back to running and on no other host, or a pod with a  *)
(* fresh uid takes over, assigned with regard to the cordon.               *)
GoesOn(p) ==
  /\ pod'[p].uid = pod[p].uid
  /\ pod'[p].host \in {pod[p].host, "none"}
  /\ \/ pod'[p].phase = pod[p].phase
     \/ pod[p].phase = "unbound" /\ pod'[p].phase \in {"running", "absent"}
     \/ /\ pod[p].phase \in {"running", "terminating"}
        /\ pod'[p].phase \in {"terminating", "absent"}
IsReplaced(p) ==
  /\ pod'[p].uid = nextUid /\ nextUid' = nextUid + 1
  /\ PodKind[p] = "plain" /\ node.body => pod'[p].host # "here" \/ nextUid \in lagging'
Ages(p) == GoesOn(p) \/ IsReplaced(p)

Aged ==
  /\ nextUid' \in {nextUid, nextUid + 1} /\ lagging \subseteq lagging'
  /\ \A p \in Pods : Ages(p)

LEMMA PodsAge ==
  ASSUME TypeOK, [Next]_vars
  PROVE  Aged
<1> USE DEF Aged, Ages, GoesOn, IsReplaced
<1>0. pod \in [Pods -> PodRecs]  BY DEF TypeOK
<1>1. \A p \in Pods : pod[p].phase \in {"absent", "unbound", "running", "terminating"}
  BY <1>0 DEF PodRecs, Phases
<1>2. CASE UNCHANGED podVars
  BY <1>2
<1>3. ASSUME NEW q \in Pods, DeletePod(q) PROVE Aged
  <2>1. /\ UNCHANGED <<nextUid, lagging>> /\ pod[q].phase # "absent"
      /\ pod' = [pod EXCEPT ![q] = Leaving(@)]
    BY <1>3 DEF DeletePod
  <2>2. /\ Leaving(pod[q]).uid = pod[q].uid
        /\ Leaving(pod[q]).host \in {pod[q].host, "none"}
        /\ Leaving(pod[q]).phase = IF pod[q].phase = "unbound" THEN "absent" ELSE "terminating"
    BY <1>0 DEF Leaving, Absent, PodRecs
  <2> QED  BY <1>0, <1>1, <2>1, <2>2
<1>4. ASSUME NEW q \in Pods, PodCreated(q) PROVE Aged
  <2>1. PICK h \in Placements(q), ph \in Phases :
          /\ pod' = [pod EXCEPT ![q] = [uid |-> nextUid, host |-> h, phase |-> ph]]
          /\ lagging' = IF PodKind[q] = "plain" /\ h = "here" /\ node.body
                         THEN lagging \cup {nextUid} ELSE lagging
    BY <1>4 DEF PodCreated, Phases
  <2>2. /\ lagging \subseteq lagging'
        /\ PodKind[q] = "plain" /\ node.body => h # "here" \/ nextUid \in lagging'
    BY <2>1
  <2> QED  BY <1>0, <1>4, <2>1, <2>2 DEF PodCreated
<1>5. ASSUME NEW q \in Pods, PodBound(q) \/ PodDeleted(q) \/ PodGone(q) PROVE Aged
  <2>1. /\ Absent(pod[q]).uid = pod[q].uid /\ Absent(pod[q]).phase = "absent"
        /\ Absent(pod[q]).host = "none"
    BY <1>0 DEF Absent, PodRecs
  <2>2. pod[q] \in [uid : Nat, host : Hosts, phase : Phases]  BY <1>0 DEF PodRecs
  <2> QED  BY <1>0, <1>5, <2>1, <2>2 DEF PodBound, PodDeleted, PodGone
<1>6. CASE Check \/ CordonGet \/ CordonPut \/ CordonConflict \/ RequestFails
  <2>1. UNCHANGED podVars
    BY <1>6 DEF Check, CordonGet, CordonPut, CordonConflict, RequestFails
  <2> QED  BY <1>2, <2>1
<1>7. CASE List \/ DrainDone \/ DeleteInst \/ InstChanges \/ OtherNodeWriter
           \/ SchedulerCatchesUp
  <2>1. UNCHANGED podVars
    BY <1>7 DEF List, DrainDone, DeleteInst, InstChanges, OtherNodeWriter,
       SchedulerCatchesUp
  <2> QED  BY <1>2, <2>1
<1>8. CASE UNCHANGED vars  BY <1>2, <1>8
<1> QED
  BY <1>3, <1>4, <1>5, <1>6, <1>7, <1>8 DEF Next, Call, World, Others, PodLives

(* The list is made once; a pod leaves the loop only when it is going.     *)
LEMMA LoopStep ==
  ASSUME TypeOK, Phased, [Next]_vars, ~List
  PROVE  /\ listed' = listed /\ listUid' = listUid /\ unbound' = unbound
         /\ \A p \in DOMAIN listed \ todo' :
              p \in DOMAIN listed \ todo \/ pod'[p].phase \in {"terminating", "absent"}
<1>1. CASE UNCHANGED <<listed, listUid, unbound, todo>>  BY <1>1
<1>2. ASSUME NEW q \in Pods, DeletePod(q)
      PROVE  /\ listed' = listed /\ listUid' = listUid /\ unbound' = unbound
             /\ \A p \in DOMAIN listed \ todo' :
                  p \in DOMAIN listed \ todo \/ pod'[p].phase \in {"terminating", "absent"}
  <2>1. Leaving(pod[q]).phase \in {"terminating", "absent"}
    BY DEF TypeOK, Leaving, Absent, PodRecs
  <2>2. pod'[q].phase \in {"terminating", "absent"}  BY <1>2, <2>1 DEF DeletePod, TypeOK
  <2> QED  BY <1>2, <2>2 DEF DeletePod
<1>3. CASE Check \/ CordonGet \/ CordonPut \/ CordonConflict \/ RequestFails
  BY <1>1, <1>3 DEF Check, CordonGet, CordonPut, CordonConflict, RequestFails
<1>4. CASE DrainDone \/ DeleteInst  BY <1>1, <1>4 DEF DrainDone, DeleteInst
<1>5. CASE World  BY <1>1, <1>5, WorldLeavesCall
<1>6. CASE UNCHANGED vars  BY <1>1, <1>6
<1> QED  BY <1>2, <1>3, <1>4, <1>5, <1>6 DEF Next, Call

(* The list records every pod on the Node, by name and incarnation. *)
LEMMA ListStep ==
  ASSUME IInv, List
  PROVE  Incarnations' /\ LoopDone' /\ Newcomers' /\ Seen'
<1>1. /\ pod' = pod /\ nextUid' = nextUid /\ listUid' = nextUid
      /\ todo' = {p \in Pods : Removable(p)} /\ DOMAIN listed' = todo'
      /\ \A p \in todo' : listed'[p] = pod[p].uid
      /\ unbound' = {pod[p].uid : p \in {q \in Pods : pod[q].phase = "unbound"}}
  BY DEF List
<1>2. \A p \in Pods : pod[p].phase \in {"absent", "unbound", "running", "terminating"}
                      /\ pod[p].uid \in Nat
  BY DEF IInv, TypeOK, PodRecs, Phases
<1>3. nextUid \in Nat  BY DEF IInv, TypeOK
<1>4. Incarnations'
  BY <1>1, <1>2, <1>3 DEF IInv, Incarnations, Removable, OnNode
<1>5. LoopDone'  BY <1>1 DEF LoopDone
<1>6. Newcomers'  BY <1>1, <1>2, <1>3 DEF IInv, Incarnations, Newcomers
<1>7. Seen'
  <2> SUFFICES ASSUME NEW p \in Pods, PodKind[p] \in {"plain", "tolerant"}, pod[p].host = "here",
                      pod[p].phase \in {"unbound", "running"}
               PROVE  \/ p \in DOMAIN listed' /\ listed'[p] = pod[p].uid
                      \/ pod[p].uid \in unbound'
    BY <1>1, <1>2 DEF Seen, Going
  <2>1. CASE pod[p].phase = "unbound"  BY <1>1, <2>1
  <2>2. CASE pod[p].phase = "running"  BY <1>1, <2>2 DEF Removable, OnNode
  <2> QED  BY <2>1, <2>2
<1> QED  BY <1>4, <1>5, <1>6, <1>7

LEMMA PodsStep ==
  ASSUME IInv, [Next]_vars, ~List
  PROVE  Incarnations' /\ LoopDone' /\ Seen'
<1>1. /\ nextUid \in Nat /\ nextUid' \in {nextUid, nextUid + 1} /\ listUid \in Nat
      /\ \A p \in Pods : Ages(p) /\ pod[p].uid \in Nat
      /\ DOMAIN listed \subseteq Pods /\ \A p \in DOMAIN listed : listed[p] \in Nat
  BY PodsAge DEF Aged, IInv, TypeOK, PodRecs
<1>2. listed' = listed /\ listUid' = listUid /\ unbound' = unbound
  BY LoopStep DEF IInv
<1>3. Incarnations'
  <2>1. nextUid' > 0 /\ \A p \in Pods : pod'[p].uid < nextUid'
    BY <1>1 DEF Ages, GoesOn, IsReplaced, IInv, Incarnations
  <2>2. ASSUME NEW p \in DOMAIN listed
        PROVE  listed[p] < nextUid' /\ (pod'[p].uid = listed[p] => pod'[p].phase # "unbound")
    BY <1>1 DEF Ages, GoesOn, IsReplaced, IInv, Incarnations
  <2> QED  BY <1>2, <2>1, <2>2 DEF Incarnations
<1>4. LoopDone'
  <2> SUFFICES ASSUME NEW p \in DOMAIN listed \ todo', pod'[p].uid = listed[p]
               PROVE  pod'[p].phase \in {"terminating", "absent"}
    BY <1>2 DEF LoopDone, Going
  <2>1. CASE p \in DOMAIN listed \ todo
    BY <1>1, <2>1 DEF Ages, GoesOn, IsReplaced, IInv, Incarnations, LoopDone, Going
  <2> QED  BY <2>1, LoopStep DEF IInv
<1>5. Seen'
  <2> SUFFICES ASSUME listUid > 0, NEW p \in Pods, PodKind[p] \in {"plain", "tolerant"},
                      pod'[p].uid < listUid, pod'[p].host = "here",
                      pod'[p].phase \notin {"terminating", "absent"}
               PROVE  \/ p \in DOMAIN listed /\ listed[p] = pod'[p].uid
                      \/ pod'[p].uid \in unbound
    BY <1>2 DEF Seen, Going
  <2>1. ~IsReplaced(p)  BY <1>1 DEF IsReplaced, IInv, Cordoned
  <2>2. GoesOn(p)  BY <1>1, <2>1 DEF Ages
  <2> QED  BY <2>2 DEF GoesOn, IInv, Seen, Going
<1> QED  BY <1>3, <1>4, <1>5

(* The cordon stands between the list and every later assignment.          *)
LEMMA CordonStep ==
  IInv /\ TypeOK' /\ Phased' /\ [Next]_vars => Cordoned' /\ (~List => Newcomers')
<1> SUFFICES ASSUME IInv, TypeOK', Phased', [Next]_vars
             PROVE  Cordoned' /\ (~List => Newcomers')
  OBVIOUS
<1>0. /\ nextUid \in Nat /\ nextUid' \in {nextUid, nextUid + 1} /\ listUid \in Nat
      /\ \A p \in Pods : Ages(p) /\ pod[p].uid \in Nat
      /\ lagging \subseteq lagging'
  BY PodsAge DEF Aged, IInv, TypeOK, PodRecs
<1>1. ASSUME listUid' = listUid, node'.body = node.body, uncordoned' = uncordoned,
             pc' = "list" => pc = "list"
      PROVE  Cordoned' /\ Newcomers'
  <2>1. Cordoned'  BY <1>0, <1>1 DEF IInv, Cordoned
  <2>2. Newcomers'
    <3> SUFFICES ASSUME listUid > 0, ~uncordoned, NEW p \in Pods, PodKind[p] = "plain",
                        pod'[p].uid >= listUid
                 PROVE  pod'[p].host # "here" \/ pod'[p].uid \in lagging'
      BY <1>1 DEF Newcomers
    <3>1. CASE GoesOn(p)  BY <1>0, <3>1 DEF GoesOn, IInv, Newcomers
    <3>2. CASE IsReplaced(p)  BY <3>2 DEF IsReplaced, IInv, Cordoned
    <3> QED  BY <1>0, <3>1, <3>2 DEF Ages
  <2> QED  BY <2>1, <2>2
<1>2. CASE CordonPut
  <2>1. listUid' = 0 /\ nextUid' \in Nat  BY <1>0, <1>2 DEF CordonPut, IInv, Phased
  <2>2. node'.body  BY <1>2 DEF CordonPut, Stored, IInv, TypeOK, Objects
  <2> QED  BY <2>1, <2>2 DEF Cordoned, Newcomers
<1>3. CASE Check \/ CordonGet \/ CordonConflict \/ RequestFails
  <2>1. listUid' = listUid /\ node' = node /\ uncordoned' = uncordoned /\ pc' # "list"
    BY <1>3 DEF Check, CordonGet, CordonConflict, RequestFails
  <2> QED  BY <1>1, <2>1
<1>4. CASE List
  <2>1. /\ listUid' = nextUid /\ nextUid' = nextUid /\ node' = node
        /\ uncordoned' = uncordoned /\ pc = "list"
    BY <1>4 DEF List
  <2> QED  BY <1>0, <1>4, <2>1 DEF IInv, Cordoned
<1>5. ASSUME NEW q \in Pods, DeletePod(q) PROVE Cordoned' /\ Newcomers'
  <2>1. listUid' = listUid /\ node' = node /\ uncordoned' = uncordoned /\ pc' # "list"
    BY <1>5 DEF DeletePod
  <2> QED  BY <1>1, <2>1
<1>6. CASE DrainDone \/ DeleteInst
  <2>1. listUid' = listUid /\ node' = node /\ uncordoned' = uncordoned /\ pc' # "list"
    BY <1>6 DEF DrainDone, DeleteInst
  <2> QED  BY <1>1, <2>1
<1>7. CASE OtherNodeWriter /\ UNCHANGED callVars
  <2>1. /\ listUid' = listUid /\ pc' = pc /\ UNCHANGED podVars
        /\ ~uncordoned' => ~uncordoned /\ node'.body
    BY <1>7 DEF OtherNodeWriter
  <2> QED  BY <2>1 DEF IInv, Cordoned, Newcomers
<1>8. CASE World /\ ~OtherNodeWriter
  <2>1. node' = node /\ uncordoned' = uncordoned
    BY <1>8 DEF World, InstChanges, Others, SchedulerCatchesUp, PodLives, PodCreated, PodBound, PodDeleted, PodGone
  <2> QED  BY <1>1, <1>8, <2>1, WorldLeavesCall
<1>9. CASE UNCHANGED vars  BY <1>1, <1>9
<1> QED
  BY <1>2, <1>3, <1>4, <1>5, <1>6, <1>7, <1>8, <1>9, WorldLeavesCall DEF Next, Call

LEMMA InvStep == IInv /\ [Next]_vars => IInv'
<1> SUFFICES ASSUME IInv, [Next]_vars PROVE IInv'
  OBVIOUS
<1>1. TypeOK'  BY TypeStep DEF IInv
<1>2. Phased'  BY PhasedStep DEF IInv
<1>3. Cordoned' /\ (~List => Newcomers')  BY <1>1, <1>2, CordonStep
<1>4. Incarnations' /\ LoopDone' /\ Newcomers' /\ Seen'
  BY <1>3, ListStep, PodsStep
<1> QED  BY <1>1, <1>2, <1>3, <1>4 DEF IInv

LEMMA Invariance == Spec => []IInv
<1>1. Init => IInv  BY InitInv
<1>2. IInv /\ [Next]_vars => IInv'  BY InvStep
<1> QED  BY <1>1, <1>2, PTL DEF Spec
------------------------------------------------------------------------------
(* TypeOK: the state of RemoveNode keeps its shape; no listed pod is left  *)
(* to the loop when the StaticInstance is up for deletion.                 *)
THEOREM TypeCorrect == Spec => []TypeOK
<1>1. IInv => TypeOK  BY DEF IInv
<1> QED  BY <1>1, Invariance, PTL

(* RemovedOnlyAfterDrain: RemoveNode with drain deletes the StaticInstance *)
(* only when every pod that it listed is gone or going.                    *)
THEOREM RemovalWaits == Spec => []RemovedOnlyAfterDrain
<1>1. IInv => RemovedOnlyAfterDrain
  BY DEF IInv, Phased, LoopDone, RemovedOnlyAfterDrain
<1> QED  BY <1>1, Invariance, PTL

(* OnlyLateBindingsRemain: what may run on a Node that RemoveNode drained  *)
(* was assigned to it, and not bound yet, when the pods were listed,       *)
(* tolerates the cordon, or was assigned by a scheduler whose cache had    *)
(* not seen the cordon.                                                    *)
THEOREM RemainderKnown == Spec => []OnlyLateBindingsRemain
<1>1. IInv => OnlyLateBindingsRemain
  <2> SUFFICES ASSUME IInv, drained, ~uncordoned, NEW p \in Pods,
                      PodKind[p] \in {"plain", "tolerant"}, OnNode(p), ~Going(p),
                      pod[p].uid >= listUid => PodKind[p] # "tolerant" /\ pod[p].uid \notin lagging
               PROVE  pod[p].uid \in unbound
    BY DEF OnlyLateBindingsRemain
  <2>1. listUid > 0 /\ todo = {} /\ listUid \in Nat /\ pod[p].uid \in Nat
    BY DEF IInv, Phased, TypeOK, PodRecs
  <2>2. pod[p].uid < listUid  BY <2>1 DEF IInv, Newcomers, OnNode
  <2> QED  BY <2>1, <2>2 DEF IInv, Seen, LoopDone, OnNode
<1> QED  BY <1>1, Invariance, PTL
==============================================================================
