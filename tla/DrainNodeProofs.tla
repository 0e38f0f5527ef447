--------------------------- MODULE DrainNodeProofs ---------------------------
(***************************************************************************)
(* Theorems about DrainNode, for any set of pods, any timeout and polling  *)
(* interval, and any behaviour of the cluster around the call.             *)
(***************************************************************************)
EXTENDS DrainNode, FiniteSetTheorems, TLAPS

USE DEF vars, podVars, clusterVars, answerVars, loopVars, historyVars, callVars

LEMMA DeadlineType == deadline \in Int
  BY TimeAssumption DEF deadline

(* Until the pods are listed, nothing has been done; the flag is only set  *)
(* by the return; a wait is between rounds.                                *)
Phased ==
  /\ pc \in {"get", "put", "list"} =>
       /\ pending = {} /\ evicted = 0 /\ failedPods = <<>>
       /\ listed = <<>> /\ lateRounds = 0
  /\ pc # "ok" => ~timedOut
  /\ pc = "wait" => lateRounds = 0
  /\ pc = "answer" => pending = {} \/ now > deadline
  /\ lateRounds > 0 => now > deadline

(* The work-set consists of listed pods, which all may be evicted. *)
WorkSet ==
  /\ pending \subseteq DOMAIN listed
  /\ \A p \in DOMAIN listed : PodKind[p] \in {"plain", "tolerant"}

(* Uids are never reused, and no listed incarnation is unbound. *)
Incarnations ==
  /\ \A p \in Pods : pod[p].uid < nextUid
  /\ \A p \in DOMAIN listed :
       /\ listed[p] < nextUid
       /\ pod[p].uid = listed[p] => pod[p].phase # "unbound"

(* From the cordon on, the Node is unschedulable until somebody else makes *)
(* it schedulable, and a later plain pod is assigned to it only by a       *)
(* scheduler that lags; the pods are listed once.                          *)
Cordoned ==
  /\ (pc = "list" \/ listUid > 0) /\ ~uncordoned => node.body
  /\ pc \in {"get", "put", "list"} => listUid = 0
  /\ listUid <= nextUid

Newcomers ==
  listUid > 0 /\ ~uncordoned =>
    \A p \in Pods : PodKind[p] = "plain" /\ pod[p].uid >= listUid =>
      pod[p].host # "here" \/ pod[p].uid \in lagging

(* A pod assigned to the Node that was there before the list was listed,   *)
(* or was unbound at that moment.                                          *)
Going(p) == pod[p].phase \in {"terminating", "absent"}
Seen ==
  listUid > 0 =>
    \A p \in Pods :
      PodKind[p] \in {"plain", "tolerant"}
        /\ pod[p].uid < listUid /\ pod[p].host = "here" /\ ~Going(p) =>
        \/ p \in DOMAIN listed /\ listed[p] = pod[p].uid
        \/ pod[p].uid \in unbound

IInv ==
  /\ TypeOK /\ Phased /\ WorkSet /\ Incarnations /\ Cordoned /\ Newcomers /\ Seen
  /\ Accounting /\ CountedAreLeaving
  /\ TimedOutIffPending /\ AtMostOneLateRound

(* The effect of the two outcomes that take a pod off the work-set. *)
LEMMA CountedAccounts ==
  ASSUME TypeOK, TypeOK', WorkSet, Accounting, NEW p \in pending, Counted(p),
         listed' = listed
  PROVE  Accounting'
<1>1. IsFiniteSet(pending)  BY PodsAssumption, FS_Subset DEF TypeOK
<1>2. Cardinality(pending \ {p}) = Cardinality(pending) - 1 /\ Cardinality(pending) \in Nat
  BY <1>1, FS_RemoveElement, FS_CardinalityType
<1>3. evicted' + Len(failedPods') + Cardinality(pending') = Cardinality(DOMAIN listed')
  <2>1. Len(failedPods) \in Nat /\ evicted \in Nat  BY DEF TypeOK
  <2> QED  BY <1>2, <2>1 DEF Accounting, Counted
<1>4. Failed' = Failed  BY DEF Counted, Failed
<1> QED  BY <1>3, <1>4 DEF Accounting, Counted

LEMMA RecordedAccounts ==
  ASSUME TypeOK, TypeOK', WorkSet, Accounting, NEW p \in pending, Recorded(p),
         listed' = listed
  PROVE  Accounting' /\ Failed' = Failed \cup {p}
<1>0. failedPods \in Seq(Pods) /\ p \in Pods /\ Len(failedPods) \in Nat /\ evicted \in Nat
      /\ failedPods' = Append(failedPods, p) /\ DOMAIN failedPods = 1..Len(failedPods)
  BY DEF TypeOK, Recorded
<1>1. IsFiniteSet(pending)  BY PodsAssumption, FS_Subset DEF TypeOK
<1>2. Cardinality(pending \ {p}) = Cardinality(pending) - 1 /\ Cardinality(pending) \in Nat
  BY <1>1, FS_RemoveElement, FS_CardinalityType
<1>3. /\ Len(failedPods') = Len(failedPods) + 1
      /\ DOMAIN failedPods' = 1..(Len(failedPods) + 1)
      /\ \A i \in DOMAIN failedPods : failedPods'[i] = failedPods[i]
      /\ failedPods'[Len(failedPods) + 1] = p
  BY <1>0
<1>4. Failed' = Failed \cup {p}
  BY <1>0, <1>3 DEF Failed
<1>5. evicted' + Len(failedPods') + Cardinality(pending') = Cardinality(DOMAIN listed')
  BY <1>0, <1>2, <1>3 DEF Accounting, Recorded
<1>6. Failed' \subseteq DOMAIN listed' \ pending'
  BY <1>4 DEF Accounting, WorkSet, Recorded
<1>7. \A i, j \in DOMAIN failedPods' : failedPods'[i] = failedPods'[j] => i = j
  <2>1. p \notin Failed  BY DEF Accounting
  <2>2. \A i \in DOMAIN failedPods : failedPods[i] # p  BY <2>1 DEF Failed
  <2> QED  BY <1>0, <1>3, <2>2 DEF Accounting
<1> QED  BY <1>4, <1>5, <1>6, <1>7 DEF Accounting
------------------------------------------------------------------------------
LEMMA InitInv == Init => IInv
<1> SUFFICES ASSUME Init PROVE IInv
  OBVIOUS
<1>1. DOMAIN listed = {} /\ DOMAIN failedPods = {} /\ Len(failedPods) = 0
  BY DEF Init
<1>2. TypeOK
  <2>1. node \in Objects(BOOLEAN) /\ snap \in Objects(BOOLEAN)
    BY DEF Init, InitCluster, Objects
  <2>2. pod \in [Pods -> PodRecs]  BY DEF Init, InitCluster, PodRecs, Hosts, Phases
  <2>3. listed \in [DOMAIN listed -> Nat]
    <3>1. listed = [p \in {} |-> 0]  BY DEF Init
    <3> QED  BY <3>1
  <2>4. /\ evicted \in Nat /\ lateRounds \in Nat /\ nextUid \in Nat /\ now \in Nat
        /\ wakeAt \in Int /\ listUid \in Nat
    BY DEF Init, InitCluster
  <2>5. failedPods \in Seq(Pods)  BY DEF Init
  <2>6. /\ cancelled \in BOOLEAN /\ timedOut \in BOOLEAN /\ uncordoned \in BOOLEAN
        /\ seen \in BOOLEAN
    BY Zenon DEF Init, InitCluster
  <2>7. /\ DOMAIN listed \subseteq Pods /\ unbound \subseteq Nat /\ lagging \subseteq Nat
        /\ astray \in BOOLEAN
    BY <1>1 DEF Init, InitCluster
  <2>8. pc = "get" /\ pending \subseteq Pods /\ todo \subseteq pending  BY DEF Init
  <2> QED  BY <2>1, <2>2, <2>3, <2>4, <2>5, <2>6, <2>7, <2>8 DEF TypeOK
<1>3. Accounting
  BY <1>1, FS_EmptySet DEF Init, Accounting, Failed
<1>4. Phased  BY DEF Init, Phased
<1>5. WorkSet /\ CountedAreLeaving  BY <1>1 DEF Init, WorkSet, CountedAreLeaving
<1>6. Incarnations
  <2>1. \A p \in Pods : pod[p].uid = 0  BY DEF Init, InitCluster
  <2> QED  BY <1>1, <2>1 DEF Init, InitCluster, Incarnations
<1>7. TimedOutIffPending /\ AtMostOneLateRound
  BY DEF Init, TimedOutIffPending, AtMostOneLateRound
<1>8. Cordoned /\ Newcomers /\ Seen
  BY DEF Init, InitCluster, Cordoned, Newcomers, Seen
<1> QED
  BY <1>2, <1>3, <1>4, <1>5, <1>6, <1>7, <1>8 DEF IInv

LEMMA TypeStep == TypeOK /\ WorkSet /\ [Next]_vars => TypeOK'
<1> SUFFICES ASSUME TypeOK, WorkSet, [Next]_vars PROVE TypeOK'
  OBVIOUS
<1> USE DEF TypeOK
<1>1. CASE CordonGet  BY <1>1 DEF CordonGet
<1>2. CASE CordonPut
  <2>1. node' \in Objects(BOOLEAN)  BY <1>2 DEF CordonPut, Stored, Objects
  <2>2. uncordoned' \in BOOLEAN  BY <1>2 DEF CordonPut
  <2> QED  BY <1>2, <2>1, <2>2 DEF CordonPut
<1>3. CASE CordonConflict \/ RequestFails  BY <1>3 DEF CordonConflict, RequestFails
<1>4. CASE List
  <2>1. \A p \in Pods : pod[p].uid \in Nat  BY DEF PodRecs
  <2>2. listed' \in [pending' -> Nat] /\ DOMAIN listed' = pending' /\ pending' \subseteq Pods
    BY <1>4, <2>1 DEF List
  <2>3. unbound' \subseteq Nat  BY <1>4, <2>1 DEF List
  <2> QED  BY <1>4, <2>2, <2>3 DEF List
<1>5. ASSUME NEW p \in Pods, Evict(p) PROVE TypeOK'
  <2>1. Leaving(pod[p]) \in PodRecs  BY DEF Leaving, Absent, PodRecs, Phases, Hosts
  <2>3. Append(failedPods, p) \in Seq(Pods)  OBVIOUS
  <2>4. Visit(p)  BY <1>5 DEF Evict, EvictGranted, EvictNotFound, EvictRefused, EvictFails
  <2>5. Counted(p) \/ Recorded(p) \/ Kept
    BY <1>5 DEF Evict, EvictGranted, EvictNotFound, EvictRefused, EvictFails
  <2>6. pod' \in [Pods -> PodRecs]
    BY <1>5, <2>1 DEF Evict, EvictGranted, EvictNotFound, EvictRefused, EvictFails
  <2>2. astray' \in BOOLEAN
    BY <1>5, Zenon DEF Evict, EvictGranted, EvictNotFound, EvictRefused, EvictFails
  <2>7. /\ pending' \subseteq Pods /\ todo' \subseteq pending'
        /\ evicted' \in Nat /\ failedPods' \in Seq(Pods) /\ timedOut' \in BOOLEAN
    <3>1. todo' = todo \ {p}  BY <2>4 DEF Visit
    <3>2. CASE Counted(p)  BY <3>1, <3>2 DEF Counted
    <3>3. CASE Recorded(p)  BY <2>3, <3>1, <3>3 DEF Recorded
    <3>4. CASE Kept  BY <3>1, <3>4 DEF Kept
    <3> QED  BY <2>5, <3>2, <3>3, <3>4
  <2> QED  BY <2>2, <2>4, <2>6, <2>7 DEF Visit
<1>6. CASE LeaveLoop \/ Return
  <2>1. timedOut' \in BOOLEAN  BY <1>6, Zenon DEF LeaveLoop, Return
  <2>2. pc' \in {"answer", "ok"} /\ UNCHANGED <<clusterVars, now, cancelled, snap, loopVars, evicted,
                                               failedPods, historyVars>>
    BY <1>6 DEF LeaveLoop, Return
  <2> QED  BY <2>1, <2>2
<1>7. CASE Wait  BY <1>7, DeadlineType, TimeAssumption DEF Wait
<1>8. CASE Wake  BY <1>8 DEF Wake, NextRound
<1>9. CASE WaitCancelled  BY <1>9 DEF WaitCancelled
<1>10. CASE Tick \/ Cancel
  <2>1. now' \in Nat  BY <1>10 DEF Tick, Cancel
  <2>2. cancelled' \in BOOLEAN  BY <1>10, Zenon DEF Tick, Cancel
  <2>3. UNCHANGED <<clusterVars, callVars>>  BY <1>10 DEF Tick, Cancel
  <2> QED  BY <2>1, <2>2, <2>3
<1>11. CASE OtherNodeWriter /\ UNCHANGED <<now, cancelled, callVars>>
  <2>1. node' \in Objects(BOOLEAN) /\ UNCHANGED <<podVars, seen>>
    BY <1>11 DEF OtherNodeWriter, Objects
  <2>2. uncordoned' \in BOOLEAN
    <3>1. uncordoned' = (uncordoned \/ ~node'.body)  BY <1>11, Zenon DEF OtherNodeWriter
    <3> QED  BY <3>1, Zenon
  <2> QED  BY <1>11, <2>1, <2>2
<1>12. ASSUME NEW p \in Pods, PodCreated(p), UNCHANGED <<now, cancelled, callVars>>
       PROVE  TypeOK'
  <2>1. PICK h \in Hosts, ph \in Phases :
          /\ pod' = [pod EXCEPT ![p] = [uid |-> nextUid, host |-> h, phase |-> ph]]
          /\ lagging' \in {lagging, lagging \cup {nextUid}}
    BY <1>12 DEF PodCreated, Placements, Hosts, Phases
  <2>2. lagging' \subseteq Nat  BY <2>1
  <2> QED  BY <1>12, <2>1, <2>2 DEF PodCreated, PodRecs
<1>13. ASSUME NEW p \in Pods, PodBound(p) \/ PodDeleted(p) \/ PodGone(p),
              UNCHANGED <<now, cancelled, callVars>>
       PROVE  TypeOK'
  <2>1. /\ [pod[p] EXCEPT !.phase = "running"] \in PodRecs
        /\ [pod[p] EXCEPT !.phase = "terminating"] \in PodRecs
        /\ Absent(pod[p]) \in PodRecs
    BY DEF PodRecs, Phases, Hosts, Absent
  <2> QED  BY <1>13, <2>1 DEF PodBound, PodDeleted, PodGone
<1>14. CASE SchedulerCatchesUp /\ UNCHANGED <<now, cancelled, callVars>>
  BY <1>14 DEF SchedulerCatchesUp, Objects
<1>15. CASE UNCHANGED vars  BY <1>15
<1> QED
  BY <1>1, <1>2, <1>3, <1>4, <1>5, <1>6, <1>7, <1>8, <1>9, <1>10, <1>11, <1>12, <1>13, <1>14,
     <1>15
     DEF Next, Call, World, Others, PodLives

(* Steps of everybody but the call. *)
LEMMA WorldLeavesCall == World => UNCHANGED callVars
  BY DEF World, Tick, Cancel

(* The clock does not run backwards. *)
LEMMA ClockStep == TypeOK /\ [Next]_vars => now' \in Nat /\ now' >= now
<1> SUFFICES ASSUME TypeOK, [Next]_vars PROVE now' \in Nat /\ now' >= now
  OBVIOUS
<1>1. now \in Nat  BY DEF TypeOK
<1>2. CASE Tick  BY <1>1, <1>2 DEF Tick
<1>3. CASE Call
  <2>1. CASE CordonGet \/ CordonPut \/ CordonConflict \/ RequestFails
    <3>1. UNCHANGED now  BY <2>1 DEF CordonGet, CordonPut, CordonConflict, RequestFails
    <3> QED  BY <1>1, <3>1
  <2>4. CASE List
    <3>1. UNCHANGED now  BY <2>4 DEF List
    <3> QED  BY <1>1, <3>1
  <2>2. ASSUME NEW p \in Pods, Evict(p) PROVE now' = now
    BY <2>2 DEF Evict, EvictGranted, EvictNotFound, EvictRefused, EvictFails, Visit
  <2>3. CASE LeaveLoop \/ Return \/ Wait \/ Wake \/ WaitCancelled
    BY <1>1, <2>3 DEF LeaveLoop, Return, Wait, Wake, WaitCancelled
  <2> QED  BY <1>1, <1>3, <2>1, <2>2, <2>3, <2>4 DEF Call
<1>4. CASE World /\ ~Tick
  BY <1>1, <1>4 DEF World, Cancel
<1>5. CASE UNCHANGED vars  BY <1>1, <1>5
<1> QED  BY <1>2, <1>3, <1>4, <1>5 DEF Next

(* The two comparisons with the deadline, in Wait and Return, and the      *)
(* counting of rounds.                                                     *)
LEMMA TimeStep ==
  TypeOK /\ Phased /\ TimedOutIffPending /\ AtMostOneLateRound /\ [Next]_vars
    => Phased' /\ TimedOutIffPending' /\ AtMostOneLateRound'
<1> SUFFICES ASSUME TypeOK, Phased, TimedOutIffPending, AtMostOneLateRound, [Next]_vars
             PROVE  Phased' /\ TimedOutIffPending' /\ AtMostOneLateRound'
  OBVIOUS
<1> USE DEF Phased, TimedOutIffPending, AtMostOneLateRound
<1>0. now \in Nat /\ now' \in Nat /\ now' >= now /\ lateRounds \in Nat /\ deadline \in Int
  BY ClockStep, DeadlineType DEF TypeOK
<1>1. CASE CordonGet \/ CordonPut \/ CordonConflict \/ RequestFails
  <2>1. /\ UNCHANGED <<now, loopVars, answerVars, historyVars>>
        /\ pc \in {"get", "put", "list"}
    BY <1>1 DEF CordonGet, CordonPut, CordonConflict, RequestFails
  <2>2. pc' \in {"put", "list", "error"}
    BY <1>1 DEF CordonGet, CordonPut, CordonConflict, RequestFails
  <2> QED  BY <2>1, <2>2
<1>2. CASE List
  <2>1. /\ pc = "list" /\ pc' \in {"answer", "evict"}
        /\ pc' = "answer" => pending' = {}
        /\ UNCHANGED <<now, answerVars>>
        /\ lateRounds' \in {0, 1}
        /\ lateRounds' = 1 => now > deadline
    BY <1>2 DEF List
  <2> QED  BY <1>0, <2>1
<1>3. ASSUME NEW p \in Pods, Evict(p)
      PROVE  Phased' /\ TimedOutIffPending' /\ AtMostOneLateRound'
  <2>1. /\ pc = "evict" /\ pc' = pc /\ lateRounds' = lateRounds /\ now' = now
        /\ timedOut' = timedOut
    BY <1>3 DEF Evict, EvictGranted, EvictNotFound, EvictRefused, EvictFails, Visit,
       Counted, Recorded, Kept
  <2> QED  BY <2>1
<1>4. CASE Return
  <2>1. pc' = "ok" /\ now' = now /\ lateRounds' = lateRounds /\ pending' = pending
    BY <1>4 DEF Return
  <2>2. timedOut' <=> (pending # {} /\ now > deadline)  BY <1>4, Zenon DEF Return
  <2>3. pending = {} \/ now > deadline  BY <1>4 DEF Return
  <2> QED  BY <2>1, <2>2, <2>3
<1>10. CASE LeaveLoop
  <2>1. /\ pc = "evict" /\ pc' = "answer" /\ UNCHANGED <<now, loopVars, answerVars, historyVars>>
        /\ pending = {} \/ now > deadline
    BY <1>10 DEF LeaveLoop, PastDeadline
  <2> QED  BY <2>1
<1>5. CASE Wait
  <2>1. lateRounds = 0  BY <1>0, <1>5 DEF Wait, PastDeadline
  <2> QED  BY <1>0, <1>5, <2>1 DEF Wait
<1>6. CASE Wake
  BY <1>0, <1>6 DEF Wake
<1>7. CASE WaitCancelled
  BY <1>7 DEF WaitCancelled
<1>8. CASE World
  BY <1>0, <1>8, WorldLeavesCall
<1>9. CASE UNCHANGED vars
  BY <1>9
<1> QED
  BY <1>1, <1>2, <1>3, <1>4, <1>5, <1>6, <1>7, <1>8, <1>9, <1>10 DEF Next, Call

(* Only drainable pods are listed, only listed pods are visited. *)
LEMMA WorkStep == TypeOK /\ Phased /\ WorkSet /\ [Next]_vars => WorkSet'
<1> SUFFICES ASSUME TypeOK, Phased, WorkSet, [Next]_vars PROVE WorkSet'
  OBVIOUS
<1> USE DEF WorkSet
<1>1. CASE UNCHANGED <<pending, listed>>
  BY <1>1
<1>2. CASE List
  BY <1>2 DEF List, Drainable
<1>3. ASSUME NEW p \in Pods, Evict(p) PROVE WorkSet'
  <2>1. listed' = listed
    BY <1>3 DEF Evict, EvictGranted, EvictNotFound, EvictRefused, EvictFails, Visit
  <2>2. pending' \subseteq pending
    BY <1>3 DEF Evict, EvictGranted, EvictNotFound, EvictRefused, EvictFails, Counted,
       Recorded, Kept
  <2> QED  BY <2>1, <2>2
<1>4. CASE CordonGet \/ CordonPut \/ CordonConflict \/ RequestFails
  BY <1>1, <1>4 DEF CordonGet, CordonPut, CordonConflict, RequestFails
<1>5. CASE LeaveLoop \/ Return \/ Wait \/ Wake \/ WaitCancelled
  BY <1>1, <1>5 DEF LeaveLoop, Return, Wait, Wake, WaitCancelled
<1>6. CASE World
  BY <1>1, <1>6, WorldLeavesCall
<1>7. CASE UNCHANGED vars
  BY <1>1, <1>7
<1> QED  BY <1>2, <1>3, <1>4, <1>5, <1>6, <1>7 DEF Next, Call

(* The three numbers of the accounting change in step. *)
LEMMA AccountStep ==
  TypeOK /\ TypeOK' /\ Phased /\ WorkSet /\ Accounting /\ [Next]_vars => Accounting'
<1> SUFFICES ASSUME TypeOK, TypeOK', Phased, WorkSet, Accounting, [Next]_vars
             PROVE  Accounting'
  OBVIOUS
<1>1. CASE UNCHANGED <<pending, listed, evicted, failedPods>>
  BY <1>1 DEF Accounting, Failed
<1>2. CASE List
  <2>1. evicted' = 0 /\ failedPods' = <<>> /\ Len(failedPods') = 0
    BY <1>2 DEF List, Phased
  <2>2. DOMAIN listed' = pending' /\ IsFiniteSet(pending')
    BY <1>2, PodsAssumption, FS_Subset DEF List
  <2>3. Cardinality(pending') \in Nat  BY <2>2, FS_CardinalityType
  <2>4. Failed' = {} /\ DOMAIN failedPods' = {}  BY <2>1 DEF Failed
  <2> QED  BY <2>1, <2>2, <2>3, <2>4 DEF Accounting
<1>3. ASSUME NEW p \in Pods, Evict(p) PROVE Accounting'
  <2>1. p \in pending /\ listed' = listed
    BY <1>3 DEF Evict, EvictGranted, EvictNotFound, EvictRefused, EvictFails, Visit, TypeOK
  <2>2. CASE Counted(p)  BY <2>1, <2>2, CountedAccounts
  <2>3. CASE Recorded(p)  BY <2>1, <2>3, RecordedAccounts
  <2>4. CASE Kept  BY <1>1, <2>1, <2>4 DEF Kept
  <2> QED
    BY <1>3, <2>2, <2>3, <2>4 DEF Evict, EvictGranted, EvictNotFound, EvictRefused, EvictFails
<1>4. CASE CordonGet \/ CordonPut \/ CordonConflict \/ RequestFails
  BY <1>1, <1>4 DEF CordonGet, CordonPut, CordonConflict, RequestFails
<1>5. CASE LeaveLoop \/ Return \/ Wait \/ Wake \/ WaitCancelled
  BY <1>1, <1>5 DEF LeaveLoop, Return, Wait, Wake, WaitCancelled
<1>6. CASE World
  BY <1>1, <1>6, WorldLeavesCall
<1>7. CASE UNCHANGED vars
  BY <1>1, <1>7
<1> QED  BY <1>2, <1>3, <1>4, <1>5, <1>6, <1>7 DEF Next, Call

(* What happens to pod p in one step: its incarnation goes on, in a phase  *)
(* that never leads back to running and on no other host, or a pod with a  *)
(* fresh uid takes over, assigned with regard to the cordon.               *)
GoesOn(p) ==
  /\ pod'[p].uid = pod[p].uid
  /\ pod'[p].host \in {pod[p].host, "none"}
  /\ \/ pod'[p].phase = pod[p].phase
     \/ pod[p].phase = "unbound" /\ pod'[p].phase \in {"running", "absent"}
     \/ /\ pod[p].phase \in {"running", "terminating"}
        /\ pod'[p].phase \in {"terminating", "absent"}
IsReplaced(p) ==
  /\ pod'[p].uid = nextUid /\ nextUid' = nextUid + 1
  /\ PodKind[p] = "plain" /\ node.body => pod'[p].host # "here" \/ nextUid \in lagging'
Ages(p) == GoesOn(p) \/ IsReplaced(p)

Aged ==
  /\ nextUid' \in {nextUid, nextUid + 1} /\ lagging \subseteq lagging'
  /\ \A p \in Pods : Ages(p)

LEMMA PodsAge ==
  ASSUME TypeOK, [Next]_vars
  PROVE  Aged
<1> USE DEF Aged, Ages, GoesOn, IsReplaced
<1>0. pod \in [Pods -> PodRecs]  BY DEF TypeOK
<1>1. \A p \in Pods : pod[p].phase \in {"absent", "unbound", "running", "terminating"}
  BY <1>0 DEF PodRecs, Phases
<1>2. CASE UNCHANGED podVars
  BY <1>2
<1>3. ASSUME NEW q \in Pods, Evict(q) PROVE Aged
  <2>1. CASE EvictGranted(q)
    <3>1. /\ UNCHANGED <<nextUid, lagging>> /\ pod[q].phase # "absent"
          /\ pod' = [pod EXCEPT ![q] = Leaving(@)]
      BY <2>1 DEF EvictGranted, Visit
    <3>2. /\ Leaving(pod[q]).uid = pod[q].uid
          /\ Leaving(pod[q]).host \in {pod[q].host, "none"}
          /\ Leaving(pod[q]).phase = IF pod[q].phase = "unbound" THEN "absent" ELSE "terminating"
      BY <1>0 DEF Leaving, Absent, PodRecs
    <3> QED  BY <1>0, <1>1, <3>1, <3>2
  <2>2. CASE EvictNotFound(q) \/ EvictRefused(q) \/ EvictFails(q)
    BY <1>2, <2>2 DEF EvictNotFound, EvictRefused, EvictFails, Visit
  <2> QED  BY <1>3, <2>1, <2>2 DEF Evict
<1>4. ASSUME NEW q \in Pods, PodCreated(q) PROVE Aged
  <2>1. PICK h \in Placements(q), ph \in Phases :
          /\ pod' = [pod EXCEPT ![q] = [uid |-> nextUid, host |-> h, phase |-> ph]]
          /\ lagging' = IF PodKind[q] = "plain" /\ h = "here" /\ node.body
                         THEN lagging \cup {nextUid} ELSE lagging
    BY <1>4 DEF PodCreated, Phases
  <2>2. /\ lagging \subseteq lagging'
        /\ PodKind[q] = "plain" /\ node.body => h # "here" \/ nextUid \in lagging'
    BY <2>1
  <2> QED  BY <1>0, <1>4, <2>1, <2>2 DEF PodCreated
<1>5. ASSUME NEW q \in Pods, PodBound(q) \/ PodDeleted(q) \/ PodGone(q) PROVE Aged
  <2>1. /\ Absent(pod[q]).uid = pod[q].uid /\ Absent(pod[q]).phase = "absent"
        /\ Absent(pod[q]).host = "none"
    BY <1>0 DEF Absent, PodRecs
  <2>2. pod[q] \in [uid : Nat, host : Hosts, phase : Phases]  BY <1>0 DEF PodRecs
  <2> QED  BY <1>0, <1>5, <2>1, <2>2 DEF PodBound, PodDeleted, PodGone
<1>6. CASE CordonGet \/ CordonPut \/ CordonConflict \/ RequestFails
  <2>1. UNCHANGED podVars
    BY <1>6 DEF CordonGet, CordonPut, CordonConflict, RequestFails
  <2> QED  BY <1>2, <2>1
<1>7. CASE List
  <2>1. UNCHANGED podVars  BY <1>7 DEF List
  <2> QED  BY <1>2, <2>1
<1>8. CASE LeaveLoop \/ Return \/ Wait \/ Wake \/ WaitCancelled
  <2>1. UNCHANGED podVars  BY <1>8 DEF LeaveLoop, Return, Wait, Wake, WaitCancelled
  <2> QED  BY <1>2, <2>1
<1>9. CASE Tick \/ Cancel \/ OtherNodeWriter \/ SchedulerCatchesUp
  <2>1. UNCHANGED podVars  BY <1>9 DEF Tick, Cancel, OtherNodeWriter, SchedulerCatchesUp
  <2> QED  BY <1>2, <2>1
<1>10. CASE UNCHANGED vars
  BY <1>2, <1>10
<1> QED
  BY <1>3, <1>4, <1>5, <1>6, <1>7, <1>8, <1>9, <1>10
     DEF Next, Call, World, Others, PodLives

(* The uids of the listed pods change only when they are listed; a pod     *)
(* leaves the work-set uncounted only as a failed one.                     *)
LEMMA ListedStep ==
  ASSUME TypeOK, WorkSet, [Next]_vars, ~List
  PROVE  /\ listed' = listed
         /\ listUid' = listUid /\ unbound' = unbound
         /\ \A p \in DOMAIN listed \ (pending' \cup Failed') :
              \/ p \in DOMAIN listed \ (pending \cup Failed)
              \/ pod'[p].phase \in {"terminating", "absent"}
<1>0. listUid' = listUid /\ unbound' = unbound
  BY WorldLeavesCall
     DEF Next, Call, Evict, EvictGranted, EvictNotFound, EvictRefused, EvictFails, Visit,
         CordonGet, CordonPut, CordonConflict, RequestFails, LeaveLoop, Return,
         Wait, Wake, WaitCancelled
<1>1. CASE UNCHANGED <<listed, pending, failedPods>>
  BY <1>0, <1>1 DEF Failed
<1>2. ASSUME NEW q \in Pods, Evict(q)
      PROVE  /\ listed' = listed
             /\ \A p \in DOMAIN listed \ (pending' \cup Failed') :
                  \/ p \in DOMAIN listed \ (pending \cup Failed)
                  \/ pod'[p].phase \in {"terminating", "absent"}
  <2>0. listed' = listed /\ pod \in [Pods -> PodRecs] /\ failedPods \in Seq(Pods)
    BY <1>2 DEF Evict, EvictGranted, EvictNotFound, EvictRefused, EvictFails, Visit, TypeOK
  <2>1. CASE EvictRefused(q)
    BY <1>1, <2>0, <2>1 DEF EvictRefused, Kept
  <2>2. CASE Recorded(q)
    <3>1. failedPods' = Append(failedPods, q) /\ pending' = pending \ {q}
      BY <2>2 DEF Recorded
    <3>2. Failed' = Failed \cup {q}
      <4>1. /\ DOMAIN failedPods' = 1..(Len(failedPods) + 1)
            /\ DOMAIN failedPods = 1..Len(failedPods) /\ Len(failedPods) \in Nat
            /\ \A i \in DOMAIN failedPods : failedPods'[i] = failedPods[i]
            /\ failedPods'[Len(failedPods) + 1] = q
        BY <2>0, <3>1
      <4> QED  BY <4>1 DEF Failed
    <3> QED  BY <2>0, <3>1, <3>2
  <2>3. CASE EvictGranted(q) /\ Counted(q)
    <3>1. pending' = pending \ {q} /\ Failed' = Failed  BY <2>3 DEF Counted, Failed
    <3>2. Leaving(pod[q]).phase \in {"terminating", "absent"}
      BY <2>0 DEF Leaving, Absent, PodRecs
    <3>3. pod'[q].phase \in {"terminating", "absent"}
      BY <2>0, <2>3, <3>2 DEF EvictGranted
    <3> QED  BY <2>0, <3>1, <3>3
  <2>4. CASE EvictNotFound(q) /\ Counted(q)
    <3>1. pending' = pending \ {q} /\ Failed' = Failed  BY <2>4 DEF Counted, Failed
    <3>2. pod'[q].phase = "absent"  BY <2>4 DEF EvictNotFound
    <3> QED  BY <2>0, <3>1, <3>2
  <2> QED
    BY <1>2, <2>1, <2>2, <2>3, <2>4 DEF Evict, EvictGranted, EvictNotFound, EvictFails
<1>3. CASE CordonGet \/ CordonPut \/ CordonConflict \/ RequestFails
  BY <1>1, <1>3 DEF CordonGet, CordonPut, CordonConflict, RequestFails
<1>4. CASE LeaveLoop \/ Return \/ Wait \/ Wake \/ WaitCancelled
  BY <1>1, <1>4 DEF LeaveLoop, Return, Wait, Wake, WaitCancelled
<1>5. CASE World
  BY <1>1, <1>5, WorldLeavesCall
<1>6. CASE UNCHANGED vars
  BY <1>1, <1>6
<1> QED  BY <1>0, <1>2, <1>3, <1>4, <1>5, <1>6 DEF Next, Call

LEMMA ListStep ==
  ASSUME TypeOK, Phased, Incarnations, List
  PROVE  Incarnations' /\ CountedAreLeaving' /\ Seen'
<1>1. /\ pod' = pod /\ nextUid' = nextUid /\ DOMAIN listed' = pending'
      /\ \A p \in pending' : p \in Pods /\ listed'[p] = pod[p].uid
      /\ \A p \in pending' : pod[p].phase \in {"running", "terminating"}
  BY DEF List, Drainable, OnNode
<1>2. /\ pending' = {p \in Pods : Drainable(p)}
      /\ unbound' = {pod[p].uid : p \in {q \in Pods : pod[q].phase = "unbound"}}
  BY DEF List
<1>3. \A p \in Pods : pod[p].phase \in {"absent", "unbound", "running", "terminating"}
  BY DEF TypeOK, PodRecs, Phases
<1>4. Seen'
  <2> SUFFICES ASSUME NEW p \in Pods, PodKind[p] \in {"plain", "tolerant"}, pod[p].host = "here",
                      pod[p].phase \in {"unbound", "running"}
               PROVE  \/ p \in DOMAIN listed' /\ listed'[p] = pod[p].uid
                      \/ pod[p].uid \in unbound'
    BY <1>1, <1>3 DEF Seen, Going
  <2>1. CASE pod[p].phase = "unbound"  BY <1>2, <2>1
  <2>2. CASE pod[p].phase = "running"  BY <1>1, <1>2, <2>2 DEF Drainable, OnNode
  <2> QED  BY <2>1, <2>2
<1> QED  BY <1>1, <1>4 DEF Incarnations, CountedAreLeaving

LEMMA LeavingStep ==
  ASSUME TypeOK, Phased, WorkSet, Incarnations, CountedAreLeaving, Cordoned, Seen, [Next]_vars
  PROVE  Incarnations' /\ CountedAreLeaving' /\ Seen'
<1> SUFFICES ASSUME ~List PROVE Incarnations' /\ CountedAreLeaving' /\ Seen'
  BY ListStep
<1>1. /\ nextUid \in Nat /\ nextUid' \in {nextUid, nextUid + 1}
      /\ \A p \in Pods : Ages(p) /\ pod[p].uid \in Nat
      /\ DOMAIN listed \subseteq Pods /\ \A p \in DOMAIN listed : listed[p] \in Nat
  BY PodsAge DEF Aged, TypeOK, PodRecs
<1>2. listed' = listed /\ listUid' = listUid /\ unbound' = unbound
  BY ListedStep
<1>3. Incarnations'
  <2>1. \A p \in Pods : pod'[p].uid < nextUid'  BY <1>1 DEF Ages, GoesOn, IsReplaced, Incarnations
  <2>2. ASSUME NEW p \in DOMAIN listed
        PROVE  listed[p] < nextUid' /\ (pod'[p].uid = listed[p] => pod'[p].phase # "unbound")
    BY <1>1 DEF Ages, GoesOn, IsReplaced, Incarnations
  <2> QED  BY <1>2, <2>1, <2>2 DEF Incarnations
<1>4. CountedAreLeaving'
  <2> SUFFICES ASSUME NEW p \in DOMAIN listed \ (pending' \cup Failed'),
                      pod'[p].uid = listed[p]
               PROVE  pod'[p].phase \in {"terminating", "absent"}
    BY <1>2 DEF CountedAreLeaving
  <2>1. CASE p \in DOMAIN listed \ (pending \cup Failed)
    BY <1>1, <2>1 DEF Ages, GoesOn, IsReplaced, Incarnations, CountedAreLeaving
  <2> QED  BY <2>1, ListedStep
<1>5. Seen'
  <2> SUFFICES ASSUME listUid > 0, NEW p \in Pods, PodKind[p] \in {"plain", "tolerant"},
                      pod'[p].uid < listUid, pod'[p].host = "here",
                      pod'[p].phase \notin {"terminating", "absent"}
               PROVE  \/ p \in DOMAIN listed /\ listed[p] = pod'[p].uid
                      \/ pod'[p].uid \in unbound
    BY <1>2 DEF Seen, Going
  <2>0. listUid \in Nat  BY DEF TypeOK
  <2>1. ~IsReplaced(p)  BY <1>1, <2>0 DEF IsReplaced, Cordoned
  <2>2. GoesOn(p)  BY <1>1, <2>1 DEF Ages
  <2> QED  BY <2>2 DEF GoesOn, Seen, Going
<1> QED  BY <1>3, <1>4, <1>5

(* The cordon stands between the list and every later assignment.          *)
LEMMA CordonStep ==
  TypeOK /\ TypeOK' /\ Incarnations /\ Cordoned /\ Newcomers /\ [Next]_vars
    => Cordoned' /\ Newcomers'
<1> SUFFICES ASSUME TypeOK, TypeOK', Incarnations, Cordoned, Newcomers, [Next]_vars
             PROVE  Cordoned' /\ Newcomers'
  OBVIOUS
<1>0. /\ nextUid \in Nat /\ nextUid' \in {nextUid, nextUid + 1} /\ listUid \in Nat
      /\ \A p \in Pods : Ages(p) /\ pod[p].uid \in Nat
      /\ lagging \subseteq lagging'
  BY PodsAge DEF Aged, TypeOK, PodRecs
<1>1. ASSUME listUid' = listUid,
             node'.body = node.body, uncordoned' = uncordoned,
             pc' = "list" => pc = "list",
             pc' \in {"get", "put", "list"} => pc \in {"get", "put", "list"}
      PROVE  Cordoned' /\ Newcomers'
  <2>1. Cordoned'  BY <1>0, <1>1 DEF Cordoned
  <2>2. Newcomers'
    <3> SUFFICES ASSUME listUid > 0, ~uncordoned, NEW p \in Pods, PodKind[p] = "plain",
                        pod'[p].uid >= listUid
                 PROVE  pod'[p].host # "here" \/ pod'[p].uid \in lagging'
      BY <1>1 DEF Newcomers
    <3>1. CASE GoesOn(p)  BY <1>0, <3>1 DEF GoesOn, Newcomers
    <3>2. CASE IsReplaced(p)  BY <3>2 DEF IsReplaced, Cordoned
    <3> QED  BY <1>0, <3>1, <3>2 DEF Ages
  <2> QED  BY <2>1, <2>2
<1>2. ASSUME listUid' = 0, nextUid' \in Nat, pc' = "list" => node'.body
      PROVE  Cordoned' /\ Newcomers'
  BY <1>2 DEF Cordoned, Newcomers
<1>3. CASE CordonPut
  <2>1. listUid' = 0 /\ nextUid' \in Nat  BY <1>0, <1>3 DEF CordonPut, Cordoned
  <2>2. node'.body  BY <1>3 DEF CordonPut, Stored, TypeOK, Objects
  <2> QED  BY <1>2, <2>1, <2>2
<1>4. CASE CordonGet \/ CordonConflict \/ RequestFails
  <2>1. /\ listUid' = listUid /\ node' = node /\ uncordoned' = uncordoned
        /\ pc \in {"get", "put", "list"} /\ pc' # "list"
    BY <1>4 DEF CordonGet, CordonConflict, RequestFails
  <2> QED  BY <1>1, <2>1
<1>5. CASE List
  <2>1. /\ listUid' = nextUid /\ nextUid' = nextUid /\ node' = node /\ pod' = pod
        /\ uncordoned' = uncordoned /\ pc = "list" /\ pc' \in {"answer", "evict"}
    BY <1>5 DEF List
  <2>2. Cordoned'  BY <1>0, <2>1 DEF Cordoned
  <2>3. Newcomers'  BY <1>0, <2>1 DEF Newcomers, Incarnations
  <2> QED  BY <2>2, <2>3
<1>6. ASSUME NEW q \in Pods, Evict(q) PROVE Cordoned' /\ Newcomers'
  <2>1. /\ listUid' = listUid /\ node' = node /\ uncordoned' = uncordoned /\ pc' = pc
    BY <1>6 DEF Evict, EvictGranted, EvictNotFound, EvictRefused, EvictFails, Visit
  <2> QED  BY <1>1, <2>1
<1>7. CASE LeaveLoop \/ Return \/ Wait \/ Wake \/ WaitCancelled
  <2>1. /\ listUid' = listUid /\ node' = node /\ uncordoned' = uncordoned
        /\ pc' \in {"answer", "ok", "wait", "evict", "error"}
    BY <1>7 DEF LeaveLoop, Return, Wait, Wake, WaitCancelled
  <2> QED  BY <1>1, <2>1
<1>8. CASE OtherNodeWriter /\ UNCHANGED callVars
  <2>1. /\ listUid' = listUid /\ pc' = pc /\ UNCHANGED podVars
        /\ ~uncordoned' => ~uncordoned /\ node'.body
    BY <1>8 DEF OtherNodeWriter
  <2> QED  BY <2>1 DEF Cordoned, Newcomers
<1>9. CASE World /\ ~OtherNodeWriter
  <2>1. node' = node /\ uncordoned' = uncordoned
    BY <1>9 DEF World, Tick, Cancel, Others, SchedulerCatchesUp, PodLives, PodCreated, PodBound, PodDeleted, PodGone
  <2> QED  BY <1>1, <1>9, <2>1, WorldLeavesCall
<1>10. CASE UNCHANGED vars
  BY <1>1, <1>10
<1> QED
  BY <1>3, <1>4, <1>5, <1>6, <1>7, <1>8, <1>9, <1>10, WorldLeavesCall DEF Next, Call

LEMMA InvStep == IInv /\ [Next]_vars => IInv'
<1> SUFFICES ASSUME IInv, [Next]_vars PROVE IInv'
  OBVIOUS
<1>1. TypeOK'  BY TypeStep DEF IInv
<1>2. Phased' /\ TimedOutIffPending' /\ AtMostOneLateRound'  BY TimeStep DEF IInv
<1>3. WorkSet'  BY WorkStep DEF IInv
<1>4. Accounting'  BY <1>1, AccountStep DEF IInv
<1>5. Incarnations' /\ CountedAreLeaving' /\ Seen'  BY LeavingStep DEF IInv
<1>6. Cordoned' /\ Newcomers'  BY <1>1, CordonStep DEF IInv
<1> QED  BY <1>1, <1>2, <1>3, <1>4, <1>5, <1>6 DEF IInv

LEMMA Invariance == Spec => []IInv
<1>1. Init => IInv  BY InitInv
<1>2. IInv /\ [Next]_vars => IInv'  BY InvStep
<1> QED  BY <1>1, <1>2, PTL DEF Spec
------------------------------------------------------------------------------
(* TypeOK: the state of the drain keeps its shape, and a round only ever   *)
(* visits pods that are still pending.                                     *)
THEOREM TypeCorrect == Spec => []TypeOK
<1>1. IInv => TypeOK  BY DEF IInv
<1> QED  BY <1>1, Invariance, PTL

(* Accounting: evicted_count, failed_pods and the work-set of DrainNode    *)
(* always add up to the pods that were listed.                             *)
THEOREM AccountingCorrect == Spec => []Accounting
<1>1. IInv => Accounting  BY DEF IInv
<1> QED  BY <1>1, Invariance, PTL

(* CountedAreLeaving: what DrainNode counts as evicted does not keep       *)
(* running on the Node.                                                    *)
THEOREM CountIsTruthful == Spec => []CountedAreLeaving
<1>1. IInv => CountedAreLeaving  BY DEF IInv
<1> QED  BY <1>1, Invariance, PTL

(* OnlyLateBindingsRemain: what runs on a Node that DrainNode cordoned and *)
(* listed is pending, failed, was assigned to it and not bound yet when    *)
(* the pods were listed, tolerates the cordon, or was assigned by a        *)
(* scheduler whose cache had not seen the cordon.                          *)
THEOREM RemainderKnown == Spec => []OnlyLateBindingsRemain
<1>1. IInv => OnlyLateBindingsRemain
  <2> SUFFICES ASSUME IInv, listUid > 0, ~uncordoned, NEW p \in Pods,
                      Drainable(p), pod[p].phase = "running",
                      pod[p].uid >= listUid => PodKind[p] # "tolerant" /\ pod[p].uid \notin lagging
               PROVE  \/ pod[p].uid \in unbound
                      \/ p \in (pending \cup Failed) /\ listed[p] = pod[p].uid
    BY DEF OnlyLateBindingsRemain
  <2>1. PodKind[p] \in {"plain", "tolerant"} /\ pod[p].host = "here"
    BY DEF Drainable, OnNode
  <2>2. listUid \in Nat /\ pod[p].uid \in Nat  BY DEF IInv, TypeOK, PodRecs
  <2>3. pod[p].uid < listUid  BY <2>1, <2>2 DEF IInv, Newcomers
  <2>4. \/ p \in DOMAIN listed /\ listed[p] = pod[p].uid
        \/ pod[p].uid \in unbound
    BY <2>1, <2>3 DEF IInv, Seen, Going
  <2> QED  BY <2>4 DEF IInv, CountedAreLeaving
<1> QED  BY <1>1, Invariance, PTL

(* TimedOutIffPending: the answer of DrainNode says timed_out if and only  *)
(* if it leaves pods pending.                                              *)
THEOREM TimeoutReported == Spec => []TimedOutIffPending
<1>1. IInv => TimedOutIffPending  BY DEF IInv
<1> QED  BY <1>1, Invariance, PTL

(* AtMostOneLateRound: DrainNode starts at most one round of evictions     *)
(* after its deadline.                                                     *)
THEOREM BoundedOverrun == Spec => []AtMostOneLateRound
<1>1. IInv => AtMostOneLateRound  BY DEF IInv
<1> QED  BY <1>1, Invariance, PTL
==============================================================================
