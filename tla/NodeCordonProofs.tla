-------------------------- MODULE NodeCordonProofs ---------------------------
(***************************************************************************)
(* Theorems about CordonNode and UncordonNode, for any number of calls and *)
(* any activity of the other writers of the Node.                          *)
(***************************************************************************)
EXTENDS NodeCordon, TLAPS

USE DEF InFlight

(* A call about to PUT holds a Node read at a resourceVersion that is not  *)
(* ahead of the server's; while they are equal, it holds the Node.         *)
SnapshotFaithful ==
  \A c \in Calls : pc[c] = "put" =>
    snap[c].rv <= node.rv /\ (snap[c].rv = node.rv => snap[c] = node)

(* A call in flight has not written. *)
Unwritten == \A c \in Calls : pc[c] \in {"idle", "peek", "get", "put"} => writes[c] = 0

(* The flag a call has reported is that of the Node, and then that of the  *)
(* Node it PUTs, unless the flag was changed between its two GETs.         *)
PreviousKnown ==
  \A c \in Calls \ stale :
    /\ pc[c] = "get" => previous[c] = node.body.unschedulable
    /\ pc[c] = "put" => previous[c] = snap[c].body.unschedulable

IInv == TypeOK /\ SnapshotFaithful /\ Unwritten /\ SuccessWasTrue /\ PreviousKnown

(* The body a call PUTs. *)
Wish(c) == [snap[c].body EXCEPT !.unschedulable = Wanted(c)]

LEMMA WishType ==
  ASSUME TypeOK, NEW c \in Calls
  PROVE  Wish(c) \in Bodies /\ Wish(c).unschedulable = Wanted(c)
<1>1. snap[c].body \in [unschedulable : BOOLEAN, rest : Rests]
  BY DEF TypeOK, Objects, Bodies
<1>2. Wanted(c) \in BOOLEAN  BY DEF Wanted
<1> QED  BY <1>1, <1>2 DEF Wish, Bodies

LEMMA InitInv == Init => IInv
  BY DEF Init, IInv, TypeOK, SnapshotFaithful, Unwritten, SuccessWasTrue, PreviousKnown,
         Objects

(* Every step keeps the types; a call that writes has not written before. *)
LEMMA TypeStep == TypeOK /\ Unwritten /\ [Next]_vars => TypeOK'
<1> SUFFICES ASSUME TypeOK, Unwritten, [Next]_vars PROVE TypeOK'
  OBVIOUS
<1> USE DEF TypeOK, Goto, Witness
<1>1. ASSUME NEW c \in Calls, Begin(c) \/ RequestFails(c) \/ PutConflicts(c) PROVE TypeOK'
  BY <1>1 DEF Begin, RequestFails, PutConflicts
<1>2. ASSUME NEW c \in Calls, Peek(c) PROVE TypeOK'
  <2>1. node.body.unschedulable \in BOOLEAN  BY DEF Objects, Bodies
  <2> QED  BY <1>2, <2>1 DEF Peek
<1>3. ASSUME NEW c \in Calls, Get(c) PROVE TypeOK'
  BY <1>3 DEF Get
<1>4. ASSUME NEW c \in Calls, PutTaken(c) PROVE TypeOK'
  <2>1. Wish(c) \in Bodies  BY WishType
  <2>2. node' = Stored(node, Wish(c))  BY <1>4 DEF PutTaken, Wish
  <2>3. node' \in Objects(Bodies)  BY <2>1, <2>2 DEF Stored, Objects
  <2>4. writes' \in [Calls -> 0..1]
    <3>1. writes[c] = 0  BY <1>4 DEF PutTaken, Unwritten
    <3>2. writes' = [writes EXCEPT ![c] = 1]  BY <1>4, <3>1 DEF PutTaken
    <3> QED  BY <3>2
  <2>5. node.body.unschedulable \in BOOLEAN  BY DEF Objects, Bodies
  <2> QED  BY <1>4, <2>3, <2>4, <2>5 DEF PutTaken
<1>5. CASE OtherWriter
  BY <1>5 DEF OtherWriter, Stored, Objects
<1>6. CASE UNCHANGED vars
  BY <1>6 DEF vars
<1> QED  BY <1>1, <1>2, <1>3, <1>4, <1>5, <1>6 DEF Next, Step

(* The resourceVersion moves exactly when the Node changes. *)
LEMMA RevisionGrows ==
  ASSUME TypeOK, NEW b, node' = Stored(node, b)
  PROVE  /\ node.rv \in Nat /\ node'.rv >= node.rv
         /\ node'.rv = node.rv => node' = node
  BY DEF TypeOK, Objects, Stored

(* A write of the Node, by a call or another writer. *)
Written == \/ \E c \in Calls : PutTaken(c)
           \/ OtherWriter

LEMMA WriteGrows ==
  ASSUME TypeOK, Written
  PROVE  /\ node.rv \in Nat /\ node'.rv \in Nat /\ node'.rv >= node.rv
         /\ node'.rv = node.rv => node' = node
<1>1. PICK b : node' = Stored(node, b)
  BY DEF Written, PutTaken, OtherWriter
<1>2. node.rv \in Nat /\ node'.rv \in Nat
  BY <1>1 DEF TypeOK, Objects, Stored
<1> QED  BY <1>1, <1>2, RevisionGrows

LEMMA SnapshotStep == TypeOK /\ SnapshotFaithful /\ [Next]_vars => SnapshotFaithful'
<1> SUFFICES ASSUME TypeOK, SnapshotFaithful, [Next]_vars,
                    NEW d \in Calls, pc'[d] = "put"
             PROVE  /\ snap'[d].rv <= node'.rv
                    /\ snap'[d].rv = node'.rv => snap'[d] = node'
  BY DEF SnapshotFaithful
<1>0. /\ node.rv \in Nat /\ snap[d].rv \in Nat
      /\ pc \in [Calls -> {"idle", "ok", "error"} \cup InFlight]
  BY DEF TypeOK, Objects
<1>1. ASSUME pc[d] = "put", snap'[d] = snap[d], node' = node \/ Written
      PROVE  /\ snap'[d].rv <= node'.rv
             /\ snap'[d].rv = node'.rv => snap'[d] = node'
  BY <1>0, <1>1, WriteGrows DEF SnapshotFaithful
<1>2. CASE UNCHANGED vars
  BY <1>1, <1>2 DEF vars
<1>3. CASE OtherWriter
  <2>1. UNCHANGED <<pc, snap>>  BY <1>3 DEF OtherWriter
  <2> QED  BY <1>1, <1>3, <2>1 DEF Written
<1>4. ASSUME NEW c \in Calls, Begin(c) \/ RequestFails(c) \/ PutConflicts(c) \/ Peek(c)
      PROVE  pc[d] = "put" /\ snap'[d] = snap[d] /\ node' = node
  BY <1>0, <1>4 DEF Begin, RequestFails, PutConflicts, Peek, Goto
<1>5. ASSUME NEW c \in Calls, Get(c)
      PROVE  /\ node' = node
             /\ \/ snap'[d] = node
                \/ pc[d] = "put" /\ snap'[d] = snap[d]
  <2>1. snap \in [Calls -> Objects(Bodies)]  BY DEF TypeOK
  <2>2. CASE d = c  BY <1>5, <2>1, <2>2 DEF Get
  <2>3. CASE d # c  BY <1>0, <1>5, <2>1, <2>3 DEF Get, Goto
  <2> QED  BY <2>2, <2>3
<1>6. ASSUME NEW c \in Calls, PutTaken(c)
      PROVE  pc[d] = "put" /\ snap'[d] = snap[d] /\ Written
  BY <1>0, <1>6 DEF PutTaken, Goto, Written
<1> QED  BY <1>0, <1>1, <1>2, <1>3, <1>4, <1>5, <1>6 DEF Next, Step

LEMMA UnwrittenStep == TypeOK /\ Unwritten /\ [Next]_vars => Unwritten'
<1> SUFFICES ASSUME TypeOK, Unwritten, [Next]_vars PROVE Unwritten'
  OBVIOUS
<1> USE DEF TypeOK, Unwritten, Goto
<1>1. ASSUME NEW c \in Calls,
             Begin(c) \/ RequestFails(c) \/ PutConflicts(c) \/ Peek(c) \/ Get(c)
      PROVE  Unwritten'
  BY <1>1 DEF Begin, RequestFails, PutConflicts, Peek, Get
<1>2. ASSUME NEW c \in Calls, PutTaken(c) PROVE Unwritten'
  BY <1>2 DEF PutTaken
<1>3. CASE OtherWriter \/ UNCHANGED vars
  BY <1>3 DEF OtherWriter, vars
<1> QED  BY <1>1, <1>2, <1>3 DEF Next, Step

(* A call turns "ok" where it finds the Node as it wants it, or makes it so. *)
LEMMA SuccessStep ==
  TypeOK /\ SnapshotFaithful /\ SuccessWasTrue /\ [Next]_vars => SuccessWasTrue'
<1> SUFFICES ASSUME TypeOK, SnapshotFaithful, SuccessWasTrue, [Next]_vars,
                    NEW d \in Calls, pc'[d] = "ok"
             PROVE  d \in held'
  BY DEF SuccessWasTrue
<1>0. pc \in [Calls -> {"idle", "ok", "error"} \cup InFlight]  BY DEF TypeOK
<1>1. CASE pc[d] = "ok"
  <2>1. d \in held  BY <1>1 DEF SuccessWasTrue
  <2>2. held \subseteq held'
    BY DEF Next, Step, Begin, RequestFails, Peek, Get, PutTaken, PutConflicts,
           OtherWriter, Witness, vars
  <2> QED  BY <2>1, <2>2
<1>2. CASE pc[d] # "ok"
  <2>1. ASSUME NEW c \in Calls, Begin(c) \/ RequestFails(c) \/ PutConflicts(c) \/ Get(c)
        PROVE  FALSE
    BY <1>0, <1>2, <2>1 DEF Begin, RequestFails, PutConflicts, Get, Goto
  <2>2. ~OtherWriter /\ ~UNCHANGED vars  BY <1>2 DEF OtherWriter, vars
  <2>3. ASSUME NEW c \in Calls, Peek(c) PROVE d \in held'
    <3>1. d = c /\ AlreadyDone(d) /\ pc[d] = "peek" /\ node' = node
      BY <1>0, <1>2, <2>3 DEF Peek, Goto
    <3>2. Wanted(d) = FALSE /\ node.body.unschedulable \in BOOLEAN
      BY <3>1 DEF AlreadyDone, Wanted, TypeOK, Objects, Bodies
    <3>3. node'.body.unschedulable = Wanted(d)
      BY <3>1, <3>2 DEF AlreadyDone
    <3> QED  BY <2>3, <3>1, <3>3 DEF Peek, Witness
  <2>4. ASSUME NEW c \in Calls, PutTaken(c) PROVE d \in held'
    <3>1. d = c /\ pc[d] = "put"  BY <1>0, <1>2, <2>4 DEF PutTaken, Goto
    <3>2. node'.body = Wish(d)  BY <2>4, <3>1 DEF PutTaken, Wish, Stored
    <3>3. node'.body.unschedulable = Wanted(d)  BY <3>2, WishType
    <3> QED  BY <2>4, <3>1, <3>3 DEF PutTaken, Witness
  <2> QED  BY <2>1, <2>2, <2>3, <2>4 DEF Next, Step
<1> QED  BY <1>1, <1>2

LEMMA PreviousStep == TypeOK /\ PreviousKnown /\ [Next]_vars => PreviousKnown'
<1> SUFFICES ASSUME TypeOK, PreviousKnown, [Next]_vars, NEW d \in Calls, d \notin stale'
             PROVE  /\ pc'[d] = "get" => previous'[d] = node'.body.unschedulable
                    /\ pc'[d] = "put" => previous'[d] = snap'[d].body.unschedulable
  BY DEF PreviousKnown
<1> DEFINE Goal == /\ pc'[d] = "get" => previous'[d] = node'.body.unschedulable
                   /\ pc'[d] = "put" => previous'[d] = snap'[d].body.unschedulable
<1>0. /\ pc \in [Calls -> {"idle", "ok", "error"} \cup InFlight]
      /\ previous \in [Calls -> BOOLEAN] /\ snap \in [Calls -> Objects(Bodies)]
  BY DEF TypeOK
<1>1. CASE UNCHANGED vars
  BY <1>1 DEF vars, PreviousKnown
<1>2. CASE Next
  <2>1. d \notin stale /\ (pc[d] = "get" => node'.body.unschedulable = node.body.unschedulable)
    BY <1>2 DEF Next, Step, Begin, RequestFails, Peek, Get, PutTaken, PutConflicts,
                OtherWriter, Witness
  <2>2. ASSUME NEW c \in Calls, Begin(c) \/ RequestFails(c) \/ PutConflicts(c) PROVE Goal
    BY <1>0, <2>1, <2>2 DEF Begin, RequestFails, PutConflicts, Goto, PreviousKnown
  <2>3. ASSUME NEW c \in Calls, Peek(c) PROVE Goal
    <3>1. CASE d = c
      <4>1. previous'[d] = node.body.unschedulable  BY <1>0, <2>3, <3>1 DEF Peek
      <4>2. pc'[d] # "put" /\ node' = node  BY <1>0, <2>3, <3>1 DEF Peek, Goto
      <4> QED  BY <4>1, <4>2
    <3>2. CASE d # c
      BY <1>0, <2>1, <2>3, <3>2 DEF Peek, Goto, PreviousKnown
    <3> QED  BY <3>1, <3>2
  <2>4. ASSUME NEW c \in Calls, Get(c) PROVE Goal
    <3>1. CASE d = c
      <4>1. snap'[d] = node /\ previous' = previous /\ pc[d] = "get" /\ pc'[d] = "put"
        BY <1>0, <2>4, <3>1 DEF Get, Goto
      <4> QED  BY <2>1, <4>1 DEF PreviousKnown
    <3>2. CASE d # c
      BY <1>0, <2>1, <2>4, <3>2 DEF Get, Goto, PreviousKnown
    <3> QED  BY <3>1, <3>2
  <2>5. ASSUME NEW c \in Calls, PutTaken(c) PROVE Goal
    <3>1. pc'[d] \in {"get", "put"} => pc'[d] = pc[d]
      BY <1>0, <2>5 DEF PutTaken, Goto
    <3>2. UNCHANGED <<previous, snap>>  BY <2>5 DEF PutTaken
    <3> QED  BY <2>1, <3>1, <3>2 DEF PreviousKnown
  <2>6. CASE OtherWriter
    BY <2>1, <2>6 DEF OtherWriter, PreviousKnown
  <2> QED  BY <1>2, <2>2, <2>3, <2>4, <2>5, <2>6 DEF Next, Step
<1> QED  BY <1>1, <1>2

LEMMA Invariance == Spec => []IInv
<1>1. IInv /\ [Next]_vars => IInv'
  BY TypeStep, SnapshotStep, UnwrittenStep, SuccessStep, PreviousStep DEF IInv
<1> QED  BY InitInv, <1>1, PTL DEF Spec

(* TypeOK: every variable has its type, and no call of CordonNode or       *)
(* UncordonNode writes the Node twice.                                     *)
THEOREM TypeCorrect == Spec => []TypeOK
<1>1. IInv => TypeOK  BY DEF IInv
<1> QED  BY <1>1, Invariance, PTL

(* SuccessWasTrue: a successful CordonNode or UncordonNode has seen the    *)
(* Node as its caller wants it, however many calls and controllers race.   *)
THEOREM SuccessCorrect == Spec => []SuccessWasTrue
<1>1. IInv => SuccessWasTrue  BY DEF IInv
<1> QED  BY <1>1, Invariance, PTL

(* The PUT of CordonNode and UncordonNode changes nothing but              *)
(* spec.unschedulable of the Node it meets.                                *)
THEOREM NothingLost ==
  Spec => [][\A c \in Calls : writes'[c] # writes[c] =>
               node'.body = [node.body EXCEPT !.unschedulable = Wanted(c)]]_vars
<1> DEFINE A == \A c \in Calls : writes'[c] # writes[c] =>
                  node'.body = [node.body EXCEPT !.unschedulable = Wanted(c)]
<1>1. IInv /\ [Next]_vars => [A]_vars
  <2> SUFFICES ASSUME IInv, Next, NEW d \in Calls, writes'[d] # writes[d]
               PROVE  node'.body = [node.body EXCEPT !.unschedulable = Wanted(d)]
    OBVIOUS
  <2>1. TypeOK /\ SnapshotFaithful  BY DEF IInv
  <2>2. PICK c \in Calls : PutTaken(c)
    BY DEF Next, Step, Begin, RequestFails, Peek, Get, PutConflicts, OtherWriter
  <2>3. c = d  BY <2>1, <2>2 DEF PutTaken, TypeOK
  <2>4. snap[d] = node  BY <2>1, <2>2, <2>3 DEF PutTaken, Accepts, SnapshotFaithful
  <2>5. node'.body = Wish(d)  BY <2>2, <2>3 DEF PutTaken, Wish, Stored
  <2> QED  BY <2>4, <2>5 DEF Wish
<1>2. Spec => [][A]_vars  BY <1>1, Invariance, PTL DEF Spec
<1> QED  BY <1>2

(* PreviousIsReplaced: the previous_state of a CordonNode or UncordonNode  *)
(* that writes is the flag it replaces, unless somebody changed the flag   *)
(* between the handler's GET and the client function's.                    *)
THEOREM PreviousCorrect == Spec => PreviousIsReplaced
<1> DEFINE A == \A c \in Calls : writes'[c] # writes[c] /\ c \notin stale =>
                  previous[c] = node.body.unschedulable
<1>1. IInv /\ [Next]_vars => [A]_vars
  <2> SUFFICES ASSUME IInv, Next, NEW d \in Calls, writes'[d] # writes[d], d \notin stale
               PROVE  previous[d] = node.body.unschedulable
    OBVIOUS
  <2>1. TypeOK /\ SnapshotFaithful /\ PreviousKnown  BY DEF IInv
  <2>2. PICK c \in Calls : PutTaken(c)
    BY DEF Next, Step, Begin, RequestFails, Peek, Get, PutConflicts, OtherWriter
  <2>3. c = d  BY <2>1, <2>2 DEF PutTaken, TypeOK
  <2>4. pc[d] = "put" /\ snap[d] = node
    BY <2>1, <2>2, <2>3 DEF PutTaken, Accepts, SnapshotFaithful
  <2> QED  BY <2>1, <2>4 DEF PreviousKnown
<1>2. Spec => [][A]_vars  BY <1>1, Invariance, PTL DEF Spec
<1> QED  BY <1>2 DEF PreviousIsReplaced

------------------------------------------------------------------------------
(* A call in flight is "running"; it may move on, end well or end badly.   *)
LEMMA StatusFollows ==
  ASSUME TypeOK, NEW c \in Calls, pc[c] \in {"idle"} \cup InFlight, NEW l, Goto(c, l)
  PROVE  /\ Status[c] = "running"
         /\ l = "ok" => Status' = [Status EXCEPT ![c] = "ok"]
         /\ l = "error" => Status' = [Status EXCEPT ![c] = "failed"]
         /\ l \in InFlight => Status' = Status
<1>1. pc' = [pc EXCEPT ![c] = l] /\ pc \in [Calls -> {"idle", "ok", "error"} \cup InFlight]
  BY DEF Goto, TypeOK
<1>2. Status[c] = "running"  BY DEF Status
<1>3. CASE l = "ok"  BY <1>1, <1>2, <1>3 DEF Status
<1>4. CASE l = "error"  BY <1>1, <1>2, <1>4 DEF Status
<1>5. CASE l \in InFlight  BY <1>1, <1>2, <1>5 DEF Status
<1> QED  BY <1>2, <1>3, <1>4, <1>5

(* The PUT makes the change to the Node as it stands.                      *)
LEMMA PutRefines ==
  ASSUME IInv, NEW c \in Calls, PutTaken(c)
  PROVE  Atomic!TakeEffect(c)
<1>1. TypeOK /\ SnapshotFaithful /\ node.body \in Bodies
  BY DEF IInv, TypeOK, Objects
<1>2. snap[c] = node  BY <1>1 DEF PutTaken, Accepts, SnapshotFaithful
<1>3. node'.body = [node.body EXCEPT !.unschedulable = Wanted(c)]
  BY <1>2 DEF PutTaken, Stored
<1>4. Status[c] = "running" /\ \E s \in {"ok", "failed"} : Status' = [Status EXCEPT ![c] = s]
  <2>1. PICK l \in {"ok", "error"} : Goto(c, l)  BY DEF PutTaken
  <2>2. pc[c] \in InFlight  BY DEF PutTaken
  <2> QED  BY <1>1, <2>1, <2>2, StatusFollows
<1> QED  BY <1>1, <1>3, <1>4 DEF Atomic!TakeEffect

(* The uncordon that finds the Node schedulable has nothing to change.     *)
LEMMA PeekRefines ==
  ASSUME IInv, NEW c \in Calls, Peek(c), AlreadyDone(c)
  PROVE  Atomic!TakeEffect(c)
<1>1. TypeOK /\ node.body \in Bodies
  BY DEF IInv, TypeOK, Objects
<1>2. node.body.unschedulable = Wanted(c)
  BY <1>1 DEF AlreadyDone, Wanted, Bodies
<1>3. [node.body EXCEPT !.unschedulable = Wanted(c)] = node.body
  BY <1>1, <1>2 DEF Bodies
<1>4. node'.body = [node.body EXCEPT !.unschedulable = Wanted(c)]
  BY <1>3 DEF Peek
<1>5. Status[c] = "running" /\ Status' = [Status EXCEPT ![c] = "ok"]
  <2>1. Goto(c, "ok") /\ pc[c] \in InFlight  BY DEF Peek
  <2> QED  BY <1>1, <2>1, StatusFollows
<1> QED  BY <1>1, <1>4, <1>5 DEF Atomic!TakeEffect

(* Every step is a step of AtomicUpdate, or leaves its variables alone.    *)
LEMMA StepRefines == IInv /\ IInv' /\ [Next]_vars => [Atomic!Next]_(Atomic!vars)
<1> SUFFICES ASSUME IInv, IInv', [Next]_vars PROVE Atomic!Next \/ UNCHANGED Atomic!vars
  OBVIOUS
<1>0. TypeOK /\ TypeOK' /\ node'.body \in Bodies
  BY DEF IInv, TypeOK, Objects
<1>1. ASSUME NEW c \in Calls, NEW l \in InFlight \cup {"error"}, Goto(c, l),
             pc[c] \in {"idle"} \cup InFlight, UNCHANGED node
      PROVE  Atomic!Next \/ UNCHANGED Atomic!vars
  <2>1. CASE l = "error"
    <3>1. Status[c] = "running" /\ Status' = [Status EXCEPT ![c] = "failed"]
      BY <1>0, <1>1, <2>1, StatusFollows
    <3> QED  BY <1>1, <3>1 DEF Atomic!Next, Atomic!Fail
  <2>2. CASE l \in InFlight
    <3>1. Status' = Status  BY <1>0, <1>1, <2>2, StatusFollows
    <3> QED  BY <1>1, <3>1 DEF Atomic!vars
  <2> QED  BY <2>1, <2>2
<1>2. ASSUME NEW c \in Calls,
             Begin(c) \/ RequestFails(c) \/ Get(c) \/ PutConflicts(c)
               \/ (Peek(c) /\ ~AlreadyDone(c))
      PROVE  Atomic!Next \/ UNCHANGED Atomic!vars
  <2>1. PICK l \in InFlight \cup {"error"} : Goto(c, l)
    BY <1>2 DEF Begin, RequestFails, Get, PutConflicts, Peek
  <2>2. pc[c] \in {"idle"} \cup InFlight /\ UNCHANGED node
    BY <1>2 DEF Begin, RequestFails, Get, PutConflicts, Peek
  <2> QED  BY <1>1, <2>1, <2>2
<1>3. ASSUME NEW c \in Calls, PutTaken(c) \/ (Peek(c) /\ AlreadyDone(c)) PROVE Atomic!Next
  BY <1>3, PutRefines, PeekRefines DEF Atomic!Next
<1>4. CASE OtherWriter
  <2>1. Status' = Status  BY <1>4 DEF OtherWriter, Status
  <2> QED  BY <1>0, <2>1 DEF Atomic!Next, Atomic!External
<1>5. CASE UNCHANGED vars
  BY <1>5 DEF vars, Atomic!vars, Status
<1> QED  BY <1>2, <1>3, <1>4, <1>5 DEF Next, Step

(* AtomicSpec: CordonNode and UncordonNode set spec.unschedulable in one   *)
(* indivisible step, whatever kubelet, controllers and operators write     *)
(* between their GETs and the PUT.                                         *)
THEOREM Refinement == Spec => AtomicSpec
<1>1. Init => Atomic!Init
  <2> SUFFICES ASSUME Init PROVE Atomic!Init
    OBVIOUS
  <2>1. node.body \in Bodies  BY DEF Init
  <2>2. Status = [c \in Calls |-> "running"]  BY DEF Init, Status
  <2> QED  BY <2>1, <2>2 DEF Atomic!Init
<1>2. IInv /\ IInv' /\ [Next]_vars => [Atomic!Next]_(Atomic!vars)  BY StepRefines
<1>3. Spec => Atomic!Spec  BY <1>1, <1>2, Invariance, PTL DEF Spec, Atomic!Spec
<1> QED  BY <1>3 DEF AtomicSpec
==============================================================================
