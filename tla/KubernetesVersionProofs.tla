----------------------- MODULE KubernetesVersionProofs -----------------------
(***************************************************************************)
(* Theorems about UpdateKubernetesVersion, for any number of calls, any    *)
(* versions and any activity of other writers.                             *)
(***************************************************************************)
EXTENDS KubernetesVersion, TLAPS

USE DEF InFlight, Failures, Ended, updateConflictRetries

(* The body a call would PUT is a body. *)
LEMMA UpdatedType ==
  ASSUME TypeOK, NEW c \in Calls, snap[c].body.form = "map"
  PROVE  Updated(c) \in Bodies
<1>1. snap[c].body \in Bodies  BY DEF TypeOK, Objects
<1>2. snap[c].body \in [form : {"map"}, version : Fields, rest : Rests]
  BY <1>1 DEF Bodies, Forms, Fields
<1>3. Target[c] \in Versions  BY VersionsAssumption
<1>4. Updated(c) \in [form : {"map"}, version : Fields, rest : Rests]
  BY <1>2, <1>3 DEF Updated, Fields
<1> QED  BY <1>4 DEF Bodies

(* A call about to PUT holds a mapping, read at a resourceVersion that is  *)
(* not ahead of the server's; while they are equal, it holds the Secret.   *)
SnapshotFaithful ==
  \A c \in Calls : pc[c] = "put" =>
    /\ snap[c].body.form = "map"
    /\ snap[c].rv <= secret.rv
    /\ snap[c].rv = secret.rv => snap[c] = secret

(* What was read before a PUT is what will be reported. *)
PrevFaithful ==
  \A c \in Calls : pc[c] = "put" /\ snap[c].body.version # None =>
    prev[c] = Shown(snap[c].body.version)

(* Each failed attempt has been caused by one more write of the Secret. *)
AttemptsPaid ==
  \A c \in Calls :
    /\ pc[c] = "get" /\ attempt[c] > 0 => secret.rv >= firstRv[c] + attempt[c]
    /\ pc[c] = "put" => snap[c].rv >= firstRv[c] + attempt[c]

(* Nothing is counted before a call begins; calls in flight are within the *)
(* bound of the loop and have not written.                                 *)
Progress ==
  \A c \in Calls :
    /\ pc[c] = "idle" => attempt[c] = 0
    /\ pc[c] \in {"idle", "get", "put"} => writes[c] = 0 /\ attempt[c] < updateConflictRetries

IInv ==
  /\ TypeOK /\ SnapshotFaithful /\ PrevFaithful /\ AttemptsPaid /\ Progress
  /\ WritesOnce /\ ReportedIsReplaced /\ ExhaustedOnlyUnderContention

LEMMA InitInv == Init => IInv
  BY VersionsAssumption, SMTT(30) DEF Init, IInv, TypeOK, SnapshotFaithful, PrevFaithful,
     AttemptsPaid, Progress, WritesOnce, ReportedIsReplaced,
     ExhaustedOnlyUnderContention, Objects, Bodies, Fields

(* Every step keeps the types. *)
LEMMA TypeStep == TypeOK /\ SnapshotFaithful /\ Progress /\ [Next]_vars => TypeOK'
<1> SUFFICES ASSUME TypeOK, SnapshotFaithful, Progress, [Next]_vars PROVE TypeOK'
  OBVIOUS
<1> USE DEF TypeOK, Goto
<1>1. ASSUME NEW c \in Calls, Begin(c) PROVE TypeOK'
  BY <1>1 DEF Begin
<1>2. ASSUME NEW c \in Calls, GetFails(c) PROVE TypeOK'
  BY <1>2 DEF GetFails
<1>3. ASSUME NEW c \in Calls, GetUnusable(c) PROVE TypeOK'
  BY <1>3 DEF GetUnusable
<1>4. ASSUME NEW c \in Calls, GetPanics(c) PROVE TypeOK'
  BY <1>4 DEF GetPanics
<1>5. ASSUME NEW c \in Calls, GetSucceeds(c) PROVE TypeOK'
  <2>1. secret.body \in Bodies /\ secret.rv \in Nat  BY DEF Objects
  <2>2. PreviousVersion(c) \in Versions \cup {None}
    BY <2>1 DEF PreviousVersion, Shown, Bodies, Fields
  <2> QED  BY <1>5, <2>1, <2>2 DEF GetSucceeds
<1>6. ASSUME NEW c \in Calls, Store(c), pc' \in [Calls -> {"idle"} \cup InFlight \cup Ended]
      PROVE  TypeOK'
  <2>1. Updated(c) \in Bodies  BY <1>6, UpdatedType DEF SnapshotFaithful, Store
  <2>2. secret.rv \in Nat /\ secret.body \in Bodies  BY DEF Objects
  <2>3. secret' \in Objects(Bodies)  BY <1>6, <2>1, <2>2 DEF Store, Stored, Objects
  <2>4. secret.body.version \in Fields  BY <2>2 DEF Bodies, Fields
  <2> QED  BY <1>6, <2>3, <2>4 DEF Store
<1>7. ASSUME NEW c \in Calls, PutConflicts(c) PROVE TypeOK'
  <2>1. attempt[c] + 1 \in 0..updateConflictRetries  BY <1>7 DEF PutConflicts, Progress
  <2> QED  BY <1>7, <2>1 DEF PutConflicts
<1>8. ASSUME NEW c \in Calls, PutFails(c) PROVE TypeOK'
  BY <1>8 DEF PutFails
<1>9. CASE OtherWriter
  BY <1>9 DEF OtherWriter, Objects
<1>10. CASE UNCHANGED vars
  BY <1>10 DEF vars
<1>11. ASSUME NEW c \in Calls, PutSucceeds(c) \/ PutAnswerLost(c) PROVE TypeOK'
  BY <1>6, <1>11 DEF PutSucceeds, PutAnswerLost
<1> QED  BY <1>1, <1>2, <1>3, <1>4, <1>5, <1>7, <1>8, <1>9, <1>10, <1>11 DEF Next, Get, Put

(* The resourceVersion only grows, and a write that leaves it where it was *)
(* has changed nothing but possibly restored an equal Secret.              *)
LEMMA RevisionGrows ==
  ASSUME TypeOK, NEW c \in Calls, Store(c) \/ OtherWriter
  PROVE  /\ secret.rv \in Nat /\ secret'.rv \in Nat
         /\ secret'.rv >= secret.rv
         /\ secret'.rv = secret.rv => secret' = secret
<1>1. secret.rv \in Nat  BY DEF TypeOK, Objects
<1>2. CASE Store(c)
  BY <1>1, <1>2 DEF Store, Stored
<1>3. CASE OtherWriter
  BY <1>1, <1>3 DEF OtherWriter
<1> QED  BY <1>2, <1>3

LEMMA SnapshotStep ==
  TypeOK /\ SnapshotFaithful /\ [Next]_vars => SnapshotFaithful'
<1> SUFFICES ASSUME TypeOK, SnapshotFaithful, [Next]_vars,
                    NEW d \in Calls, pc'[d] = "put"
             PROVE  /\ snap'[d].body.form = "map"
                    /\ snap'[d].rv <= secret'.rv
                    /\ snap'[d].rv = secret'.rv => snap'[d] = secret'
  BY DEF SnapshotFaithful
<1>0. /\ secret.rv \in Nat /\ \A c \in Calls : snap[c].rv \in Nat
      /\ pc \in [Calls -> {"idle"} \cup InFlight \cup Ended]
      /\ snap \in [Calls -> Objects(Bodies)]
  BY DEF TypeOK, Objects
<1>1. CASE pc[d] = "put" /\ UNCHANGED <<secret, snap>>
  BY <1>1 DEF SnapshotFaithful
<1>2. ASSUME pc[d] = "put", snap' = snap, NEW c \in Calls, Store(c) \/ OtherWriter
      PROVE  /\ snap'[d].body.form = "map"
             /\ snap'[d].rv <= secret'.rv
             /\ snap'[d].rv = secret'.rv => snap'[d] = secret'
  BY <1>0, <1>2, RevisionGrows DEF SnapshotFaithful
<1>3. ASSUME NEW c \in Calls, Begin(c) PROVE pc[d] = "put" /\ UNCHANGED <<secret, snap>>
  BY <1>0, <1>3 DEF Begin, Goto
<1>4. ASSUME NEW c \in Calls, GetFails(c) \/ GetUnusable(c) \/ GetPanics(c)
      PROVE  pc[d] = "put" /\ UNCHANGED <<secret, snap>>
  BY <1>0, <1>4 DEF GetFails, GetUnusable, GetPanics, Goto
<1>5. ASSUME NEW c \in Calls, GetSucceeds(c)
      PROVE  /\ snap'[d].body.form = "map"
             /\ snap'[d].rv <= secret'.rv
             /\ snap'[d].rv = secret'.rv => snap'[d] = secret'
  <2>1. CASE d = c  BY <1>0, <1>5, <2>1 DEF GetSucceeds
  <2>2. CASE d # c
    <3>1. pc[d] = "put" /\ secret' = secret /\ snap'[d] = snap[d]
      BY <1>0, <1>5, <2>2 DEF GetSucceeds, Goto
    <3> QED  BY <3>1 DEF SnapshotFaithful
  <2> QED  BY <2>1, <2>2
<1>6. ASSUME NEW c \in Calls, PutSucceeds(c) \/ PutAnswerLost(c)
      PROVE  pc[d] = "put" /\ snap' = snap /\ Store(c)
  BY <1>0, <1>6 DEF PutSucceeds, PutAnswerLost, Store, Goto
<1>7. ASSUME NEW c \in Calls, PutConflicts(c) \/ PutFails(c)
      PROVE  pc[d] = "put" /\ UNCHANGED <<secret, snap>>
  BY <1>0, <1>7 DEF PutConflicts, PutFails, Goto
<1>8. CASE OtherWriter
  <2>1. pc[d] = "put" /\ snap' = snap  BY <1>8 DEF OtherWriter
  <2> QED  BY <1>2, <1>8, <2>1
<1>9. CASE UNCHANGED vars
  BY <1>1, <1>9 DEF vars
<1> QED
  BY <1>1, <1>2, <1>3, <1>4, <1>5, <1>6, <1>7, <1>8, <1>9 DEF Next, Get, Put

(* The loop counters: a call in flight has not written, and its attempts   *)
(* are within the bound; with it, every call writes at most once.          *)
LEMMA ProgressStep ==
  TypeOK /\ Progress /\ WritesOnce /\ [Next]_vars => Progress' /\ WritesOnce'
<1> SUFFICES ASSUME TypeOK, Progress, WritesOnce, [Next]_vars
             PROVE  Progress' /\ WritesOnce'
  OBVIOUS
<1> USE DEF TypeOK, Progress, WritesOnce, Goto
<1>1. ASSUME NEW c \in Calls, Begin(c) PROVE Progress' /\ WritesOnce'
  BY <1>1 DEF Begin
<1>2. ASSUME NEW c \in Calls, GetFails(c) \/ GetUnusable(c) \/ GetPanics(c)
      PROVE  Progress' /\ WritesOnce'
  BY <1>2 DEF GetFails, GetUnusable, GetPanics
<1>3. ASSUME NEW c \in Calls, GetSucceeds(c) PROVE Progress' /\ WritesOnce'
  BY <1>3 DEF GetSucceeds
<1>4. ASSUME NEW c \in Calls, PutSucceeds(c) \/ PutAnswerLost(c)
      PROVE  Progress' /\ WritesOnce'
  BY <1>4 DEF PutSucceeds, PutAnswerLost, Store
<1>5. ASSUME NEW c \in Calls, PutConflicts(c) PROVE Progress' /\ WritesOnce'
  BY <1>5 DEF PutConflicts
<1>6. ASSUME NEW c \in Calls, PutFails(c) PROVE Progress' /\ WritesOnce'
  BY <1>6 DEF PutFails
<1>7. CASE OtherWriter \/ UNCHANGED vars
  BY <1>7 DEF OtherWriter, vars
<1> QED  BY <1>1, <1>2, <1>3, <1>4, <1>5, <1>6, <1>7 DEF Next, Get, Put

(* The version read is the one reported, because a PUT that is taken was   *)
(* computed from the Secret it replaces.                                   *)
LEMMA ReportStep ==
  TypeOK /\ SnapshotFaithful /\ PrevFaithful /\ ReportedIsReplaced /\ [Next]_vars
    => PrevFaithful' /\ ReportedIsReplaced'
<1> SUFFICES ASSUME TypeOK, SnapshotFaithful, PrevFaithful, ReportedIsReplaced, [Next]_vars
             PROVE  PrevFaithful' /\ ReportedIsReplaced'
  OBVIOUS
<1> USE DEF TypeOK, PrevFaithful, ReportedIsReplaced, Goto
<1>1. ASSUME NEW c \in Calls, Begin(c) \/ GetFails(c) \/ GetUnusable(c) \/ GetPanics(c)
      PROVE  PrevFaithful' /\ ReportedIsReplaced'
  BY <1>1 DEF Begin, GetFails, GetUnusable, GetPanics
<1>2. ASSUME NEW c \in Calls, GetSucceeds(c) PROVE PrevFaithful' /\ ReportedIsReplaced'
  BY <1>2 DEF GetSucceeds, PreviousVersion
<1>3. ASSUME NEW c \in Calls, PutSucceeds(c) \/ PutAnswerLost(c)
      PROVE  PrevFaithful' /\ ReportedIsReplaced'
  <2>1. pc[c] = "put" /\ snap[c] = secret
    BY <1>3 DEF PutSucceeds, PutAnswerLost, Store, Accepts, SnapshotFaithful
  <2>2. replaced' = [replaced EXCEPT ![c] = snap[c].body.version]
    BY <1>3, <2>1 DEF PutSucceeds, PutAnswerLost, Store
  <2> QED  BY <1>3, <2>1, <2>2 DEF PutSucceeds, PutAnswerLost, Store
<1>4. ASSUME NEW c \in Calls, PutConflicts(c) \/ PutFails(c)
      PROVE  PrevFaithful' /\ ReportedIsReplaced'
  BY <1>4 DEF PutConflicts, PutFails
<1>5. CASE OtherWriter \/ UNCHANGED vars
  BY <1>5 DEF OtherWriter, vars
<1> QED  BY <1>1, <1>2, <1>3, <1>4, <1>5 DEF Next, Get, Put

(* A Conflict means that the Secret is beyond the revision that was read,  *)
(* so that the revision pays for every attempt.                            *)
LEMMA AttemptsStep ==
  TypeOK /\ SnapshotFaithful /\ Progress /\ AttemptsPaid
    /\ ExhaustedOnlyUnderContention /\ [Next]_vars
    => AttemptsPaid' /\ ExhaustedOnlyUnderContention'
<1> SUFFICES ASSUME TypeOK, SnapshotFaithful, Progress,
                    AttemptsPaid, ExhaustedOnlyUnderContention, [Next]_vars
             PROVE  AttemptsPaid' /\ ExhaustedOnlyUnderContention'
  OBVIOUS
<1> USE DEF AttemptsPaid, ExhaustedOnlyUnderContention, Goto
<1>0. /\ secret.rv \in Nat /\ \A c \in Calls : snap[c].rv \in Nat
      /\ pc \in [Calls -> {"idle"} \cup InFlight \cup Ended]
      /\ attempt \in [Calls -> 0..updateConflictRetries]
      /\ firstRv \in [Calls -> Nat] /\ snap \in [Calls -> Objects(Bodies)]
  BY DEF TypeOK, Objects
<1>1. ASSUME NEW c \in Calls, Begin(c) \/ GetFails(c) \/ GetUnusable(c) \/ GetPanics(c)
      PROVE  AttemptsPaid' /\ ExhaustedOnlyUnderContention'
  BY <1>0, <1>1 DEF Begin, GetFails, GetUnusable, GetPanics, Progress
<1>2. ASSUME NEW c \in Calls, GetSucceeds(c)
      PROVE  AttemptsPaid' /\ ExhaustedOnlyUnderContention'
  BY <1>0, <1>2 DEF GetSucceeds
<1>3. ASSUME NEW c \in Calls, PutSucceeds(c) \/ PutAnswerLost(c)
      PROVE  AttemptsPaid' /\ ExhaustedOnlyUnderContention'
  <2>1. Store(c)  BY <1>3 DEF PutSucceeds, PutAnswerLost
  <2>2. secret'.rv \in Nat /\ secret'.rv >= secret.rv  BY <2>1, RevisionGrows
  <2> QED  BY <1>0, <1>3, <2>2 DEF PutSucceeds, PutAnswerLost, Store
<1>4. ASSUME NEW c \in Calls, PutConflicts(c)
      PROVE  AttemptsPaid' /\ ExhaustedOnlyUnderContention'
  <2>1. pc[c] = "put" /\ secret.rv # snap[c].rv /\ snap[c].rv <= secret.rv
    BY <1>4 DEF PutConflicts, Accepts, SnapshotFaithful
  <2>2. secret.rv >= firstRv[c] + attempt[c] + 1  BY <1>0, <2>1
  <2> QED  BY <1>0, <1>4, <2>1, <2>2 DEF PutConflicts, Progress
<1>5. ASSUME NEW c \in Calls, PutFails(c)
      PROVE  AttemptsPaid' /\ ExhaustedOnlyUnderContention'
  BY <1>0, <1>5 DEF PutFails
<1>6. CASE OtherWriter
  <2>1. secret'.rv = secret.rv + 1  BY <1>6 DEF OtherWriter
  <2> QED  BY <1>0, <1>6, <2>1 DEF OtherWriter
<1>7. CASE UNCHANGED vars
  BY <1>7 DEF vars
<1> QED  BY <1>1, <1>2, <1>3, <1>4, <1>5, <1>6, <1>7 DEF Next, Get, Put

LEMMA InvStep == IInv /\ [Next]_vars => IInv'
  BY TypeStep, SnapshotStep, ProgressStep, ReportStep, AttemptsStep DEF IInv

LEMMA Invariance == Spec => []IInv
<1>1. Init => IInv  BY InitInv
<1>2. IInv /\ [Next]_vars => IInv'  BY InvStep
<1> QED  BY <1>1, <1>2, PTL DEF Spec

(* TypeOK: whatever the calls and the other writers of the Secret do, the  *)
(* state of UpdateKubernetesVersion keeps its shape, and no call makes     *)
(* more than updateConflictRetries attempts.                               *)
THEOREM TypeCorrect == Spec => []TypeOK
<1>1. IInv => TypeOK  BY DEF IInv
<1> QED  BY <1>1, Invariance, PTL

(* WritesOnce: no call of UpdateKubernetesVersion changes the Secret       *)
(* twice, and every successful one has changed it.                         *)
THEOREM CallsWriteOnce == Spec => []WritesOnce
<1>1. IInv => WritesOnce  BY DEF IInv
<1> QED  BY <1>1, Invariance, PTL

(* ReportedIsReplaced: the previous_version of a successful answer is the  *)
(* version the write replaced, for every number of racing calls.           *)
THEOREM ReportCorrect == Spec => []ReportedIsReplaced
<1>1. IInv => ReportedIsReplaced  BY DEF IInv
<1> QED  BY <1>1, Invariance, PTL

(* ExhaustedOnlyUnderContention: a call gives up only after three writes   *)
(* by others since it began.                                               *)
THEOREM ExhaustionPaid == Spec => []ExhaustedOnlyUnderContention
<1>1. IInv => ExhaustedOnlyUnderContention  BY DEF IInv
<1> QED  BY <1>1, Invariance, PTL

(* A write of the Secret by a call is the update, applied to the Secret of *)
(* that moment.                                                            *)
LEMMA StoreIsUpdate ==
  ASSUME TypeOK, SnapshotFaithful, NEW c \in Calls, Store(c)
  PROVE  /\ secret.body.form = "map"
         /\ secret'.body = [secret.body EXCEPT !.version = Target[c]]
<1>1. snap[c] = secret /\ secret.body.form = "map"
  BY DEF Store, Accepts, SnapshotFaithful
<1>2. Updated(c) = [secret.body EXCEPT !.version = Target[c]]  BY <1>1 DEF Updated
<1>3. secret'.body = Updated(c)  BY DEF Store, Stored
<1> QED  BY <1>1, <1>2, <1>3

(* NoLostUpdate: no call of UpdateKubernetesVersion rolls back what others *)
(* wrote to the Secret between its GetSecret and its UpdateSecret.         *)
THEOREM NothingLost == Spec => NoLostUpdate
<1> DEFINE A == \A c \in Calls : writes'[c] # writes[c] =>
                  secret'.body = [secret.body EXCEPT !.version = Target[c]]
<1>1. IInv /\ [Next]_vars => [A]_vars
  <2> SUFFICES ASSUME IInv, Next, NEW d \in Calls, writes'[d] # writes[d]
               PROVE  secret'.body = [secret.body EXCEPT !.version = Target[d]]
    OBVIOUS
  <2>1. TypeOK /\ SnapshotFaithful  BY DEF IInv
  <2>2. ASSUME NEW c \in Calls, Begin(c) \/ Get(c) PROVE FALSE
    BY <2>2 DEF Begin, Get, GetFails, GetUnusable, GetPanics, GetSucceeds
  <2>3. ASSUME NEW c \in Calls, PutConflicts(c) \/ PutFails(c) PROVE FALSE
    BY <2>3 DEF PutConflicts, PutFails
  <2>4. ~OtherWriter  BY DEF OtherWriter
  <2>5. PICK c \in Calls : PutSucceeds(c) \/ PutAnswerLost(c)
    BY <2>2, <2>3, <2>4 DEF Next, Put
  <2>6. Store(c)  BY <2>5 DEF PutSucceeds, PutAnswerLost
  <2>7. c = d  BY <2>1, <2>6 DEF Store, TypeOK
  <2> QED  BY <2>1, <2>6, <2>7, StoreIsUpdate
<1>2. Spec => [][A]_vars  BY <1>1, Invariance, PTL DEF Spec
<1> QED  BY <1>2 DEF NoLostUpdate
------------------------------------------------------------------------------
(* The refinement. *)

LEMMA InitRefines == TypeOK /\ Init => Atomic!Init
  BY DEF TypeOK, Init, Atomic!Init, Objects

(* The image of a step that ends the calls in S without effect. *)
LEMMA FailRefines ==
  ASSUME NEW S \in SUBSET Calls, NEW l \in Failures,
         \A c \in S : pc[c] \in InFlight,
         pc' = [c \in Calls |-> IF c \in S THEN l ELSE pc[c]],
         UNCHANGED <<secret, prev, foreign>>
  PROVE  Atomic!Fail(S)
<1> DEFINE st == [c \in Calls |-> IF pc[c] = "ok" THEN "ok"
                                  ELSE IF pc[c] \in Failures THEN "failed" ELSE "running"]
<1>1. \A c \in S : st[c] = "running"  OBVIOUS
<1>2. st' = [c \in Calls |-> IF c \in S THEN "failed" ELSE st[c]]
  OBVIOUS
<1>3. [c \in Calls |-> IF pc[c] = "ok" THEN prev[c] ELSE None]'
        = [c \in Calls |-> IF pc[c] = "ok" THEN prev[c] ELSE None]
  OBVIOUS
<1> QED  BY <1>1, <1>2, <1>3 DEF Atomic!Fail

(* The image of a step that leaves every call as far as it was. *)
LEMMA StutterRefines ==
  ASSUME UNCHANGED <<secret, foreign>>,
         \A c \in Calls : \/ pc'[c] = pc[c] /\ prev'[c] = prev[c]
                          \/ pc[c] \in {"idle", "get", "put"} /\ pc'[c] \in {"get", "put"}
  PROVE  UNCHANGED Atomic!vars
<1>1. [c \in Calls |-> IF pc[c] = "ok" THEN "ok"
                       ELSE IF pc[c] \in Failures THEN "failed" ELSE "running"]'
        = [c \in Calls |-> IF pc[c] = "ok" THEN "ok"
                           ELSE IF pc[c] \in Failures THEN "failed" ELSE "running"]
  OBVIOUS
<1>2. [c \in Calls |-> IF pc[c] = "ok" THEN prev[c] ELSE None]'
        = [c \in Calls |-> IF pc[c] = "ok" THEN prev[c] ELSE None]
  OBVIOUS
<1> QED  BY <1>1, <1>2 DEF Atomic!vars

LEMMA PutRefines ==
  ASSUME IInv, NEW c \in Calls, PutSucceeds(c) \/ PutAnswerLost(c)
  PROVE  Atomic!Succeed(c) \/ Atomic!TakeEffectAndFail(c)
<1> DEFINE st == [d \in Calls |-> IF pc[d] = "ok" THEN "ok"
                                  ELSE IF pc[d] \in Failures THEN "failed" ELSE "running"]
           rp == [d \in Calls |-> IF pc[d] = "ok" THEN prev[d] ELSE None]
<1>0. TypeOK /\ SnapshotFaithful /\ PrevFaithful  BY DEF IInv
<1>1. Store(c)  BY DEF PutSucceeds, PutAnswerLost
<1>2. /\ pc \in [Calls -> {"idle"} \cup InFlight \cup Ended] /\ pc[c] = "put"
      /\ prev[c] \in Versions \cup {None} /\ prev' = prev /\ foreign' = foreign
  BY <1>0, <1>1 DEF TypeOK, Store
<1>3. Atomic!Effect(c)
  <2>1. st[c] = "running"  BY <1>2
  <2> QED  BY <2>1, <1>0, <1>1, <1>2, StoreIsUpdate DEF Atomic!Effect
<1>4. CASE PutSucceeds(c)
  <2>1. pc' = [pc EXCEPT ![c] = "ok"]  BY <1>4 DEF PutSucceeds, Goto
  <2>2. st' = [st EXCEPT ![c] = "ok"]  BY <1>2, <2>1
  <2>3. rp' = [rp EXCEPT ![c] = prev[c]]  BY <1>2, <2>1
  <2>4. secret.body.version # None => prev[c] = Shown(secret.body.version)
    BY <1>0, <1>1 DEF Store, Accepts, SnapshotFaithful, PrevFaithful
  <2>5. /\ secret.body.version = Blank => prev[c] = None
        /\ secret.body.version \in Versions => prev[c] = secret.body.version
    BY <2>4, VersionsAssumption DEF Shown
  <2> QED  BY <1>2, <1>3, <2>2, <2>3, <2>5 DEF Atomic!Succeed
<1>5. CASE PutAnswerLost(c)
  <2>1. pc' = [pc EXCEPT ![c] = "error"]  BY <1>5 DEF PutAnswerLost, Goto
  <2>2. st' = [st EXCEPT ![c] = "failed"]  BY <1>2, <2>1
  <2>3. rp' = rp  BY <1>2, <2>1
  <2> QED  BY <1>3, <2>2, <2>3 DEF Atomic!TakeEffectAndFail
<1> QED  BY <1>4, <1>5

(* Every step of the calls and their surroundings is a step of AtomicVersion *)
(* or leaves its variables alone.                                            *)
LEMMA StepRefines == IInv /\ IInv' /\ [Next]_vars => [Atomic!Next]_(Atomic!vars)
<1> SUFFICES ASSUME IInv, IInv', [Next]_vars PROVE Atomic!Next \/ UNCHANGED Atomic!vars
  OBVIOUS
<1>0. /\ TypeOK /\ TypeOK'
      /\ pc \in [Calls -> {"idle"} \cup InFlight \cup Ended]
  BY DEF IInv, TypeOK
<1>1. ASSUME NEW c \in Calls,
             Begin(c) \/ GetSucceeds(c) \/ (PutConflicts(c) /\ pc'[c] = "get")
      PROVE  UNCHANGED Atomic!vars
  <2>1. pc[c] \in {"idle", "get", "put"} /\ pc'[c] \in {"get", "put"}
    BY <1>0, <1>1 DEF Begin, GetSucceeds, PutConflicts, Goto
  <2>2. \A d \in Calls \ {c} : pc'[d] = pc[d] /\ prev'[d] = prev[d]
    BY <1>0, <1>1 DEF Begin, GetSucceeds, PutConflicts, Goto, TypeOK
  <2>3. UNCHANGED <<secret, foreign>>  BY <1>1 DEF Begin, GetSucceeds, PutConflicts
  <2> QED  BY <2>1, <2>2, <2>3, StutterRefines
<1>2. ASSUME NEW c \in Calls, NEW l \in Failures, pc[c] \in InFlight,
             Goto(c, l), UNCHANGED <<secret, prev, foreign>>
      PROVE  Atomic!Next
  <2>1. pc' = [d \in Calls |-> IF d \in {c} THEN l ELSE pc[d]]
    BY <1>0, <1>2 DEF Goto
  <2>2. Atomic!Fail({c})  BY <1>2, <2>1, FailRefines
  <2> QED  BY <2>2 DEF Atomic!Next
<1>3. ASSUME NEW c \in Calls, GetFails(c) \/ GetUnusable(c) \/ PutFails(c)
      PROVE  Atomic!Next
  BY <1>2, <1>3 DEF GetFails, GetUnusable, PutFails
<1>4. ASSUME NEW c \in Calls, PutConflicts(c), pc'[c] # "get"
      PROVE  Atomic!Next
  <2>1. Goto(c, "exhausted")  BY <1>0, <1>4 DEF PutConflicts, Goto
  <2> QED  BY <1>2, <1>4, <2>1 DEF PutConflicts
<1>5. ASSUME NEW c \in Calls, GetPanics(c) PROVE Atomic!Next
  <2>1. PICK S \in SUBSET Calls : S = {d \in Calls : pc[d] \in InFlight}
    OBVIOUS
  <2>2. \A d \in S : pc[d] \in InFlight  BY <2>1
  <2>3. pc' = [d \in Calls |-> IF d \in S THEN "panic" ELSE pc[d]]
    BY <1>5, <2>1 DEF GetPanics
  <2>4. UNCHANGED <<secret, prev, foreign>>  BY <1>5 DEF GetPanics
  <2>5. Atomic!Fail(S)  BY <2>2, <2>3, <2>4, FailRefines
  <2> QED  BY <2>5 DEF Atomic!Next
<1>6. ASSUME NEW c \in Calls, PutSucceeds(c) \/ PutAnswerLost(c) PROVE Atomic!Next
  BY <1>6, PutRefines DEF Atomic!Next
<1>7. CASE OtherWriter
  <2>1. secret'.body \in Bodies /\ foreign' = foreign + 1  BY <1>7 DEF OtherWriter
  <2>2. UNCHANGED <<pc, prev>>  BY <1>7 DEF OtherWriter
  <2> QED  BY <2>1, <2>2 DEF Atomic!Next, Atomic!External
<1>8. CASE UNCHANGED vars
  BY <1>8, StutterRefines DEF vars
<1>9. ASSUME NEW c \in Calls, Begin(c) \/ Get(c) \/ Put(c)
      PROVE  Atomic!Next \/ UNCHANGED Atomic!vars
  <2>1. CASE Begin(c) \/ GetSucceeds(c)  BY <1>1, <2>1
  <2>2. CASE PutConflicts(c)  BY <1>1, <1>4, <2>2
  <2>3. CASE GetFails(c) \/ GetUnusable(c) \/ PutFails(c)  BY <1>3, <2>3
  <2>4. CASE GetPanics(c)  BY <1>5, <2>4
  <2>5. CASE PutSucceeds(c) \/ PutAnswerLost(c)  BY <1>6, <2>5
  <2> QED  BY <1>9, <2>1, <2>2, <2>3, <2>4, <2>5 DEF Get, Put
<1> QED  BY <1>7, <1>8, <1>9 DEF Next

(* AtomicSpec: the GET and PUT loop of UpdateKubernetesVersion implements  *)
(* an atomic update of the version, for every number of racing calls.      *)
THEOREM Refinement == Spec => AtomicSpec
<1>1. Spec => Init /\ [][Next]_vars  BY DEF Spec
<1>2. IInv /\ Init => Atomic!Init  BY InitRefines DEF IInv
<1>3. IInv /\ IInv' /\ [Next]_vars => [Atomic!Next]_(Atomic!vars)  BY StepRefines
<1>4. Spec => Atomic!Spec  BY <1>1, <1>2, <1>3, Invariance, PTL DEF Atomic!Spec
<1> QED  BY <1>4 DEF AtomicSpec
==============================================================================
