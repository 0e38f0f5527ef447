------------------------ MODULE ServedReleasesProofs -------------------------
(***************************************************************************)
(* Theorems about ServedReleases, for any calls, clients, operators and    *)
(* restarts.  Every step of the served system is one of ReleaseApproval or *)
(* leaves its variables alone; the properties of the calls, their          *)
(* refinement of AtMostOnce included, are proved over those steps, the one *)
(* about the process over its own.                                         *)
(***************************************************************************)
EXTENDS ServedReleases, TLAPS

USE DEF vars, approvalVars, processVars

(* The steps of ReleaseApproval, its stuttering steps included. *)
ApprovalStep == Approval!Next \/ UNCHANGED approvalVars

LEMMA StepMaps == [Next]_vars => ApprovalStep
<1> SUFFICES ASSUME [Next]_vars PROVE ApprovalStep
  OBVIOUS
<1> USE DEF ApprovalStep, Approval!Next
<1>1. ASSUME NEW c \in Calls, CallBegins(c) \/ CallGoesOn(c) \/ PatchArrives(c)
      PROVE  ApprovalStep
  BY <1>1 DEF CallBegins, CallGoesOn, PatchArrives
<1>2. CASE ServerStep  BY <1>2 DEF ServerStep
<1>3. CASE Exit \/ Crash  BY <1>3 DEF Exit, Crash
<1>4. CASE Restart  BY <1>4 DEF Restart
<1>5. CASE Others  BY <1>5 DEF Others
<1>6. CASE UNCHANGED vars  BY <1>6
<1> QED  BY <1>1, <1>2, <1>3, <1>4, <1>5, <1>6 DEF Next
------------------------------------------------------------------------------
(* The calls. *)

(* Between the GET and the patch prev is the annotation, unless others     *)
(* have changed it since; what a call has patched stands until an operator *)
(* removes it.                                                             *)
Reading ==
  \A c \in Calls :
    /\ Approval!Between(c) /\ ~met[c] => prev[c] = annotated
    /\ pc[c] \in {"patch", "ok"} /\ c \in taken /\ ~met[c] => prev[c] = ~made[c]
    /\ stands[c] => annotated

CallInv == Approval!TypeOK /\ Reading

LEMMA CallInit == Init => CallInv
<1> SUFFICES ASSUME Init PROVE CallInv
  OBVIOUS
<1> USE DEF Init, Approval!Init
<1>1. Approval!TypeOK  BY DEF Approval!TypeOK, Approval!States
<1>2. Reading  BY DEF Reading, Approval!Between
<1> QED  BY <1>1, <1>2 DEF CallInv

LEMMA CallStep == CallInv /\ ApprovalStep => CallInv'
<1> SUFFICES ASSUME CallInv, ApprovalStep PROVE CallInv'
  OBVIOUS
<1> USE DEF CallInv, Reading, Approval!Between,
            Approval!TypeOK, Approval!States, Approval!InFlight,
            Approval!release, Approval!historyVars
<1>1. ASSUME NEW c \in Calls, Approval!Begin(c) PROVE CallInv'
  BY <1>1 DEF Approval!Begin
<1>2. ASSUME NEW c \in Calls, Approval!Get(c) PROVE CallInv'
  <2> USE <1>2 DEF Approval!Get
  <2>1. Approval!TypeOK'  OBVIOUS
  <2>2. Reading'  OBVIOUS
  <2> QED  BY <2>1, <2>2
<1>3. ASSUME NEW c \in Calls, Approval!PatchTaken(c) PROVE CallInv'
  <2> USE <1>3 DEF Approval!PatchTaken, Approval!Approves
  <2>1. Approval!TypeOK'  OBVIOUS
  <2>2. ASSUME NEW d \in Calls
        PROVE  /\ Approval!Between(d)' /\ ~met'[d] => prev'[d] = annotated'
               /\ pc'[d] \in {"patch", "ok"} /\ d \in taken' /\ ~met'[d]
                    => prev'[d] = ~made'[d]
               /\ stands'[d] => annotated'
    <3>1. CASE d = c  BY <2>2, <3>1
    <3>2. CASE d # c  BY <2>2, <3>2
    <3> QED  BY <3>1, <3>2
  <2> QED  BY <2>1, <2>2
<1>4. ASSUME NEW c \in Calls, Approval!PatchLost(c) PROVE CallInv'
  BY <1>4 DEF Approval!PatchLost
<1>5. ASSUME NEW c \in Calls, Approval!Answered(c) PROVE CallInv'
  <2> USE <1>5 DEF Approval!Answered
  <2>1. Approval!TypeOK'  OBVIOUS
  <2>2. Reading'  OBVIOUS
  <2> QED  BY <2>1, <2>2
<1>6. ASSUME NEW c \in Calls, Approval!RequestFails(c) PROVE CallInv'
  BY <1>6 DEF Approval!RequestFails
<1>7. CASE Approval!ProcessEnds  BY <1>7 DEF Approval!ProcessEnds
<1>8. CASE Approval!OperatorWrites
  <2> USE <1>8 DEF Approval!OperatorWrites
  <2>1. Approval!TypeOK'  OBVIOUS
  <2>2. Reading'  OBVIOUS
  <2> QED  BY <2>1, <2>2
<1>9. CASE Approval!DeckhouseWrites  BY <1>9 DEF Approval!DeckhouseWrites
<1>10. CASE UNCHANGED approvalVars  BY <1>10
<1> QED
  BY <1>1, <1>2, <1>3, <1>4, <1>5, <1>6, <1>7, <1>8, <1>9, <1>10
     DEF ApprovalStep, Approval!Next, Approval!Continues, Approval!OnTheWire,
         Approval!World

LEMMA CallsHold == Spec => []CallInv
  BY CallInit, CallStep, StepMaps, PTL DEF Spec

(* PreviousAnnotation: previous_approved is FALSE exactly in the answer of *)
(* the call whose patch set the annotation, unless others interfered.      *)
THEOREM PreviousCorrect == Spec => []PreviousAnnotation
<1>1. CallInv => PreviousAnnotation
  BY DEF CallInv, Reading, PreviousAnnotation, Approval!PreviousAnnotation, Approval!TypeOK
<1> QED  BY <1>1, CallsHold, PTL

(* ReadYourApproval: GetDeckhouseRelease shows what ApproveRelease did.    *)
THEOREM ApprovalVisible == Spec => []ReadYourApproval
<1>1. CallInv => ReadYourApproval
  BY DEF CallInv, Reading, ReadYourApproval, Approval!ReadYourApproval,
         Approval!GetDeckhouseRelease
<1> QED  BY <1>1, CallsHold, PTL
------------------------------------------------------------------------------
(* The promise. *)

(* How a call is going, for its client. *)
Status(c) == IF pc[c] \in {"ok", "error", "idle"} THEN pc[c] ELSE "running"
St == [c \in Calls |-> Status(c)]

(* A step of the calls in S from running to an error. *)
LEMMA FailKept ==
  ASSUME NEW S \in SUBSET Calls, \A c \in S : Status(c) = "running",
         \A c \in Calls : Status(c)' = IF c \in S THEN "error" ELSE Status(c),
         UNCHANGED <<annotated, operators, taken>>
  PROVE  Approval!Promise!Next
<1>1. St' = [c \in Calls |-> IF c \in S THEN "error" ELSE St[c]]
  BY DEF St
<1>2. Approval!Promise!Fail(S)
  BY <1>1 DEF Approval!Promise!Fail, St, Status
<1> QED  BY <1>2 DEF Approval!Promise!Next

(* Every step of ReleaseApproval is one of AtMostOnce, or none. *)
LEMMA PromiseKept ==
  CallInv /\ ApprovalStep => [Approval!Promise!Next]_(Approval!Promise!vars)
<1> SUFFICES ASSUME CallInv, ApprovalStep
             PROVE  Approval!Promise!Next \/ UNCHANGED Approval!Promise!vars
  OBVIOUS
<1>0. /\ pc \in [Calls -> {"idle", "get", "patch", "ok", "error"}]
      /\ wire \cap taken = {}
      /\ \A c \in Calls : pc[c] \in {"idle", "get"} => c \notin wire \cup taken
      /\ \A c \in Calls : pc[c] = "ok" => c \in taken
  BY DEF CallInv, Approval!TypeOK, Approval!States
<1> USE DEF Approval!release, Approval!historyVars
<1>1. ASSUME NEW c \in Calls, Approval!Begin(c) PROVE Approval!Promise!Next
  <2>1. Status(c) = "idle" /\ St' = [St EXCEPT ![c] = "running"]
    BY <1>0, <1>1 DEF Approval!Begin, St, Status
  <2>2. Approval!Promise!Begin(c)
    BY <1>1, <2>1 DEF Approval!Begin, Approval!Promise!Begin, St, Status
  <2> QED  BY <2>2 DEF Approval!Promise!Next
<1>2. ASSUME UNCHANGED <<annotated, operators, taken>>, St' = St
      PROVE  UNCHANGED Approval!Promise!vars
  BY <1>2 DEF Approval!Promise!vars, St, Status
<1>3. ASSUME NEW c \in Calls, Approval!Get(c) PROVE UNCHANGED Approval!Promise!vars
  <2>1. St' = St  BY <1>0, <1>3 DEF Approval!Get, St, Status
  <2> QED  BY <1>2, <1>3, <2>1 DEF Approval!Get
<1>4. ASSUME NEW c \in Calls, Approval!PatchTaken(c) PROVE Approval!Promise!Next
  <2>1. pc' = pc /\ c \in wire  BY <1>4 DEF Approval!PatchTaken
  <2>2. c \notin taken
    <3>1. ASSUME c \in taken PROVE FALSE
      <4>1. c \in wire \cap taken  BY <2>1, <3>1
      <4> QED  BY <1>0, <4>1
    <3> QED  BY <3>1
  <2>3. pc[c] \in {"patch", "error"}
    <3>1. pc[c] \in {"idle", "get", "patch", "ok", "error"}  BY <1>0, <1>4
    <3>2. pc[c] # "ok"  BY <1>0, <2>2
    <3>3. c \in wire \cup taken  BY <2>1
    <3>4. ~(pc[c] \in {"idle", "get"})  BY <1>0, <3>3
    <3> QED  BY <3>1, <3>2, <3>4
  <2>4. Status(c) \in {"running", "error"}  BY <2>3 DEF Status
  <2>5. Approval!Promise!TakeEffect(c)
    BY <1>4, <2>1, <2>2, <2>4
       DEF Approval!PatchTaken, Approval!Approves, Approval!Promise!TakeEffect, Status
  <2> QED  BY <2>5 DEF Approval!Promise!Next
<1>5. ASSUME NEW c \in Calls, Approval!PatchLost(c) PROVE UNCHANGED Approval!Promise!vars
  <2>1. St' = St  BY <1>5 DEF Approval!PatchLost, St, Status
  <2> QED  BY <1>2, <1>5, <2>1 DEF Approval!PatchLost
<1>6. ASSUME NEW c \in Calls, Approval!Answered(c) PROVE Approval!Promise!Next
  <2>1. Status(c) = "running" /\ c \in taken /\ St' = [St EXCEPT ![c] = "ok"]
    BY <1>0, <1>6 DEF Approval!Answered, St, Status
  <2>2. Approval!Promise!Succeed(c)
    BY <1>6, <2>1 DEF Approval!Answered, Approval!Promise!Succeed, St, Status
  <2> QED  BY <2>2 DEF Approval!Promise!Next
<1>7. ASSUME NEW c \in Calls, Approval!RequestFails(c) PROVE Approval!Promise!Next
  <2>1. Status(c) = "running"
    BY <1>7 DEF Approval!RequestFails, Approval!InFlight, Status
  <2>2. \A d \in Calls : Status(d)' = IF d \in {c} THEN "error" ELSE Status(d)
    BY <1>0, <1>7 DEF Approval!RequestFails, Status
  <2> QED  BY <1>7, <2>1, <2>2, FailKept DEF Approval!RequestFails
<1>8. CASE Approval!ProcessEnds
  <2>1. PICK S \in SUBSET Calls : S = {c \in Calls : Approval!InFlight(c)}
    OBVIOUS
  <2>2. \A c \in S : Status(c) = "running"
    BY <2>1 DEF Approval!InFlight, Status
  <2>3. \A c \in Calls : Status(c)' = IF c \in S THEN "error" ELSE Status(c)
    BY <1>0, <1>8, <2>1 DEF Approval!ProcessEnds, Approval!InFlight, Status
  <2> QED  BY <1>8, <2>2, <2>3, FailKept DEF Approval!ProcessEnds
<1>9. CASE Approval!OperatorWrites
  <2>1. Approval!Promise!External
    BY <1>9 DEF Approval!OperatorWrites, Approval!Promise!External
  <2> QED  BY <2>1 DEF Approval!Promise!Next
<1>10. CASE Approval!DeckhouseWrites
  <2>1. St' = St  BY <1>10 DEF Approval!DeckhouseWrites, St, Status
  <2> QED  BY <1>2, <1>10, <2>1 DEF Approval!DeckhouseWrites
<1>11. CASE UNCHANGED approvalVars
  <2>1. St' = St  BY <1>11 DEF St, Status
  <2> QED  BY <1>2, <1>11, <2>1
<1> QED
  BY <1>1, <1>3, <1>4, <1>5, <1>6, <1>7, <1>8, <1>9, <1>10, <1>11
     DEF ApprovalStep, Approval!Next, Approval!Continues, Approval!OnTheWire,
         Approval!World

(* AtMostOnceSpec: whatever fails, ends or arrives late, a call of         *)
(* ApproveRelease sets the annotation at most once, and before its success *)
(* is answered.                                                            *)
THEOREM ApprovesAtMostOnce == Spec => AtMostOnceSpec
<1>1. Init => Approval!Promise!Init
  BY DEF Init, Approval!Init, Approval!Promise!Init
<1>2. CallInv /\ [Next]_vars => [Approval!Promise!Next]_(Approval!Promise!vars)
  BY StepMaps, PromiseKept
<1> QED
  BY <1>1, <1>2, CallsHold, PTL DEF Spec, AtMostOnceSpec, Approval!Promise!Spec
------------------------------------------------------------------------------
(* The process. *)

(* What the channel and the shutdown have behind them. *)
ProcessInv ==
  /\ ProcessOK
  /\ serverErr = "error" => listener = "failed"
  /\ main = "shutdown" => signalled

LEMMA ProcessInit == Init => ProcessInv /\ CountersOK
<1>1. Init => ProcessInv
  BY Zenon DEF Init, Process!Init, ProcessInv, ProcessOK
<1>2. Init => CountersOK
  BY BoundsAssumption DEF Init, Process!Init, CountersOK
<1> QED  BY <1>1, <1>2

LEMMA CountersStep == CountersOK /\ [Next]_vars => CountersOK'
<1> SUFFICES ASSUME CountersOK, [Next]_vars PROVE CountersOK'
  OBVIOUS
<1> USE BoundsAssumption DEF CountersOK
<1>1. CASE UNCHANGED <<waited, starts>>  BY <1>1
<1>2. CASE ServerStep /\ ~UNCHANGED <<waited, starts>>
  BY <1>2 DEF ServerStep, Process!Listening, Process!ListenFails,
     Process!SendError, Process!CloseChannel, Process!SelectSignal,
     Process!Environment, Process!Signal, Process!Tick, Process!Connects,
     Process!Disconnects
<1>3. CASE (Exit \/ Crash) /\ ~UNCHANGED <<waited, starts>>
  BY <1>3 DEF Exit, Process!ExitStep, Process!SelectError, Process!ShutdownDone,
              Process!ShutdownTimesOut, Crash, Process!Panics
<1>4. CASE Restart  BY <1>4 DEF Restart
<1> QED
  BY <1>1, <1>2, <1>3, <1>4 DEF Next, CallBegins, CallGoesOn, PatchArrives, Others

LEMMA ProcessStep == ProcessInv /\ [Next]_vars => ProcessInv'
<1> SUFFICES ASSUME ProcessInv, [Next]_vars PROVE ProcessInv'
  OBVIOUS
<1> USE DEF ProcessInv, ProcessOK
<1>1. ASSUME UNCHANGED <<processVars, starts>> PROVE ProcessInv'
  BY <1>1
<1>2. CASE ServerStep
  <2>1. CASE Process!Listening
    BY <1>2, <2>1 DEF ServerStep, Process!Listening, Process!ListenFails,
         Process!SendError, Process!CloseChannel, Process!Accepting, Process!Running
  <2>2. CASE Process!SelectSignal
    BY <1>2, <2>2 DEF ServerStep, Process!SelectSignal
  <2>3. CASE Process!Signal
    BY <1>2, <2>3, Zenon DEF ServerStep, Process!Signal
  <2>4. CASE Process!Tick
    BY <1>2, <2>4 DEF ServerStep, Process!Tick
  <2>5. ASSUME NEW k \in Clients, Process!Connects(k) \/ Process!Disconnects(k)
        PROVE  ProcessInv'
    BY <1>2, <2>5 DEF ServerStep, Process!Connects, Process!Disconnects
  <2> QED
    BY <1>2, <2>1, <2>2, <2>3, <2>4, <2>5 DEF ServerStep, Process!Environment
<1>3. CASE Exit
  <2>1. UNCHANGED <<listener, serverErr, signalled, conn>> /\ main' = "exited"
    BY <1>3 DEF Exit, Process!ExitStep, Process!SelectError, Process!ShutdownDone,
                Process!ShutdownTimesOut, Process!Exits
  <2>2. exit' \in {"http server", "nil", "http shutdown"}
    BY <1>3 DEF Exit, Process!ExitStep, Process!SelectError, Process!ShutdownDone,
                Process!ShutdownTimesOut, Process!Exits
  <2> QED  BY <2>1, <2>2
<1>4. CASE Restart
  BY <1>4, Zenon DEF Restart
<1>5. CASE Crash
  BY <1>5, Zenon DEF Crash, Process!Panics, Process!Exits
<1> QED
  BY <1>1, <1>2, <1>3, <1>4, <1>5 DEF Next, CallBegins, CallGoesOn, PatchArrives, Others

LEMMA ProcessHolds == Spec => [](ProcessInv /\ CountersOK)
  BY ProcessInit, ProcessStep, CountersStep, PTL DEF Spec

(* TypeOK for any calls, clients and bounds. *)
THEOREM TypeCorrect == Spec => []TypeOK
<1>1. CallInv /\ ProcessInv /\ CountersOK => TypeOK  BY DEF CallInv, ProcessInv, TypeOK
<1> QED  BY <1>1, CallsHold, ProcessHolds, PTL

(* CutOffOnlyAfterGrace: a connected client loses its call only to a       *)
(* shutdown that has lasted shutdownTimeout, to a failed listener or to a  *)
(* panic; a signal alone never takes it.                                   *)
THEOREM GraceIsGiven == Spec => CutOffOnlyAfterGrace
<1>1. ASSUME ProcessInv, [Next]_vars, NEW c \in Calls PROVE CutOffInTime(c)
  <2> SUFFICES ASSUME ClientOf[c] \in conn, main # "exited", main' = "exited"
               PROVE  \/ signalled /\ waited = shutdownTimeout
                      \/ listener = "failed"
                      \/ exit' = "panic"
    BY DEF CutOffInTime
  <2>1. Exit \/ Crash
    <3>1. ~ServerStep
      BY DEF ServerStep, Process!Listening, Process!ListenFails,
             Process!SendError, Process!CloseChannel, Process!SelectSignal,
             Process!Environment, Process!Signal, Process!Tick,
             Process!Connects, Process!Disconnects
    <3> QED  BY <1>1, <3>1 DEF Next, CallBegins, CallGoesOn, PatchArrives, Others, Restart
  <2>2. CASE Exit
    BY <1>1, <2>2 DEF ProcessInv, Exit, Process!ExitStep, Process!SelectError,
         Process!ShutdownDone, Process!ShutdownTimesOut
  <2>3. CASE Crash
    BY <2>3 DEF Crash, Process!Panics, Process!Exits
  <2> QED  BY <2>1, <2>2, <2>3
<1>2. ProcessInv /\ [Next]_vars => \A c \in Calls : CutOffInTime(c)
  BY <1>1
<1> QED  BY <1>2, ProcessHolds, PTL DEF Spec, CutOffOnlyAfterGrace
==============================================================================
