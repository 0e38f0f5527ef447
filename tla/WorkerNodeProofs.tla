-------------------------- MODULE WorkerNodeProofs ---------------------------
(***************************************************************************)
(* Theorems about AddWorkerNode and WaitNodeReady, for any number of       *)
(* calls, any timeouts, and anything the cluster may do.                   *)
(***************************************************************************)
EXTENDS WorkerNode, TLAPS

USE DEF Ended

(* Before a call ends it has neither seen Running nor timed out; only a    *)
(* sleeping call has a timer; a call that only waits provisions nothing.   *)
Underway ==
  \A c \in Calls :
    /\ pc[c] \notin Ended => phase[c] # "Running" /\ ~timedOut[c]
    /\ pc[c] \in {"idle", "creds", "inst", "poll", "check"} => nap[c] = 0
    /\ pc[c] \in {"creds", "inst"} => Kind[c] # "wait"

IInv == TypeOK /\ Underway /\ CredsAreOwn /\ AnswerMatchesPhase /\ OverrunBounded

LEMMA InitInv == Init => IInv
<1> SUFFICES ASSUME Init PROVE IInv
  OBVIOUS
<1>1. TypeOK
  <2>1. creds \in Creators \cup {None}  BY DEF Init, Creators
  <2>2. inst \in Instances \cup {None}  BY DEF Init, Creators, Instances, Phases
  <2>3. nap \in [Calls -> 0..pollInterval] /\ left \in [Calls -> Int]
    <3>1. 0 \in 0..pollInterval /\ 0 \in Int  BY TimeAssumption
    <3>2. nap = [c \in Calls |-> 0] /\ left = [c \in Calls |-> 0]  BY DEF Init
    <3> QED  BY <3>1, <3>2
  <2>4. phase \in [Calls -> Phases] /\ timedOut \in [Calls -> BOOLEAN] /\ meddled \in BOOLEAN
    BY DEF Init, Phases
  <2>5. pc \in [Calls -> {"idle", "creds", "inst", "poll", "check", "sleep"} \cup Ended]
    BY DEF Init
  <2> QED  BY <2>1, <2>2, <2>3, <2>4, <2>5 DEF TypeOK
<1>2. Underway  BY DEF Init, Underway
<1>3. CredsAreOwn  BY DEF Init, CredsAreOwn, HasCreds
<1>4. AnswerMatchesPhase
  <2>1. \A c \in Calls : pc[c] = "idle" /\ ~timedOut[c]  BY DEF Init
  <2> QED  BY <2>1 DEF AnswerMatchesPhase
<1>5. OverrunBounded
  <2>1. \A c \in Calls : nap[c] = 0  BY DEF Init
  <2> QED  BY <2>1 DEF OverrunBounded
<1> QED  BY <1>1, <1>2, <1>3, <1>4, <1>5 DEF IInv

(* Every step keeps the types. *)
LEMMA TypeStep == TypeOK /\ [Next]_vars => TypeOK'
<1> SUFFICES ASSUME TypeOK, [Next]_vars PROVE TypeOK'
  OBVIOUS
<1> USE TimeAssumption DEF TypeOK, Goto, cluster, pollVars
<1>1. ASSUME NEW c \in Calls, Begin(c) PROVE TypeOK'
  BY <1>1 DEF Begin, StartPolling
<1>2. ASSUME NEW c \in Calls, CreateCreds(c) \/ CredsFail(c) \/ InstFails(c) PROVE TypeOK'
  BY <1>2 DEF CreateCreds, CredsFail, InstFails, Creators
<1>3. ASSUME NEW c \in Calls, CreateInst(c) PROVE TypeOK'
  BY <1>3 DEF CreateInst, Provisioned, StartPolling, Creators, Instances
<1>4. ASSUME NEW c \in Calls, Poll(c) PROVE TypeOK'
  <2>1. inst \in Instances  BY <1>4 DEF Poll
  <2>2. phase' \in [Calls -> Phases]  BY <1>4, <2>1 DEF Poll, Instances
  <2> QED  BY <1>4, <2>2 DEF Poll
<1>5. ASSUME NEW c \in Calls,
             PollFails(c) \/ TimeIsUp(c) \/ Sleep(c) \/ Wake(c) \/ Cancelled(c)
      PROVE  TypeOK'
  <2>1. CASE PollFails(c) \/ TimeIsUp(c) \/ Wake(c) \/ Cancelled(c)
    BY <2>1 DEF PollFails, TimeIsUp, Wake, Cancelled
  <2>2. CASE Sleep(c)
    <3>1. pollInterval \in 0..pollInterval  OBVIOUS
    <3> QED  BY <2>2, <3>1 DEF Sleep
  <2> QED  BY <1>5, <2>1, <2>2
<1>6. CASE Tick
  BY <1>6 DEF Tick
<1>7. CASE DeleteSSHCredentials
  BY <1>7 DEF DeleteSSHCredentials
<1>8. CASE DeleteStaticInstance \/ DeckhouseActs \/ SomeoneCreates
  <2>1. inst # None => inst \in Instances  OBVIOUS
  <2>2. \A p \in Phases : inst # None => [inst EXCEPT !.phase = p] \in Instances
    BY <2>1 DEF Instances
  <2>3. "Cleaning" \in Phases /\ [by |-> Someone, phase |-> ""] \in Instances
    BY DEF Phases, Instances, Creators
  <2>4. inst' \in Instances \cup {None}
    BY <1>8, <2>2, <2>3 DEF DeleteStaticInstance, DeckhouseActs, SomeoneCreates
  <2> QED
    BY <1>8, <2>4 DEF DeleteStaticInstance, DeckhouseActs, SomeoneCreates, Creators
<1>9. CASE UNCHANGED vars
  BY <1>9 DEF vars
<1> QED
  BY <1>1, <1>2, <1>3, <1>4, <1>5, <1>6, <1>7, <1>8, <1>9 DEF Next, Provision, Watch, World

(* The steps of Deckhouse, of operators and of the deleting tools leave    *)
(* every call where it is.                                                 *)
LEMMA WorldStep ==
  ASSUME DeleteSSHCredentials \/ DeleteStaticInstance \/ DeckhouseActs \/ SomeoneCreates
           \/ UNCHANGED vars
  PROVE  UNCHANGED <<pc, left, phase, nap, timedOut>>
  BY DEF DeleteSSHCredentials, DeleteStaticInstance, DeckhouseActs, SomeoneCreates, vars, pollVars

LEMMA UnderwayStep == TypeOK /\ Underway /\ [Next]_vars => Underway'
<1> SUFFICES ASSUME TypeOK, Underway, [Next]_vars PROVE Underway'
  OBVIOUS
<1> USE TimeAssumption DEF TypeOK, Underway, Goto, pollVars
<1>1. ASSUME NEW c \in Calls, Begin(c) PROVE Underway'
  BY <1>1 DEF Begin, StartPolling
<1>2. ASSUME NEW c \in Calls, CreateCreds(c) \/ CredsFail(c) \/ InstFails(c) PROVE Underway'
  BY <1>2 DEF CreateCreds, CredsFail, InstFails
<1>3. ASSUME NEW c \in Calls, CreateInst(c) PROVE Underway'
  BY <1>3 DEF CreateInst, Provisioned, StartPolling
<1>4. ASSUME NEW c \in Calls, Poll(c) PROVE Underway'
  BY <1>4 DEF Poll
<1>5. ASSUME NEW c \in Calls, PollFails(c) \/ TimeIsUp(c) \/ Cancelled(c) PROVE Underway'
  BY <1>5 DEF PollFails, TimeIsUp, Cancelled
<1>6. ASSUME NEW c \in Calls, Sleep(c) \/ Wake(c) PROVE Underway'
  BY <1>6 DEF Sleep, Wake
<1>7. CASE Tick
  BY <1>7 DEF Tick
<1>8. CASE DeleteSSHCredentials \/ DeleteStaticInstance \/ DeckhouseActs \/ SomeoneCreates
             \/ UNCHANGED vars
  BY <1>8, WorldStep
<1> QED
  BY <1>1, <1>2, <1>3, <1>4, <1>5, <1>6, <1>7, <1>8 DEF Next, Provision, Watch, World

(* A create is refused when the name is taken: whoever goes past step 1    *)
(* found nobody else beyond it.                                            *)
LEMMA CredsStep == TypeOK /\ Underway /\ CredsAreOwn /\ [Next]_vars => CredsAreOwn'
<1> SUFFICES ASSUME TypeOK, Underway, CredsAreOwn, [Next]_vars, ~meddled',
                    NEW d \in Calls, HasCreds(d)'
             PROVE  creds' = d
  BY DEF CredsAreOwn
<1> USE DEF HasCreds, Goto, cluster, pollVars
<1>0. pc \in [Calls -> {"idle", "creds", "inst", "poll", "check", "sleep"} \cup Ended]
  BY DEF TypeOK
<1>1. ~meddled /\ ~DeleteSSHCredentials
  BY DEF TypeOK, Next, Begin, Provision, Watch, World, CreateCreds, CredsFail, CreateInst,
         InstFails, Poll, PollFails, TimeIsUp, Sleep, Wake, Cancelled, Tick,
         DeleteSSHCredentials, DeleteStaticInstance, DeckhouseActs, SomeoneCreates, vars
<1>2. HasCreds(d) => creds = d  BY <1>1 DEF CredsAreOwn
<1>3. ASSUME NEW c \in Calls, CreateCreds(c) PROVE creds' = d
  <2>1. ~HasCreds(d)  BY <1>2, <1>3, NoneAssumption DEF CreateCreds
  <2>2. d = c  BY <1>0, <1>3, <2>1 DEF CreateCreds
  <2> QED  BY <1>3, <2>2 DEF CreateCreds
<1>4. ASSUME NEW c \in Calls,
             \/ Begin(c) \/ CredsFail(c) \/ CreateInst(c) \/ InstFails(c) \/ Poll(c)
             \/ PollFails(c) \/ TimeIsUp(c) \/ Sleep(c) \/ Wake(c) \/ Cancelled(c)
      PROVE  creds' = d
  <2>1. creds' = creds
    BY <1>4 DEF Begin, CredsFail, CreateInst, InstFails, Poll, PollFails, TimeIsUp, Sleep,
                Wake, Cancelled
  <2>2. HasCreds(d)
    <3>1. CASE Begin(c) \/ CredsFail(c)
      BY <1>0, <3>1 DEF Begin, CredsFail, StartPolling
    <3>2. CASE CreateInst(c) \/ InstFails(c)
      BY <1>0, <3>2 DEF CreateInst, InstFails, Provisioned, StartPolling, Underway
    <3>3. CASE Poll(c) \/ PollFails(c) \/ TimeIsUp(c) \/ Sleep(c) \/ Wake(c) \/ Cancelled(c)
      BY <1>0, <3>3 DEF Poll, PollFails, TimeIsUp, Sleep, Wake, Cancelled
    <3> QED  BY <1>4, <3>1, <3>2, <3>3
  <2> QED  BY <1>2, <2>1, <2>2
<1>5. CASE Tick \/ DeleteStaticInstance \/ DeckhouseActs \/ SomeoneCreates \/ UNCHANGED vars
  <2>1. UNCHANGED pc
    BY <1>5 DEF Tick, DeleteStaticInstance, DeckhouseActs, SomeoneCreates, vars
  <2>2. creds = d  BY <1>2, <2>1
  <2>3. creds # None => creds' = creds
    BY <1>5 DEF Tick, DeleteStaticInstance, DeckhouseActs, SomeoneCreates, vars
  <2> QED  BY <2>2, <2>3, NoneAssumption
<1> QED  BY <1>1, <1>3, <1>4, <1>5 DEF Next, Provision, Watch, World

LEMMA AnswerStep ==
  TypeOK /\ Underway /\ AnswerMatchesPhase /\ [Next]_vars => AnswerMatchesPhase'
<1> SUFFICES ASSUME TypeOK, Underway, AnswerMatchesPhase, [Next]_vars PROVE AnswerMatchesPhase'
  OBVIOUS
<1> USE KindAssumption, TimeAssumption
    DEF TypeOK, Underway, AnswerMatchesPhase, Goto, pollVars
<1>1. ASSUME NEW c \in Calls, Begin(c) PROVE AnswerMatchesPhase'
  BY <1>1 DEF Begin, StartPolling
<1>2. ASSUME NEW c \in Calls, CreateCreds(c) \/ CredsFail(c) \/ InstFails(c)
      PROVE  AnswerMatchesPhase'
  BY <1>2 DEF CreateCreds, CredsFail, InstFails
<1>3. ASSUME NEW c \in Calls, CreateInst(c) PROVE AnswerMatchesPhase'
  BY <1>3 DEF CreateInst, Provisioned, StartPolling
<1>4. ASSUME NEW c \in Calls, Poll(c) PROVE AnswerMatchesPhase'
  BY <1>4 DEF Poll
<1>5. ASSUME NEW c \in Calls, TimeIsUp(c) PROVE AnswerMatchesPhase'
  BY <1>5 DEF TimeIsUp
<1>6. ASSUME NEW c \in Calls, PollFails(c) \/ Sleep(c) \/ Wake(c) \/ Cancelled(c)
      PROVE  AnswerMatchesPhase'
  BY <1>6 DEF PollFails, Sleep, Wake, Cancelled
<1>7. CASE Tick
  BY <1>7 DEF Tick
<1>8. CASE DeleteSSHCredentials \/ DeleteStaticInstance \/ DeckhouseActs \/ SomeoneCreates
             \/ UNCHANGED vars
  BY <1>8, WorldStep
<1> QED
  BY <1>1, <1>2, <1>3, <1>4, <1>5, <1>6, <1>7, <1>8 DEF Next, Provision, Watch, World

(* A timer is set before the deadline, and both run at the same pace. *)
LEMMA OverrunStep ==
  TypeOK /\ Underway /\ OverrunBounded /\ [Next]_vars => OverrunBounded'
<1> SUFFICES ASSUME TypeOK, Underway, OverrunBounded, [Next]_vars PROVE OverrunBounded'
  OBVIOUS
<1> USE TimeAssumption DEF TypeOK, Underway, OverrunBounded, Polling, Goto, pollVars
<1>1. ASSUME NEW c \in Calls, Begin(c) PROVE OverrunBounded'
  BY <1>1 DEF Begin, StartPolling
<1>2. ASSUME NEW c \in Calls, CreateCreds(c) \/ CredsFail(c) \/ InstFails(c)
      PROVE  OverrunBounded'
  BY <1>2 DEF CreateCreds, CredsFail, InstFails
<1>3. ASSUME NEW c \in Calls, CreateInst(c) PROVE OverrunBounded'
  <2>1. nap' = nap /\ nap[c] = 0  BY <1>3 DEF CreateInst, Provisioned, StartPolling
  <2>2. \A d \in Calls \ {c} : pc'[d] = pc[d] /\ left'[d] = left[d]
    BY <1>3 DEF CreateInst, Provisioned, StartPolling
  <2> QED  BY <2>1, <2>2
<1>4. ASSUME NEW c \in Calls, Poll(c) \/ PollFails(c) \/ TimeIsUp(c) \/ Wake(c) \/ Cancelled(c)
      PROVE  OverrunBounded'
  BY <1>4 DEF Poll, PollFails, TimeIsUp, Wake, Cancelled
<1>5. ASSUME NEW c \in Calls, Sleep(c) PROVE OverrunBounded'
  BY <1>5 DEF Sleep
<1>6. CASE Tick
  BY <1>6 DEF Tick
<1>7. CASE DeleteSSHCredentials \/ DeleteStaticInstance \/ DeckhouseActs \/ SomeoneCreates
             \/ UNCHANGED vars
  BY <1>7, WorldStep
<1> QED  BY <1>1, <1>2, <1>3, <1>4, <1>5, <1>6, <1>7 DEF Next, Provision, Watch, World

LEMMA Invariance == Spec => []IInv
<1>1. IInv /\ [Next]_vars => IInv'
  BY TypeStep, UnderwayStep, CredsStep, AnswerStep, OverrunStep DEF IInv
<1> QED  BY InitInv, <1>1, PTL DEF Spec

(* TypeOK: the objects, the phases reported and the timers of AddWorkerNode *)
(* and WaitNodeReady are of their types.                                    *)
THEOREM TypeCorrect == Spec => []TypeOK
<1>1. IInv => TypeOK  BY DEF IInv
<1> QED  BY <1>1, Invariance, PTL

(* CredsAreOwn: of any number of AddWorkerNode calls racing for one node,  *)
(* only the one whose SSHCredentials are in the cluster goes on.           *)
THEOREM CredsCorrect == Spec => []CredsAreOwn
<1>1. IInv => CredsAreOwn  BY DEF IInv
<1> QED  BY <1>1, Invariance, PTL

(* AnswerMatchesPhase: pollStaticInstance answers timed_out exactly when   *)
(* it has not seen Running, and then only after the deadline.              *)
THEOREM AnswerCorrect == Spec => []AnswerMatchesPhase
<1>1. IInv => AnswerMatchesPhase  BY DEF IInv
<1> QED  BY <1>1, Invariance, PTL

(* OverrunBounded: pollStaticInstance sleeps at most one pollInterval past *)
(* its deadline, for every timeout.                                        *)
THEOREM OverrunCorrect == Spec => []OverrunBounded
<1>1. IInv => OverrunBounded  BY DEF IInv
<1> QED  BY <1>1, Invariance, PTL
==============================================================================
