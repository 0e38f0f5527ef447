----------------------------- MODULE WorkerNode ------------------------------
(***************************************************************************)
(* AddWorkerNode (provisionNodeResources and pollStaticInstance) and       *)
(* WaitNodeReady for one node name, with the tools that delete what they   *)
(* create and Deckhouse, which takes the machine through its phases.       *)
(* Several calls run at once: an assistant that retries an AddWorkerNode   *)
(* it believes lost starts a second one for the same node.                 *)
(*                                                                         *)
(* The SSHCredentials <node>-creds and the StaticInstance <node> are found *)
(* by name.  Each remembers here the call that created it: whose key it    *)
(* holds, whose request it came from.                                      *)
(***************************************************************************)
EXTENDS Integers

CONSTANTS
  Calls,        \* the tool calls
  Kind,         \* Kind[c]: "add", "addNoWait" (wait_ready = false) or "wait"
  Timeout,      \* Timeout[c]: timeout_seconds, in ticks
  pollInterval, \* the constant of the code, in ticks
  Someone,      \* any other creator
  None          \* no object

ASSUME KindAssumption == Kind \in [Calls -> {"add", "addNoWait", "wait"}]
ASSUME NoneAssumption == None \notin Calls /\ Someone \notin Calls /\ None # Someone
ASSUME TimeAssumption ==
  /\ Timeout \in [Calls -> Int]
  /\ pollInterval \in Nat

VARIABLES
  creds,    \* the creator of the SSHCredentials, or None
  inst,     \* the StaticInstance: [by |-> its creator, phase |-> ...], or None
  pc,       \* pc[c]: where call c is, or how it ended
  left,     \* left[c]: the time until deadline, negative after it
  phase,    \* phase[c]: the last phase observed
  nap,      \* nap[c]: the time until the timer of call c fires
  timedOut, \* timedOut[c]
  meddled   \* history: SSHCredentials of this name have been deleted

cluster  == <<creds, inst>>
pollVars == <<left, phase, nap, timedOut>>
vars     == <<cluster, pc, pollVars, meddled>>

Creators == Calls \cup {Someone}

(* A new StaticInstance has no status; "Cleaning" follows its deletion.    *)
(* "Bootstrapping" and "Error" are like "Pending" to this code: none of    *)
(* them ends a wait.                                                       *)
Phases    == {"Pending", "Running", "Cleaning"}
Instances == [by : Creators, phase : Phases \cup {""}]
Ended     == {"ok", "error", "partial"}

Init ==
  /\ creds \in {None, Someone}
  /\ inst \in {None} \cup [by : {Someone}, phase : {"", "Running"}]
  /\ pc = [c \in Calls |-> "idle"]
  /\ left = [c \in Calls |-> 0]
  /\ phase = [c \in Calls |-> "Pending"]
  /\ nap = [c \in Calls |-> 0]
  /\ timedOut = [c \in Calls |-> FALSE]
  /\ meddled = FALSE

Goto(c, l) == pc' = [pc EXCEPT ![c] = l]

(* pollStaticInstance begins: the deadline is set from its own clock, not  *)
(* from the start of the tool call.                                        *)
StartPolling(c) ==
  /\ Goto(c, "poll")
  /\ left' = [left EXCEPT ![c] = Timeout[c]]
  /\ UNCHANGED <<phase, nap, timedOut>>

Begin(c) ==
  /\ pc[c] = "idle"
  /\ IF Kind[c] = "wait" THEN StartPolling(c) ELSE Goto(c, "creds") /\ UNCHANGED pollVars
  /\ UNCHANGED <<cluster, meddled>>
------------------------------------------------------------------------------
(* provisionNodeResources. *)

(* Step 1, SSHCredentials; when the answer is lost the call has failed. *)
CreateCreds(c) ==
  /\ pc[c] = "creds"
  /\ creds = None
  /\ creds' = c
  /\ \E l \in {"inst", "error"} : Goto(c, l)
  /\ UNCHANGED <<inst, pollVars, meddled>>

(* A mutant of CredsFail: a Secret that exists already will do. *)
CredsFailIgnored(c) ==
  /\ pc[c] = "creds"
  /\ Goto(c, IF creds = None THEN "error" ELSE "inst")
  /\ UNCHANGED <<cluster, pollVars, meddled>>

(* Step 1 fails, because the name is taken or otherwise. *)
CredsFail(c) ==
  /\ pc[c] = "creds"
  /\ Goto(c, "error")
  /\ UNCHANGED <<cluster, pollVars, meddled>>

(* waitForNode: poll, or be done. *)
Provisioned(c) ==
  IF Kind[c] = "add" THEN StartPolling(c) ELSE Goto(c, "ok") /\ UNCHANGED pollVars

(* Step 2, the StaticInstance. *)
CreateInst(c) ==
  /\ pc[c] = "inst"
  /\ inst = None
  /\ inst' = [by |-> c, phase |-> ""]
  /\ Provisioned(c) \/ (Goto(c, "partial") /\ UNCHANGED pollVars)
  /\ UNCHANGED <<creds, meddled>>

(* A mutant of InstFails: the SSHCredentials are cleaned up. *)
InstFailsCleanly(c) ==
  /\ pc[c] = "inst"
  /\ Goto(c, "partial")
  /\ creds' = None
  /\ UNCHANGED <<inst, pollVars, meddled>>

(* Step 2 fails, because the name is taken or otherwise: the error says    *)
(* that the SSHCredentials have been created, and they stay.               *)
InstFails(c) ==
  /\ pc[c] = "inst"
  /\ Goto(c, "partial")
  /\ UNCHANGED <<cluster, pollVars, meddled>>
------------------------------------------------------------------------------
(* pollStaticInstance. *)

(* A mutant of Poll: a phase that is not set is taken as it is. *)
PollBlank(c) ==
  /\ pc[c] = "poll"
  /\ inst # None
  /\ phase' = [phase EXCEPT ![c] = inst.phase]
  /\ Goto(c, IF phase'[c] = "Running" THEN "ok" ELSE "check")
  /\ UNCHANGED <<cluster, left, nap, timedOut, meddled>>

(* A mutant of Poll: Running counts only from the second poll on. *)
PollTwice(c) ==
  /\ pc[c] = "poll"
  /\ inst # None
  /\ phase' = [phase EXCEPT ![c] = IF inst.phase = "" THEN @ ELSE inst.phase]
  /\ Goto(c, IF phase[c] = "Running" THEN "ok" ELSE "check")
  /\ UNCHANGED <<cluster, left, nap, timedOut, meddled>>

(* A phase that is not set yet leaves the last one standing. *)
Poll(c) ==
  /\ pc[c] = "poll"
  /\ inst # None
  /\ phase' = [phase EXCEPT ![c] = IF inst.phase = "" THEN @ ELSE inst.phase]
  /\ Goto(c, IF phase'[c] = "Running" THEN "ok" ELSE "check")
  /\ UNCHANGED <<cluster, left, nap, timedOut, meddled>>

(* The StaticInstance is gone, or the request fails: no retry. *)
PollFails(c) ==
  /\ pc[c] = "poll"
  /\ Goto(c, "error")
  /\ UNCHANGED <<cluster, pollVars, meddled>>

(* The clock is looked at only between a poll and the sleep after it. *)
TimeIsUp(c) ==
  /\ pc[c] = "check"
  /\ left[c] < 0
  /\ timedOut' = [timedOut EXCEPT ![c] = TRUE]
  /\ Goto(c, "ok")
  /\ UNCHANGED <<cluster, left, phase, nap, meddled>>

(* A mutant of Sleep: the deadline is not looked at. *)
SleepForever(c) ==
  /\ pc[c] = "check"
  /\ nap' = [nap EXCEPT ![c] = pollInterval]
  /\ Goto(c, "sleep")
  /\ UNCHANGED <<cluster, left, phase, timedOut, meddled>>

(* time.After(pollInterval): WaitNodeReady does not read interval_seconds. *)
Sleep(c) ==
  /\ pc[c] = "check"
  /\ ~(left[c] < 0)
  /\ nap' = [nap EXCEPT ![c] = pollInterval]
  /\ Goto(c, "sleep")
  /\ UNCHANGED <<cluster, left, phase, timedOut, meddled>>

Wake(c) ==
  /\ pc[c] = "sleep"
  /\ nap[c] = 0
  /\ Goto(c, "poll")
  /\ UNCHANGED <<cluster, pollVars, meddled>>

(* The caller has gone: what was created stays behind. *)
Cancelled(c) ==
  /\ pc[c] = "sleep"
  /\ Goto(c, "error")
  /\ UNCHANGED <<cluster, pollVars, meddled>>
------------------------------------------------------------------------------
(* The other tools, Deckhouse, and operators. *)

(* Time passes for the calls that poll.  Neither counter is followed       *)
(* further than a comparison can tell.                                     *)
Polling(c) == pc[c] \in {"poll", "check", "sleep"}
Tick ==
  /\ left' = [c \in Calls |->
       IF Polling(c) /\ left[c] >= -pollInterval THEN left[c] - 1 ELSE left[c]]
  /\ nap' = [c \in Calls |-> IF nap[c] > 0 THEN nap[c] - 1 ELSE 0]
  /\ UNCHANGED <<cluster, pc, phase, timedOut, meddled>>

DeleteSSHCredentials ==
  /\ creds # None
  /\ creds' = None
  /\ meddled' = TRUE
  /\ UNCHANGED <<inst, pc, pollVars>>

(* The StaticInstance goes at once, or Deckhouse cleans the machine first. *)
DeleteStaticInstance ==
  /\ inst # None
  /\ inst' \in {None, [inst EXCEPT !.phase = "Cleaning"]}
  /\ UNCHANGED <<creds, pc, pollVars, meddled>>

(* Deckhouse moves the machine on, or has finished cleaning it. *)
DeckhouseActs ==
  /\ inst # None
  /\ IF inst.phase = "Cleaning" THEN inst' = None
     ELSE \E p \in Phases \ {"Cleaning"} : inst' = [inst EXCEPT !.phase = p]
  /\ UNCHANGED <<creds, pc, pollVars, meddled>>

SomeoneCreates ==
  /\ UNCHANGED <<pc, pollVars, meddled>>
  /\ \/ creds = None /\ creds' = Someone /\ UNCHANGED inst
     \/ inst = None /\ inst' = [by |-> Someone, phase |-> ""] /\ UNCHANGED creds

Provision(c) == CreateCreds(c) \/ CredsFail(c) \/ CreateInst(c) \/ InstFails(c)
Watch(c) == Poll(c) \/ PollFails(c) \/ TimeIsUp(c) \/ Sleep(c) \/ Wake(c) \/ Cancelled(c)
World == \/ Tick \/ DeleteSSHCredentials \/ DeleteStaticInstance
         \/ DeckhouseActs \/ SomeoneCreates
Next == (\E c \in Calls : Begin(c) \/ Provision(c) \/ Watch(c)) \/ World

Spec == Init /\ [][Next]_vars
(* Requests are answered, timers fire, and the clock runs.  Nothing is     *)
(* assumed of Deckhouse, of the machine, or of the caller.                 *)
Works(c) == Provision(c) \/ Poll(c) \/ PollFails(c) \/ TimeIsUp(c) \/ Sleep(c) \/ Wake(c)
FairSpec == Spec /\ WF_vars(Tick) /\ \A c \in Calls : WF_vars(Works(c))
------------------------------------------------------------------------------
TypeOK ==
  /\ creds \in Creators \cup {None}
  /\ inst \in Instances \cup {None}
  /\ pc \in [Calls -> {"idle", "creds", "inst", "poll", "check", "sleep"} \cup Ended]
  /\ left \in [Calls -> Int]
  /\ phase \in [Calls -> Phases]
  /\ nap \in [Calls -> 0..pollInterval]
  /\ timedOut \in [Calls -> BOOLEAN]
  /\ meddled \in BOOLEAN

(* Past step 1: the call has seen its SSHCredentials created. *)
HasCreds(c) == Kind[c] # "wait" /\ pc[c] \in {"inst", "poll", "check", "sleep", "ok", "partial"}

(* As long as nobody deletes SSHCredentials, a call past step 1 owns the   *)
(* ones in the cluster: of AddWorkerNode calls racing for one node at most *)
(* one goes beyond step 1, so that no StaticInstance is bound to the key   *)
(* of another caller; and after a failure of step 2 the SSHCredentials     *)
(* "from step 1 still exist" (nodes.proto line 19).                        *)
CredsAreOwn == meddled \/ \A c \in Calls : HasCreds(c) => creds = c

(* The three ways out of the polling loop are told apart by the answer:    *)
(* one that is not timed_out has seen Running, one that is has not, and    *)
(* has waited for its whole timeout.                                       *)
AnswerMatchesPhase ==
  \A c \in Calls :
    /\ pc[c] = "ok" /\ Kind[c] # "addNoWait" => (timedOut[c] <=> phase[c] # "Running")
    /\ timedOut[c] => left[c] < 0
    /\ pc[c] = "sleep" => phase[c] # "Running"

(* No sleep reaches further past the deadline than one pollInterval. *)
OverrunBounded ==
  \A c \in Calls : nap[c] > 0 /\ Polling(c) => nap[c] <= left[c] + pollInterval

(* Every call returns, also when its node never gets Running: of the few   *)
(* calls there are, in the end none is in flight.                          *)
WaitEnds == <>[](\A c \in Calls : pc[c] \in {"idle"} \cup Ended)
==============================================================================
