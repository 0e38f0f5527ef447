-------------------------- MODULE KubernetesVersion --------------------------
(***************************************************************************)
(* ConfigHandler.UpdateKubernetesVersion: a read-modify-write of the       *)
(* Secret kube-system/d8-cluster-configuration, retried on Conflict.       *)
(* Several calls run at once (each tool call is a goroutine of the MCP     *)
(* server) beside other writers of the Secret.                             *)
(*                                                                         *)
(* Every API request is one step; the local computation that follows it    *)
(* (YAML parsing, setting the field, marshalling) touches nothing shared   *)
(* and belongs to the same step.  The YAML document is reduced to its      *)
(* kubernetesVersion and to "rest", all its other fields and the Secret's  *)
(* other keys.                                                             *)
(***************************************************************************)
EXTENDS ApiServer

CONSTANTS
  Calls,    \* the tool calls
  Versions, \* Kubernetes versions, as strings of the document
  Rests,    \* values of everything in the Secret but the version
  Target,   \* Target[c]: the version call c asks for
  None,     \* no version string: the field is absent or not a string
  Blank,    \* the field is the empty string
  MaxRev    \* bound: other writers stop at this resourceVersion

ASSUME VersionsAssumption ==
  /\ None \notin Versions /\ Blank \notin Versions /\ None # Blank
  /\ Target \in [Calls -> Versions]
ASSUME MaxRevAssumption == MaxRev \in Nat

VARIABLES
  secret,   \* the Secret in the API server
  pc,       \* pc[c]: where call c is, or how it ended
  attempt,  \* attempt[c]: the loop variable
  snap,     \* snap[c]: the Secret returned by the last GetSecret
  prev,     \* prev[c]: previousVersion
  firstRv,  \* history: resourceVersion seen by the first GetSecret
  writes,   \* history: how often call c changed the Secret
  replaced, \* history: the version that the write of call c replaced
  foreign   \* history: how often others changed the Secret

vars == <<secret, pc, attempt, snap, prev, firstRv, writes, replaced, foreign>>

updateConflictRetries == 3

(* The key is missing or its value is no YAML mapping; it is an empty YAML *)
(* document (which parses to a nil map); or it is a mapping.  No call      *)
(* writes what is no mapping, so nothing else of it is told apart.         *)
Forms == {"bad", "null", "map"}
Fields == Versions \cup {None, Blank}
Bodies == [form : {"map"}, version : Fields, rest : Rests]
            \cup [form : Forms \ {"map"}, version : {None}, rest : {None}]

Failures == {"error", "exhausted", "panic"}
Ended    == {"ok"} \cup Failures
InFlight == {"get", "put"}

Init ==
  /\ secret \in [rv : {0}, body : Bodies]
  /\ pc       = [c \in Calls |-> "idle"]
  /\ attempt  = [c \in Calls |-> 0]
  /\ snap     = [c \in Calls |-> secret]
  /\ prev     = [c \in Calls |-> None]
  /\ firstRv  = [c \in Calls |-> 0]
  /\ writes   = [c \in Calls |-> 0]
  /\ replaced = [c \in Calls |-> None]
  /\ foreign  = 0

Goto(c, l) == pc' = [pc EXCEPT ![c] = l]

Begin(c) ==
  /\ pc[c] = "idle"
  /\ Goto(c, "get")
  /\ UNCHANGED <<secret, attempt, snap, prev, firstRv, writes, replaced, foreign>>

(* GetSecret fails: not found, forbidden, context cancelled, unreachable. *)
GetFails(c) ==
  /\ pc[c] = "get"
  /\ Goto(c, "error")
  /\ UNCHANGED <<secret, attempt, snap, prev, firstRv, writes, replaced, foreign>>

(* The Secret is read, but holds no YAML mapping to work on. *)
GetUnusable(c) ==
  /\ pc[c] = "get"
  /\ secret.body.form = "bad"
  /\ Goto(c, "error")
  /\ UNCHANGED <<secret, attempt, snap, prev, firstRv, writes, replaced, foreign>>

(* An empty document leaves doc nil, and the assignment to a nil map       *)
(* panics: nothing recovers, so the process goes down with every call.     *)
GetPanics(c) ==
  /\ pc[c] = "get"
  /\ secret.body.form = "null"
  /\ pc' = [d \in Calls |-> IF pc[d] \in InFlight THEN "panic" ELSE pc[d]]
  /\ UNCHANGED <<secret, attempt, snap, prev, firstRv, writes, replaced, foreign>>

(* A field in the answer, where no version and the empty one look alike. *)
Shown(v) == IF v = Blank THEN None ELSE v

(* A mutant of PreviousVersion: it is taken from the first attempt only. *)
PreviousOfFirstAttempt(c) ==
  IF attempt[c] = 0 THEN Shown(secret.body.version) ELSE prev[c]

(* previousVersion after a read: assigned only when the field is a string, *)
(* the empty one included.                                                 *)
PreviousVersion(c) ==
  IF secret.body.version # None THEN Shown(secret.body.version) ELSE prev[c]

GetSucceeds(c) ==
  /\ pc[c] = "get"
  /\ secret.body.form = "map"
  /\ Goto(c, "put")
  /\ snap' = [snap EXCEPT ![c] = secret]
  /\ prev' = [prev EXCEPT ![c] = PreviousVersion(c)]
  /\ firstRv' = IF attempt[c] = 0 THEN [firstRv EXCEPT ![c] = secret.rv] ELSE firstRv
  /\ UNCHANGED <<secret, attempt, writes, replaced, foreign>>

(* The document call c sends back: the one it read, with its version set. *)
Updated(c) == [snap[c].body EXCEPT !.version = Target[c]]

(* The server stores the document.  When nothing but the layout of the     *)
(* YAML text changes, the resourceVersion may or may not move.             *)
Store(c) ==
  /\ pc[c] = "put"
  /\ Accepts(secret, snap[c])
  /\ secret' \in {Stored(secret, Updated(c)), [rv |-> secret.rv + 1, body |-> Updated(c)]}
  /\ writes' = [writes EXCEPT ![c] = @ + 1]
  /\ replaced' = [replaced EXCEPT ![c] = secret.body.version]
  /\ UNCHANGED <<attempt, snap, prev, firstRv, foreign>>

PutSucceeds(c) == Store(c) /\ Goto(c, "ok")

(* A mutant of PutAnswerLost: every error is taken for a Conflict. *)
PutAnswerLostRetried(c) == Store(c) /\ Goto(c, "get")

(* The Secret is stored, but the answer does not arrive: the call ends in  *)
(* the default branch.                                                     *)
PutAnswerLost(c) == Store(c) /\ Goto(c, "error")

(* A mutant of PutConflicts: the next attempt sends the same Secret again. *)
PutConflictsForever(c) ==
  /\ pc[c] = "put"
  /\ ~Accepts(secret, snap[c])
  /\ UNCHANGED vars

(* A mutant of PutConflicts: the loop runs once too often. *)
PutConflictsOnceMore(c) ==
  /\ pc[c] = "put"
  /\ ~Accepts(secret, snap[c])
  /\ attempt' = [attempt EXCEPT ![c] = @ + 1]
  /\ Goto(c, IF attempt[c] < updateConflictRetries THEN "get" ELSE "exhausted")
  /\ UNCHANGED <<secret, snap, prev, firstRv, writes, replaced, foreign>>

(* Conflict: the loop goes round, or ends after the last attempt. *)
PutConflicts(c) ==
  /\ pc[c] = "put"
  /\ ~Accepts(secret, snap[c])
  /\ attempt' = [attempt EXCEPT ![c] = @ + 1]
  /\ Goto(c, IF attempt[c] + 1 < updateConflictRetries THEN "get" ELSE "exhausted")
  /\ UNCHANGED <<secret, snap, prev, firstRv, writes, replaced, foreign>>

(* A mutant of PutFails: it retries until the attempts are used up. *)
PutFailsRetried(c) ==
  /\ pc[c] = "put"
  /\ attempt' = [attempt EXCEPT ![c] = @ + 1]
  /\ Goto(c, IF attempt[c] + 1 < updateConflictRetries THEN "get" ELSE "exhausted")
  /\ UNCHANGED <<secret, snap, prev, firstRv, writes, replaced, foreign>>

(* Any other error, without effect: the call ends at once. *)
PutFails(c) ==
  /\ pc[c] = "put"
  /\ Goto(c, "error")
  /\ UNCHANGED <<secret, attempt, snap, prev, firstRv, writes, replaced, foreign>>

(* Someone else (Deckhouse, an operator with kubectl) writes the Secret. *)
OtherWriter ==
  /\ secret.rv < MaxRev
  /\ \E b \in Bodies : secret' = [rv |-> secret.rv + 1, body |-> b]
  /\ foreign' = foreign + 1
  /\ UNCHANGED <<pc, attempt, snap, prev, firstRv, writes, replaced>>

Get(c) == GetFails(c) \/ GetUnusable(c) \/ GetPanics(c) \/ GetSucceeds(c)
Put(c) == PutSucceeds(c) \/ PutAnswerLost(c) \/ PutConflicts(c) \/ PutFails(c)
Next == (\E c \in Calls : Begin(c) \/ Get(c) \/ Put(c)) \/ OtherWriter

(* Requests are answered by the server, and a goroutine whose request is   *)
(* answered goes on; a failure without an answer is possible, but never    *)
(* relied on.  Nobody has to start a call or write the Secret.             *)
Answered(c) == \/ GetUnusable(c) \/ GetPanics(c) \/ GetSucceeds(c)
               \/ PutSucceeds(c) \/ PutAnswerLost(c) \/ PutConflicts(c)
Fairness == \A c \in Calls : WF_vars(Answered(c))
Spec == Init /\ [][Next]_vars
FairSpec == Spec /\ Fairness
------------------------------------------------------------------------------
TypeOK ==
  /\ secret \in Objects(Bodies)
  /\ pc \in [Calls -> {"idle"} \cup InFlight \cup Ended]
  /\ attempt \in [Calls -> 0..updateConflictRetries]
  /\ snap \in [Calls -> Objects(Bodies)]
  /\ prev \in [Calls -> Versions \cup {None}]
  /\ firstRv \in [Calls -> Nat]
  /\ writes \in [Calls -> Nat]
  /\ replaced \in [Calls -> Fields]
  /\ foreign \in Nat

(* A write by a call changes the version and nothing else of the Secret as *)
(* it is at the moment of the write: whatever others wrote between the     *)
(* GetSecret and the UpdateSecret of UpdateKubernetesVersion survives.     *)
NoLostUpdate ==
  [][\A c \in Calls : writes'[c] # writes[c] =>
       secret'.body = [secret.body EXCEPT !.version = Target[c]]]_vars

(* A call changes the Secret at most once, and one that succeeds exactly   *)
(* once: the loop of UpdateKubernetesVersion never retries a write that    *)
(* the server has taken.                                                   *)
WritesOnce ==
  \A c \in Calls : writes[c] <= 1 /\ (pc[c] = "ok" => writes[c] = 1)

(* The previous_version of a successful call is the field its write        *)
(* replaced, an empty one included, whichever attempt got through; where   *)
(* the write replaced no string, an earlier attempt may still speak.       *)
ReportedIsReplaced ==
  \A c \in Calls : pc[c] = "ok" /\ replaced[c] # None => prev[c] = Shown(replaced[c])

(* A call gives up with "exhausted retries" only after as many writes by   *)
(* others have landed since it began: it never gives up on a quiet Secret, *)
(* and while one call gives up, somebody has made progress.                *)
ExhaustedOnlyUnderContention ==
  \A c \in Calls :
    pc[c] = "exhausted" => secret.rv >= firstRv[c] + updateConflictRetries

(* A call that has begun ends. *)
EveryCallEnds == \A c \in Calls : pc[c] = "get" ~> pc[c] \in Ended

(* The calls implement an atomic update of the version. *)
Atomic == INSTANCE AtomicVersion WITH
  config   <- secret.body,
  status   <- [c \in Calls |-> IF pc[c] = "ok" THEN "ok"
                               ELSE IF pc[c] \in Failures THEN "failed" ELSE "running"],
  reported <- [c \in Calls |-> IF pc[c] = "ok" THEN prev[c] ELSE None]
AtomicSpec == Atomic!Spec
==============================================================================
