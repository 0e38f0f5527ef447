---------------------------- MODULE AtomicVersion ----------------------------
(***************************************************************************)
(* What UpdateKubernetesVersion promises its caller: the version field of  *)
(* the cluster configuration is set in one indivisible step that leaves    *)
(* everything else in the configuration as it stands at that moment, and   *)
(* the answer names the version that the step replaced.  A call that       *)
(* fails may or may not have taken its step (the answer of the last PUT    *)
(* can be lost), but it takes it at most once.  The writes of others are   *)
(* counted, so that no step of a call can pass for one of theirs.          *)
(***************************************************************************)
EXTENDS Naturals

CONSTANTS
  Calls,    \* the tool calls
  Versions, \* Kubernetes versions
  Target,   \* Target[c] is the version call c asks for
  None,     \* no version: an absent field, an empty previous_version
  Blank,    \* a version field that is the empty string
  Bodies    \* contents of the Secret, records with fields form and version

VARIABLES
  config,   \* the content of the Secret
  status,   \* status[c]: "running", "ok" or "failed"
  reported, \* reported[c]: the previous_version of the answer
  foreign   \* how often others have rewritten the Secret

vars == <<config, status, reported, foreign>>

Init ==
  /\ config \in Bodies
  /\ status = [c \in Calls |-> "running"]
  /\ reported = [c \in Calls |-> None]
  /\ foreign = 0

Effect(c) ==
  /\ status[c] = "running"
  /\ config.form = "map"
  /\ config' = [config EXCEPT !.version = Target[c]]
  /\ UNCHANGED foreign

(* The call takes effect and says so.  Where it replaced no string, the    *)
(* answer is not constrained: previousVersion may come from an attempt     *)
(* that met a Conflict.                                                    *)
Succeed(c) ==
  /\ Effect(c)
  /\ status' = [status EXCEPT ![c] = "ok"]
  /\ \E v \in Versions \cup {None} :
       /\ config.version = Blank => v = None
       /\ config.version \in Versions => v = config.version
       /\ reported' = [reported EXCEPT ![c] = v]

(* The call takes effect, and its caller is told of an error. *)
TakeEffectAndFail(c) ==
  /\ Effect(c)
  /\ status' = [status EXCEPT ![c] = "failed"]
  /\ UNCHANGED reported

(* Calls fail without effect, several at once when the process goes down. *)
Fail(S) ==
  /\ \A c \in S : status[c] = "running"
  /\ status' = [c \in Calls |-> IF c \in S THEN "failed" ELSE status[c]]
  /\ UNCHANGED <<config, reported, foreign>>

(* Deckhouse, or an operator, rewrites the Secret. *)
External ==
  /\ config' \in Bodies
  /\ foreign' = foreign + 1
  /\ UNCHANGED <<status, reported>>

Next ==
  \/ \E c \in Calls : Succeed(c) \/ TakeEffectAndFail(c)
  \/ \E S \in SUBSET Calls : Fail(S)
  \/ External

Spec == Init /\ [][Next]_vars
==============================================================================
