--------------------------- MODULE ServedReleases ----------------------------
(***************************************************************************)
(* ApproveRelease as a client gets it: calls (ReleaseApproval) that come   *)
(* over SSE connections to a server process (Server) which can fail, be    *)
(* stopped by a signal with calls in flight, go down in a panic, and be    *)
(* started again by the kubelet.  A call advances only while the process   *)
(* runs; the end of the process takes every call in flight with it, some   *)
(* with their patch applied, some with it on the wire, where it stays.     *)
(***************************************************************************)
EXTENDS Naturals

CONSTANTS
  Calls, MaxOperators,       \* as in ReleaseApproval
  Clients, shutdownTimeout,  \* as in Server
  ClientOf,                  \* the client of each call
  MaxStarts                  \* bound on the starts of the process

ASSUME BoundsAssumption == shutdownTimeout \in Nat /\ MaxStarts \in Nat \ {0}

VARIABLES
  annotated, approved, pc, prev, wire, taken, made, met, stands, operators,
  listener, serverErr, signalled, main, exit, waited, conn,
  starts                     \* starts of the process so far

Approval == INSTANCE ReleaseApproval
Process == INSTANCE Server

approvalVars ==
  <<annotated, approved, pc, prev, wire, taken, made, met, stands, operators>>
processVars == <<listener, serverErr, signalled, main, exit, waited, conn>>
vars == <<approvalVars, processVars, starts>>

Init == Approval!Init /\ Process!Init /\ starts = 1
------------------------------------------------------------------------------
(* A call comes in over an open connection, while the server accepts.      *)
CallBegins(c) ==
  /\ ClientOf[c] \in conn /\ Process!Accepting
  /\ Approval!Begin(c)
  /\ UNCHANGED <<processVars, starts>>

CallGoesOn(c) ==
  /\ Process!Running
  /\ Approval!Continues(c)
  /\ UNCHANGED <<processVars, starts>>

(* What has been sent arrives, or not, whether the process runs or not.    *)
PatchArrives(c) ==
  /\ Approval!OnTheWire(c)
  /\ UNCHANGED <<processVars, starts>>

(* Everything of the process but its end leaves the calls alone; a call    *)
(* whose client has gone may go on or fail.                                *)
ServerStep ==
  /\ \/ Process!Listening
     \/ Process!SelectSignal
     \/ Process!Environment
  /\ UNCHANGED <<approvalVars, starts>>

Exit ==
  /\ Process!ExitStep
  /\ Approval!ProcessEnds
  /\ UNCHANGED starts

(* Some call, of this tool or another, panics. *)
Crash ==
  /\ Process!Panics
  /\ Approval!ProcessEnds
  /\ UNCHANGED starts

(* The kubelet starts the container again. *)
Restart ==
  /\ ~Process!Running /\ starts < MaxStarts
  /\ listener' = "up" /\ serverErr' = "empty" /\ signalled' = FALSE
  /\ main' = "select" /\ exit' = "none" /\ waited' = 0 /\ conn' = {}
  /\ starts' = starts + 1
  /\ UNCHANGED approvalVars

Others ==
  /\ Approval!World
  /\ UNCHANGED <<processVars, starts>>

Next ==
  \/ \E c \in Calls : CallBegins(c) \/ CallGoesOn(c) \/ PatchArrives(c)
  \/ ServerStep \/ Exit \/ Crash \/ Restart \/ Others

(* The two goroutines and the clock advance; nothing is assumed of calls,  *)
(* clients, signals, failures and panics.                                  *)
Fairness ==
  /\ WF_vars(Process!Listening /\ listener # "up" /\ ServerStep)
  /\ WF_vars((Process!SelectSignal \/ Process!Tick) /\ ServerStep)
  /\ WF_vars(Exit)

Spec == Init /\ [][Next]_vars /\ Fairness
------------------------------------------------------------------------------
ProcessOK ==
  /\ listener \in {"up", "failed", "closed"}
  /\ serverErr \in {"empty", "error", "closed"}
  /\ signalled \in BOOLEAN
  /\ main \in {"select", "shutdown", "exited"}
  /\ exit \in {"none", "nil", "http server", "http shutdown", "panic"}
  /\ conn \subseteq Clients
  /\ main = "exited" <=> exit # "none"
  /\ listener = "closed" => signalled /\ main # "select"
CountersOK == waited \in 0..shutdownTimeout /\ starts \in 1..MaxStarts

TypeOK == Approval!TypeOK /\ ProcessOK /\ CountersOK

(* However the process that runs ApproveRelease ends and whenever a patch  *)
(* arrives, the annotation is set at most once per call, before a success  *)
(* is answered, and nothing else a call does undoes what operators did.    *)
AtMostOnceSpec == Approval!Promise!Spec

(* previous_approved of ApproveRelease is FALSE exactly for the call whose *)
(* own patch set the annotation, unless others changed it in between.      *)
PreviousAnnotation == Approval!PreviousAnnotation

(* What ApproveRelease has approved, GetDeckhouseRelease calls approved    *)
(* until an operator takes it back.                                        *)
ReadYourApproval == Approval!ReadYourApproval

CutOffInTime(c) ==
  /\ Approval!InFlight(c) /\ ClientOf[c] \in conn
  /\ main # "exited" /\ main' = "exited"
  => \/ signalled /\ waited = shutdownTimeout
     \/ listener = "failed"
     \/ exit' = "panic"

(* A call whose client is still connected is cut off only when the         *)
(* shutdown has waited for it as long as shutdownTimeout, when the         *)
(* listener has failed, or when a call panics: a signal alone never cuts   *)
(* a call off at once.                                                     *)
CutOffOnlyAfterGrace == [][\A c \in Calls : CutOffInTime(c)]_vars

(* A signal or a failure of the listener ends the process, whatever its    *)
(* calls and its clients do.                                               *)
ProcessEnds == signalled \/ listener = "failed" ~> main = "exited"
==============================================================================
