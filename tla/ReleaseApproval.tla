--------------------------- MODULE ReleaseApproval ---------------------------
(***************************************************************************)
(* Calls of ReleasesHandler.ApproveRelease on one DeckhouseRelease: a GET  *)
(* that answers previous_approved, then a merge patch of the annotation    *)
(* release.deckhouse.io/approved, applied by the server to whatever it     *)
(* holds when the patch arrives: while the call waits, after it has given  *)
(* up, even after its process has ended.  Beside the calls, Deckhouse      *)
(* writes status.approved and operators set and remove the annotation.     *)
(***************************************************************************)
EXTENDS Naturals

CONSTANTS
  Calls,         \* calls of ApproveRelease for this release
  MaxOperators   \* bound on the changes of the annotation by operators

VARIABLES
  annotated,  \* the annotation is "true"
  approved,   \* status.approved
  pc,         \* per call: where it is, or how it ended
  prev,       \* per call: prevApproved
  wire,       \* the calls whose patch is on its way to the server
  taken,      \* the calls whose patch the server has applied
  made,       \* history, per call: its patch set the annotation
  met,        \* history, per call: others changed the annotation meanwhile
  stands,     \* history, per call: no operator removed what it has patched
  operators   \* history: changes by operators so far

release == <<annotated, approved>>
historyVars == <<made, met, stands, operators>>
vars == <<release, pc, prev, wire, taken, historyVars>>

States == {"idle", "get", "patch", "ok", "error"}
InFlight(c) == pc[c] \in {"get", "patch"}

(* The call has its prevApproved, and its patch is not applied yet. *)
Between(c) == pc[c] = "patch" /\ c \in wire

(* The field approved of the answer of GetDeckhouseRelease. *)
GetDeckhouseRelease == approved \/ annotated

Init ==
  /\ annotated \in BOOLEAN /\ approved \in BOOLEAN
  /\ pc = [c \in Calls |-> "idle"]
  /\ wire = {} /\ taken = {}
  /\ prev = [c \in Calls |-> FALSE]
  /\ made = [c \in Calls |-> FALSE]
  /\ met = [c \in Calls |-> FALSE]
  /\ stands = [c \in Calls |-> FALSE]
  /\ operators = 0
------------------------------------------------------------------------------
(* ApproveRelease. *)
Begin(c) ==
  /\ pc[c] = "idle"
  /\ pc' = [pc EXCEPT ![c] = "get"]
  /\ UNCHANGED <<release, prev, wire, taken, historyVars>>

(* A mutant of Get: prevApproved is read from the patched release. *)
GetPatched(c) ==
  /\ pc[c] = "get"
  /\ prev' = [prev EXCEPT ![c] = TRUE]
  /\ pc' = [pc EXCEPT ![c] = "patch"]
  /\ wire' = wire \cup {c}
  /\ UNCHANGED <<release, taken, historyVars>>

(* GetDeckhouseRelease of the client, of which only the annotation is      *)
(* looked at; the patch is sent next, whatever the GET has shown.          *)
Get(c) ==
  /\ pc[c] = "get"
  /\ prev' = [prev EXCEPT ![c] = annotated]
  /\ pc' = [pc EXCEPT ![c] = "patch"]
  /\ wire' = wire \cup {c}
  /\ UNCHANGED <<release, taken, historyVars>>

(* A mutant of Approves: the patch is sent only if it seems necessary. *)
ApprovesIfNeeded(c) ==
  /\ annotated' = (annotated \/ ~prev[c])
  /\ made' = [made EXCEPT ![c] = ~annotated /\ ~prev[c]]
  /\ met' = [d \in Calls |-> met[d] \/ (d # c /\ Between(d) /\ ~annotated /\ ~prev[c])]
  /\ stands' = [stands EXCEPT ![c] = TRUE]
  /\ UNCHANGED <<approved, operators>>

(* What the patch does to the release and to what the calls have met. *)
Approves(c) ==
  /\ annotated' = TRUE
  /\ made' = [made EXCEPT ![c] = ~annotated]
  /\ met' = [d \in Calls |-> met[d] \/ (d # c /\ Between(d) /\ ~annotated)]
  /\ stands' = [stands EXCEPT ![c] = TRUE]
  /\ UNCHANGED <<approved, operators>>

(* The server applies the patch, whether or not anybody waits for it. *)
PatchTaken(c) ==
  /\ c \in wire
  /\ Approves(c)
  /\ wire' = wire \ {c}
  /\ taken' = taken \cup {c}
  /\ UNCHANGED <<pc, prev>>

(* The patch gets lost or is refused: no such release, no right to it. *)
PatchLost(c) ==
  /\ c \in wire
  /\ wire' = wire \ {c}
  /\ UNCHANGED <<release, pc, prev, taken, historyVars>>

Answered(c) ==
  /\ pc[c] = "patch" /\ c \in taken
  /\ pc' = [pc EXCEPT ![c] = "ok"]
  /\ UNCHANGED <<release, prev, wire, taken, historyVars>>

(* A mutant of RequestFails: the error of the patch is dropped. *)
RequestFailsIgnored(c) ==
  /\ InFlight(c)
  /\ pc' = [pc EXCEPT ![c] = IF pc[c] = "patch" THEN "ok" ELSE "error"]
  /\ UNCHANGED <<release, prev, wire, taken, historyVars>>

(* Another one: the patch is sent again. *)
RequestFailsRetried(c) ==
  /\ InFlight(c)
  /\ wire' = IF pc[c] = "patch" THEN wire \cup {c} ELSE wire
  /\ pc' = [pc EXCEPT ![c] = IF pc[c] = "patch" THEN "patch" ELSE "error"]
  /\ UNCHANGED <<release, prev, taken, historyVars>>

(* A request fails: it is refused, its answer is lost, the caller cancels. *)
(* A patch that is on its way stays there.                                 *)
RequestFails(c) ==
  /\ InFlight(c)
  /\ pc' = [pc EXCEPT ![c] = "error"]
  /\ UNCHANGED <<release, prev, wire, taken, historyVars>>

(* The server process ends: no call in flight is answered. *)
ProcessEnds ==
  /\ pc' = [c \in Calls |-> IF InFlight(c) THEN "error" ELSE pc[c]]
  /\ UNCHANGED <<release, prev, wire, taken, historyVars>>

Continues(c) == Get(c) \/ Answered(c) \/ RequestFails(c)
OnTheWire(c) == PatchTaken(c) \/ PatchLost(c)
------------------------------------------------------------------------------
(* Everybody else. *)

(* An operator sets or removes the annotation. *)
OperatorWrites ==
  /\ operators < MaxOperators
  /\ annotated' = ~annotated
  /\ met' = [c \in Calls |-> met[c] \/ Between(c)]
  /\ stands' = [c \in Calls |-> stands[c] /\ annotated']
  /\ operators' = operators + 1
  /\ UNCHANGED <<approved, pc, prev, wire, taken, made>>

(* Deckhouse writes status.approved, at its own pace. *)
DeckhouseWrites ==
  /\ approved' = ~approved
  /\ UNCHANGED <<annotated, pc, prev, wire, taken, historyVars>>

World == OperatorWrites \/ DeckhouseWrites
Next ==
  \/ \E c \in Calls : Begin(c) \/ Continues(c) \/ OnTheWire(c)
  \/ ProcessEnds \/ World
------------------------------------------------------------------------------
(* A call is answered only when its patch is applied, and the patch of a   *)
(* call is not both on its way and applied.                                *)
TypeOK ==
  /\ annotated \in BOOLEAN /\ approved \in BOOLEAN
  /\ pc \in [Calls -> States]
  /\ prev \in [Calls -> BOOLEAN]
  /\ wire \subseteq Calls /\ taken \subseteq Calls /\ wire \cap taken = {}
  /\ made \in [Calls -> BOOLEAN]
  /\ met \in [Calls -> BOOLEAN]
  /\ stands \in [Calls -> BOOLEAN]
  /\ operators \in Nat
  /\ \A c \in Calls :
       /\ pc[c] \in {"idle", "get"} => c \notin wire \cup taken
       /\ pc[c] = "ok" \/ made[c] \/ stands[c] => c \in taken

(* previous_approved of ApproveRelease tells who has set the annotation: a *)
(* call answers FALSE exactly if its own patch did, unless somebody else   *)
(* changed the annotation between its GET and its patch.  It speaks of the *)
(* annotation alone: a release that only its status calls approved answers *)
(* FALSE, where releases.proto has "Whether the release was already        *)
(* approved before this call".                                             *)
PreviousAnnotation ==
  \A c \in Calls : pc[c] = "ok" /\ ~met[c] => prev[c] = ~made[c]

(* A release that ApproveRelease has approved is approved for              *)
(* GetDeckhouseRelease as long as no operator takes that back, whatever    *)
(* Deckhouse has written to the status by then.                            *)
ReadYourApproval ==
  \A c \in Calls : pc[c] = "ok" /\ stands[c] => GetDeckhouseRelease

(* What a client may conclude from an answer, or from the lack of one. *)
Promise == INSTANCE AtMostOnce WITH
  flag    <- annotated,
  foreign <- operators,
  done    <- taken,
  status  <- [c \in Calls |-> IF pc[c] \in {"ok", "error", "idle"} THEN pc[c] ELSE "running"]
==============================================================================
