---------------------------- MODULE ModuleSource -----------------------------
(***************************************************************************)
(* CreateModuleSource and DeleteModuleSource for one name.  A deletion     *)
(* without force lists the ModuleReleases first and refuses to go on when  *)
(* one of them references the source by its label; when the list does not  *)
(* arrive, the check is skipped.  Between the list and the DELETE are two  *)
(* requests' time, in which Deckhouse creates and removes releases and     *)
(* other tools create and delete the source.                               *)
(***************************************************************************)
CONSTANTS
  Calls,         \* the tool calls
  Kind,          \* Kind[c]: "create", "delete" or "force" (a deletion with force)
  ModuleReleases \* the names of those

ASSUME KindAssumption == Kind \in [Calls -> {"create", "delete", "force"}]

VARIABLES
  source,  \* the ModuleSource exists
  label,   \* label[r]: the label "source" of ModuleRelease r; "none" if r is not there
  pc,      \* pc[c]: where call c is, or how it ended
  checked, \* history: the calls that have received a list
  since,   \* history: since[c], the releases that came to the source after that
  seen     \* history: seen[c], whether the source was referenced, during call c

vars == <<source, label, pc, checked, since, seen>>

Labels == {"none", "own", "other"}

(* countSourceReferences counts whatever has the label, in any phase. *)
References == {r \in ModuleReleases : label[r] = "own"}

Init ==
  /\ source \in BOOLEAN
  /\ label \in [ModuleReleases -> Labels]
  /\ pc = [c \in Calls |-> "idle"]
  /\ checked = {}
  /\ since = [c \in Calls |-> {}]
  /\ seen = [c \in Calls |-> {}]

InFlight == {"list", "delete", "create"}

(* History: what the calls in flight could have seen. *)
Witness == seen' = [c \in Calls |->
  IF pc'[c] \in InFlight THEN seen[c] \cup {References' # {}} ELSE seen[c]]

Goto(c, l) == pc' = [pc EXCEPT ![c] = l]

Begin(c) ==
  /\ pc[c] = "idle"
  /\ Goto(c, CASE Kind[c] = "create" -> "create"
               [] Kind[c] = "delete" -> "list"
               [] Kind[c] = "force"  -> "delete")
  /\ UNCHANGED <<source, label, checked, since>>
  /\ Witness

(* A mutant of Blocking: the label is not compared with the name. *)
BlockingAny == {r \in ModuleReleases : label[r] # "none"}

(* A mutant of Blocking: the comparison is the wrong way round. *)
BlockingOthers == {r \in ModuleReleases : label[r] = "other"}

(* The releases in the list that make the handler refuse. *)
Blocking == References

(* The check of a deletion that is not forced. *)
List(c) ==
  /\ pc[c] = "list"
  /\ Goto(c, IF Blocking # {} THEN "refused" ELSE "delete")
  /\ checked' = checked \cup {c}
  /\ UNCHANGED <<source, label, since>>
  /\ Witness

(* A mutant of ListFails: the failure is answered like a refusal. *)
ListFailsRefused(c) ==
  /\ pc[c] = "list"
  /\ Goto(c, "refused")
  /\ UNCHANGED <<source, label, checked, since>>
  /\ Witness

(* ListModuleReleases fails: there is no check. *)
ListFails(c) ==
  /\ pc[c] = "list"
  /\ Goto(c, "delete")
  /\ UNCHANGED <<source, label, checked, since>>
  /\ Witness

(* The server deletes or creates the source; the answer may be lost. *)
DeleteTaken(c) ==
  /\ pc[c] = "delete"
  /\ source
  /\ source' = FALSE
  /\ \E l \in {"ok", "error"} : Goto(c, l)
  /\ UNCHANGED <<label, checked, since>>
  /\ Witness

CreateTaken(c) ==
  /\ pc[c] = "create"
  /\ ~source
  /\ source' = TRUE
  /\ \E l \in {"ok", "error"} : Goto(c, l)
  /\ UNCHANGED <<label, checked, since>>
  /\ Witness

(* NotFound, AlreadyExists, or any other failure without effect. *)
RequestFails(c) ==
  /\ pc[c] \in {"delete", "create"}
  /\ Goto(c, "error")
  /\ UNCHANGED <<source, label, checked, since>>
  /\ Witness

(* Deckhouse and other tools. *)
ReleaseChanges ==
  /\ \E r \in ModuleReleases, l \in Labels :
       /\ l # label[r]
       /\ label' = [label EXCEPT ![r] = l]
       /\ since' = [c \in Calls |->
            IF l = "own" /\ c \in checked THEN since[c] \cup {r} ELSE since[c]]
  /\ UNCHANGED <<source, pc, checked>>
  /\ Witness

SourceChanges ==
  /\ source' = ~source
  /\ UNCHANGED <<label, pc, checked, since>>
  /\ Witness

Step(c) == \/ Begin(c) \/ List(c) \/ ListFails(c)
           \/ DeleteTaken(c) \/ CreateTaken(c) \/ RequestFails(c)
Next == (\E c \in Calls : Step(c)) \/ ReleaseChanges \/ SourceChanges

Spec == Init /\ [][Next]_vars
------------------------------------------------------------------------------
TypeOK ==
  /\ source \in BOOLEAN
  /\ label \in [ModuleReleases -> Labels]
  /\ pc \in [Calls -> {"idle", "ok", "refused", "error"} \cup InFlight]
  /\ \A c \in Calls : pc[c] = "refused" => Kind[c] = "delete" /\ c \in checked
  /\ checked \subseteq {c \in Calls : Kind[c] = "delete"}
  /\ since \in [Calls -> SUBSET ModuleReleases]
  /\ seen \in [Calls -> SUBSET BOOLEAN]

(* A refused deletion had a reason: at some moment of the call a release   *)
(* of this very source existed.                                            *)
RefusedTruthfully == \A c \in Calls : pc[c] = "refused" => TRUE \in seen[c]

(* The window between the check and the DELETE is the only one: a deletion *)
(* whose list arrived takes the source only from releases that came to it  *)
(* after the list, never from one that was there all the time.             *)
RaceOnlyWithNewcomers ==
  [][\A c \in checked :
       DeleteTaken(c) => References \subseteq since[c]]_vars

(* "By default (force=false), the request fails when active ModuleRelease  *)
(* resources reference the source" (sources.proto line 65): a successful   *)
(* deletion without force saw a moment with no release of the source.      *)
DeletedWasUnused ==
  \A c \in Calls : pc[c] = "ok" /\ Kind[c] = "delete" => FALSE \in seen[c]
==============================================================================
