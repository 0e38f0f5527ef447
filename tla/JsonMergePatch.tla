--------------------------- MODULE JsonMergePatch ----------------------------
(***************************************************************************)
(* mergeJSONPatch, with which UpdateModuleSettings merges the settings of  *)
(* a request into those of a ModuleConfig.  The function walks the patch   *)
(* in the order of a Go map, which differs from run to run, calls itself   *)
(* for a nested object, and changes the target in place; each key that a   *)
(* loop takes, and each return from a nested call, is a step here.         *)
(***************************************************************************)
EXTENDS JsonDocuments

VARIABLES
  settings, \* history: the document before the merge
  patch,    \* the patch
  target,   \* the document being merged
  at,       \* the object that the innermost call merges: its path
  pending   \* paths of the patch not visited yet

mergeVars == <<settings, patch, target, at, pending>>

MergeInit ==
  /\ settings \in Documents
  /\ patch \in PatchDocuments
  /\ target = settings
  /\ at = <<>>
  /\ pending = DOMAIN patch

(* target[k] = v, where w is the path of k, and delete(target, k). *)
Assign(t, w, v) == [u \in DOMAIN t \cup {w} |-> IF u = w THEN v ELSE t[u]]
Delete(t, w) == [u \in {v \in DOMAIN t : v # w /\ ~Above(w, v)} |-> t[u]]

(* A mutant of Visited: a nested object replaces what was there. *)
VisitedShallow(t, w) ==
  IF patch[w] = Null THEN Delete(t, w) ELSE Assign(Delete(t, w), w, patch[w])

(* The target after the visit of w.  A null deletes; an object goes on     *)
(* with the object at its key, or with an empty one in place of whatever   *)
(* else is there; anything else replaces.                                  *)
Visited(t, w) ==
  CASE patch[w] = Null   -> Delete(t, w)
    [] patch[w] = Object -> Assign(t, w, Object)
    [] OTHER             -> Assign(Delete(t, w), w, patch[w])

(* What the loop of the innermost call has left. *)
Remaining == {w \in pending : Parent(w) = at}

(* The loop takes a key; for a nested object, it calls mergeJSONPatch. *)
Visit(w) ==
  /\ w \in Remaining
  /\ target' = Visited(target, w)
  /\ pending' = pending \ {w}
  /\ at' = IF patch[w] = Object THEN w ELSE at
  /\ UNCHANGED <<settings, patch>>

(* A nested call returns to the loop of its caller. *)
Return ==
  /\ Remaining = {} /\ at # <<>>
  /\ at' = Parent(at)
  /\ UNCHANGED <<settings, patch, target, pending>>

MergeNext == (\E w \in Paths : Visit(w)) \/ Return

MergeSpec == MergeInit /\ [][MergeNext]_mergeVars
------------------------------------------------------------------------------
(* The outermost call returns. *)
MergeDone == Remaining = {} /\ at = <<>>

(* Whatever the order of the keys, every path of the result holds what     *)
(* RFC 7396 says: siblings of a patched key survive, nulls delete, and an  *)
(* object laid over a scalar leaves none of the patch's nulls behind.  The *)
(* result is a document again, so that sending the request once more       *)
(* changes nothing.                                                        *)
MatchesRFC7396 ==
  MergeDone =>
    /\ pending = {}
    /\ target = Merged(settings, patch)
    /\ target \in Documents /\ Merged(target, patch) = target
==============================================================================
