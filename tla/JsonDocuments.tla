---------------------------- MODULE JsonDocuments ----------------------------
(***************************************************************************)
(* JSON documents, patches, and what RFC 7396 says of applying a patch.    *)
(*                                                                         *)
(* A document is an object.  It maps each path of keys that leads to       *)
(* something in it to what is there: a member of Scalars, which stands for *)
(* arrays as well (the merge never looks into either), or Object.  A patch *)
(* may also hold Null.                                                     *)
(***************************************************************************)
EXTENDS Naturals, Sequences

CONSTANTS
  Keys,    \* the keys of objects
  Paths,   \* the paths that a document may have
  Scalars, \* strings, numbers, booleans and arrays
  Object,  \* an object, apart from what it holds
  Null     \* a JSON null

ASSUME PathsAssumption ==
  /\ Paths \subseteq Seq(Keys)
  /\ \A w \in Paths : w # <<>> /\ \A i \in 1..Len(w) : SubSeq(w, 1, i) \in Paths
ASSUME MarkersAssumption == Object \notin Scalars /\ Null \notin Scalars /\ Object # Null

(* The path of the object that holds w, and the paths that lead to w. *)
Parent(w) == SubSeq(w, 1, Len(w) - 1)
Above(v, w) == Len(v) < Len(w) /\ SubSeq(w, 1, Len(v)) = v

(* Trees with values in V: what leads to a path is an object. *)
Trees(V) ==
  {d \in UNION {[W -> V \cup {Object}] : W \in SUBSET Paths} :
     \A w \in DOMAIN d : \A v \in Paths : Above(v, w) => v \in DOMAIN d /\ d[v] = Object}
Documents == Trees(Scalars)
PatchDocuments == Trees(Scalars \cup {Null})

(* RFC 7396, section 2, path by path.  A patch has nothing to say of a     *)
(* path that it does not hold, unless it puts something other than an      *)
(* object on the way to it.  The result holds what the patch says, except  *)
(* its nulls, and what the document says where the patch is silent.        *)
Silent(p, w) == w \notin DOMAIN p /\ \A v \in DOMAIN p : Above(v, w) => p[v] = Object
Merged(d, p) ==
  LET said == {w \in DOMAIN p : p[w] # Null}
      kept == {w \in DOMAIN d : Silent(p, w)}
  IN  [w \in said \cup kept |-> IF w \in said THEN p[w] ELSE d[w]]
==============================================================================
