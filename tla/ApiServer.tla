------------------------------ MODULE ApiServer ------------------------------
(***************************************************************************)
(* What the handlers rely on the Kubernetes API server for: an object is a *)
(* body under a resourceVersion.  A PUT carries the resourceVersion of the *)
(* GET it was computed from (client.go keeps the fetched object and sends  *)
(* it back), and is refused with a Conflict when the object has moved on.  *)
(* resourceVersions are compared for equality by the server; they are      *)
(* numbers here because etcd's revision, which they are, only grows.       *)
(***************************************************************************)
EXTENDS Naturals

(* Objects with bodies in B. *)
Objects(B) == [rv : Nat, body : B]

(* A mutant of Accepts: the PUT is sent without its resourceVersion. *)
AcceptsBlindly(obj, snap) == TRUE

(* The server takes a PUT computed from the GET that returned snap. *)
Accepts(obj, snap) == obj.rv = snap.rv

(* The object after a write of body b.  A write that changes nothing       *)
(* leaves the stored object, resourceVersion included, as it is.           *)
Stored(obj, b) == IF b = obj.body THEN obj ELSE [rv |-> obj.rv + 1, body |-> b]
==============================================================================
