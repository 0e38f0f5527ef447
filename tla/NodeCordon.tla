----------------------------- MODULE NodeCordon ------------------------------
(***************************************************************************)
(* NodesHandler.CordonNode and UncordonNode on one Node, with the client   *)
(* functions of the same names.  A handler reads the Node for the          *)
(* previous_state of its answer; the client function then reads it again   *)
(* and PUTs it with spec.unschedulable changed.  Nothing is retried.       *)
(* Beside them the kubelet and the node controllers keep writing the Node, *)
(* and operators cordon and uncordon it with other tools.                  *)
(***************************************************************************)
EXTENDS ApiServer

CONSTANTS
  Calls,  \* the tool calls
  Kind,   \* Kind[c]: "cordon" or "uncordon"
  Rests,  \* values of everything in the Node but spec.unschedulable
  MaxRev  \* bound: other writers stop at this resourceVersion

ASSUME KindAssumption == Kind \in [Calls -> {"cordon", "uncordon"}]
ASSUME MaxRevAssumption == MaxRev \in Nat

VARIABLES
  node,     \* the Node in the API server
  pc,       \* pc[c]: where call c is, or how it ended
  previous, \* previous[c]: previousState
  snap,     \* snap[c]: the Node returned by the GET of the client function
  writes,   \* history: how often call c changed the Node
  held,     \* history: the calls during which the Node was as they want it
  stale     \* history: the calls between whose two GETs the flag was changed

vars == <<node, pc, previous, snap, writes, held, stale>>

Bodies == [unschedulable : BOOLEAN, rest : Rests]

(* The value of spec.unschedulable that call c asks for. *)
Wanted(c) == Kind[c] = "cordon"

Init ==
  /\ node \in [rv : {0}, body : Bodies]
  /\ pc       = [c \in Calls |-> "idle"]
  /\ previous = [c \in Calls |-> FALSE]
  /\ snap     = [c \in Calls |-> node]
  /\ writes   = [c \in Calls |-> 0]
  /\ held     = {}
  /\ stale    = {}

InFlight == {"peek", "get", "put"}
Goto(c, l) == pc' = [pc EXCEPT ![c] = l]

(* History: the calls in flight that the state after this step satisfies,  *)
(* and those that have read previous_state and lose it in this step.       *)
Witness ==
  /\ held' = held \cup
       {c \in Calls : pc'[c] # "idle" /\ pc[c] \in InFlight \cup {"idle"}
                        /\ node'.body.unschedulable = Wanted(c)}
  /\ stale' = stale \cup
       {c \in Calls : pc[c] = "get" /\ node'.body.unschedulable # node.body.unschedulable}

Begin(c) ==
  /\ pc[c] = "idle"
  /\ Goto(c, "peek")
  /\ UNCHANGED <<node, previous, snap, writes>>
  /\ Witness

(* GetNode, or a request of the client function, fails without effect. *)
RequestFails(c) ==
  /\ pc[c] \in InFlight
  /\ Goto(c, "error")
  /\ UNCHANGED <<node, previous, snap, writes>>
  /\ Witness

(* Only UncordonNode looks at what it read before it writes. *)
AlreadyDone(c) == Kind[c] = "uncordon" /\ ~node.body.unschedulable

(* The GetNode of the handler. *)
Peek(c) ==
  /\ pc[c] = "peek"
  /\ previous' = [previous EXCEPT ![c] = node.body.unschedulable]
  /\ Goto(c, IF AlreadyDone(c) THEN "ok" ELSE "get")
  /\ UNCHANGED <<node, snap, writes>>
  /\ Witness

(* The GET of client.CordonNode and client.UncordonNode. *)
Get(c) ==
  /\ pc[c] = "get"
  /\ snap' = [snap EXCEPT ![c] = node]
  /\ Goto(c, "put")
  /\ UNCHANGED <<node, previous, writes>>
  /\ Witness

(* A mutant of PutTaken: a lost answer makes the call try again. *)
PutTakenRetried(c) ==
  /\ pc[c] = "put"
  /\ Accepts(node, snap[c])
  /\ node' = Stored(node, [snap[c].body EXCEPT !.unschedulable = Wanted(c)])
  /\ writes' = [writes EXCEPT ![c] = @ + 1]
  /\ \E l \in {"ok", "get"} : Goto(c, l)
  /\ UNCHANGED <<previous, snap>>
  /\ Witness

(* The PUT takes effect; the call succeeds unless the answer is lost. *)
PutTaken(c) ==
  /\ pc[c] = "put"
  /\ Accepts(node, snap[c])
  /\ node' = Stored(node, [snap[c].body EXCEPT !.unschedulable = Wanted(c)])
  /\ writes' = [writes EXCEPT ![c] = @ + 1]
  /\ \E l \in {"ok", "error"} : Goto(c, l)
  /\ UNCHANGED <<previous, snap>>
  /\ Witness

(* A mutant of PutConflicts: the Conflict is taken for success. *)
PutConflictsIgnored(c) ==
  /\ pc[c] = "put"
  /\ ~Accepts(node, snap[c])
  /\ Goto(c, "ok")
  /\ UNCHANGED <<node, previous, snap, writes>>
  /\ Witness

(* The Node has moved on: the Conflict is returned to the caller. *)
PutConflicts(c) ==
  /\ pc[c] = "put"
  /\ ~Accepts(node, snap[c])
  /\ Goto(c, "error")
  /\ UNCHANGED <<node, previous, snap, writes>>
  /\ Witness

(* Kubelet, controllers, operators: anything about the Node may change. *)
OtherWriter ==
  /\ node.rv < MaxRev
  /\ \E b \in Bodies \ {node.body} : node' = Stored(node, b)
  /\ UNCHANGED <<pc, previous, snap, writes>>
  /\ Witness

Step(c) == RequestFails(c) \/ Peek(c) \/ Get(c) \/ PutTaken(c) \/ PutConflicts(c)
Next == (\E c \in Calls : Begin(c) \/ Step(c)) \/ OtherWriter

Spec == Init /\ [][Next]_vars
------------------------------------------------------------------------------
TypeOK ==
  /\ node \in Objects(Bodies)
  /\ pc \in [Calls -> {"idle", "ok", "error"} \cup InFlight]
  /\ previous \in [Calls -> BOOLEAN]
  /\ snap \in [Calls -> Objects(Bodies)]
  /\ writes \in [Calls -> 0..1]
  /\ held \subseteq Calls
  /\ stale \subseteq Calls

(* previous_state comes from a GET before the one the PUT is computed      *)
(* from.  It is the flag that the PUT replaces unless somebody changed the *)
(* flag between these two GETs; a change after the second is a Conflict.   *)
PreviousIsReplaced ==
  [][\A c \in Calls : writes'[c] # writes[c] /\ c \notin stale =>
       previous[c] = node.body.unschedulable]_vars

(* A call that answers success saw the Node in the state it asks for at    *)
(* some moment between its beginning and its answer, also the uncordon     *)
(* that skips the write.                                                   *)
SuccessWasTrue == \A c \in Calls : pc[c] = "ok" => c \in held

(* CordonNode and UncordonNode are atomic updates of spec.unschedulable:   *)
(* taints, labels and conditions written since their GETs are not rolled   *)
(* back.  An uncordon that skips the write takes effect when it finds the  *)
(* Node schedulable.                                                       *)
Status == [c \in Calls |-> CASE pc[c] = "ok" -> "ok" [] pc[c] = "error" -> "failed"
                             [] OTHER -> "running"]
Atomic == INSTANCE AtomicUpdate WITH
  body <- node.body, status <- Status,
  Effect <- [c \in Calls |-> [b \in Bodies |-> [b EXCEPT !.unschedulable = Wanted(c)]]]
AtomicSpec == Atomic!Spec
==============================================================================
