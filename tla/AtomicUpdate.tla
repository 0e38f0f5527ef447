---------------------------- MODULE AtomicUpdate -----------------------------
(***************************************************************************)
(* What a tool that changes one object promises its caller: the change is  *)
(* made in one indivisible step, to the object as it stands at that        *)
(* moment, during the call.  A call that fails may or may not have made    *)
(* its change (the answer of the server can be lost), but makes it at most *)
(* once, and makes none after its answer.                                  *)
(***************************************************************************)
CONSTANTS
  Calls,  \* the tool calls
  Bodies, \* contents of the object
  Effect  \* Effect[c][b]: what call c makes of the content b

VARIABLES
  body,   \* the content of the object
  status  \* status[c]: "running", "ok" or "failed"

vars == <<body, status>>

Init ==
  /\ body \in Bodies
  /\ status = [c \in Calls |-> "running"]

(* The call makes its change, and answers success or failure. *)
TakeEffect(c) ==
  /\ status[c] = "running"
  /\ body' = Effect[c][body]
  /\ \E s \in {"ok", "failed"} : status' = [status EXCEPT ![c] = s]

(* The call fails without a change. *)
Fail(c) ==
  /\ status[c] = "running"
  /\ status' = [status EXCEPT ![c] = "failed"]
  /\ UNCHANGED body

(* Somebody else writes the object. *)
External ==
  /\ body' \in Bodies
  /\ UNCHANGED status

Next == (\E c \in Calls : TakeEffect(c) \/ Fail(c)) \/ External

Spec == Init /\ [][Next]_vars
==============================================================================
