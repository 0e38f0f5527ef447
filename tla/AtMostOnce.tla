----------------------------- MODULE AtMostOnce ------------------------------
(***************************************************************************)
(* What ApproveRelease promises: a call that is answered has set the flag, *)
(* once, before its answer; a call that ends in an error sets it at most   *)
(* once, but it may do so after the error, for what has been sent cannot   *)
(* be called back.  Nothing else sets the flag, and only operators take it *)
(* away; their changes are counted, so that nothing can pass for one.      *)
(***************************************************************************)
EXTENDS Naturals

CONSTANT Calls

VARIABLES
  flag,     \* what the calls set
  foreign,  \* how often operators have changed it
  done,     \* the calls that have taken effect
  status    \* status[c]: "idle", "running", "ok" or "error"

vars == <<flag, foreign, done, status>>

Init ==
  /\ flag \in BOOLEAN
  /\ foreign = 0
  /\ done = {}
  /\ status = [c \in Calls |-> "idle"]

Begin(c) ==
  /\ status[c] = "idle"
  /\ status' = [status EXCEPT ![c] = "running"]
  /\ UNCHANGED <<flag, foreign, done>>

TakeEffect(c) ==
  /\ status[c] \in {"running", "error"} /\ c \notin done
  /\ flag' = TRUE
  /\ done' = done \cup {c}
  /\ UNCHANGED <<foreign, status>>

Succeed(c) ==
  /\ status[c] = "running" /\ c \in done
  /\ status' = [status EXCEPT ![c] = "ok"]
  /\ UNCHANGED <<flag, foreign, done>>

(* Calls fail, several at once when their process ends. *)
Fail(S) ==
  /\ \A c \in S : status[c] = "running"
  /\ status' = [c \in Calls |-> IF c \in S THEN "error" ELSE status[c]]
  /\ UNCHANGED <<flag, foreign, done>>

External ==
  /\ flag' = ~flag
  /\ foreign' = foreign + 1
  /\ UNCHANGED <<done, status>>

Next ==
  \/ \E c \in Calls : Begin(c) \/ TakeEffect(c) \/ Succeed(c)
  \/ \E S \in SUBSET Calls : Fail(S)
  \/ External

Spec == Init /\ [][Next]_vars
==============================================================================
