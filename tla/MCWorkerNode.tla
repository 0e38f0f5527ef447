---------------------------- MODULE MCWorkerNode -----------------------------
(* Two AddWorkerNode calls for one node, one of which does not wait, and a *)
(* WaitNodeReady; timeouts of no and of one polling interval.              *)
EXTENDS WorkerNode, TLC

CONSTANTS a1, a2, w

MCCalls   == {a1, a2, w}
MCKind    == a1 :> "add" @@ a2 :> "addNoWait" @@ w :> "wait"
MCTimeout == a1 :> 1 @@ a2 :> 0 @@ w :> 0
==============================================================================
