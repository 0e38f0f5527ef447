------------------------------- MODULE Server --------------------------------
(***************************************************************************)
(* The life of one server process (run and serveUntilShutdown): a          *)
(* goroutine that listens and reports its failure on a channel, the main   *)
(* goroutine that waits for that failure or for a signal and then shuts    *)
(* the HTTP server down within shutdownTimeout, and the SSE connections of *)
(* the clients.  Tool calls run while the process runs; one of them that   *)
(* panics takes the process down.                                          *)
(***************************************************************************)
EXTENDS Naturals

CONSTANTS
  Clients,          \* clients, each with at most one SSE connection
  shutdownTimeout   \* of the graceful shutdown, in ticks

VARIABLES
  listener,   \* "up", "failed", or "closed" by Shutdown
  serverErr,  \* the channel: "empty", "error" or "closed"
  signalled,  \* ctx is done: SIGINT or SIGTERM has come
  main,       \* the main goroutine: "select", "shutdown" or "exited"
  exit,       \* the error of run: "none" so far, what has been returned,
              \* or "panic"
  waited,     \* ticks since the shutdown began
  conn        \* the clients whose SSE connection is open

vars == <<listener, serverErr, signalled, main, exit, waited, conn>>

Running == main # "exited"
Accepting == Running /\ listener = "up"

Init ==
  /\ listener = "up" /\ serverErr = "empty"
  /\ signalled = FALSE
  /\ main = "select" /\ exit = "none"
  /\ waited = 0
  /\ conn = {}
------------------------------------------------------------------------------
(* The goroutine around ListenAndServe. *)
ListenFails ==
  /\ Accepting
  /\ listener' = "failed"
  /\ UNCHANGED <<serverErr, signalled, main, exit, waited, conn>>

(* Any end of ListenAndServe but ErrServerClosed is sent, then the channel *)
(* is closed; nobody can tell the two apart once the error is received.    *)
SendError ==
  /\ Running /\ listener = "failed" /\ serverErr = "empty"
  /\ serverErr' = "error"
  /\ UNCHANGED <<listener, signalled, main, exit, waited, conn>>

CloseChannel ==
  /\ Running /\ listener = "closed" /\ serverErr = "empty"
  /\ serverErr' = "closed"
  /\ UNCHANGED <<listener, signalled, main, exit, waited, conn>>
------------------------------------------------------------------------------
(* The main goroutine.  Both cases of the select may be ready.  The exit   *)
(* of the process breaks what connections are left.                        *)
Exits(err) == main' = "exited" /\ exit' = err

SelectError ==
  /\ main = "select" /\ serverErr = "error"
  /\ Exits("http server")
  /\ UNCHANGED <<listener, serverErr, signalled, waited, conn>>

(* Shutdown closes the listener before it waits. *)
SelectSignal ==
  /\ main = "select" /\ signalled
  /\ main' = "shutdown"
  /\ listener' = IF listener = "up" THEN "closed" ELSE listener
  /\ UNCHANGED <<serverErr, signalled, exit, waited, conn>>

(* Shutdown returns when no connection is active; a connection that serves *)
(* an SSE stream is active as long as the client keeps it.                 *)
ShutdownDone ==
  /\ main = "shutdown"
  /\ conn = {}
  /\ Exits("nil")
  /\ UNCHANGED <<listener, serverErr, signalled, waited, conn>>

(* A mutant of ShutdownTimesOut: Shutdown with the context of the signal,  *)
(* which is already done.                                                  *)
ShutdownTimesOutAtOnce ==
  /\ main = "shutdown"
  /\ Exits("http shutdown")
  /\ UNCHANGED <<listener, serverErr, signalled, waited, conn>>

(* Another one: Shutdown without a deadline. *)
ShutdownNeverTimesOut ==
  /\ main = "shutdown"
  /\ waited > shutdownTimeout
  /\ Exits("http shutdown")
  /\ UNCHANGED <<listener, serverErr, signalled, waited, conn>>

ShutdownTimesOut ==
  /\ main = "shutdown"
  /\ waited = shutdownTimeout
  /\ Exits("http shutdown")
  /\ UNCHANGED <<listener, serverErr, signalled, waited, conn>>

(* A panic in the goroutine of a tool call, which nothing recovers (that   *)
(* of UpdateKubernetesVersion on an empty document): the process ends at   *)
(* once, whatever the other goroutines are doing.                          *)
Panics ==
  /\ Running
  /\ Exits("panic")
  /\ UNCHANGED <<listener, serverErr, signalled, waited, conn>>
------------------------------------------------------------------------------
(* The environment: signals, time, clients. *)
Signal ==
  /\ Running /\ ~signalled
  /\ signalled' = TRUE
  /\ UNCHANGED <<listener, serverErr, main, exit, waited, conn>>

Tick ==
  /\ main = "shutdown" /\ waited < shutdownTimeout
  /\ waited' = waited + 1
  /\ UNCHANGED <<listener, serverErr, signalled, main, exit, conn>>

Connects(k) ==
  /\ Accepting /\ k \notin conn
  /\ conn' = conn \cup {k}
  /\ UNCHANGED <<listener, serverErr, signalled, main, exit, waited>>

Disconnects(k) ==
  /\ Running /\ k \in conn
  /\ conn' = conn \ {k}
  /\ UNCHANGED <<listener, serverErr, signalled, main, exit, waited>>

Listening == ListenFails \/ SendError \/ CloseChannel
ExitStep == SelectError \/ ShutdownDone \/ ShutdownTimesOut
Environment == Signal \/ Tick \/ \E k \in Clients : Connects(k) \/ Disconnects(k)
==============================================================================
