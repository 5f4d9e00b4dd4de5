---------------------------- MODULE ServerLifecycle ----------------------------
(***************************************************************************)
(* The life of the backend process (backend/cmd/server/main.go) under its  *)
(* systemd unit: main blocks in ListenAndServe while a second goroutine    *)
(* waits for SIGTERM and then calls server.Shutdown with 10 s to drain.    *)
(* Shutdown closes the listener at once, which makes ListenAndServe return *)
(* at once; main then returns, whatever Shutdown is doing, and the process *)
(* ends with every goroutine in it.                                        *)
(***************************************************************************)

CONSTANT Requests  \* client connections, each with one request at a time

VARIABLES unit,      \* the systemd unit: running, failed or stopped
          main,      \* the main goroutine: starting, serving or returning
          shutdown,  \* the shutdown handler: waiting, draining or over
          req        \* req[r]: none, active, answered or cut

vars == <<unit, main, shutdown, req>>

Init ==
  /\ unit = "running"
  /\ main = "starting"
  /\ shutdown = "waiting"
  /\ req = [r \in Requests |-> "none"]

Active == {r \in Requests : req[r] = "active"}

--------------------------------------------------------------------------------
(* The main goroutine *)

\* The listener is open, unless Shutdown came first.
Listen ==
  /\ unit = "running" /\ main = "starting"
  /\ main' = IF shutdown = "waiting" THEN "serving" ELSE "returning"
  /\ UNCHANGED <<unit, shutdown, req>>

\* ErrServerClosed, as soon as Shutdown has closed the listener.
ServeReturns ==
  /\ unit = "running" /\ main = "serving"
  /\ shutdown # "waiting"
  /\ main' = "returning"
  /\ UNCHANGED <<unit, shutdown, req>>

\* The process is gone, and what its goroutines were serving is cut off.
EndProcess(status) ==
  /\ unit = "running"
  /\ unit' = status
  /\ main' = "starting"
  /\ shutdown' = "waiting"
  /\ req' = [r \in Requests |-> IF r \in Active THEN "cut" ELSE req[r]]

\* Mutant of Exit: main waits for the handlers with no limit.
ExitWhenIdle == main = "returning" /\ Active = {} /\ EndProcess("stopped")

\* main returns: exit status 0, which systemd takes for a regular stop.
Exit == main = "returning" /\ EndProcess("stopped")

\* Mutant of ListenFails: main logs the error and returns, with status 0.
ListenFailsQuietly == main = "starting" /\ shutdown = "waiting" /\ EndProcess("stopped")

\* The port is taken: exit status 1.
ListenFails == main = "starting" /\ shutdown = "waiting" /\ EndProcess("failed")

\* A panic in a goroutine that a tool started, outside the Recover middleware.
Crash == EndProcess("failed")

--------------------------------------------------------------------------------
(* The shutdown goroutine *)

\* SIGTERM: Shutdown closes the listener and starts to wait for the handlers.
Sigterm ==
  /\ unit = "running"
  /\ shutdown = "waiting"
  /\ shutdown' = "draining"
  /\ UNCHANGED <<unit, main, req>>

\* Shutdown returns: nothing is active any more.
Drained ==
  /\ unit = "running" /\ shutdown = "draining"
  /\ Active = {}
  /\ shutdown' = "over"
  /\ UNCHANGED <<unit, main, req>>

\* Shutdown returns: the 10 s are over.
DrainTimeout ==
  /\ unit = "running" /\ shutdown = "draining"
  /\ Active # {}
  /\ shutdown' = "over"
  /\ UNCHANGED <<unit, main, req>>

--------------------------------------------------------------------------------
(* The connections *)

Accept(r) ==
  /\ unit = "running" /\ main = "serving" /\ shutdown = "waiting"
  /\ req[r] = "none"
  /\ req' = [req EXCEPT ![r] = "active"]
  /\ UNCHANGED <<unit, main, shutdown>>

Answer(r) ==
  /\ req[r] = "active"
  /\ req' = [req EXCEPT ![r] = "answered"]
  /\ UNCHANGED <<unit, main, shutdown>>

\* The client has read its response, or seen its connection reset.
Leave(r) ==
  /\ req[r] \in {"answered", "cut"}
  /\ req' = [req EXCEPT ![r] = "none"]
  /\ UNCHANGED <<unit, main, shutdown>>

--------------------------------------------------------------------------------
(* systemd *)

\* Restart=on-failure, RestartSec=5s.
Restart ==
  /\ unit = "failed"
  /\ unit' = "running"
  /\ UNCHANGED <<main, shutdown, req>>

\* An operator starts the stopped unit, as a deployment does.
Deploy ==
  /\ unit = "stopped"
  /\ unit' = "running"
  /\ UNCHANGED <<main, shutdown, req>>

Next ==
  \/ Listen \/ ServeReturns \/ Exit \/ ListenFails \/ Crash
  \/ Sigterm \/ Drained \/ DrainTimeout
  \/ \E r \in Requests : Accept(r) \/ Answer(r) \/ Leave(r)
  \/ Restart \/ Deploy

Spec == Init /\ [][Next]_vars

--------------------------------------------------------------------------------

\* Once the process has been told to stop it does, though a request hang in it.
SigtermStops == shutdown = "draining" ~> unit # "running"

\* The unit is down for good only after SIGTERM: every other end of the process
\* has an exit status that systemd takes for a failure.
StopsOnlyBySigterm ==
  [][unit = "running" /\ unit' = "stopped" => shutdown # "waiting"]_vars

\* README.md line 234: SIGTERM "triggers server.Shutdown() with a 10-second
\* drain timeout".  So a process that is stopping, and has not crashed, cuts a
\* request only after the drain is over.
DrainRespected ==
  [][\A r \in Requests :
       req[r] = "active" /\ req'[r] = "cut" /\ unit' = "stopped" => shutdown = "over"]_vars
================================================================================
