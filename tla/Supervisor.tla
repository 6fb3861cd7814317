---------------------------- MODULE Supervisor ----------------------------
(***************************************************************************)
(* The desktop's supervisor of the coordinator process.  A mutex guards    *)
(* its handle, and start keeps it until the process answers or has been    *)
(* killed: an operation under the mutex is one step.  The main thread      *)
(* starts it at the setup, restarts it when the user asks, and stops it at *)
(* the exit.  A monitor thread per start looks at the shutdown flag every   *)
(* two seconds, then takes the mutex for its check, and lets go of it       *)
(* between its decision to restart and the start.                          *)
(***************************************************************************)
EXTENDS Naturals

CONSTANTS
  Threshold,     \* failed checks after which the process is replaced, 3
  MaxRestarts,   \* bound: restarts that the user asks for
  MaxFaults      \* bound: failing starts, processes that hang or exit

ASSUME SupervisorAssumption ==
  Threshold \in Nat \ {0} /\ MaxRestarts \in Nat /\ MaxFaults \in Nat

VARIABLES
  app,        \* "setup", "up", "restarting", "exiting", "stopped" or "gone"
  child,      \* the process behind the handle
  failures,   \* consecutive_health_failures
  monitor,    \* the monitor threads
  shutdown,   \* the flag that ends them
  strays,     \* coordinator processes that run without a handle to them
  late,       \* history: a monitor was past its look at the flag when the app stopped
  restarts, faults

supervisorVars ==
  <<app, child, failures, monitor, shutdown, strays, late, restarts, faults>>

Monitors == 1..(MaxRestarts + 1)
Running  == {"healthy", "hanging"}

Fault == faults < MaxFaults /\ faults' = faults + 1

SupervisorInit ==
  /\ app = "setup"
  /\ child = "none"
  /\ failures = 0
  /\ monitor = [m \in Monitors |-> "off"]
  /\ shutdown = FALSE
  /\ strays = 0
  /\ late = FALSE
  /\ restarts = 0
  /\ faults = 0

(* An exited child is reaped first, and makes room.  The mutant overwrites  *)
(* the handle of whatever runs.                                            *)
AlwaysStarts == TRUE
MayStart == child \notin Running

(* start: AlreadyRunning, healthy, or failed and killed.                   *)
StartChild ==
  \/ ~MayStart /\ UNCHANGED <<child, failures, strays, faults>>
  \/ /\ MayStart
     /\ child' = "healthy"
     /\ strays' = IF child \in Running THEN strays + 1 ELSE strays
     /\ failures' = 0
     /\ UNCHANGED faults
  \/ /\ MayStart
     /\ Fault
     /\ child' = "none"
     /\ failures' = 0
     /\ UNCHANGED strays

(* bootstrap_coordinator and monitor_coordinator, where the packaged        *)
(* program exists.                                                         *)
Bootstrap ==
  /\ app \in {"setup", "restarting"}
  /\ StartChild
  /\ monitor' = [monitor EXCEPT ![restarts + 1] = "watching"]
  /\ app' = "up"
  /\ UNCHANGED <<shutdown, late, restarts>>

(* The monitors of earlier starts go on.                                   *)
BeginRestart ==
  /\ app = "up"
  /\ restarts < MaxRestarts
  /\ app' = "restarting"
  /\ child' = "none"
  /\ failures' = IF child = "none" THEN failures ELSE 0
  /\ restarts' = restarts + 1
  /\ UNCHANGED <<monitor, shutdown, strays, late, faults>>

-----------------------------------------------------------------------------
Wakes(m) ==
  /\ monitor[m] = "watching" /\ ~shutdown
  /\ monitor' = [monitor EXCEPT ![m] = "awake"]
  /\ UNCHANGED <<app, child, failures, shutdown, strays, late, restarts, faults>>

(* recover_if_needed, up to its decision.  The mutant begins to count again *)
(* with every failure.                                                     *)
FirstFailure == 1
OneMoreFailure == failures + 1

Checked(m, decision) ==
  /\ monitor[m] = "awake"
  /\ monitor' = [monitor EXCEPT ![m] = decision]
  /\ UNCHANGED <<app, shutdown, strays, late, restarts, faults>>

FindsNone(m) ==
  /\ child \notin Running
  /\ Checked(m, "decided")
  /\ child' = "none"
  /\ failures' = IF child = "exited" THEN 0 ELSE failures

FindsHealthy(m) ==
  /\ child = "healthy"
  /\ Checked(m, "watching")
  /\ failures' = 0
  /\ UNCHANGED child

FindsHanging(m) ==
  /\ child = "hanging"
  /\ failures' = OneMoreFailure
  /\ IF failures' < Threshold THEN Checked(m, "watching") /\ UNCHANGED child
                              ELSE Checked(m, "decided") /\ child' = "none"

Recover(m) ==
  /\ monitor[m] = "decided"
  /\ StartChild
  /\ monitor' = [monitor EXCEPT ![m] = "watching"]
  /\ UNCHANGED <<app, shutdown, late, restarts>>

-----------------------------------------------------------------------------
(* RunEvent::Exit: the flag first, then the stop; then the process ends,    *)
(* and its threads with it.                                                *)
BeginExit ==
  /\ app = "up"
  /\ app' = "exiting"
  /\ shutdown' = TRUE
  /\ UNCHANGED <<child, failures, monitor, strays, late, restarts, faults>>

StopAtExit ==
  /\ app = "exiting"
  /\ app' = "stopped"
  /\ child' = "none"
  /\ late' = (\E m \in Monitors : monitor[m] \in {"awake", "decided"})
  /\ failures' = IF child = "none" THEN failures ELSE 0
  /\ UNCHANGED <<monitor, shutdown, strays, restarts, faults>>

EndOfApp ==
  /\ app = "stopped"
  /\ app' = "gone"
  /\ monitor' = [m \in Monitors |-> "off"]
  /\ child' = "none"
  /\ strays' = IF child \in Running THEN strays + 1 ELSE strays
  /\ UNCHANGED <<failures, shutdown, late, restarts, faults>>

(* The process hangs or is busy, answers again, or ends by itself.         *)
ChildChanges ==
  /\ \/ child = "healthy" /\ Fault /\ child' = "hanging"
     \/ child = "hanging" /\ child' = "healthy" /\ UNCHANGED faults
     \/ child \in Running /\ Fault /\ child' = "exited"
  /\ UNCHANGED <<app, failures, monitor, shutdown, strays, late, restarts>>

MonitorStep(m) ==
  app # "gone" /\ (Wakes(m) \/ FindsNone(m) \/ FindsHealthy(m) \/ FindsHanging(m) \/ Recover(m))

SupervisorStep ==
  \/ Bootstrap \/ BeginRestart \/ BeginExit \/ StopAtExit \/ EndOfApp
  \/ \E m \in Monitors : MonitorStep(m)
  \/ ChildChanges

SupervisorTypeOK ==
  /\ app \in {"setup", "up", "restarting", "exiting", "stopped", "gone"}
  /\ child \in Running \cup {"none", "exited"}
  /\ failures \in 0..Threshold
  /\ monitor \in [Monitors -> {"off", "watching", "awake", "decided"}]
  /\ shutdown \in BOOLEAN /\ late \in BOOLEAN
  /\ strays \in Nat
  /\ restarts \in 0..MaxRestarts /\ faults \in 0..MaxFaults

-----------------------------------------------------------------------------
(* However restarts of the user and of several monitors interleave, there   *)
(* is at most one coordinator, the one behind the handle, and none is left *)
(* when the app has gone; unless the exit came between a monitor's look at  *)
(* the shutdown flag and the start it decided on afterwards.               *)
OneCoordinator == strays = 0 \/ (app = "gone" /\ late)

(* While the app is up, a coordinator that exits, hangs for good or fails   *)
(* to start is followed by one that answers.                               *)
CoordinatorComesBack ==
  app = "up" /\ child # "healthy" ~> app # "up" \/ child = "healthy"
=============================================================================
