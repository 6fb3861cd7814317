----------------------------- MODULE Lifecycle -----------------------------
(***************************************************************************)
(* The life cycle of a run and of a task attempt: the statuses, the two    *)
(* tables of legal transitions that every status change is looked up in,   *)
(* and the sets of statuses the execution manager, the scheduler and the   *)
(* run API decide by.  Pure definitions, shared by the state machines.     *)
(***************************************************************************)

TaskStatus ==
  {"pending", "ready", "dispatching", "dispatch_failed", "running",
   "collecting", "artifact_failed", "success", "failed", "retry_wait",
   "cancelling", "cancelled", "skipped", "blocked", "needs_review"}

RunStatus ==
  {"pending", "running", "paused", "cancelling", "cancelled", "success",
   "success_with_warnings", "failed", "blocked"}

TaskTransitions ==
  [from \in TaskStatus |->
    CASE from = "pending"         -> {"ready", "cancelled", "skipped", "blocked"}
      [] from = "ready"           -> {"dispatching", "cancelled", "skipped", "blocked"}
      [] from = "dispatching"     -> {"running", "dispatch_failed", "blocked"}
      [] from = "dispatch_failed" -> {"retry_wait", "failed", "blocked"}
      [] from = "running"         -> {"collecting", "failed", "cancelling", "blocked"}
      [] from = "collecting"      -> {"success", "artifact_failed", "blocked", "needs_review"}
      [] from = "artifact_failed" -> {"retry_wait", "failed", "blocked"}
      [] from = "failed"          -> {"retry_wait"}
      [] from = "retry_wait"      -> {"ready", "blocked"}
      [] from = "cancelling"      -> {"cancelled"}
      [] from = "blocked"         -> {"pending", "ready", "cancelled"}
      [] from = "needs_review"    -> {"retry_wait", "skipped"}
      [] OTHER                    -> {}]

RunTransitions ==
  [from \in RunStatus |->
    CASE from = "pending"    -> {"running", "cancelling", "cancelled", "blocked"}
      [] from = "running"    -> {"paused", "cancelling", "success",
                                 "success_with_warnings", "failed", "blocked"}
      [] from = "paused"     -> {"running", "cancelling", "blocked"}
      [] from = "cancelling" -> {"cancelled"}
      [] from = "blocked"    -> {"pending", "running", "cancelling"}
      [] OTHER               -> {}]

(* Setting a status to itself only saves the row; any other change is      *)
(* looked up in the table and raises StateTransitionError when absent.     *)
TaskMayBecome(from, to) == from = to \/ to \in TaskTransitions[from]
RunMayBecome(from, to)  == from = to \/ to \in RunTransitions[from]

(* The statuses after which the manager leaves a run alone.                *)
ManagerTerminalRuns == {"cancelled", "success", "failed"}

(* The statuses after which the run API offers no action any more.         *)
ApiTerminalRuns == {"cancelled", "success", "success_with_warnings", "failed"}

ActiveTasks        == {"running", "dispatching", "collecting", "cancelling"}
FailureTasks       == {"failed", "artifact_failed", "dispatch_failed", "blocked"}
AutoRetryTasks     == {"failed", "artifact_failed", "dispatch_failed"}
ManualRetryTasks   == FailureTasks \cup {"needs_review"}
TerminalTasks      == {"success", "cancelled", "skipped", "needs_review"}
SettledForCancel   == TerminalTasks \cup AutoRetryTasks
FinishedTasks      == {"success", "skipped", "needs_review"}
DependencyComplete == {"success", "skipped"}
Schedulable        == {"pending", "ready", "retry_wait"}
=============================================================================
