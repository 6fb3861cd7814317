---------------------------- MODULE RunActions ----------------------------
(***************************************************************************)
(* The actions that the run API offers for a run and its tasks, with every *)
(* answer that shows them.  The execution manager decides by tables of its *)
(* own whether it accepts them.                                            *)
(***************************************************************************)
EXTENDS RunExecution

Closed == runStatus \in ApiTerminalRuns \cup {"cancelling"}

OffersStart  == runStatus = "pending"
OffersPause  == runStatus = "running"
OffersResume == runStatus \in {"paused", "blocked"}
OffersCancel == ~Closed

OffersRetry(t) ==
  /\ ~Closed
  /\ latest[t] \in 1..(MaxAttempts[t] - 1)
  /\ row[LatestOf(t)].status \in FailureTasks \cup {"needs_review"}

(* Mutant: whatever has not begun to run, blocked attempts among them.     *)
SkippableBlocked == {"pending", "ready", "blocked", "needs_review"}
Skippable == {"pending", "ready", "needs_review"}

OffersSkip(t) ==
  ~Closed /\ (latest[t] = 0 \/ row[LatestOf(t)].status \in Skippable)

-----------------------------------------------------------------------------
(* What is offered while no handler works is accepted, in every state that *)
(* handlers, failures and retries lead to: this module's tables, those of  *)
(* the manager and of the life cycle agree.  Except for one cancel, which  *)
(* raises over an attempt that is still dispatching or collecting: a       *)
(* coroutine that outlived its handler works on it, or a crash or a second *)
(* delivery of a reviewed task has left it there.                          *)
OfferedIsAccepted ==
  Free =>
    /\ OffersStart \/ OffersResume => RunMayBecome(runStatus, "running")
    /\ OffersPause => RunMayBecome(runStatus, "paused")
    /\ OffersCancel => MayCancel
    /\ \A t \in Tasks :
         /\ OffersRetry(t) => MayRetry(t)
         /\ OffersSkip(t) =>
              latest[t] = 0 \/ TaskMayBecome(row[LatestOf(t)].status, "skipped")
=============================================================================
