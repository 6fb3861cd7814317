--------------------------- MODULE RunExecution ---------------------------
(***************************************************************************)
(* The execution manager driving one run of a workflow, against the        *)
(* coordinator's database, the execution nodes and the process's own       *)
(* crashes.                                                                *)
(*                                                                         *)
(* A handler (an API call, the polling loop's tick, the recovery pass)     *)
(* holds the run's step lock.  What it does per attempt are coroutines     *)
(* gathered concurrently: each owns a copy of its attempt (mem), waits     *)
(* for calls to a node, and saves its copy over the database row.  A call  *)
(* is three steps: the request is outstanding, the node serves it, the     *)
(* coroutine acts on the reply, by then possibly stale.                    *)
(*                                                                         *)
(* A status change that the transition table lacks raises.  The exception  *)
(* ends the handler and frees the lock, but the gathered siblings go on:   *)
(* they are orphans, and nothing serialises them with the next handler.    *)
(***************************************************************************)
EXTENDS Naturals, FiniteSets, Lifecycle, NodeProtocol

CONSTANTS
  Tasks,          \* the tasks of the reviewed workflow
  Deps,           \* Deps[t]: the tasks t depends on
  Nodes,          \* the configured execution nodes
  NoNode,         \* node_id of an attempt that was never placed
  MaxAttempts,    \* MaxAttempts[t]: retry_policy.max_attempts of t
  ReviewTasks,    \* tasks with a manual verification step
  CorruptInputs,  \* tasks whose staged inputs may fail verification
  MaxCrashes,     \* bound: crashes of the coordinator process
  MaxFaults,      \* bound: lost node calls and unconfirmed stops
  MaxOrphans      \* bound: orphans in flight when a handler begins

ASSUME DepsAssumption     == Deps \in [Tasks -> SUBSET Tasks]
ASSUME NodeAssumption     == NoNode \notin Nodes
ASSUME AttemptsAssumption == MaxAttempts \in [Tasks -> Nat \ {0}]
ASSUME BoundsAssumption   ==
  MaxCrashes \in Nat /\ MaxFaults \in Nat /\ MaxOrphans \in Nat

(* An attempt id is run_id:task_id:attempt; it is the idempotency key too. *)
AttemptIds == UNION {{t} \X (1..MaxAttempts[t]) : t \in Tasks}

(* The columns of a task_attempts row that decide anything.  transient: the *)
(* row's error is a connection error or a timeout.                         *)
Row == [status: TaskStatus, node: Nodes \cup {NoNode}, started: BOOLEAN,
        transient: BOOLEAN]

NewRow == [status |-> "pending", node |-> NoNode, started |-> FALSE,
           transient |-> FALSE]

(* What a coroutine is waiting for.                                        *)
Calls == {"create", "upload", "start", "get", "timeout", "cancel", "collect"}
Reply == Reported \cup {"none", "ok", "refused", "unreachable"}
Job   == [id: AttemptIds, pc: Calls \cup {"place"}, reply: Reply, mem: Row,
          orphan: BOOLEAN]

Kinds  == {"none", "start", "step", "tick", "recover", "recover_restored",
           "cancel", "retry"}
Phases == {"none", "reconcile", "due", "ready", "dispatch", "cancel",
           "single", "again"}

VARIABLES
  runStatus,  \* runs.status
  latest,     \* latest[t]: number of t's latest attempt, 0 before the first
  row,        \* the task_attempts table
  artifacts,  \* attempts whose artifacts are in the artifacts table
  remote,     \* remote[a][n]: what node n records of attempt a
  jobs,       \* the coroutines in flight
  handler,    \* who holds the step lock, and how far it is
  up,         \* the coordinator process runs
  loop,       \* the run's polling loop is alive
  failing,    \* a start has raised, and its done-callback has not run yet
  overdue,    \* attempts running for longer than their timeout
  rested,     \* failed attempts whose retry delay has passed
  leaked,     \* history: some coroutine has outlived its handler
  crashes,    \* crashes so far
  faults      \* lost calls and unconfirmed stops so far

clock == <<overdue, rested>>
vars  == <<runStatus, latest, row, artifacts, remote, jobs, handler, up, loop, failing,
           overdue, rested, leaked, crashes, faults>>

Idle == [kind |-> "none", phase |-> "none"]

Held    == {j \in jobs : ~j.orphan}
Orphans == {j \in jobs : j.orphan}

(* The step lock of the run; its mutant takes no lock.                     *)
FreeWithoutLock == up /\ Cardinality(Orphans) <= MaxOrphans
Free == up /\ handler = Idle /\ Cardinality(Orphans) <= MaxOrphans

NewJob(a, pc, r) ==
  [id |-> a, pc |-> pc, reply |-> "none", mem |-> r, orphan |-> FALSE]

LatestIds(lt) == {a \in AttemptIds : a[2] = lt[a[1]]}
LatestOf(t)   == <<t, latest[t]>>

(* Mutant: any dependency that has not failed counts as complete.          *)
IsCompleteUnlessFailed(t) ==
  latest[t] > 0 /\ row[LatestOf(t)].status \notin FailureTasks
IsComplete(t) == latest[t] > 0 /\ row[LatestOf(t)].status \in DependencyComplete

(* The inputs staged for t are the artifacts its dependencies delivered.   *)
HasInputs(t) == \E a \in artifacts : a[1] \in Deps[t]

(* UNIQUE(run_id, relative_path): a task that delivers a second time, under *)
(* another attempt, writes the same paths again.                           *)
PathTaken(a) == \E b \in artifacts : b[1] = a[1] /\ b # a

(* ready_tasks of the scheduler, for a RUNNING run.                        *)
ReadyTasks ==
  {t \in Tasks : /\ latest[t] > 0 => row[LatestOf(t)].status \in Schedulable
                 /\ \A d \in Deps[t] : IsComplete(d)}

DueRetries ==
  {t \in Tasks : /\ latest[t] \in 1..(MaxAttempts[t] - 1)
                 /\ row[LatestOf(t)].status \in AutoRetryTasks
                 /\ LatestOf(t) \in rested}

TransientBlocked ==
  {a \in LatestIds(latest) : row[a].status = "blocked" /\ row[a].transient}

Restored ==
  [a \in AttemptIds |-> IF a \in TransientBlocked
                        THEN [row[a] EXCEPT !.status = "ready", !.transient = FALSE]
                        ELSE row[a]]

-----------------------------------------------------------------------------
(* Handlers: how one begins, goes through its phases and ends.             *)

EnsureLoop == loop' = (runStatus' \notin ManagerTerminalRuns)

Release == handler' = Idle /\ EnsureLoop

(* The gather over the active attempts that opens a step, a tick and a     *)
(* recovery pass: ask the node, or time the attempt out.                   *)
OpenReconcile(kind, rw) ==
  /\ row' = rw
  /\ handler' = [kind |-> kind, phase |-> "reconcile"]
  /\ jobs' = jobs \cup
       {NewJob(a, IF rw[a].status = "running" /\ rw[a].started /\ a \in overdue
                  THEN "timeout" ELSE "get", rw[a]) :
          a \in {b \in LatestIds(latest') : rw[b].status \in ActiveTasks}}

Start ==
  /\ Free
  /\ runStatus \in {"pending", "running"}
  /\ runStatus' = "running"
  /\ latest' = latest
  /\ OpenReconcile("start", row)
  /\ UNCHANGED <<artifacts, remote, up, loop, clock, leaked, failing, crashes, faults>>

Pause ==
  /\ Free
  /\ runStatus = "running"
  /\ runStatus' = "paused"
  /\ UNCHANGED <<latest, row, artifacts, remote, jobs, handler, up, loop,
                 clock, leaked, failing, crashes, faults>>

(* From a blocked run a resume also steps; from any other status it only   *)
(* makes sure that the polling loop is alive.                              *)
Resume ==
  /\ Free
  /\ latest' = latest
  /\ \/ /\ runStatus = "blocked"
        /\ runStatus' = "running"
        /\ OpenReconcile("step", Restored)
        /\ loop' = loop
     \/ /\ runStatus = "paused"
        /\ runStatus' = "running"
        /\ row' = Restored
        /\ EnsureLoop
        /\ UNCHANGED <<jobs, handler>>
     \/ /\ runStatus \notin {"blocked", "paused"}
        /\ UNCHANGED <<runStatus, row, jobs, handler>>
        /\ EnsureLoop
  /\ UNCHANGED <<artifacts, remote, up, clock, leaked, failing, crashes, faults>>

(* One turn of the polling loop.                                           *)
Tick ==
  /\ Free
  /\ loop
  /\ runStatus \notin ManagerTerminalRuns
  /\ UNCHANGED <<runStatus, latest>>
  /\ OpenReconcile("tick", row)
  /\ UNCHANGED <<artifacts, remote, up, loop, clock, leaked, failing, crashes, faults>>

(* A retry or a skip sets a blocked run running; the mutant, any run.      *)
Reopened == "running"
Unblocked == IF runStatus = "blocked" THEN "running" ELSE runStatus

(* The mutant retries past max_attempts.                                   *)
MayRetryForever(t) == latest[t] > 0 /\ row[LatestOf(t)].status \in ManualRetryTasks
MayRetry(t) ==
  /\ latest[t] \in 1..(MaxAttempts[t] - 1)
  /\ row[LatestOf(t)].status \in ManualRetryTasks

(* A retry adds the next attempt and dispatches it, whatever the run's     *)
(* status is; only a blocked run is set running again.                     *)
RetryTask(t) ==
  /\ Free
  /\ MayRetry(t)
  /\ runStatus' = Unblocked
  /\ LET a == <<t, latest[t] + 1>>
         r == [NewRow EXCEPT !.status = "ready"]
     IN /\ latest' = [latest EXCEPT ![t] = @ + 1]
        /\ row' = [row EXCEPT ![a] = r]
        /\ jobs' = jobs \cup {NewJob(a, "place", r)}
  /\ handler' = [kind |-> "retry", phase |-> "single"]
  /\ UNCHANGED <<artifacts, remote, up, loop, clock, leaked, failing, crashes, faults>>

SkipTask(t) ==
  /\ Free
  /\ LET a == <<t, IF latest[t] = 0 THEN 1 ELSE latest[t]>>
         skipped == [row EXCEPT ![a].status = "skipped"]
     IN /\ TaskMayBecome(row[a].status, "skipped")
        /\ latest' = [latest EXCEPT ![t] = a[2]]
        /\ runStatus' = Unblocked
        /\ \/ /\ runStatus' = "running"
              /\ OpenReconcile("step", skipped)
              /\ loop' = loop
           \/ /\ runStatus' # "running"
              /\ row' = skipped
              /\ EnsureLoop
              /\ UNCHANGED <<jobs, handler>>
  /\ UNCHANGED <<artifacts, remote, up, clock, leaked, failing, crashes, faults>>

-----------------------------------------------------------------------------
(* Cancelling the run.                                                     *)

(* The attempts a cancel ends by itself; the mutant ends failed ones too.   *)
NotActive == {"pending", "ready", "blocked"} \cup AutoRetryTasks
Unstarted == {"pending", "ready", "blocked"}

CancelRows(S) ==
  [a \in AttemptIds |->
     IF a \in S /\ row[a].status \in Unstarted
     THEN [row[a] EXCEPT !.status = "cancelled"]
     ELSE IF a \in S /\ row[a].status \in ActiveTasks
     THEN [row[a] EXCEPT !.status = "cancelling"]
     ELSE row[a]]

(* The attempts for which the table has no way to cancelling.              *)
Uncancellable ==
  {a \in LatestIds(latest) : row[a].status \in {"dispatching", "collecting"}}

MayCancel ==
  /\ Free
  /\ runStatus \notin ManagerTerminalRuns
  /\ RunMayBecome(runStatus, "cancelling")

Cancel ==
  /\ MayCancel
  /\ Uncancellable = {}
  /\ runStatus' = "cancelling"
  /\ row' = CancelRows(LatestIds(latest))
  /\ jobs' = jobs \cup
       {NewJob(a, "cancel", row'[a]) :
          a \in {b \in LatestIds(latest) : row[b].status \in ActiveTasks}}
  /\ handler' = [kind |-> "cancel", phase |-> "cancel"]
  /\ UNCHANGED <<latest, artifacts, remote, up, loop, clock, leaked, failing, crashes,
                 faults>>

(* A dispatching or collecting attempt makes cancel raise half-way: the     *)
(* rows before it are saved, no node is called.                            *)
CancelRaises ==
  /\ MayCancel
  /\ Uncancellable # {}
  /\ runStatus' = "cancelling"
  /\ \E S \in SUBSET (LatestIds(latest) \ Uncancellable) : row' = CancelRows(S)
  /\ UNCHANGED <<latest, artifacts, remote, jobs, handler, up, loop, clock,
                 leaked, failing, crashes, faults>>

SettleCancellation ==
  runStatus' = IF \A a \in LatestIds(latest) : row[a].status \in SettledForCancel
               THEN "cancelled" ELSE runStatus

FinishCancel ==
  /\ up
  /\ handler.phase = "cancel"
  /\ Held = {}
  /\ SettleCancellation
  /\ Release
  /\ UNCHANGED <<latest, row, artifacts, remote, jobs, up, clock, leaked, failing,
                 crashes, faults>>

-----------------------------------------------------------------------------
(* The phases of a step, a tick and a recovery pass.                       *)

EndHandler ==
  \/ /\ handler.kind = "recover_restored"
     /\ handler' = [kind |-> "recover", phase |-> "again"]
     /\ loop' = loop
  \/ /\ handler.kind # "recover_restored"
     /\ Release

(* Only a running run dispatches; the mutant dispatches a paused one too.   *)
MayDispatchPaused == runStatus \in {"running", "paused"}
MayDispatch == runStatus = "running"

FinishReconcile ==
  /\ up
  /\ handler.phase = "reconcile"
  /\ Held = {}
  /\ \/ /\ MayDispatch
        /\ handler' = [handler EXCEPT !.phase =
                          IF handler.kind \in {"start", "step"} THEN "ready" ELSE "due"]
        /\ UNCHANGED <<runStatus, loop>>
     \/ /\ runStatus = "cancelling"
        /\ SettleCancellation
        /\ EndHandler
     \/ /\ runStatus \notin {"running", "cancelling"}
        /\ runStatus' = runStatus
        /\ EndHandler
  /\ UNCHANGED <<latest, row, artifacts, remote, jobs, up, clock, leaked, failing,
                 crashes, faults>>

(* _dispatch_due_retries: one automatic retry after the other.             *)
RetryDue(t) ==
  /\ up
  /\ handler.phase = "due"
  /\ Held = {}
  /\ t \in DueRetries
  /\ LET a == <<t, latest[t] + 1>>
         r == [NewRow EXCEPT !.status = "ready"]
     IN /\ latest' = [latest EXCEPT ![t] = @ + 1]
        /\ row' = [row EXCEPT ![a] = r]
        /\ jobs' = jobs \cup {NewJob(a, "place", r)}
  /\ UNCHANGED <<runStatus, artifacts, remote, handler, up, loop, clock, leaked, failing,
                 crashes, faults>>

(* _dispatch_ready: every task whose dependencies are complete, at once.   *)
DispatchReady ==
  /\ up
  /\ \/ handler.phase = "ready"
     \/ handler.phase = "due" /\ DueRetries = {}
  /\ Held = {}
  /\ latest' = [t \in Tasks |-> IF t \in ReadyTasks /\ latest[t] = 0
                                THEN 1 ELSE latest[t]]
  /\ LET ids == {<<t, latest'[t]>> : t \in ReadyTasks}
     IN /\ row' = [a \in AttemptIds |-> IF a \in ids
                                        THEN [row[a] EXCEPT !.status = "ready"]
                                        ELSE row[a]]
        /\ jobs' = jobs \cup {NewJob(a, "place", row'[a]) : a \in ids}
  /\ handler' = [handler EXCEPT !.phase = "dispatch"]
  /\ UNCHANGED <<runStatus, artifacts, remote, up, loop, clock, leaked, failing, crashes,
                 faults>>

(* Every task is done with; the mutant forgets those without an attempt.    *)
NothingLeft ==
  \A a \in LatestIds(latest) : row[a].status \notin ActiveTasks \cup FailureTasks
AllFinished ==
  \A t \in Tasks : latest[t] > 0 /\ row[LatestOf(t)].status \in FinishedTasks

(* Mutant: an automatic retry counts as pending after the last attempt too. *)
StalledEver ==
  /\ \E a \in LatestIds(latest) : row[a].status \in FailureTasks
  /\ \A a \in LatestIds(latest) : row[a].status \notin ActiveTasks \cup AutoRetryTasks
  /\ ReadyTasks = {}

(* No task can move without the user: a failure is left that nothing       *)
(* running, ready or automatic will get past.                              *)
Stalled ==
  /\ \E a \in LatestIds(latest) : row[a].status \in FailureTasks
  /\ \A a \in LatestIds(latest) : row[a].status \notin ActiveTasks
  /\ ReadyTasks = {}
  /\ \A a \in LatestIds(latest) :
       row[a].status \in AutoRetryTasks => a[2] >= MaxAttempts[a[1]]

SettledStatus ==
  IF AllFinished
  THEN IF \E a \in LatestIds(latest) : row[a].status = "needs_review"
       THEN "success_with_warnings" ELSE "success"
  ELSE IF Stalled THEN "blocked" ELSE runStatus

FinishDispatch ==
  /\ up
  /\ handler.phase = "dispatch"
  /\ Held = {}
  /\ runStatus' = SettledStatus
  /\ EndHandler
  /\ UNCHANGED <<latest, row, artifacts, remote, jobs, up, clock, leaked, failing,
                 crashes, faults>>

FinishRetry ==
  /\ up
  /\ handler.phase = "single"
  /\ Held = {}
  /\ runStatus' = runStatus
  /\ Release
  /\ UNCHANGED <<latest, row, artifacts, remote, jobs, up, clock, leaked, failing,
                 crashes, faults>>

(* The done-callback of a start that raised: it writes the run it reads,    *)
(* past the transition table and without the step lock.                    *)
StartFailed ==
  /\ up
  /\ failing
  /\ failing' = FALSE
  /\ runStatus' = IF runStatus \in ManagerTerminalRuns THEN runStatus ELSE "failed"
  /\ UNCHANGED <<latest, row, artifacts, remote, jobs, handler, up, loop, clock,
                 leaked, crashes, faults>>

-----------------------------------------------------------------------------
(* Coroutines: what one does when its current wait is over.                *)

Drop(j) == jobs' = jobs \ {j}

Continue(j, pc, r) ==
  jobs' = (jobs \ {j}) \cup {[j EXCEPT !.pc = pc, !.reply = "none", !.mem = r]}

Save(j, r) == row' = [row EXCEPT ![j.id] = r]

Calm == UNCHANGED <<runStatus, handler, up, loop, failing, leaked>>

(* StateTransitionError (or IntegrityError) out of a coroutine.  Out of an  *)
(* orphan nobody sees it.  Out of a handler it ends the handler: the tick's *)
(* polling loop dies with it, a start leaves its done-callback to run, a    *)
(* failed recovery stops the start of the process, and an API call only    *)
(* answers with an error.                                                  *)
Raise(j) ==
  /\ UNCHANGED <<runStatus, row>>
  /\ \/ /\ j.orphan
        /\ Drop(j)
        /\ Calm
     \/ /\ ~j.orphan
        /\ handler' = Idle
        /\ IF handler.kind \in {"recover", "recover_restored"}
           THEN /\ up' = FALSE
                /\ jobs' = {}
                /\ leaked' = leaked
           ELSE /\ up' = up
                /\ jobs' = {[k EXCEPT !.orphan = TRUE] : k \in jobs \ {j}}
                /\ leaked' = (leaked \/ Held # {j})
        /\ loop' = (loop /\ handler.kind \notin {"tick", "recover", "recover_restored"})
        /\ failing' = (handler.kind = "start")

(* _set_attempt_status as the last thing a coroutine does.                 *)
Settle(j, status, transient) ==
  \/ /\ TaskMayBecome(j.mem.status, status)
     /\ Save(j, [j.mem EXCEPT !.status = status, !.transient = transient])
     /\ Drop(j)
     /\ Calm
  \/ /\ ~TaskMayBecome(j.mem.status, status)
     /\ Raise(j)

(* The event loop resumes a coroutine only behind a done-callback that is   *)
(* already queued; a waiter of the lock was queued before it.              *)
Resumes == up /\ ~failing

Answered(j, pc, replies) == Resumes /\ j.pc = pc /\ j.reply \in replies

Errors == {"refused", "unreachable"}

Outside == UNCHANGED <<latest, artifacts, remote, clock, crashes, faults>>

(* Under the dispatch lock the scheduler finds a node; or every eligible    *)
(* node is full and the attempt stays ready; or no node is eligible.       *)
PlaceOnNode(j) ==
  /\ Resumes
  /\ j.pc = "place"
  /\ \E n \in Nodes :
       LET r == [j.mem EXCEPT !.status = "dispatching", !.node = n]
       IN Save(j, r) /\ Continue(j, "create", r)
  /\ Calm
  /\ Outside

PlaceLater(j) ==
  /\ Resumes
  /\ j.pc = "place"
  /\ row' = row
  /\ Drop(j)
  /\ Calm
  /\ Outside

PlaceNowhere(j) ==
  /\ Resumes
  /\ j.pc = "place"
  /\ Settle(j, "blocked", FALSE)
  /\ Outside

(* The staged inputs do not match what the database says of them.          *)
InputsFail(j) ==
  /\ Answered(j, "create", {"none"})
  /\ j.id[1] \in CorruptInputs
  /\ HasInputs(j.id[1])
  /\ Settle(j, "artifact_failed", FALSE)
  /\ Outside

Created(j) ==
  /\ Answered(j, "create", Reported)
  /\ Continue(j, IF HasInputs(j.id[1]) THEN "upload" ELSE "start", j.mem)
  /\ row' = row
  /\ Calm
  /\ Outside

Uploaded(j) ==
  /\ Answered(j, "upload", {"ok"})
  /\ Continue(j, "start", j.mem)
  /\ row' = row
  /\ Calm
  /\ Outside

(* The attempt is RUNNING whatever status the node answers with.           *)
Started(j) ==
  /\ Answered(j, "start", Reported)
  /\ Save(j, [j.mem EXCEPT !.status = "running", !.started = TRUE, !.transient = FALSE])
  /\ Drop(j)
  /\ Calm
  /\ Outside

DispatchFails(j) ==
  /\ \E pc \in {"create", "upload", "start"} : Answered(j, pc, Errors)
  /\ Settle(j, "blocked", j.reply = "unreachable")
  /\ Outside

(* The remote cancel is best effort: any answer, and an error too.         *)
TimedOut(j) ==
  /\ Answered(j, "timeout", Reply \ {"none"})
  /\ Settle(j, "failed", FALSE)
  /\ Outside

(* A poll without an answer says nothing of the task.  Its mutant takes it  *)
(* for the end of it.                                                      *)
TakenForFailed == "failed"
Unanswered     == "blocked"

GetFails(j) ==
  /\ Answered(j, "get", Errors)
  /\ \/ /\ j.mem.status = "cancelling"
        /\ Save(j, j.mem) /\ Drop(j) /\ Calm
     \/ /\ j.mem.status # "cancelling"
        /\ Settle(j, Unanswered, j.reply = "unreachable")
  /\ Outside

StillRunning(j) ==
  /\ Answered(j, "get", {"running", "queued"})
  /\ \/ /\ j.mem.status = "cancelling"
        /\ Continue(j, "cancel", j.mem) /\ row' = row /\ Calm
     \/ /\ j.mem.status = "running"
        /\ Drop(j) /\ row' = row /\ Calm
     \/ /\ j.mem.status \notin {"cancelling", "running"}
        /\ Settle(j, "running", j.mem.transient)
  /\ Outside

FoundCancelled(j) ==
  /\ Answered(j, "get", {"cancelled"})
  /\ Settle(j, "cancelled", j.mem.transient)
  /\ Outside

CancelAgain(j) ==
  /\ Answered(j, "get", Reported \ {"running", "queued", "cancelled"})
  /\ j.mem.status = "cancelling"
  /\ Continue(j, "cancel", j.mem)
  /\ row' = row
  /\ Calm
  /\ Outside

FoundFailed(j) ==
  /\ Answered(j, "get", {"failed"})
  /\ j.mem.status # "cancelling"
  /\ Settle(j, "failed", FALSE)
  /\ Outside

FoundUnknown(j) ==
  /\ Answered(j, "get", {"cancelling", "cancel_failed"})
  /\ j.mem.status # "cancelling"
  /\ Settle(j, "blocked", FALSE)
  /\ Outside

(* Success or needs_review: collecting is saved, then the artifacts are    *)
(* listed, downloaded and verified.                                        *)
FoundDone(j) ==
  /\ Answered(j, "get", {"success", "needs_review"})
  /\ j.mem.status # "cancelling"
  /\ LET r == [j.mem EXCEPT !.status = "collecting"]
     IN \/ /\ TaskMayBecome(j.mem.status, "collecting")
           /\ Save(j, r) /\ Continue(j, "collect", r) /\ Calm
        \/ /\ ~TaskMayBecome(j.mem.status, "collecting")
           /\ Raise(j)
  /\ Outside

(* commit_attempt_success: status, artifacts and event in one transaction. *)
Collected(j) ==
  /\ Answered(j, "collect", {"ok"})
  /\ \/ /\ ~PathTaken(j.id)
        /\ Save(j, [j.mem EXCEPT !.transient = FALSE, !.status =
                      IF j.id[1] \in ReviewTasks THEN "needs_review" ELSE "success"])
        /\ artifacts' = artifacts \cup {j.id}
        /\ Drop(j)
        /\ Calm
     \/ /\ PathTaken(j.id)
        /\ artifacts' = artifacts
        /\ Raise(j)
  /\ UNCHANGED <<latest, remote, clock, crashes, faults>>

(* A download or a verification fails; or the client cannot be reopened.   *)
CollectFails(j) ==
  /\ Answered(j, "collect", Errors)
  /\ \/ Settle(j, "artifact_failed", FALSE)
     \/ j.reply = "refused" /\ Settle(j, "blocked", FALSE)
  /\ Outside

(* The node has confirmed the stop; the mutant takes any answer for it.     *)
Accepts(reply)  == reply \notin Errors
Confirms(reply) == reply = "cancelled"

CancelAnswered(j) ==
  /\ Answered(j, "cancel", Reply \ {"none"})
  /\ \/ /\ Confirms(j.reply)
        /\ Settle(j, "cancelled", FALSE)
     \/ /\ ~Confirms(j.reply)
        /\ Save(j, j.mem) /\ Drop(j) /\ Calm
  /\ Outside

-----------------------------------------------------------------------------
(* The execution nodes: calls of a coroutine served, lost or refused as     *)
(* NodeProtocol has it, and tasks that end.                                *)

Reach(j, o, reply) ==
  /\ remote' = [remote EXCEPT ![j.id][j.mem.node] = o[1]]
  /\ jobs' = (jobs \ {j}) \cup {[j EXCEPT !.reply = reply]}

Waiting(j) == up /\ j.pc \in Calls /\ j.reply = "none" /\ j.mem.node \in Nodes

NodeServes(j) ==
  /\ Waiting(j)
  /\ \E o \in Served(j.pc, remote[j.id][j.mem.node]) :
       /\ Reach(j, o, o[2])
       /\ faults' = faults + IF j.pc \in {"cancel", "timeout"} /\ o[2] \in Unconfirmed
                             THEN 1 ELSE 0
       /\ faults' <= MaxFaults
  /\ UNCHANGED <<runStatus, latest, row, artifacts, handler, up, loop, clock,
                 leaked, failing, crashes>>

(* The request, or the answer, never arrives; or the node refuses.         *)
CallFails(j) ==
  /\ Waiting(j)
  /\ faults < MaxFaults
  /\ faults' = faults + 1
  /\ \/ \E e \in Errors : Reach(j, <<remote[j.id][j.mem.node], e>>, e)
     \/ \E o \in Served(j.pc, remote[j.id][j.mem.node]) : Reach(j, o, "unreachable")
  /\ UNCHANGED <<runStatus, latest, row, artifacts, handler, up, loop, clock,
                 leaked, failing, crashes>>

RemoteFinishes(a, n) ==
  /\ \E s \in Progress(remote[a][n], a[1] \in ReviewTasks) :
       remote' = [remote EXCEPT ![a][n] = s]
  /\ UNCHANGED <<runStatus, latest, row, artifacts, jobs, handler, up, loop, clock,
                 leaked, failing, crashes, faults>>

-----------------------------------------------------------------------------
(* Time, crashes and restarts.                                             *)

TimeoutPasses(a) ==
  /\ row[a].status = "running"
  /\ row[a].started
  /\ overdue' = overdue \cup {a}
  /\ UNCHANGED <<runStatus, latest, row, artifacts, remote, jobs, handler, up, loop,
                 rested, leaked, failing, crashes, faults>>

DelayPasses(a) ==
  /\ a \in LatestIds(latest)
  /\ a[2] < MaxAttempts[a[1]]
  /\ row[a].status \in AutoRetryTasks
  /\ rested' = rested \cup {a}
  /\ UNCHANGED <<runStatus, latest, row, artifacts, remote, jobs, handler, up, loop,
                 overdue, leaked, failing, crashes, faults>>

Die ==
  /\ up
  /\ crashes < MaxCrashes
  /\ crashes' = crashes + 1
  /\ up' = FALSE
  /\ loop' = FALSE
  /\ failing' = FALSE
  /\ jobs' = {}
  /\ handler' = Idle

Crash ==
  /\ Die
  /\ UNCHANGED <<runStatus, latest, row, artifacts, remote, clock, leaked, faults>>

(* The process dies while cancel is saving its rows one by one.            *)
CrashInCancel ==
  /\ MayCancel
  /\ Die
  /\ runStatus' = "cancelling"
  /\ \E S \in SUBSET (LatestIds(latest) \ Uncancellable) : row' = CancelRows(S)
  /\ UNCHANGED <<latest, artifacts, remote, clock, leaked, faults>>

(* Startup: recover_all, before the API answers anything.                  *)
Restart ==
  /\ ~up
  /\ up' = TRUE
  /\ latest' = latest
  /\ \/ /\ runStatus \in ManagerTerminalRuns
        /\ UNCHANGED <<runStatus, row, jobs, handler>>
     \/ /\ runStatus = "blocked"
        /\ TransientBlocked # {}
        /\ runStatus' = "running"
        /\ OpenReconcile("recover_restored", Restored)
     \/ /\ runStatus \notin ManagerTerminalRuns
        /\ ~(runStatus = "blocked" /\ TransientBlocked # {})
        /\ runStatus' = runStatus
        /\ OpenReconcile("recover", row)
  /\ UNCHANGED <<artifacts, remote, loop, clock, leaked, failing, crashes, faults>>

(* The second reconcile of a recovery that restored something.             *)
RecoverAgain ==
  /\ up
  /\ handler.phase = "again"
  /\ UNCHANGED <<runStatus, latest>>
  /\ \/ /\ runStatus \in ManagerTerminalRuns
        /\ Release
        /\ UNCHANGED <<row, jobs>>
     \/ /\ runStatus \notin ManagerTerminalRuns
        /\ OpenReconcile("recover", row)
        /\ loop' = loop
  /\ UNCHANGED <<artifacts, remote, up, clock, leaked, failing, crashes, faults>>

-----------------------------------------------------------------------------
Init ==
  /\ runStatus = "pending"
  /\ latest = [t \in Tasks |-> 0]
  /\ row = [a \in AttemptIds |-> NewRow]
  /\ artifacts = {}
  /\ remote = [a \in AttemptIds |-> [n \in Nodes |-> "absent"]]
  /\ jobs = {}
  /\ handler = Idle
  /\ up = TRUE
  /\ loop = FALSE
  /\ failing = FALSE
  /\ overdue = {}
  /\ rested = {}
  /\ leaked = FALSE
  /\ crashes = 0
  /\ faults = 0

User == \/ Start \/ Pause \/ Resume \/ Cancel \/ CancelRaises
        \/ \E t \in Tasks : RetryTask(t) \/ SkipTask(t)

Phase == \/ FinishReconcile \/ DispatchReady \/ FinishDispatch \/ FinishRetry
         \/ FinishCancel \/ RecoverAgain \/ StartFailed \/ \E t \in Tasks : RetryDue(t)

Coroutine(j) ==
  \/ PlaceOnNode(j) \/ PlaceLater(j) \/ PlaceNowhere(j)
  \/ InputsFail(j) \/ Created(j) \/ Uploaded(j) \/ Started(j)
  \/ DispatchFails(j) \/ TimedOut(j) \/ GetFails(j) \/ StillRunning(j)
  \/ FoundCancelled(j) \/ CancelAgain(j) \/ FoundFailed(j) \/ FoundUnknown(j)
  \/ FoundDone(j) \/ Collected(j) \/ CollectFails(j) \/ CancelAnswered(j)

Next ==
  \/ User
  \/ Tick
  \/ Phase
  \/ \E j \in jobs : Coroutine(j) \/ NodeServes(j) \/ CallFails(j)
  \/ \E a \in AttemptIds : \/ \E n \in Nodes : RemoteFinishes(a, n)
                           \/ TimeoutPasses(a) \/ DelayPasses(a)
  \/ Crash \/ CrashInCancel \/ Restart

Spec == Init /\ [][Next]_vars

-----------------------------------------------------------------------------
(* Fairness: the event loop runs every coroutine that can go on, a waiter   *)
(* of the step lock (a FIFO lock) gets its turn, nodes answer, Hermes      *)
(* finishes what it runs, and capacity that is looked for again and again  *)
(* is found.  The user owes nothing.                                       *)
Fairness ==
  /\ WF_vars(Phase)
  /\ WF_vars(Restart)
  /\ SF_vars(Tick)
  /\ WF_vars(\E j \in jobs : Coroutine(j))
  /\ SF_vars(\E j \in jobs : PlaceOnNode(j))
  /\ WF_vars(\E j \in jobs : NodeServes(j))
  /\ WF_vars(\E a \in AttemptIds, n \in Nodes : RemoteFinishes(a, n))
  /\ WF_vars(\E a \in AttemptIds : DelayPasses(a))

FairSpec == Spec /\ Fairness

-----------------------------------------------------------------------------
(* Properties.                                                             *)

TypeOK ==
  /\ runStatus \in RunStatus
  /\ latest \in [Tasks -> Nat] /\ \A t \in Tasks : latest[t] <= MaxAttempts[t]
  /\ row \in [AttemptIds -> Row]
  /\ artifacts \subseteq AttemptIds
  /\ remote \in [AttemptIds -> [Nodes -> RemoteStatus]]
  /\ jobs \subseteq Job
  /\ handler \in [kind: Kinds, phase: Phases]
  /\ up \in BOOLEAN /\ loop \in BOOLEAN /\ leaked \in BOOLEAN
  /\ failing \in BOOLEAN
  /\ overdue \subseteq AttemptIds /\ rested \subseteq AttemptIds
  /\ crashes \in 0..MaxCrashes /\ faults \in 0..MaxFaults

(* The step lock's purpose: as long as no coroutine has outlived its       *)
(* handler, a coroutine about to save its attempt holds exactly what the   *)
(* database holds, and it alone works on that attempt.                     *)
NoLostUpdate ==
  ~leaked => \A j \in jobs : /\ j.mem = row[j.id]
                             /\ \A k \in jobs : k.id = j.id => k = j

(* A node hears of an attempt only when every task it depends on has       *)
(* succeeded or was skipped, and that never stops being so.                *)
DependenciesFirst ==
  ~leaked => \A a \in AttemptIds :
    (\E n \in Nodes : remote[a][n] # "absent") =>
      \A d \in Deps[a[1]] : /\ latest[d] > 0
                            /\ row[LatestOf(d)].status \in {"success", "skipped"}

(* When a run turns to success, every task has an attempt, and the last    *)
(* one was skipped or has its artifacts committed.                         *)
SuccessIsEarned ==
  [][ runStatus' # runStatus /\ runStatus' \in {"success", "success_with_warnings"}
        => \A t \in Tasks :
             /\ latest[t] > 0
             /\ row[LatestOf(t)].status = "skipped" \/ LatestOf(t) \in artifacts ]_vars

(* An attempt that its node executes, whatever its row says.               *)
Executing(a, n) == remote[a][n] \in {"running", "cancelling", "cancel_failed"}
RemoteGoesOn(a) == row[a].node \in Nodes /\ Executing(a, row[a].node)

(* An attempt follows another one only after a failure, a block or a       *)
(* review; and when the former says failed or to be reviewed while its     *)
(* node executes it, then it had timed out.  It is not said that the two   *)
(* never execute at once: after a timeout they may, its cancel being best  *)
(* effort, and after a block, when the answer to the start was lost.       *)
AttemptsInTurn ==
  ~leaked => \A a \in AttemptIds :
               a[2] < latest[a[1]] =>
                 /\ row[a].status \in ManualRetryTasks
                 /\ row[a].status \in {"failed", "needs_review"} /\ RemoteGoesOn(a)
                      => a \in overdue

(* An attempt that was being cancelled is reported cancelled only when its *)
(* node says that it is.                                                   *)
CancelIsConfirmed ==
  [][ \A a \in AttemptIds :
        row[a].status = "cancelling" /\ row'[a].status = "cancelled"
          => leaked \/ remote[a][row[a].node] = "cancelled" ]_vars

(* What has ended has ended: success, cancelled, skipped and the failures  *)
(* that only a new attempt gets past never change, whatever late answer    *)
(* comes in; needs_review may only be skipped.                             *)
EndedStaysEnded ==
  [][ \A a \in AttemptIds :
        /\ row[a].status \in {"success", "cancelled", "skipped"} \cup AutoRetryTasks
             => leaked \/ row'[a].status = row[a].status
        /\ row[a].status = "needs_review"
             => leaked \/ row'[a].status \in {"needs_review", "skipped"} ]_vars

(* A terminal run stays in its status, across the late failure of its      *)
(* start, retries of its tasks and restarts.                               *)
RunEndsOnce ==
  [][ (runStatus \in ApiTerminalRuns) => leaked \/ runStatus' = runStatus ]_vars

(* The exceptions of the state table and of the artifacts' UNIQUE column   *)
(* that end a handler while it still has coroutines, and so leave orphans  *)
(* or keep the process from starting, are all of two kinds: over an        *)
(* attempt found dispatching, and over a task's second delivery.  Errors   *)
(* of the disk, as the writing of the logs may raise, are not modelled.    *)
RaisesAreKnown ==
  [][ Held # {} /\ handler' = Idle /\ crashes' = crashes /\ ~leaked
        => \E a \in LatestIds(latest) :
             \/ row[a].status = "dispatching"
             \/ row[a].status = "collecting" /\ PathTaken(a) ]_vars

(* A paused run gets no new work by itself: only a retry that the user     *)
(* asked for makes a node hear of another attempt.                         *)
PauseHolds ==
  [][ runStatus = "paused" /\ handler.kind # "retry" /\ ~leaked
        => \A a \in AttemptIds, n \in Nodes :
             remote[a][n] = "absent" => remote'[a][n] = "absent" ]_vars

NothingToStop(a) ==
  /\ row[a].status = "cancelling"
  /\ remote[a][row[a].node] \in {"queued", "stillborn"}

(* Without crashes, a run being cancelled ends up cancelled, unless one of  *)
(* its attempts has no Hermes run that its node could stop.                *)
CancelSettles ==
  runStatus = "cancelling" ~>
    (runStatus = "cancelled" \/ \E a \in AttemptIds : NothingToStop(a))

(* Without crashes, a run does not stay running forever: it ends, or is    *)
(* blocked and waits for the user.                                         *)
RunSettles == runStatus = "running" ~> runStatus # "running"

-----------------------------------------------------------------------------
(* What the documents promise and the code does not keep.                  *)

(* "Cancelling must really cancel the remote Hermes task and not only      *)
(* change the database": in a cancelled run no node executes anything.     *)
CancelReachesNodes ==
  runStatus = "cancelled" => \A a \in AttemptIds, n \in Nodes : ~Executing(a, n)

(* "running -> cancelling -> cancelled": a run being cancelled, with every  *)
(* node answering, ends up cancelled.                                      *)
CancelCompletes == runStatus = "cancelling" ~> runStatus = "cancelled"

(* "Every idempotency key creates at most one remote task."                *)
OneRemoteTaskPerKey ==
  \A a \in AttemptIds : \A m, n \in Nodes :
    remote[a][m] # "absent" /\ remote[a][n] # "absent" => m = n

(* "On start the coordinator scans all non-terminal runs" and recovers      *)
(* their running and collecting tasks: a recovery is not ended by an       *)
(* exception, which would keep the whole process from starting.            *)
RecoveryCompletes ==
  [][ up /\ handler.kind \in {"recover", "recover_restored"} /\ ~up'
        => crashes' > crashes ]_vars

(* "An attempt verified as successful must not be overwritten by a later   *)
(* failure": not by an orphan's late answer either.                        *)
VerifiedSuccessKept ==
  [][ \A a \in AttemptIds :
        row[a].status = "success" => row'[a].status \notin FailureTasks ]_vars
=============================================================================
