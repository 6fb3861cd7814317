------------------------- MODULE RunSafetyProofs -------------------------
(***************************************************************************)
(* What a run promises to its user, proved for every workflow, every set   *)
(* of nodes, every retry policy and any number of crashes and lost calls:  *)
(* no node hears of a task before its dependencies are done; what has      *)
(* ended stays ended; a cancel is confirmed by the node; a paused run      *)
(* gives out no work; a success has its artifacts; a run ends once.        *)
(*                                                                         *)
(* On top of the discipline of the step lock, SafeInv relates a coroutine  *)
(* to the status of its attempt (Course), attempts to what their nodes     *)
(* record (Permitted, Believed, Stops), and the phase of a handler to the  *)
(* status of the run (Rhythm).                                             *)
(***************************************************************************)
EXTENDS RunActions, RunExecutionProofs

(* The statuses that say nothing of the dependencies of an attempt, and    *)
(* the records of an attempt that its node was told to stop.               *)
Unbound == {"pending", "skipped", "cancelled"}
Stopped == {"cancelled"} \cup Unconfirmed

(* The calls of a dispatch.                                                *)
Placing == {"place", "create", "upload", "start"}

Done(t) == latest[t] > 0 /\ row[LatestOf(t)].status \in DependencyComplete

(* What a coroutine believes the status of its attempt to be.              *)
StatusAt(pc) ==
  CASE pc = "place"   -> {"ready"}
    [] pc = "get"     -> ActiveTasks
    [] pc = "timeout" -> {"running"}
    [] pc = "collect" -> {"collecting"}
    [] pc = "cancel"  -> {"cancelling"}
    [] OTHER          -> {"dispatching"}

OnCourse(j) ==
  /\ j.mem.status \in StatusAt(j.pc)
  /\ j.pc = "timeout" => j.mem.started /\ j.id \in overdue
  /\ j.id[2] <= latest[j.id[1]]

Course == \A j \in jobs : OnCourse(j)

(* Attempts that have not begun.                                           *)
Untouched == \A a \in AttemptIds : a[2] > latest[a[1]] => row[a] = NewRow

Delivered ==
  \A a \in AttemptIds : row[a].status \in {"success", "needs_review"} => a \in artifacts

Permitted ==
  ~leaked => \A a \in AttemptIds :
    row[a].status \notin Unbound \/ (\E n \in Nodes : remote[a][n] # "absent")
      => \A d \in Deps[a[1]] : Done(d)

(* A confirmed stop that a coroutine is about to act on is still true.     *)
Believed ==
  ~leaked => \A j \in jobs :
    j.reply = "cancelled" => /\ j.mem.node \in Nodes
                             /\ remote[j.id][j.mem.node] = "cancelled"

(* A node was told to stop an attempt because it is being cancelled, or    *)
(* because it is overdue, and then nobody asks how it is doing.            *)
Stops ==
  ~leaked => \A a \in AttemptIds, n \in Nodes :
    remote[a][n] \in Stopped =>
      \/ row[a].status \in {"cancelling", "cancelled", "failed"}
      \/ /\ row[a].status = "running" /\ row[a].started /\ a \in overdue
         /\ \A j \in jobs : j.id = a => j.pc = "timeout"

(* A run dispatches only while it is running.  A failed start leaves an     *)
(* attempt behind that no cancel and no step gets past before the           *)
(* done-callback has run.                                                  *)
Phased ==
  /\ handler.phase \in {"due", "ready", "dispatch"} => runStatus = "running"
  /\ handler.phase = "cancel" => runStatus = "cancelling"
  /\ handler.kind = "start" => runStatus \in {"running", "failed"}
  /\ \A j \in jobs : j.pc \in Placing => handler.phase \in {"due", "dispatch", "single"}

Failing ==
  failing => /\ Uncancellable # {}
             /\ runStatus # "success_with_warnings"
             /\ handler.phase \in {"none", "reconcile", "single"}
             /\ handler.phase = "reconcile" => jobs # {}

Rhythm ==
  /\ handler.kind = "retry" <=> handler.phase = "single"
  /\ ~up => ~failing
  /\ ~leaked => Phased /\ Failing

SafeInv ==
  /\ LockInv
  /\ Course /\ Untouched /\ Delivered
  /\ Permitted /\ Believed /\ Stops
  /\ Rhythm

-----------------------------------------------------------------------------
(* A coroutine: it raises, or takes its attempt from j.mem to r.           *)

Raises(j) ==
  /\ Raise(j)
  /\ artifacts' = artifacts
  /\ \/ j.mem.status \in {"dispatching", "collecting"}
     \/ j.mem.status = "running" /\ j.pc = "get" /\ j.reply = "cancelled"

GoesOn(j, pc, r) ==
  /\ Continue(j, pc, r)
  /\ r.status \in StatusAt(pc)
  /\ pc # "timeout"
  /\ pc \in Placing => j.pc \in Placing

Takes(j, r) ==
  /\ TaskMayBecome(j.mem.status, r.status)
  /\ Save(j, r) \/ (r = j.mem /\ row' = row)
  /\ Drop(j) \/ \E pc \in Calls : GoesOn(j, pc, r)
  /\ r.status \in {"success", "needs_review"} => j.id \in artifacts'
  /\ r.status = "cancelled" => j.reply = "cancelled"
  /\ j.pc = "timeout" => r.status = "failed" /\ Drop(j)
  /\ Calm

Advances(j) ==
  /\ Raises(j) \/ \E r \in Row : Takes(j, r)
  /\ artifacts' \in {artifacts, artifacts \cup {j.id}}
  /\ UNCHANGED <<latest, remote, clock, crashes, faults>>

LEMMA SettleAdvances ==
  ASSUME NEW j \in Job, NEW status \in TaskStatus, NEW transient \in BOOLEAN,
         status \notin {"success", "needs_review"},
         status = "cancelled" => j.reply = "cancelled",
         j.pc = "timeout" => status = "failed",
         Settle(j, status, transient), Outside,
         TaskMayBecome(j.mem.status, status)
  PROVE  Advances(j)
<1> DEFINE r == [j.mem EXCEPT !.status = status, !.transient = transient]
<1>1. j.mem \in Row
  BY JobFields
<1>2. r \in Row
  BY Zenon, <1>1, RowChange
<1>3. r.status = status
  BY <1>1 DEF Row
<1> HIDE DEF r
<1>4. Save(j, r) /\ Drop(j) /\ Calm
  BY DEF Settle, r
<1>5. Takes(j, r)
  BY <1>3, <1>4 DEF Takes
<1> QED BY <1>2, <1>5 DEF Advances, Outside

LEMMA SettleRaises ==
  ASSUME NEW j \in Job, NEW status, NEW transient,
         Settle(j, status, transient), Outside,
         ~TaskMayBecome(j.mem.status, status),
         \/ j.mem.status \in {"dispatching", "collecting"}
         \/ j.mem.status = "running" /\ j.pc = "get" /\ j.reply = "cancelled"
  PROVE  Advances(j)
BY DEF Settle, Outside, Advances, Raises

(* Every step of a coroutine that is on course is of this kind.            *)
LEMMA CoroutineAdvances ==
  ASSUME NEW j \in Job, OnCourse(j), Coroutine(j)
  PROVE  Advances(j) /\ up /\ ~failing
<1>0. j.mem \in Row /\ j.mem.status \in TaskStatus /\ j.mem.transient \in BOOLEAN
  BY JobFields DEF Row
<1>a. j.mem.status \in StatusAt(j.pc)
  BY DEF OnCourse
<1>b. \A from, to \in TaskStatus : to \in TaskTransitions[from] => TaskMayBecome(from, to)
  BY DEF TaskMayBecome
<1>c. /\ "blocked" \in TaskStatus /\ "failed" \in TaskStatus /\ "running" \in TaskStatus
      /\ "artifact_failed" \in TaskStatus /\ "cancelled" \in TaskStatus
  BY DEF TaskStatus
<1>d. /\ \A s \in {"ready", "dispatching", "running", "collecting"} :
             TaskMayBecome(s, "blocked")
      /\ TaskMayBecome("running", "failed") /\ TaskMayBecome("running", "collecting")
      /\ TaskMayBecome("collecting", "artifact_failed")
      /\ TaskMayBecome("dispatching", "running")
      /\ TaskMayBecome("ready", "dispatching")
      /\ TaskMayBecome("collecting", "success")
      /\ TaskMayBecome("collecting", "needs_review")
      /\ TaskMayBecome("cancelling", "cancelled")
      /\ \A s : TaskMayBecome(s, s)
  BY DEF TaskMayBecome, TaskTransitions, TaskStatus
<1>e. up /\ ~failing
  BY Zenon DEF Coroutine, PlaceOnNode, PlaceLater, PlaceNowhere, InputsFail, Created, Uploaded,
         Started, DispatchFails, TimedOut, GetFails, StillRunning, FoundCancelled,
         CancelAgain, FoundFailed, FoundUnknown, FoundDone, Collected, CollectFails,
         CancelAnswered, Answered, Resumes
<1> SUFFICES Advances(j)
  BY <1>e
<1>f. ASSUME row' = row, Calm, Outside,
             Drop(j) \/ \E pc \in Calls : GoesOn(j, pc, j.mem),
             j.pc # "timeout", j.mem.status \notin {"success", "needs_review", "cancelled"}
      PROVE  Advances(j)
  BY <1>0, <1>d, <1>f DEF Advances, Takes, Outside
<1>1. CASE PlaceOnNode(j)
  <2>1. PICK n \in Nodes :
          LET r == [j.mem EXCEPT !.status = "dispatching", !.node = n]
          IN Save(j, r) /\ Continue(j, "create", r)
    BY Zenon, <1>1 DEF PlaceOnNode
  <2> DEFINE r == [j.mem EXCEPT !.status = "dispatching", !.node = n]
  <2>2. r \in Row
    BY Zenon, <1>0, RowChange DEF TaskStatus
  <2>3. r.status = "dispatching"
    BY <1>0 DEF Row
  <2>4. j.pc = "place" /\ j.mem.status = "ready"
    BY <1>1, <1>a DEF PlaceOnNode, StatusAt
  <2> HIDE DEF r
  <2>5. Save(j, r) /\ Continue(j, "create", r)
    BY <2>1 DEF r
  <2>6. GoesOn(j, "create", r)
    BY <2>3, <2>4, <2>5 DEF GoesOn, StatusAt, Placing
  <2>7. Takes(j, r)
    BY <1>1, <1>d, <2>3, <2>4, <2>5, <2>6 DEF Takes, PlaceOnNode, Calls
  <2> QED BY <1>1, <2>2, <2>7 DEF PlaceOnNode, Advances, Outside
<1>2. CASE PlaceLater(j)
  <2>1. j.pc = "place" /\ j.mem.status = "ready"
    BY <1>2, <1>a DEF PlaceLater, StatusAt
  <2> QED BY <1>2, <1>f, <2>1 DEF PlaceLater
<1>3. CASE PlaceNowhere(j)
  <2>1. j.pc = "place" /\ j.mem.status = "ready"
    BY <1>3, <1>a DEF PlaceNowhere, StatusAt
  <2> QED BY <1>3, <1>c, <1>d, <2>1, SettleAdvances DEF PlaceNowhere
<1>4. CASE InputsFail(j)
  <2>1. j.mem.status = "dispatching" /\ j.pc = "create"
    BY <1>4, <1>a DEF InputsFail, Answered, StatusAt
  <2>2. CASE TaskMayBecome(j.mem.status, "artifact_failed")
    BY <1>4, <1>c, <2>1, <2>2, SettleAdvances DEF InputsFail
  <2>3. CASE ~TaskMayBecome(j.mem.status, "artifact_failed")
    BY <1>4, <2>1, <2>3, SettleRaises DEF InputsFail
  <2> QED BY <2>2, <2>3
<1>5. CASE Created(j)
  <2>1. j.mem.status = "dispatching" /\ j.pc = "create"
    BY <1>5, <1>a DEF Created, Answered, StatusAt
  <2>2. \E pc \in Calls : GoesOn(j, pc, j.mem)
    BY <1>5, <2>1 DEF Created, GoesOn, StatusAt, Placing, Calls
  <2> QED BY <1>5, <1>f, <2>1, <2>2 DEF Created
<1>6. CASE Uploaded(j)
  <2>1. j.mem.status = "dispatching" /\ j.pc = "upload"
    BY <1>6, <1>a DEF Uploaded, Answered, StatusAt
  <2>2. GoesOn(j, "start", j.mem) /\ "start" \in Calls
    BY <1>6, <2>1 DEF Uploaded, GoesOn, StatusAt, Placing, Calls
  <2> QED BY <1>6, <1>f, <2>1, <2>2 DEF Uploaded
<1>7. CASE Started(j)
  <2> DEFINE r == [j.mem EXCEPT !.status = "running", !.started = TRUE, !.transient = FALSE]
  <2>1. r \in Row
    BY Zenon, <1>0, RowChange DEF TaskStatus
  <2>2. r.status = "running"
    BY <1>0 DEF Row
  <2>3. j.mem.status = "dispatching" /\ j.pc = "start"
    BY <1>7, <1>a DEF Started, Answered, StatusAt
  <2> HIDE DEF r
  <2>4. Save(j, r) /\ Drop(j) /\ Calm
    BY <1>7 DEF Started, r
  <2>5. Takes(j, r)
    BY <1>d, <2>2, <2>3, <2>4 DEF Takes
  <2> QED BY <1>7, <2>1, <2>5 DEF Started, Advances, Outside
<1>8. CASE DispatchFails(j)
  <2>1. j.mem.status = "dispatching" /\ j.pc \in {"create", "upload", "start"}
    BY <1>8, <1>a DEF DispatchFails, Answered, StatusAt
  <2> QED BY <1>8, <1>c, <1>d, <2>1, SettleAdvances DEF DispatchFails
<1>9. CASE TimedOut(j)
  <2>1. j.mem.status = "running"
    BY <1>9, <1>a DEF TimedOut, Answered, StatusAt
  <2> QED BY <1>9, <1>c, <1>d, <2>1, SettleAdvances DEF TimedOut
<1>10. CASE GetFails(j)
  <2>1. j.mem.status \in ActiveTasks /\ j.pc = "get"
    BY <1>10, <1>a DEF GetFails, Answered, StatusAt
  <2>2. CASE j.mem.status = "cancelling"
    <3>1. Takes(j, j.mem)
      BY <1>10, <1>d, <2>1, <2>2 DEF GetFails, Takes
    <3> QED BY <1>0, <1>10, <3>1 DEF GetFails, Advances, Outside
  <2>3. CASE j.mem.status # "cancelling"
    <3>1. TaskMayBecome(j.mem.status, "blocked")
      BY <1>d, <2>1, <2>3 DEF ActiveTasks
    <3> QED BY <1>10, <1>c, <2>1, <2>3, <3>1, SettleAdvances DEF GetFails, Unanswered
  <2> QED BY <2>2, <2>3
<1>11. CASE StillRunning(j)
  <2>1. j.mem.status \in ActiveTasks /\ j.pc = "get"
    BY <1>11, <1>a DEF StillRunning, Answered, StatusAt
  <2>2. CASE j.mem.status = "cancelling"
    <3>1. GoesOn(j, "cancel", j.mem) /\ "cancel" \in Calls
      BY <1>11, <2>2 DEF StillRunning, GoesOn, StatusAt, Placing, Calls
    <3> QED BY <1>11, <1>f, <2>1, <2>2, <3>1 DEF StillRunning
  <2>3. CASE j.mem.status = "running"
    BY <1>11, <1>f, <2>1, <2>3 DEF StillRunning
  <2>4. CASE j.mem.status \in {"dispatching", "collecting"}
    <3>1. Settle(j, "running", j.mem.transient) /\ Outside
      BY <1>11, <2>4 DEF StillRunning
    <3>2. CASE TaskMayBecome(j.mem.status, "running")
      BY <1>0, <1>c, <2>1, <3>1, <3>2, SettleAdvances
    <3>3. CASE ~TaskMayBecome(j.mem.status, "running")
      BY <2>4, <3>1, <3>3, SettleRaises
    <3> QED BY <3>2, <3>3
  <2> QED BY <2>1, <2>2, <2>3, <2>4 DEF ActiveTasks
<1>12. CASE FoundCancelled(j)
  <2>1. j.mem.status \in ActiveTasks /\ j.pc = "get" /\ j.reply = "cancelled"
    BY <1>12, <1>a DEF FoundCancelled, Answered, StatusAt
  <2>2. CASE TaskMayBecome(j.mem.status, "cancelled")
    BY <1>0, <1>12, <1>c, <2>1, <2>2, SettleAdvances DEF FoundCancelled
  <2>3. CASE ~TaskMayBecome(j.mem.status, "cancelled")
    <3>1. j.mem.status # "cancelling"
      BY <1>d, <2>3
    <3> QED BY <1>12, <2>1, <2>3, <3>1, SettleRaises DEF FoundCancelled, ActiveTasks
  <2> QED BY <2>2, <2>3
<1>13. CASE CancelAgain(j)
  <2>1. j.mem.status = "cancelling" /\ j.pc = "get"
    BY <1>13 DEF CancelAgain, Answered
  <2>2. GoesOn(j, "cancel", j.mem) /\ "cancel" \in Calls
    BY <1>13, <2>1 DEF CancelAgain, GoesOn, StatusAt, Placing, Calls
  <2> QED BY <1>13, <1>f, <2>1, <2>2 DEF CancelAgain
<1>14. CASE FoundFailed(j)
  <2>1. j.mem.status \in ActiveTasks \ {"cancelling"} /\ j.pc = "get"
    BY <1>14, <1>a DEF FoundFailed, Answered, StatusAt
  <2>2. CASE TaskMayBecome(j.mem.status, "failed")
    BY <1>14, <1>c, <2>1, <2>2, SettleAdvances DEF FoundFailed
  <2>3. CASE ~TaskMayBecome(j.mem.status, "failed")
    <3>1. j.mem.status # "running"
      BY <1>d, <2>3
    <3> QED BY <1>14, <2>1, <2>3, <3>1, SettleRaises DEF FoundFailed, ActiveTasks
  <2> QED BY <2>2, <2>3
<1>15. CASE FoundUnknown(j)
  <2>1. j.mem.status \in ActiveTasks \ {"cancelling"} /\ j.pc = "get"
    BY <1>15, <1>a DEF FoundUnknown, Answered, StatusAt
  <2>2. TaskMayBecome(j.mem.status, "blocked")
    BY <1>d, <2>1 DEF ActiveTasks
  <2> QED BY <1>15, <1>c, <2>1, <2>2, SettleAdvances DEF FoundUnknown
<1>16. CASE FoundDone(j)
  <2> DEFINE r == [j.mem EXCEPT !.status = "collecting"]
  <2>1. j.mem.status \in ActiveTasks \ {"cancelling"} /\ j.pc = "get"
    BY <1>16, <1>a DEF FoundDone, Answered, StatusAt
  <2>2. r \in Row
    BY Zenon, <1>0, RowChange DEF TaskStatus
  <2>3. r.status = "collecting"
    BY <1>0 DEF Row
  <2>4. CASE TaskMayBecome(j.mem.status, "collecting")
    <3> HIDE DEF r
    <3>1. Save(j, r) /\ Continue(j, "collect", r) /\ Calm
      BY <1>16, <2>4 DEF FoundDone, r
    <3>2. GoesOn(j, "collect", r) /\ "collect" \in Calls
      BY <2>3, <3>1 DEF GoesOn, StatusAt, Placing, Calls
    <3>3. Takes(j, r)
      BY <2>1, <2>3, <2>4, <3>1, <3>2 DEF Takes
    <3> QED BY <1>16, <2>2, <3>3 DEF FoundDone, Advances, Outside
  <2>5. CASE ~TaskMayBecome(j.mem.status, "collecting")
    <3>1. j.mem.status # "running"
      BY <1>d, <2>5
    <3>2. Raises(j)
      BY <1>16, <2>1, <2>5, <3>1 DEF FoundDone, Raises, Outside, ActiveTasks
    <3> QED BY <1>16, <3>2 DEF FoundDone, Advances, Outside
  <2> QED BY <2>4, <2>5
<1>17. CASE Collected(j)
  <2> DEFINE s == IF j.id[1] \in ReviewTasks THEN "needs_review" ELSE "success"
             r == [j.mem EXCEPT !.transient = FALSE, !.status = s]
  <2>1. j.mem.status = "collecting" /\ j.pc = "collect"
    BY <1>17, <1>a DEF Collected, Answered, StatusAt
  <2>2. r \in Row
    BY Zenon, <1>0, RowChange DEF TaskStatus
  <2>3. r.status = s
    BY <1>0 DEF Row
  <2>4. CASE PathTaken(j.id)
    BY <1>17, <2>1, <2>4 DEF Collected, Advances, Raises
  <2>5. CASE ~PathTaken(j.id)
    <3>1. /\ Save(j, r) /\ Drop(j) /\ Calm
          /\ artifacts' = artifacts \cup {j.id}
      BY <1>17, <2>5 DEF Collected
    <3> HIDE DEF r
    <3>2. Takes(j, r)
      BY <1>d, <2>1, <2>3, <3>1 DEF Takes
    <3> QED BY <1>17, <2>2, <3>1, <3>2 DEF Collected, Advances
  <2> QED BY <2>4, <2>5
<1>18. CASE CollectFails(j)
  <2>1. j.mem.status = "collecting" /\ j.pc = "collect"
    BY <1>18, <1>a DEF CollectFails, Answered, StatusAt
  <2> QED BY <1>18, <1>c, <1>d, <2>1, SettleAdvances DEF CollectFails
<1>19. CASE CancelAnswered(j)
  <2>1. j.mem.status = "cancelling" /\ j.pc = "cancel"
    BY <1>19, <1>a DEF CancelAnswered, Answered, StatusAt
  <2>2. CASE Confirms(j.reply)
    BY <1>19, <1>c, <1>d, <2>1, <2>2, SettleAdvances DEF CancelAnswered, Confirms
  <2>3. CASE ~Confirms(j.reply)
    <3>1. Takes(j, j.mem)
      BY <1>19, <1>d, <2>1, <2>3 DEF CancelAnswered, Takes
    <3> QED BY <1>0, <1>19, <3>1 DEF CancelAnswered, Advances, Outside
  <2> QED BY <2>2, <2>3
<1> QED
  BY <1>1, <1>2, <1>3, <1>4, <1>5, <1>6, <1>7, <1>8, <1>9, <1>10, <1>11, <1>12,
     <1>13, <1>14, <1>15, <1>16, <1>17, <1>18, <1>19 DEF Coroutine

-----------------------------------------------------------------------------
(* A coroutine's step keeps the invariant.                                 *)

(* An exception leaves orphans behind, or nothing at all.                  *)
LEMMA RaiseLeavesNothing ==
  ASSUME SafeInv, NEW j \in jobs, Raise(j), ~leaked'
  PROVE  ~leaked /\ jobs' = {}
<1>1. ~leaked => \A k \in jobs : ~k.orphan
  BY DEF SafeInv, LockInv, Discipline
<1>2. CASE jobs' = {} /\ leaked' = leaked
  BY <1>2
<1>3. CASE /\ jobs' = {[k EXCEPT !.orphan = TRUE] : k \in jobs \ {j}}
           /\ leaked' = (leaked \/ Held # {j})
  <2>1. ~leaked /\ Held = {j}
    BY <1>3
  <2>2. jobs \ {j} = {}
    BY <1>1, <2>1 DEF Held
  <2> QED BY <1>3, <2>1, <2>2
<1>4. CASE j.orphan
  BY <1>1, <1>4 DEF Raise, Calm
<1> QED BY <1>2, <1>3, <1>4 DEF Raise

(* No node is found to have stopped what nobody has asked it to stop.      *)
LEMMA StopIsAsked ==
  ASSUME SafeInv, NEW j \in jobs, ~leaked, j.mem.status = "running", j.pc = "get"
  PROVE  j.reply # "cancelled"
<1> SUFFICES ASSUME j.reply = "cancelled"
             PROVE  FALSE
  OBVIOUS
<1>1. j.mem.node \in Nodes /\ remote[j.id][j.mem.node] = "cancelled"
  BY DEF SafeInv, Believed
<1>2. j.id \in AttemptIds /\ j.mem = row[j.id]
  BY JobFields DEF SafeInv, LockInv, TypeOK, Discipline, NoLostUpdate
<1> QED BY <1>1, <1>2 DEF SafeInv, Stops, Stopped

LEMMA RaiseKeeps ==
  ASSUME SafeInv, NEW j \in jobs, Raises(j), up, ~failing, LockInv',
         UNCHANGED <<latest, remote, clock, crashes, faults>>
  PROVE  SafeInv'
<1>1. UNCHANGED <<row, artifacts, latest, remote, overdue, runStatus>>
  BY DEF Raises, Raise, clock
<1>2. \A k \in jobs' : \E i \in jobs :
        k.id = i.id /\ k.pc = i.pc /\ k.mem = i.mem /\ k.reply = i.reply
  <2>1. \A i \in jobs : LET k == [i EXCEPT !.orphan = TRUE]
                        IN k.id = i.id /\ k.pc = i.pc /\ k.mem = i.mem /\ k.reply = i.reply
    BY DEF SafeInv, LockInv, TypeOK, Job
  <2>2. \/ jobs' \subseteq jobs
        \/ jobs' = {[k EXCEPT !.orphan = TRUE] : k \in jobs \ {j}}
    BY DEF Raises, Raise, Drop
  <2>3. CASE jobs' = {[k EXCEPT !.orphan = TRUE] : k \in jobs \ {j}}
    <3> SUFFICES ASSUME NEW k \in jobs'
                 PROVE  \E i \in jobs :
                          k.id = i.id /\ k.pc = i.pc /\ k.mem = i.mem /\ k.reply = i.reply
      OBVIOUS
    <3>1. PICK i \in jobs : k = [i EXCEPT !.orphan = TRUE]
      BY <2>3
    <3>2. k.id = i.id /\ k.pc = i.pc /\ k.mem = i.mem /\ k.reply = i.reply
      BY <2>1, <3>1
    <3> QED BY <3>2
  <2>4. CASE jobs' \subseteq jobs
    BY <2>4
  <2> QED BY <2>2, <2>3, <2>4
<1>3. ~leaked' => ~leaked /\ jobs' = {}
  BY RaiseLeavesNothing DEF Raises
<1>4. Course' /\ Untouched' /\ Delivered'
  BY <1>1, <1>2 DEF SafeInv, Course, OnCourse, Untouched, Delivered
<1>5. Permitted' /\ Believed'
  BY <1>1, <1>3 DEF SafeInv, Permitted, Believed, Done, LatestOf
<1>6. Stops'
  BY <1>1, <1>3 DEF SafeInv, Stops
<1>7. Rhythm'
  <2>1. CASE j.orphan
    BY <1>3, <2>1 DEF Raises, Raise, Calm, SafeInv, Rhythm, LockInv, Discipline
  <2>2. CASE ~j.orphan
    <3>1. handler' = Idle /\ failing' = (handler.kind = "start")
      BY <2>2 DEF Raises, Raise
    <3>2. ~up' => ~failing'
      BY <2>2 DEF Raises, Raise
    <3>3. ~leaked' => Phased'
      BY <1>3, <3>1 DEF Phased, Idle
    <3>4. ASSUME ~leaked', failing'
          PROVE  j.id \in Uncancellable
      <4>1. ~leaked
        BY <1>3, <3>4
      <4>2. j.id \in LatestIds(latest) /\ j.mem = row[j.id]
        BY <4>1 DEF SafeInv, LockInv, Discipline, NoLostUpdate
      <4>3. ~(j.mem.status = "running" /\ j.pc = "get" /\ j.reply = "cancelled")
        BY <4>1, StopIsAsked
      <4> QED BY <4>2, <4>3 DEF Raises, Uncancellable
    <3>5. ~leaked' => Failing'
      <4>1. Uncancellable' = Uncancellable
        BY <1>1 DEF Uncancellable, LatestIds
      <4>2. ~leaked' /\ failing' => runStatus' # "success_with_warnings"
        BY <1>1, <1>3, <3>1 DEF SafeInv, Rhythm, Phased
      <4>3. handler'.phase = "none"
        BY <3>1 DEF Idle
      <4> QED BY <3>4, <4>1, <4>2, <4>3 DEF Failing
    <3>6. (handler.kind = "retry" <=> handler.phase = "single")'
      BY <3>1 DEF Idle
    <3> QED BY <3>2, <3>3, <3>5, <3>6 DEF Rhythm
  <2> QED BY <2>1, <2>2
<1> QED BY <1>4, <1>5, <1>6, <1>7 DEF SafeInv

(* Without an orphan, what a coroutine saves is the next status of the row  *)
(* it works on, and nothing else changes.                                  *)
LEMMA TakesRows ==
  ASSUME SafeInv, NEW j \in jobs, NEW r \in Row, Takes(j, r), ~leaked
  PROVE  /\ j.id \in AttemptIds /\ j.mem = row[j.id]
         /\ row' = [row EXCEPT ![j.id] = r]
         /\ row[j.id].status \in {"ready"} \cup {"dispatching"} \cup ActiveTasks
<1>1. j.id \in AttemptIds
  BY JobFields DEF SafeInv, LockInv, TypeOK
<1>2. j.mem = row[j.id]
  BY DEF SafeInv, LockInv, Discipline, NoLostUpdate
<1>3. [row EXCEPT ![j.id] = row[j.id]] = row
  BY <1>1 DEF SafeInv, LockInv, TypeOK
<1>4. j.mem.status \in {"ready"} \cup {"dispatching"} \cup ActiveTasks
  BY DEF SafeInv, Course, OnCourse, StatusAt, ActiveTasks
<1> QED BY <1>1, <1>2, <1>3, <1>4 DEF Takes, Save

LEMMA TakesJobs ==
  ASSUME SafeInv, NEW j \in jobs, NEW r \in Row, Takes(j, r)
  PROVE  \A k \in jobs' : \/ k \in jobs \ {j}
                          \/ /\ k.id = j.id /\ k.mem = r /\ k.reply = "none"
                             /\ r.status \in StatusAt(k.pc) /\ k.pc # "timeout"
                             /\ k.pc \in Placing => j.pc \in Placing
<1>1. CASE Drop(j)
  BY <1>1 DEF Drop
<1>2. ASSUME NEW pc \in Calls, GoesOn(j, pc, r)
      PROVE  \A k \in jobs' : \/ k \in jobs \ {j}
                              \/ /\ k.id = j.id /\ k.mem = r /\ k.reply = "none"
                                 /\ r.status \in StatusAt(k.pc) /\ k.pc # "timeout"
                                 /\ k.pc \in Placing => j.pc \in Placing
  <2> DEFINE k == [j EXCEPT !.pc = pc, !.reply = "none", !.mem = r]
  <2>1. k.id = j.id /\ k.mem = r /\ k.reply = "none" /\ k.pc = pc
    BY DEF SafeInv, LockInv, TypeOK, Job
  <2>2. jobs' = (jobs \ {j}) \cup {k}
    BY <1>2 DEF GoesOn, Continue
  <2> HIDE DEF k
  <2> QED BY <1>2, <2>1, <2>2 DEF GoesOn
<1> QED BY <1>1, <1>2 DEF Takes

LEMMA TakesKeeps ==
  ASSUME SafeInv, NEW j \in jobs, NEW r \in Row, Takes(j, r), up, ~failing, LockInv',
         artifacts' \in {artifacts, artifacts \cup {j.id}},
         UNCHANGED <<latest, remote, clock, crashes, faults>>
  PROVE  SafeInv'
<1>1. j.id \in AttemptIds /\ j.id[2] <= latest[j.id[1]]
  BY JobFields DEF SafeInv, LockInv, TypeOK, Course, OnCourse
<1>2. UNCHANGED <<latest, remote, overdue, leaked, handler, runStatus, failing, up>>
  BY DEF Takes, Calm, clock
<1>3. row \in [AttemptIds -> Row]
  BY DEF SafeInv, LockInv, TypeOK
<1>4. /\ \A a \in AttemptIds \ {j.id} : row'[a] = row[a]
      /\ row'[j.id] = r \/ (r = j.mem /\ row' = row)
  BY <1>1, <1>3 DEF Takes, Save
<1>5. Course'
  <2> SUFFICES ASSUME NEW k \in jobs'
               PROVE  OnCourse(k)'
    BY DEF Course
  <2>1. CASE k \in jobs \ {j}
    BY <1>2, <2>1 DEF SafeInv, Course, OnCourse
  <2>2. CASE k \notin jobs \ {j}
    BY <1>1, <1>2, <2>2, TakesJobs DEF OnCourse
  <2> QED BY <2>1, <2>2
<1>6. Untouched'
  <2> SUFFICES ASSUME NEW a \in AttemptIds, a[2] > latest[a[1]]
               PROVE  row'[a] = NewRow
    BY <1>2 DEF Untouched
  <2>1. row[a] = NewRow
    BY DEF SafeInv, Untouched
  <2>2. a # j.id
    <3>1. a[2] \in Nat /\ latest[a[1]] \in Nat
      BY AttemptIdsDef DEF SafeInv, LockInv, TypeOK
    <3> QED BY <1>1, <3>1
  <2> QED BY <1>4, <2>1, <2>2
<1>7. Delivered'
  <2>1. j.mem.status \notin {"success", "needs_review"}
    BY DEF SafeInv, Course, OnCourse, StatusAt, ActiveTasks
  <2>2. row'[j.id].status \in {"success", "needs_review"} => j.id \in artifacts'
    BY <1>1, <1>4, <2>1 DEF SafeInv, Delivered, Takes
  <2> QED BY <1>4, <2>2 DEF SafeInv, Delivered
<1>8. ASSUME ~leaked
      PROVE  /\ j.mem = row[j.id]
             /\ row' = [row EXCEPT ![j.id] = r]
             /\ row[j.id].status \in {"ready"} \cup {"dispatching"} \cup ActiveTasks
  BY <1>8, TakesRows
<1>9. Permitted'
  <2> SUFFICES ASSUME ~leaked, NEW a \in AttemptIds, NEW d \in Deps[a[1]],
                      \/ row'[a].status \notin Unbound
                      \/ \E n \in Nodes : remote[a][n] # "absent"
               PROVE  Done(d)'
    BY <1>2 DEF Permitted
  <2>1. Done(d)
    BY <1>4, <1>8 DEF SafeInv, Permitted, Unbound, ActiveTasks
  <2>2. LatestOf(d) # j.id
    BY <1>8, <2>1 DEF Done, DependencyComplete, ActiveTasks
  <2>3. LatestOf(d) \in AttemptIds
    <3>1. d \in Tasks
      BY AttemptIdsDef, DepsAssumption
    <3> QED BY <2>1, <3>1, LatestIsAttempt DEF SafeInv, LockInv, Done
  <2>4. row'[LatestOf(d)] = row[LatestOf(d)]
    BY <1>3, <1>8, <2>2, <2>3
  <2> QED BY <1>2, <2>1, <2>4 DEF Done, LatestOf
<1>10. Believed'
  BY <1>2, TakesJobs DEF SafeInv, Believed
<1>11. Stops'
  <2> SUFFICES ASSUME ~leaked, NEW a \in AttemptIds, NEW n \in Nodes,
                      remote[a][n] \in Stopped
               PROVE  \/ row'[a].status \in {"cancelling", "cancelled", "failed"}
                      \/ /\ row'[a].status = "running" /\ row'[a].started /\ a \in overdue
                         /\ \A k \in jobs' : k.id = a => k.pc = "timeout"
    BY <1>2 DEF Stops
  <2>1. \/ row[a].status \in {"cancelling", "cancelled", "failed"}
        \/ /\ row[a].status = "running" /\ row[a].started /\ a \in overdue
           /\ \A k \in jobs : k.id = a => k.pc = "timeout"
    BY DEF SafeInv, Stops
  <2>2. CASE a # j.id
    BY <1>4, <2>1, <2>2, TakesJobs
  <2>3. CASE a = j.id
    <3>1. row'[a] = r
      BY <1>1, <1>3, <1>8, <2>3
    <3>2. CASE row[a].status = "running"
      BY <2>1, <2>3, <3>1, <3>2 DEF Takes
    <3>3. CASE row[a].status = "cancelling"
      <4>1. TaskMayBecome("cancelling", r.status)
        BY <1>8, <2>3, <3>3 DEF Takes
      <4>2. r.status \in {"cancelling", "cancelled"}
        BY <4>1 DEF TaskMayBecome, TaskTransitions, TaskStatus
      <4> QED BY <3>1, <4>2
    <3> QED BY <1>8, <2>1, <2>3, <3>2, <3>3 DEF ActiveTasks
  <2> QED BY <2>2, <2>3
<1>12. Rhythm'
  <2>1. ASSUME ~leaked
        PROVE  Phased'
    <3>1. \A k \in jobs' : k.pc \in Placing => \E i \in jobs : i.pc \in Placing
      BY TakesJobs
    <3> QED BY <1>2, <2>1, <3>1 DEF SafeInv, Rhythm, Phased
  <2>2. Failing'
    BY <1>2 DEF Failing
  <2> QED BY <1>2, <2>1, <2>2 DEF SafeInv, Rhythm
<1> QED BY <1>5, <1>6, <1>7, <1>9, <1>10, <1>11, <1>12 DEF SafeInv

LEMMA CoroutineKeeps ==
  ASSUME SafeInv, NEW j \in jobs, Coroutine(j), LockInv'
  PROVE  SafeInv'
<1>1. j \in Job /\ OnCourse(j)
  BY DEF SafeInv, LockInv, TypeOK, Course
<1>2. Advances(j) /\ up /\ ~failing
  BY <1>1, CoroutineAdvances
<1> QED BY <1>2, RaiseKeeps, TakesKeeps DEF Advances

-----------------------------------------------------------------------------
(* The nodes, and time, keep the invariant.                                *)

LEMMA ServedFacts ==
  ASSUME NEW call \in Calls, NEW s \in RemoteStatus, NEW o \in Served(call, s)
  PROVE  /\ o[2] = "cancelled" => o[1] = "cancelled"
         /\ o[1] \in Stopped => s \in Stopped \/ call \in {"cancel", "timeout"}
         /\ s = "absent" /\ o[1] # "absent" => call = "create"
BY DEF Served, Report, Unconfirmed, Stopped, Calls, RemoteStatus, Reported

(* What a call may do to the node's record and to the coroutine.           *)
Changes(j, s, reply) ==
  LET n == j.mem.node
  IN /\ remote' = [remote EXCEPT ![j.id][n] = s]
     /\ jobs' = (jobs \ {j}) \cup {[j EXCEPT !.reply = reply]}
     /\ reply = "cancelled" => s = "cancelled"
     /\ s \in Stopped => remote[j.id][n] \in Stopped \/ j.pc \in {"cancel", "timeout"}
     /\ remote[j.id][n] = "absent" /\ s # "absent" => j.pc = "create"

LEMMA CallChanges ==
  ASSUME SafeInv, NEW j \in jobs, NodeServes(j) \/ CallFails(j)
  PROVE  \E s, reply : Changes(j, s, reply)
<1> DEFINE s == remote[j.id][j.mem.node]
<1>1. j.id \in AttemptIds /\ j.pc \in Calls /\ j.mem.node \in Nodes
  BY JobFields DEF SafeInv, LockInv, TypeOK, NodeServes, CallFails, Waiting
<1>2. s \in RemoteStatus
  BY <1>1 DEF SafeInv, LockInv, TypeOK
<1>3. CASE NodeServes(j)
  <2>1. PICK o \in Served(j.pc, s) : Reach(j, o, o[2])
    BY <1>3 DEF NodeServes
  <2>2. Changes(j, o[1], o[2])
    BY <1>1, <1>2, <2>1, ServedFacts DEF Changes, Reach
  <2> QED BY <2>2
<1>4. CASE CallFails(j)
  <2>1. CASE \E e \in Errors : Reach(j, <<s, e>>, e)
    <3>1. PICK e \in Errors : Reach(j, <<s, e>>, e)
      BY <2>1
    <3>2. Changes(j, s, e)
      BY <3>1 DEF Changes, Reach, Errors
    <3> QED BY <3>2
  <2>2. CASE \E o \in Served(j.pc, s) : Reach(j, o, "unreachable")
    <3>1. PICK o \in Served(j.pc, s) : Reach(j, o, "unreachable")
      BY <2>2
    <3>2. Changes(j, o[1], "unreachable")
      BY <1>1, <1>2, <3>1, ServedFacts DEF Changes, Reach
    <3> QED BY <3>2
  <2> QED BY <1>4, <2>1, <2>2 DEF CallFails
<1> QED BY <1>3, <1>4

LEMMA CallKeeps ==
  ASSUME SafeInv, NEW j \in jobs, NodeServes(j) \/ CallFails(j), LockInv'
  PROVE  SafeInv'
<1>1. PICK s, reply : Changes(j, s, reply)
  BY CallChanges
<1> DEFINE n == j.mem.node
           k == [j EXCEPT !.reply = reply]
<1>2. k.id = j.id /\ k.mem = j.mem /\ k.pc = j.pc /\ k.reply = reply
  BY DEF SafeInv, LockInv, TypeOK, Job
<1>3. /\ UNCHANGED <<latest, row, artifacts, handler, up, leaked, failing, overdue, runStatus>>
      /\ n \in Nodes /\ j.reply = "none"
  BY DEF NodeServes, CallFails, Waiting, clock
<1>4. j.id \in AttemptIds
  BY JobFields DEF SafeInv, LockInv, TypeOK
<1> HIDE DEF k
<1>5. /\ jobs' = (jobs \ {j}) \cup {k}
      /\ remote' = [remote EXCEPT ![j.id][n] = s]
  BY <1>1 DEF Changes, k
<1>6. /\ remote'[j.id][n] = s
      /\ \A b \in AttemptIds, m \in Nodes :
           b # j.id \/ m # n => remote'[b][m] = remote[b][m]
  <2>1. TypeOK /\ n \in Nodes /\ remote' = [remote EXCEPT ![j.id][n] = s]
    BY <1>3, <1>5 DEF SafeInv, LockInv
  <2> HIDE DEF n
  <2> QED BY <1>4, <2>1 DEF TypeOK
<1>7. ~leaked => /\ j.mem = row[j.id]
                 /\ \A i \in jobs : i.id = j.id => i = j
  BY DEF SafeInv, LockInv, Discipline, NoLostUpdate
<1>8. OnCourse(j)
  BY DEF SafeInv, Course
<1>9. Course'
  <2>1. \A i \in jobs : OnCourse(i)'
    BY <1>3 DEF SafeInv, Course, OnCourse
  <2>2. OnCourse(k)'
    BY <1>2, <2>1 DEF OnCourse
  <2> QED BY <1>5, <2>1, <2>2 DEF Course
<1>10. Untouched' /\ Delivered'
  BY <1>3 DEF SafeInv, Untouched, Delivered
<1>11. Permitted'
  <2> SUFFICES ASSUME ~leaked, NEW a \in AttemptIds, NEW d \in Deps[a[1]],
                      \/ row[a].status \notin Unbound
                      \/ \E m \in Nodes : remote'[a][m] # "absent"
               PROVE  Done(d)
    BY <1>3 DEF Permitted, Done, LatestOf
  <2>1. row[a].status \notin Unbound \/ \E m \in Nodes : remote[a][m] # "absent"
    <3>1. CASE a = j.id /\ s # "absent" /\ remote[j.id][n] = "absent"
      <4>1. j.pc = "create"
        BY <1>1, <3>1 DEF Changes
      <4>2. row[a].status = "dispatching"
        BY <1>7, <1>8, <3>1, <4>1 DEF OnCourse, StatusAt
      <4> QED BY <4>2 DEF Unbound
    <3>2. CASE ~(a = j.id /\ s # "absent" /\ remote[j.id][n] = "absent")
      BY <1>3, <1>6, <3>2
    <3> QED BY <3>1, <3>2
  <2> QED BY <2>1 DEF SafeInv, Permitted
<1>12. Believed'
  <2> SUFFICES ASSUME ~leaked, NEW i \in jobs', i.reply = "cancelled"
               PROVE  i.mem.node \in Nodes /\ remote'[i.id][i.mem.node] = "cancelled"
    BY <1>3 DEF Believed
  <2>1. CASE i = k
    BY <1>1, <1>2, <1>3, <1>6, <2>1 DEF Changes
  <2>2. CASE i \in jobs \ {j}
    <3>1. i.id # j.id /\ i.id \in AttemptIds
      BY <1>7, <2>2, JobFields DEF SafeInv, LockInv, TypeOK
    <3> QED BY <1>6, <2>2, <3>1 DEF SafeInv, Believed
  <2> QED BY <1>5, <2>1, <2>2
<1>13. Stops'
  <2> SUFFICES ASSUME ~leaked, NEW a \in AttemptIds, NEW m \in Nodes,
                      remote'[a][m] \in Stopped
               PROVE  \/ row[a].status \in {"cancelling", "cancelled", "failed"}
                      \/ /\ row[a].status = "running" /\ row[a].started /\ a \in overdue
                         /\ \A i \in jobs' : i.id = a => i.pc = "timeout"
    BY <1>3 DEF Stops
  <2>1. CASE remote[a][m] \in Stopped
    BY <1>2, <1>5, <2>1 DEF SafeInv, Stops
  <2>2. CASE remote[a][m] \notin Stopped
    <3>1. a = j.id /\ j.pc \in {"cancel", "timeout"}
      BY <1>1, <1>6, <2>2 DEF Changes
    <3> QED BY <1>2, <1>5, <1>7, <1>8, <3>1 DEF OnCourse, StatusAt
  <2> QED BY <2>1, <2>2
<1>14. Rhythm'
  <2>1. Uncancellable' = Uncancellable
    BY <1>3 DEF Uncancellable, LatestIds
  <2>2. ~leaked => Phased'
    BY <1>2, <1>3, <1>5 DEF SafeInv, Rhythm, Phased
  <2>3. ~leaked => Failing'
    BY <1>3, <1>5, <2>1 DEF SafeInv, Rhythm, Failing
  <2> QED BY <1>3, <2>2, <2>3 DEF SafeInv, Rhythm
<1> QED BY <1>9, <1>10, <1>11, <1>12, <1>13, <1>14 DEF SafeInv

LEMMA WorldKeeps ==
  ASSUME SafeInv, NEW a \in AttemptIds, LockInv',
         (\E n \in Nodes : RemoteFinishes(a, n)) \/ TimeoutPasses(a) \/ DelayPasses(a)
  PROVE  SafeInv'
<1>1. /\ UNCHANGED <<latest, row, artifacts, handler, up, leaked, failing, runStatus, jobs>>
      /\ overdue \subseteq overdue'
  BY DEF RemoteFinishes, TimeoutPasses, DelayPasses, clock
<1>2. Course' /\ Untouched' /\ Delivered'
  BY <1>1 DEF SafeInv, Course, OnCourse, Untouched, Delivered
<1>3. Rhythm'
  BY <1>1 DEF SafeInv, Rhythm, Phased, Failing, Uncancellable, LatestIds
<1>4. Permitted' /\ Believed' /\ Stops'
  <2>1. CASE TimeoutPasses(a) \/ DelayPasses(a)
    <3>1. remote' = remote
      BY <2>1 DEF TimeoutPasses, DelayPasses
    <3>2. Permitted' /\ Believed'
      BY <1>1, <3>1 DEF SafeInv, Permitted, Believed, Done, LatestOf
    <3>3. Stops'
      <4>1. Stops
        BY DEF SafeInv
      <4> SUFFICES ASSUME ~leaked, NEW b \in AttemptIds, NEW n \in Nodes,
                          remote[b][n] \in Stopped
                   PROVE  \/ row[b].status \in {"cancelling", "cancelled", "failed"}
                          \/ /\ row[b].status = "running" /\ row[b].started
                             /\ b \in overdue'
                             /\ \A j \in jobs : j.id = b => j.pc = "timeout"
        BY <1>1, <3>1 DEF Stops
      <4> QED BY <1>1, <4>1 DEF Stops
    <3> QED BY <3>2, <3>3
  <2>2. ASSUME NEW n \in Nodes, RemoteFinishes(a, n)
        PROVE  Permitted' /\ Believed' /\ Stops'
    <3>1. PICK s \in Progress(remote[a][n], a[1] \in ReviewTasks) :
            remote' = [remote EXCEPT ![a][n] = s]
      BY <2>2 DEF RemoteFinishes
    <3>2. /\ remote[a][n] \in {"running", "cancelling"}
          /\ s \in Stopped => remote[a][n] \in Stopped
      BY <3>1 DEF Progress, Outcomes, Stopped, Unconfirmed
    <3>3. /\ remote'[a][n] = s
          /\ \A b \in AttemptIds, m \in Nodes :
               b # a \/ m # n => remote'[b][m] = remote[b][m]
      <4>1. TypeOK
        BY DEF SafeInv, LockInv
      <4> QED BY <3>1, <4>1 DEF TypeOK
    <3>4. \A b \in AttemptIds : \A m \in Nodes :
            /\ remote'[b][m] # "absent" => remote[b][m] # "absent"
            /\ remote'[b][m] \in Stopped => remote[b][m] \in Stopped
            /\ remote[b][m] = "cancelled" => remote'[b][m] = "cancelled"
      BY <3>2, <3>3
    <3>5. \A j \in jobs : j.id \in AttemptIds
      BY JobFields DEF SafeInv, LockInv, TypeOK
    <3>6. Permitted'
      BY <1>1, <3>4 DEF SafeInv, Permitted, Done, LatestOf
    <3>7. Believed'
      BY <1>1, <3>4, <3>5 DEF SafeInv, Believed
    <3>8. Stops'
      <4>1. overdue' = overdue
        BY <2>2 DEF RemoteFinishes, clock
      <4> QED BY <1>1, <3>4, <4>1 DEF SafeInv, Stops
    <3> QED BY <3>6, <3>7, <3>8
  <2> QED BY <2>1, <2>2
<1> QED BY <1>2, <1>3, <1>4 DEF SafeInv

-----------------------------------------------------------------------------
(* The handlers: what one of their steps may do to an attempt, and the      *)
(* coroutines it may begin.                                                *)

Keeps(a) ==
  /\ row'[a].node = row[a].node
  /\ row'[a].transient => row[a].transient

Redo(a) ==
  \/ row'[a] = row[a]
  \/ /\ a[2] <= latest'[a[1]]
     /\ Keeps(a)
     /\ \/ row[a].status = "blocked" /\ row[a].transient /\ row'[a].status = "ready"
        \/ TaskMayBecome(row[a].status, "skipped") /\ row'[a].status = "skipped"
        \/ row[a].status \in Unstarted /\ row'[a].status = "cancelled"
        \/ row[a].status \in {"running", "cancelling"} /\ row'[a].status = "cancelling"
        \/ /\ row[a].status \in Schedulable /\ row'[a].status = "ready"
           /\ ~leaked => \A d \in Deps[a[1]] : Done(d)

Opened(k) ==
  /\ OnCourse(k)'
  /\ k.pc \in {"place", "get", "timeout", "cancel"}
  /\ k.reply = "none"
  /\ k.mem = row'[k.id]
  /\ k.pc # "timeout" => ~(k.mem.status = "running" /\ k.mem.started /\ k.id \in overdue)

Conducts ==
  /\ \A t \in Tasks : latest[t] <= latest'[t]
  /\ \A a \in AttemptIds : Redo(a)
  /\ \A k \in jobs' : k \in jobs \/ Opened(k)
  /\ Turns
  /\ UNCHANGED <<artifacts, remote, overdue, leaked>>

(* What a dependency has delivered stays delivered.                        *)
LEMMA DoneStays ==
  ASSUME SafeInv, LockInv', Conducts, NEW d \in Tasks, Done(d)
  PROVE  Done(d)'
<1>1. LatestOf(d) \in AttemptIds
  BY LatestIsAttempt DEF SafeInv, LockInv, Done
<1>2. latest[d] \in Nat /\ latest'[d] \in Nat
  BY DEF SafeInv, LockInv, TypeOK
<1>3. latest'[d] = latest[d]
  <2>1. row[LatestOf(d)].status \notin ManualRetryTasks
    BY DEF Done, DependencyComplete, ManualRetryTasks, FailureTasks
  <2>2. ~(latest[d] < latest'[d])
    BY <1>1, <1>2, <2>1 DEF Conducts, Turns, LatestOf
  <2> QED BY <1>2, <2>2 DEF Conducts
<1>4. row'[LatestOf(d)].status \in DependencyComplete
  <2>1. Redo(LatestOf(d))
    BY <1>1 DEF Conducts
  <2> QED BY <2>1 DEF Redo, Done, DependencyComplete, Unstarted, Schedulable
<1> QED BY <1>3, <1>4 DEF Done, LatestOf

LEMMA ConductsKeeps ==
  ASSUME SafeInv, LockInv', Conducts
  PROVE  Course' /\ Untouched' /\ Delivered' /\ Permitted' /\ Believed' /\ Stops'
<1>1. \A a \in AttemptIds : /\ a[1] \in Tasks /\ a[2] \in Nat
                            /\ latest[a[1]] \in Nat /\ latest'[a[1]] \in Nat
  BY AttemptIdsDef DEF SafeInv, LockInv, TypeOK
<1>2. \A a \in AttemptIds : Redo(a) /\ latest[a[1]] <= latest'[a[1]]
  BY <1>1 DEF Conducts
<1>3. UNCHANGED <<artifacts, remote, overdue, leaked>>
  BY DEF Conducts
<1>4. \A j \in jobs : OnCourse(j) /\ j.id \in AttemptIds
  BY JobFields DEF SafeInv, LockInv, TypeOK, Course
<1>5. Course'
  <2> SUFFICES ASSUME NEW k \in jobs', k \in jobs
               PROVE  OnCourse(k)'
    BY DEF Course, Conducts, Opened
  <2>1. k.id[2] <= latest'[k.id[1]]
    BY <1>1, <1>2, <1>4 DEF OnCourse
  <2> QED BY <1>3, <1>4, <2>1 DEF OnCourse
<1>6. Untouched'
  <2> SUFFICES ASSUME NEW a \in AttemptIds, a[2] > latest'[a[1]]
               PROVE  row'[a] = NewRow
    BY DEF Untouched
  <2>1. a[2] > latest[a[1]] /\ ~(a[2] <= latest'[a[1]])
    BY <1>1, <1>2
  <2>2. row'[a] = row[a]
    BY <1>2, <2>1 DEF Redo
  <2> QED BY <2>1, <2>2 DEF SafeInv, Untouched
<1>7. Delivered'
  BY <1>2, <1>3 DEF SafeInv, Delivered, Redo
<1>8. Permitted'
  <2> SUFFICES ASSUME ~leaked, NEW a \in AttemptIds, NEW d \in Deps[a[1]],
                      \/ row'[a].status \notin Unbound
                      \/ \E n \in Nodes : remote[a][n] # "absent"
               PROVE  Done(d)'
    BY <1>3 DEF Permitted
  <2>1. d \in Tasks
    BY <1>1, DepsAssumption
  <2>2. Done(d)
    <3>1. CASE \E n \in Nodes : remote[a][n] # "absent"
      BY <3>1 DEF SafeInv, Permitted
    <3>2. CASE row'[a].status \notin Unbound
      <4>1. \/ row[a].status \notin Unbound
            \/ \A e \in Deps[a[1]] : Done(e)
        BY <1>2, <3>2 DEF Redo, Unbound
      <4> QED BY <4>1 DEF SafeInv, Permitted
    <3> QED BY <3>1, <3>2
  <2> QED BY <2>1, <2>2, DoneStays
<1>9. Believed'
  BY <1>3 DEF SafeInv, Believed, Conducts, Opened
<1>10. Stops'
  <2> SUFFICES ASSUME ~leaked, NEW a \in AttemptIds, NEW n \in Nodes,
                      remote[a][n] \in Stopped
               PROVE  \/ row'[a].status \in {"cancelling", "cancelled", "failed"}
                      \/ /\ row'[a].status = "running" /\ row'[a].started /\ a \in overdue
                         /\ \A k \in jobs' : k.id = a => k.pc = "timeout"
    BY <1>3 DEF Stops
  <2>1. \/ row[a].status \in {"cancelling", "cancelled", "failed"}
        \/ /\ row[a].status = "running" /\ row[a].started /\ a \in overdue
           /\ \A k \in jobs : k.id = a => k.pc = "timeout"
    BY DEF SafeInv, Stops
  <2>2. CASE row'[a] = row[a]
    BY <2>1, <2>2 DEF Conducts, Opened
  <2>3. CASE row'[a] # row[a]
    <3>1. \A s \in {"cancelling", "cancelled", "failed", "running"} :
            ~TaskMayBecome(s, "skipped")
      BY DEF TaskMayBecome, TaskTransitions, TaskStatus
    <3>2. row'[a].status = "cancelling"
      BY <1>2, <2>1, <2>3, <3>1 DEF Redo, Unstarted, Schedulable
    <3> QED BY <3>2
  <2> QED BY <2>2, <2>3
<1> QED BY <1>5, <1>6, <1>7, <1>8, <1>9, <1>10

-----------------------------------------------------------------------------
(* The handlers' steps are of this kind.                                   *)

LEMMA OpenedJobs ==
  ASSUME SafeInv, LockInv', NEW kind, NEW rw, OpenReconcile(kind, rw), overdue' = overdue
  PROVE  \A k \in jobs' : k \in jobs \/ Opened(k)
<1> DEFINE late(a) == rw[a].status = "running" /\ rw[a].started /\ a \in overdue
           pc(a) == IF late(a) THEN "timeout" ELSE "get"
<1> SUFFICES ASSUME NEW k \in jobs', k \notin jobs
             PROVE  Opened(k)
  OBVIOUS
<1>1. PICK a \in LatestIds(latest') :
        rw[a].status \in ActiveTasks /\ k = NewJob(a, pc(a), rw[a])
  BY DEF OpenReconcile
<1>2. /\ k.id = a /\ k.pc = pc(a) /\ k.mem = rw[a] /\ k.reply = "none"
      /\ row' = rw
  BY <1>1 DEF NewJob, OpenReconcile
<1>3. a[2] <= latest'[a[1]]
  BY <1>1, LatestType, AttemptIdsDef DEF LockInv, TypeOK
<1>4. OnCourse(k)'
  BY <1>1, <1>2, <1>3 DEF OnCourse, StatusAt, ActiveTasks
<1> QED BY <1>2, <1>4 DEF Opened

LEMMA SameLatest ==
  ASSUME TypeOK, latest' = latest
  PROVE  /\ \A t \in Tasks : latest[t] <= latest'[t]
         /\ \A a \in LatestIds(latest) : a \in AttemptIds /\ a[2] <= latest'[a[1]]
BY LatestType, AttemptIdsDef DEF TypeOK

LEMMA RestoredRedo ==
  ASSUME TypeOK, latest' = latest, row' \in {row, Restored}
  PROVE  \A a \in AttemptIds : Redo(a)
<1> SUFFICES ASSUME NEW a \in AttemptIds, row'[a] # row[a]
             PROVE  Redo(a)
  BY DEF Redo
<1>1. a \in TransientBlocked
  BY Zenon DEF Restored
<1>2. row'[a] = [row[a] EXCEPT !.status = "ready", !.transient = FALSE]
  BY Zenon, <1>1 DEF Restored
<1>3. row'[a].status = "ready" /\ Keeps(a)
  BY <1>2 DEF TypeOK, Row, Keeps
<1>4. row[a].status = "blocked" /\ row[a].transient /\ a \in LatestIds(latest)
  BY <1>1 DEF TransientBlocked
<1> QED BY <1>3, <1>4, SameLatest DEF Redo

LEMMA CancelRedo ==
  ASSUME TypeOK, latest' = latest,
         NEW S \in SUBSET (LatestIds(latest) \ Uncancellable), row' = CancelRows(S)
  PROVE  \A a \in AttemptIds : Redo(a)
<1> SUFFICES ASSUME NEW a \in AttemptIds, row'[a] # row[a]
             PROVE  Redo(a)
  BY DEF Redo
<1>1. a \in S
  BY DEF CancelRows
<1>2. a[2] <= latest'[a[1]] /\ row[a].status \notin {"dispatching", "collecting"}
  BY <1>1, SameLatest DEF Uncancellable
<1>3. row[a] \in Row
  BY DEF TypeOK
<1>4. CASE row[a].status \in Unstarted
  <2>1. row'[a] = [row[a] EXCEPT !.status = "cancelled"]
    BY <1>1, <1>4 DEF CancelRows
  <2>2. row'[a].status = "cancelled" /\ Keeps(a)
    BY <1>3, <2>1 DEF Row, Keeps
  <2> QED BY <1>2, <1>4, <2>2 DEF Redo
<1>5. CASE row[a].status \notin Unstarted
  <2>1. row[a].status \in ActiveTasks /\ row'[a] = [row[a] EXCEPT !.status = "cancelling"]
    BY <1>1, <1>5 DEF CancelRows
  <2>2. row'[a].status = "cancelling" /\ Keeps(a)
    BY <1>3, <2>1 DEF Row, Keeps
  <2> QED BY <1>2, <2>1, <2>2 DEF Redo, ActiveTasks
<1> QED BY <1>4, <1>5

LEMMA NextAttemptConducts ==
  ASSUME SafeInv, LockInv', NEW t \in Tasks, latest[t] \in 1..(MaxAttempts[t] - 1),
         row[LatestOf(t)].status \in ManualRetryTasks, NextAttempt(t), Turns,
         UNCHANGED <<artifacts, remote, overdue, leaked>>
  PROVE  Conducts
<1> DEFINE a == <<t, latest[t] + 1>>
           r == [NewRow EXCEPT !.status = "ready"]
           k == NewJob(a, "place", r)
<1>1. MaxAttempts[t] \in Nat /\ latest[t] + 1 \in 1..MaxAttempts[t]
  BY AttemptsAssumption
<1>2. a \in AttemptIds
  BY <1>1, AttemptIdsDef
<1>3. /\ latest' = [latest EXCEPT ![t] = latest[t] + 1]
      /\ row' = [row EXCEPT ![a] = r]
      /\ jobs' = jobs \cup {k}
  BY DEF NextAttempt
<1>4. latest'[t] = latest[t] + 1 /\ \A u \in Tasks : latest[u] <= latest'[u]
  BY <1>3 DEF SafeInv, LockInv, TypeOK
<1>5. row'[a] = r /\ \A b \in AttemptIds \ {a} : row'[b] = row[b]
  BY <1>2, <1>3 DEF SafeInv, LockInv, TypeOK
<1>6. r.status = "ready" /\ r.node = NewRow.node /\ r.transient = NewRow.transient
  BY DEF NewRow
<1>7. row[a] = NewRow
  BY <1>2 DEF SafeInv, LockInv, TypeOK, Untouched
<1>8. ~leaked => \A d \in Deps[t] : Done(d)
  <2>1. LatestOf(t) \in AttemptIds
    BY LatestIsAttempt DEF SafeInv, LockInv
  <2>2. row[LatestOf(t)].status \notin Unbound
    BY DEF ManualRetryTasks, FailureTasks, Unbound
  <2> QED BY <2>1, <2>2 DEF SafeInv, Permitted, LatestOf
<1>9. Redo(a)
  <2>1. a[1] = t /\ a[2] <= latest'[t]
    BY <1>1, <1>4
  <2>2. row[a].status = "pending"
    BY <1>7 DEF NewRow
  <2>3. Keeps(a)
    BY <1>5, <1>6, <1>7 DEF Keeps
  <2> QED BY <1>5, <1>6, <1>8, <2>1, <2>2, <2>3 DEF Redo, Schedulable
<1>10. \A b \in AttemptIds : Redo(b)
  BY <1>5, <1>9 DEF Redo
<1>11. ASSUME NEW i, i = k
       PROVE  Opened(i)
  <2>1. i.id = a /\ i.pc = "place" /\ i.mem = r /\ i.reply = "none"
    BY <1>11 DEF NewJob
  <2>2. a[1] = t /\ a[2] <= latest'[t]
    BY <1>1, <1>4
  <2> HIDE DEF k, r, a
  <2> QED BY <1>5, <1>6, <2>1, <2>2 DEF Opened, OnCourse, StatusAt
<1> QED BY <1>3, <1>4, <1>10, <1>11 DEF Conducts

LEMMA UserConducts ==
  ASSUME SafeInv, LockInv', User
  PROVE  Conducts
<1>1. TypeOK /\ Turns /\ UNCHANGED <<artifacts, remote, overdue, leaked>>
  <2>1. Handles
    BY UserHandles DEF SafeInv
  <2> QED
    BY <2>1 DEF SafeInv, LockInv, Handles, User, Start, Pause, Resume, Cancel, CancelRaises,
                RetryTask, SkipTask, clock
<1>2. CASE Start
  <2>1. latest' = latest /\ row' = row /\ OpenReconcile("start", row)
    BY <1>2 DEF Start, OpenReconcile
  <2> QED BY <1>1, <2>1, SameLatest, OpenedJobs DEF Conducts, Redo
<1>3. CASE Pause
  BY <1>1, <1>3, SameLatest DEF Pause, Conducts, Redo
<1>4. CASE Resume
  <2>1. latest' = latest /\ row' \in {row, Restored}
    BY <1>4 DEF Resume, OpenReconcile
  <2>2. \A k \in jobs' : k \in jobs \/ Opened(k)
    BY <1>1, <1>4, OpenedJobs DEF Resume
  <2> QED BY <1>1, <2>1, <2>2, SameLatest, RestoredRedo DEF Conducts
<1>5. CASE Cancel
  <2>1. /\ latest' = latest /\ Uncancellable = {}
        /\ row' = CancelRows(LatestIds(latest) \ Uncancellable)
    BY <1>5 DEF Cancel
  <2>2. \A a \in AttemptIds : Redo(a)
    BY <1>1, <2>1, CancelRedo
  <2>3. ASSUME NEW k \in jobs', k \notin jobs
        PROVE  Opened(k)
    <3>1. PICK a \in LatestIds(latest) :
            row[a].status \in ActiveTasks /\ k = NewJob(a, "cancel", row'[a])
      BY <1>5, <2>3 DEF Cancel
    <3>2. k.id = a /\ k.pc = "cancel" /\ k.mem = row'[a] /\ k.reply = "none"
      BY <3>1 DEF NewJob
    <3>3. a \in AttemptIds /\ a[2] <= latest'[a[1]]
      BY <1>1, <2>1, <3>1, SameLatest
    <3>4. row'[a] = [row[a] EXCEPT !.status = "cancelling"]
      BY <2>1, <3>1, <3>3 DEF CancelRows, Unstarted, ActiveTasks
    <3>5. row'[a].status = "cancelling"
      BY <1>1, <3>3, <3>4 DEF TypeOK, Row
    <3> QED BY <3>2, <3>3, <3>5 DEF Opened, OnCourse, StatusAt
  <2> QED BY <1>1, <2>1, <2>2, <2>3, SameLatest DEF Conducts
<1>6. CASE CancelRaises
  <2>1. PICK S \in SUBSET (LatestIds(latest) \ Uncancellable) : row' = CancelRows(S)
    BY <1>6 DEF CancelRaises
  <2>2. latest' = latest /\ jobs' = jobs
    BY <1>6 DEF CancelRaises
  <2> QED BY <1>1, <2>1, <2>2, SameLatest, CancelRedo DEF Conducts
<1>7. ASSUME NEW t \in Tasks, RetryTask(t)
      PROVE  Conducts
  <2>1. /\ latest[t] \in 1..(MaxAttempts[t] - 1)
        /\ row[LatestOf(t)].status \in ManualRetryTasks
        /\ NextAttempt(t)
    BY <1>7 DEF RetryTask, MayRetry, NextAttempt
  <2> QED BY <1>1, <2>1, NextAttemptConducts
<1>8. ASSUME NEW t \in Tasks, SkipTask(t)
      PROVE  Conducts
  <2> DEFINE n == IF latest[t] = 0 THEN 1 ELSE latest[t]
             a == <<t, n>>
             skipped == [row EXCEPT ![a].status = "skipped"]
  <2>1. /\ latest' = [latest EXCEPT ![t] = n] /\ row' = skipped
        /\ TaskMayBecome(row[a].status, "skipped")
    BY <1>8 DEF SkipTask, OpenReconcile
  <2>2. /\ latest'[t] = n /\ n \in 1..MaxAttempts[t]
        /\ \A u \in Tasks : latest[u] <= latest'[u]
    <3>1. latest[t] \in Nat /\ latest[t] <= MaxAttempts[t] /\ MaxAttempts[t] \in Nat \ {0}
      BY <1>1, AttemptsAssumption DEF TypeOK
    <3>2. n \in 1..MaxAttempts[t] /\ latest[t] <= n
      BY <3>1
    <3> HIDE DEF n
    <3> QED BY <1>1, <2>1, <3>2 DEF TypeOK
  <2>3. a \in AttemptIds /\ a[2] <= latest'[a[1]]
    BY <2>2, AttemptIdsDef
  <2>4. /\ row'[a].status = "skipped" /\ Keeps(a)
        /\ \A b \in AttemptIds \ {a} : row'[b] = row[b]
    BY <1>1, <2>1, <2>3 DEF TypeOK, Row, Keeps
  <2>5. ASSUME NEW b \in AttemptIds
        PROVE  Redo(b)
    <3>1. CASE b = a
      <4> HIDE DEF a
      <4> QED BY <2>1, <2>3, <2>4, <3>1 DEF Redo
    <3>2. CASE b # a
      BY <2>4, <3>2 DEF Redo
    <3> QED BY <3>1, <3>2
  <2>6. \A k \in jobs' : k \in jobs \/ Opened(k)
    BY <1>1, <1>8, OpenedJobs DEF SkipTask
  <2> QED BY <1>1, <2>2, <2>5, <2>6 DEF Conducts
<1> QED BY <1>2, <1>3, <1>4, <1>5, <1>6, <1>7, <1>8 DEF User

LEMMA PhaseConducts ==
  ASSUME SafeInv, LockInv', Phase
  PROVE  Conducts
<1>1. TypeOK
  BY DEF SafeInv, LockInv
<1>2. ASSUME UNCHANGED <<latest, row, jobs, artifacts, remote, overdue, leaked>>
      PROVE  Conducts
  BY <1>1, <1>2, SameLatest, SameAttempts DEF Conducts, Redo
<1>3. CASE StartFailed
  BY <1>2, <1>3 DEF StartFailed, clock
<1>4. CASE FinishReconcile \/ FinishDispatch \/ FinishRetry \/ FinishCancel
  BY <1>2, <1>4 DEF FinishReconcile, FinishDispatch, FinishRetry, FinishCancel, clock
<1> SUFFICES ASSUME ~StartFailed
             PROVE  Conducts
  BY <1>3
<1>5. Turns
  BY PhaseHandles DEF SafeInv, Handles
<1>6. CASE DispatchReady
  <2> DEFINE ids == {<<t, latest'[t]>> : t \in ReadyTasks}
  <2>1. /\ latest' = [t \in Tasks |-> IF t \in ReadyTasks /\ latest[t] = 0
                                      THEN 1 ELSE latest[t]]
        /\ row' = [a \in AttemptIds |-> IF a \in ids
                                        THEN [row[a] EXCEPT !.status = "ready"]
                                        ELSE row[a]]
        /\ jobs' = jobs \cup {NewJob(a, "place", row'[a]) : a \in ids}
        /\ UNCHANGED <<artifacts, remote, overdue, leaked>>
    BY <1>6 DEF DispatchReady, clock
  <2>2. \A t \in Tasks : /\ latest[t] \in Nat /\ latest[t] <= latest'[t]
                         /\ t \in ReadyTasks => latest'[t] \in 1..MaxAttempts[t]
                         /\ latest[t] > 0 => latest'[t] = latest[t]
    BY <1>1, <2>1, AttemptsAssumption DEF TypeOK
  <2>3. ASSUME NEW a \in ids
        PROVE  /\ a \in AttemptIds /\ a[2] <= latest'[a[1]]
               /\ row'[a].status = "ready" /\ Redo(a)
    <3>1. PICK t \in ReadyTasks : a = <<t, latest'[t]>>
      OBVIOUS
    <3>2. t \in Tasks /\ \A d \in Deps[t] : IsComplete(d)
      BY DEF ReadyTasks
    <3>3. a \in AttemptIds /\ a[2] <= latest'[a[1]]
      BY <2>2, <3>1, <3>2, AttemptIdsDef
    <3>4. row[a].status \in Schedulable
      <4>1. CASE latest[t] > 0
        BY <2>2, <3>1, <3>2, <4>1 DEF ReadyTasks, LatestOf
      <4>2. CASE latest[t] = 0
        <5>1. a[2] = 1 /\ a[1] = t
          BY <2>1, <3>1, <3>2, <4>2
        <5>2. row[a] = NewRow
          BY <3>3, <4>2, <5>1 DEF SafeInv, Untouched
        <5> QED BY <5>2 DEF NewRow, Schedulable
      <4> QED BY <2>2, <3>2, <4>1, <4>2
    <3>5. row'[a].status = "ready" /\ Keeps(a)
      BY <1>1, <2>1, <3>3 DEF TypeOK, Row, Keeps
    <3>6. \A d \in Deps[a[1]] : Done(d)
      BY <3>1, <3>2 DEF IsComplete, Done
    <3> QED BY <3>3, <3>4, <3>5, <3>6 DEF Redo
  <2> HIDE DEF ids
  <2>4. \A a \in AttemptIds : Redo(a)
    BY <2>1, <2>3 DEF Redo
  <2>5. ASSUME NEW k \in jobs', k \notin jobs
        PROVE  Opened(k)
    <3>1. PICK a \in ids : k = NewJob(a, "place", row'[a])
      BY <2>1, <2>5
    <3>2. k.id = a /\ k.pc = "place" /\ k.mem = row'[a] /\ k.reply = "none"
      BY <3>1 DEF NewJob
    <3> QED BY <2>3, <3>2 DEF Opened, OnCourse, StatusAt
  <2> QED BY <1>5, <2>1, <2>2, <2>4, <2>5 DEF Conducts
<1>7. CASE RecoverAgain
  <2>1. /\ latest' = latest /\ row' = row
        /\ UNCHANGED <<artifacts, remote, overdue, leaked>>
    BY <1>7 DEF RecoverAgain, OpenReconcile, clock
  <2>2. \A k \in jobs' : k \in jobs \/ Opened(k)
    BY <1>7, <2>1, OpenedJobs DEF RecoverAgain
  <2> QED BY <1>1, <1>5, <2>1, <2>2, SameLatest DEF Conducts, Redo
<1>8. ASSUME NEW t \in Tasks, RetryDue(t)
      PROVE  Conducts
  <2>1. /\ latest[t] \in 1..(MaxAttempts[t] - 1)
        /\ row[LatestOf(t)].status \in ManualRetryTasks
        /\ NextAttempt(t)
    BY <1>8 DEF RetryDue, DueRetries, NextAttempt, ManualRetryTasks, AutoRetryTasks,
                FailureTasks
  <2> QED BY <1>5, <1>8, <2>1, NextAttemptConducts DEF RetryDue, clock
<1> QED BY <1>4, <1>6, <1>7, <1>8 DEF Phase

LEMMA ProcessConducts ==
  ASSUME SafeInv, LockInv', Tick \/ Crash \/ CrashInCancel \/ Restart
  PROVE  Conducts
<1>1. TypeOK
  BY DEF SafeInv, LockInv
<1>2. latest' = latest /\ UNCHANGED <<artifacts, remote, overdue, leaked>>
  BY DEF Tick, Crash, CrashInCancel, Restart, clock
<1>3. \A a \in AttemptIds : Redo(a)
  <2>1. CASE Tick \/ Crash
    BY <2>1 DEF Tick, Crash, OpenReconcile, Redo
  <2>2. CASE CrashInCancel
    <3>1. PICK S \in SUBSET (LatestIds(latest) \ Uncancellable) : row' = CancelRows(S)
      BY <2>2 DEF CrashInCancel
    <3> QED BY <1>1, <1>2, <3>1, CancelRedo
  <2>3. CASE Restart
    BY <1>1, <1>2, <2>3, RestoredRedo DEF Restart, OpenReconcile
  <2> QED BY <2>1, <2>2, <2>3
<1>4. \A k \in jobs' : k \in jobs \/ Opened(k)
  <2>1. CASE Crash \/ CrashInCancel
    BY <2>1 DEF Crash, CrashInCancel, Die
  <2> QED BY <1>2, <2>1, OpenedJobs DEF Tick, Restart
<1>5. Turns
  <2>1. CASE Tick
    BY <1>1, <1>2, <2>1, SameAttempts DEF Tick, OpenReconcile
  <2>2. CASE Crash \/ CrashInCancel
    BY <1>1, <1>2, <2>2, SameAttempts, CancelledRows DEF Crash, CrashInCancel
  <2>3. CASE Restart
    BY <1>1, <1>2, <2>3, SameAttempts, RestoredRows DEF Restart, OpenReconcile
  <2> QED BY <2>1, <2>2, <2>3
<1> QED BY <1>1, <1>2, <1>3, <1>4, <1>5, SameLatest DEF Conducts

-----------------------------------------------------------------------------
(* The handlers keep the rhythm.                                           *)

LEMMA UncancellableStays ==
  ASSUME SafeInv, LockInv', Conducts, NEW a \in Uncancellable
  PROVE  a \in Uncancellable' /\ row'[a] = row[a]
<1>1. /\ a \in AttemptIds /\ a[2] = latest[a[1]] /\ a[1] \in Tasks
      /\ row[a].status \in {"dispatching", "collecting"}
  BY LatestType, AttemptIdsDef DEF Uncancellable
<1>2. latest[a[1]] \in Nat /\ latest'[a[1]] \in Nat
  BY <1>1 DEF SafeInv, LockInv, TypeOK
<1>3. \A s \in {"dispatching", "collecting"} : ~TaskMayBecome(s, "skipped")
  BY DEF TaskMayBecome, TaskTransitions, TaskStatus
<1>4. row'[a] = row[a]
  <2>1. Redo(a)
    BY <1>1 DEF Conducts
  <2> QED BY <1>1, <1>3, <2>1 DEF Redo, Unstarted, Schedulable
<1>5. latest'[a[1]] = latest[a[1]]
  <2>1. row[a].status \notin ManualRetryTasks
    BY <1>1 DEF ManualRetryTasks, FailureTasks
  <2>2. ~(latest[a[1]] < latest'[a[1]])
    BY <1>1, <1>2, <2>1 DEF Conducts, Turns
  <2> QED BY <1>1, <1>2, <2>2 DEF Conducts
<1> QED BY <1>1, <1>4, <1>5 DEF Uncancellable, LatestIds

(* Without an orphan, a handler that holds nothing leaves nothing behind.   *)
LEMMA HeldIsAll ==
  ASSUME SafeInv, Held = {}, ~leaked
  PROVE  jobs = {}
BY DEF SafeInv, LockInv, Discipline, Held

LEMMA OpensRhythm ==
  ASSUME SafeInv, LockInv', Conducts, Held = {}, NEW kind \in Kinds \ {"retry"}, NEW rw,
         OpenReconcile(kind, rw), failing' = failing, up' = TRUE,
         kind = "start" => runStatus' \in {"running", "failed"},
         ~leaked /\ failing => runStatus' # "success_with_warnings"
  PROVE  Rhythm'
<1> DEFINE pc(a) == IF rw[a].status = "running" /\ rw[a].started /\ a \in overdue
                    THEN "timeout" ELSE "get"
<1>1. handler' = [kind |-> kind, phase |-> "reconcile"] /\ row' = rw
  BY DEF OpenReconcile
<1>2. leaked' = leaked
  BY DEF Conducts
<1>3. \A k \in jobs' : \/ k \in jobs
                       \/ k.pc \in {"get", "timeout"}
  BY DEF OpenReconcile, NewJob
<1>4. ASSUME ~leaked
      PROVE  Phased'
  BY <1>1, <1>3, <1>4, HeldIsAll DEF Phased, Placing
<1>5. ASSUME ~leaked, failing
      PROVE  Uncancellable' # {} /\ jobs' # {}
  <2>1. PICK a \in Uncancellable : TRUE
    BY <1>5 DEF SafeInv, Rhythm, Failing
  <2>2. a \in Uncancellable'
    BY <2>1, UncancellableStays
  <2>3. a \in LatestIds(latest') /\ rw[a].status \in ActiveTasks
    BY <1>1, <2>2 DEF Uncancellable, ActiveTasks
  <2>4. NewJob(a, pc(a), rw[a]) \in jobs'
    BY <2>3 DEF OpenReconcile
  <2> QED BY <2>2, <2>4
<1>6. ~leaked => Failing'
  BY <1>1, <1>5 DEF Failing
<1> QED BY <1>1, <1>2, <1>4, <1>6 DEF Rhythm

LEMMA QuietRhythm ==
  ASSUME SafeInv, LockInv', Conducts, Held = {}, jobs' = jobs, failing' = failing,
         handler' \in {Idle, [kind |-> "recover", phase |-> "again"]}, up' = TRUE,
         ~leaked /\ failing => handler' = Idle /\ runStatus' # "success_with_warnings"
  PROVE  Rhythm'
<1>1. leaked' = leaked
  BY DEF Conducts
<1>2. handler'.phase \in {"none", "again"} /\ handler'.kind \in {"none", "recover"}
  BY DEF Idle
<1>3. ~leaked => Phased'
  BY <1>2, HeldIsAll DEF Phased
<1>4. ~leaked => Failing'
  <2> SUFFICES ASSUME ~leaked, failing
               PROVE  /\ Uncancellable' # {}
                      /\ runStatus' # "success_with_warnings"
                      /\ handler'.phase = "none"
    BY DEF Failing
  <2>1. PICK a \in Uncancellable : TRUE
    BY DEF SafeInv, Rhythm, Failing
  <2> QED BY <2>1, UncancellableStays DEF Idle
<1> QED BY <1>1, <1>2, <1>3, <1>4 DEF Rhythm

LEMMA UserRhythm ==
  ASSUME SafeInv, LockInv', User
  PROVE  Rhythm'
<1>1. Conducts
  BY UserConducts
<1>2. Held = {} /\ up' = TRUE /\ leaked' = leaked
  BY UserHandles DEF SafeInv, Handles
<1>3. handler = Idle /\ failing' = failing
  BY DEF User, Start, Pause, Resume, Cancel, CancelRaises, MayCancel, RetryTask, SkipTask,
         Free
<1>4. ~leaked /\ failing => Uncancellable # {} /\ runStatus # "success_with_warnings"
  BY DEF SafeInv, Rhythm, Failing
<1>5. CASE Start
  BY <1>1, <1>2, <1>3, <1>5, OpensRhythm DEF Start, Kinds
<1>6. CASE Pause
  BY <1>1, <1>2, <1>3, <1>6, QuietRhythm DEF Pause
<1>7. CASE Resume
  <2>1. CASE OpenReconcile("step", Restored) /\ runStatus' = "running"
    BY <1>1, <1>2, <1>3, <2>1, OpensRhythm DEF Kinds
  <2>2. CASE /\ UNCHANGED <<jobs, handler>>
             /\ runStatus' = "running" \/ runStatus' = runStatus
    BY <1>1, <1>2, <1>3, <1>4, <2>2, QuietRhythm
  <2> QED BY <1>7, <2>1, <2>2 DEF Resume
<1>8. CASE Cancel
  <2>1. ~leaked => ~failing
    BY <1>4, <1>8 DEF Cancel
  <2>2. handler' = [kind |-> "cancel", phase |-> "cancel"] /\ runStatus' = "cancelling"
    BY <1>8 DEF Cancel
  <2>3. \A k \in jobs' : k \in jobs \/ k.pc = "cancel"
    BY <1>8 DEF Cancel, NewJob
  <2>4. ~leaked => Phased'
    BY <1>2, <2>2, <2>3, HeldIsAll DEF Phased, Placing
  <2> QED BY <1>2, <1>3, <2>1, <2>2, <2>4 DEF Rhythm, Failing
<1>9. CASE CancelRaises
  BY <1>1, <1>2, <1>3, <1>9, QuietRhythm DEF CancelRaises
<1>10. ASSUME NEW t \in Tasks, RetryTask(t)
       PROVE  Rhythm'
  <2>1. /\ handler' = [kind |-> "retry", phase |-> "single"]
        /\ runStatus' \in {runStatus, "running"}
    BY <1>10 DEF RetryTask, Unblocked
  <2>2. ~leaked => Phased'
    BY <2>1 DEF Phased
  <2>3. ASSUME ~leaked, failing
        PROVE  Uncancellable' # {}
    <3>1. PICK a \in Uncancellable : TRUE
      BY <1>4, <2>3
    <3> QED BY <1>1, <3>1, UncancellableStays
  <2>4. ~leaked => Failing'
    BY <1>3, <1>4, <2>1, <2>3 DEF Failing
  <2> QED BY <1>2, <2>1, <2>2, <2>4 DEF Rhythm
<1>11. ASSUME NEW t \in Tasks, SkipTask(t)
       PROVE  Rhythm'
  <2> DEFINE rw == [row EXCEPT ![<<t, IF latest[t] = 0 THEN 1 ELSE latest[t]>>].status =
                       "skipped"]
  <2>1. CASE OpenReconcile("step", rw) /\ runStatus' = "running"
    BY <1>1, <1>2, <1>3, <2>1, OpensRhythm DEF Kinds
  <2>2. CASE UNCHANGED <<jobs, handler>> /\ runStatus' = Unblocked
    BY <1>1, <1>2, <1>3, <1>4, <2>2, QuietRhythm DEF Unblocked
  <2> QED BY <1>11, <2>1, <2>2 DEF SkipTask
<1> QED BY <1>5, <1>6, <1>7, <1>8, <1>9, <1>10, <1>11 DEF User

LEMMA PhaseRhythm ==
  ASSUME SafeInv, LockInv', Phase
  PROVE  Rhythm'
<1>1. Conducts
  BY PhaseConducts
<1>2. leaked' = leaked
  BY <1>1 DEF Conducts
<1>3. ~leaked => Phased /\ Failing
  BY DEF SafeInv, Rhythm
<1>4. CASE StartFailed
  <2>1. /\ UNCHANGED <<row, latest, jobs, handler, up>> /\ failing' = FALSE /\ failing
        /\ runStatus' = runStatus \/ runStatus' = "failed"
    BY <1>4 DEF StartFailed
  <2>2. ~leaked => Phased'
    BY <1>3, <2>1 DEF Phased, Failing
  <2> QED BY <1>2, <2>1, <2>2 DEF SafeInv, Rhythm, Failing
<1> SUFFICES ASSUME ~StartFailed
             PROVE  Rhythm'
  BY <1>4
<1>5. Held = {} /\ up' = TRUE
  BY PhaseHandles DEF SafeInv, Handles
<1>6. failing' = failing
  BY DEF Phase, FinishReconcile, DispatchReady, FinishDispatch, FinishRetry, FinishCancel,
         RecoverAgain, RetryDue
<1>7. ASSUME handler.phase \in {"due", "ready", "dispatch", "cancel", "again"}, ~leaked
      PROVE  ~failing
  BY <1>3, <1>7 DEF Failing
<1>8. CASE FinishReconcile
  <2>1. ~leaked => ~failing
    <3>1. ~leaked => jobs = {}
      BY <1>5, HeldIsAll
    <3> QED BY <1>3, <1>8, <3>1 DEF FinishReconcile, Failing
  <2>2. CASE MayDispatch
    <3> DEFINE phase == IF handler.kind \in {"start", "step"} THEN "ready" ELSE "due"
    <3>1. /\ handler' = [handler EXCEPT !.phase = phase]
          /\ runStatus' = "running" /\ jobs' = jobs
      BY <1>8, <2>2 DEF FinishReconcile, MayDispatch
    <3>2. handler'.kind = handler.kind /\ handler'.phase = phase
      BY <3>1 DEF SafeInv, LockInv, TypeOK
    <3>3. handler.kind # "retry"
      BY <1>8 DEF FinishReconcile, SafeInv, Rhythm
    <3>4. ~leaked => Phased'
      BY <1>5, <3>1, <3>2, HeldIsAll DEF Phased
    <3> QED BY <1>2, <1>5, <1>6, <2>1, <3>2, <3>3, <3>4 DEF Rhythm, Failing
  <2>3. CASE ~MayDispatch
    <3>1. EndHandler /\ jobs' = jobs
      BY <1>8, <2>3 DEF FinishReconcile, MayDispatch
    <3>2. handler' \in {Idle, [kind |-> "recover", phase |-> "again"]}
      BY <3>1 DEF EndHandler, Release
    <3> QED BY <1>1, <1>5, <1>6, <2>1, <3>1, <3>2, QuietRhythm
  <2> QED BY <2>2, <2>3
<1>9. CASE DispatchReady
  <2>1. /\ handler.phase \in {"ready", "due"} /\ runStatus' = runStatus
        /\ handler' = [handler EXCEPT !.phase = "dispatch"]
    BY <1>9 DEF DispatchReady
  <2>2. handler'.kind = handler.kind /\ handler'.phase = "dispatch"
    BY <2>1 DEF SafeInv, LockInv, TypeOK
  <2>3. handler.kind # "retry"
    BY <2>1 DEF SafeInv, Rhythm
  <2>4. ~leaked => Phased'
    BY <1>3, <2>1, <2>2 DEF Phased
  <2>5. ~leaked => Failing'
    BY <1>6, <1>7, <2>1 DEF Failing
  <2> QED BY <1>2, <1>5, <2>2, <2>3, <2>4, <2>5 DEF Rhythm
<1>10. CASE FinishDispatch \/ FinishCancel
  <2>1. ~leaked => ~failing
    BY <1>7, <1>10 DEF FinishDispatch, FinishCancel
  <2>2. handler' \in {Idle, [kind |-> "recover", phase |-> "again"]} /\ jobs' = jobs
    BY <1>10 DEF FinishDispatch, FinishCancel, EndHandler, Release
  <2> QED BY <1>1, <1>5, <1>6, <2>1, <2>2, QuietRhythm
<1>11. CASE FinishRetry
  <2>1. handler' = Idle /\ jobs' = jobs /\ runStatus' = runStatus
    BY <1>11 DEF FinishRetry, Release
  <2>2. ~leaked /\ failing => runStatus' # "success_with_warnings"
    BY <1>3, <2>1 DEF Failing
  <2> QED BY <1>1, <1>5, <1>6, <2>1, <2>2, QuietRhythm
<1>12. CASE RecoverAgain
  <2>1. ~leaked => ~failing
    BY <1>7, <1>12 DEF RecoverAgain
  <2>2. CASE Release /\ UNCHANGED <<row, jobs>>
    BY <1>1, <1>5, <1>6, <2>1, <2>2, QuietRhythm DEF Release
  <2>3. CASE OpenReconcile("recover", row)
    BY <1>1, <1>5, <1>6, <2>1, <2>3, OpensRhythm DEF Kinds
  <2> QED BY <1>12, <2>2, <2>3 DEF RecoverAgain
<1>13. ASSUME NEW t \in Tasks, RetryDue(t)
       PROVE  Rhythm'
  <2>1. /\ UNCHANGED <<runStatus, handler>> /\ handler.phase = "due"
    BY <1>13 DEF RetryDue
  <2>2. ~leaked => Phased'
    BY <1>3, <2>1 DEF Phased
  <2>3. ~leaked => Failing'
    BY <1>6, <1>7, <2>1 DEF Failing
  <2> QED BY <1>2, <1>5, <2>1, <2>2, <2>3 DEF SafeInv, Rhythm
<1> QED BY <1>8, <1>9, <1>10, <1>11, <1>12, <1>13 DEF Phase

LEMMA ProcessRhythm ==
  ASSUME SafeInv, LockInv', Tick \/ Crash \/ CrashInCancel \/ Restart
  PROVE  Rhythm'
<1>1. Conducts
  BY ProcessConducts
<1>2. CASE Tick
  <2>1. Held = {} /\ up = TRUE
    BY <1>2, FreeHoldsNothing DEF Tick, SafeInv
  <2>2. ~leaked /\ failing => runStatus' # "success_with_warnings"
    BY <1>2 DEF Tick, SafeInv, Rhythm, Failing
  <2> QED BY <1>1, <1>2, <2>1, <2>2, OpensRhythm DEF Tick, Kinds
<1>3. CASE Crash \/ CrashInCancel
  <2>1. handler' = Idle /\ jobs' = {} /\ failing' = FALSE
    BY <1>3 DEF Crash, CrashInCancel, Die
  <2> QED BY <2>1 DEF Rhythm, Phased, Failing, Idle
<1>4. CASE Restart
  <2>1. /\ Held = {} /\ handler = Idle /\ ~failing
        /\ failing' = failing /\ up' = TRUE
    BY <1>4 DEF Restart, SafeInv, LockInv, Discipline, Rhythm, Held
  <2>2. CASE UNCHANGED <<runStatus, row, jobs, handler>>
    BY <1>1, <2>1, <2>2, QuietRhythm
  <2>3. CASE OpenReconcile("recover_restored", Restored)
    BY <1>1, <2>1, <2>3, OpensRhythm DEF Kinds
  <2>4. CASE OpenReconcile("recover", row)
    BY <1>1, <2>1, <2>4, OpensRhythm DEF Kinds
  <2> QED BY <1>4, <2>2, <2>3, <2>4 DEF Restart
<1> QED BY <1>2, <1>3, <1>4

-----------------------------------------------------------------------------
LEMMA SafeInit ==
  ASSUME Init
  PROVE  SafeInv
<1>1. LockInv
  BY LockInit
<1>2. NewRow.status = "pending"
  BY DEF NewRow
<1> QED
  BY <1>1, <1>2 DEF Init, SafeInv, Course, Untouched, Delivered, Permitted, Believed, Stops,
                    Rhythm, Phased, Failing, Idle, Unbound, Stopped, Unconfirmed

LEMMA SafeStep ==
  ASSUME SafeInv, [Next]_vars
  PROVE  SafeInv'
<1>1. LockInv'
  BY LockStep DEF SafeInv
<1>2. ASSUME Conducts, Rhythm'
      PROVE  SafeInv'
  BY <1>1, <1>2, ConductsKeeps DEF SafeInv
<1>3. CASE User
  BY <1>1, <1>2, <1>3, UserConducts, UserRhythm
<1>4. CASE Phase
  BY <1>1, <1>2, <1>4, PhaseConducts, PhaseRhythm
<1>5. CASE Tick \/ Crash \/ CrashInCancel \/ Restart
  BY <1>1, <1>2, <1>5, ProcessConducts, ProcessRhythm
<1>6. ASSUME NEW j \in jobs, Coroutine(j)
      PROVE  SafeInv'
  BY <1>1, <1>6, CoroutineKeeps
<1>7. ASSUME NEW j \in jobs, NodeServes(j) \/ CallFails(j)
      PROVE  SafeInv'
  BY <1>1, <1>7, CallKeeps
<1>8. ASSUME NEW a \in AttemptIds,
             (\E n \in Nodes : RemoteFinishes(a, n)) \/ TimeoutPasses(a) \/ DelayPasses(a)
      PROVE  SafeInv'
  BY <1>1, <1>8, WorldKeeps
<1>9. CASE UNCHANGED vars
  BY <1>1, <1>9 DEF vars, SafeInv, Course, OnCourse, Untouched, Delivered, Permitted, Done,
                    LatestOf, Believed, Stops, Rhythm, Phased, Failing, Uncancellable,
                    LatestIds
<1> QED BY <1>3, <1>4, <1>5, <1>6, <1>7, <1>8, <1>9 DEF Next

LEMMA SafeInvariant == Spec => []SafeInv
<1>1. Init => SafeInv
  BY SafeInit
<1>2. SafeInv /\ [Next]_vars => SafeInv'
  BY SafeStep
<1> QED BY <1>1, <1>2, PTL DEF Spec

-----------------------------------------------------------------------------
(* What follows of the rows.                                               *)

(* A step that changes the table of attempts is a handler's, or a          *)
(* coroutine's that saves the next status of its own attempt.              *)
LEMMA RowSteps ==
  ASSUME SafeInv, [Next]_vars, ~leaked
  PROVE  \/ row' = row
         \/ Conducts
         \/ \E j \in jobs, r \in Row :
              /\ Takes(j, r) /\ j.id \in AttemptIds /\ j.mem = row[j.id]
              /\ row' = [row EXCEPT ![j.id] = r]
              /\ row[j.id].status \in {"ready"} \cup {"dispatching"} \cup ActiveTasks
<1>1. LockInv'
  BY LockStep DEF SafeInv
<1>2. CASE User \/ Phase \/ Tick \/ Crash \/ CrashInCancel \/ Restart
  BY <1>1, <1>2, UserConducts, PhaseConducts, ProcessConducts
<1>3. ASSUME NEW j \in jobs, Coroutine(j)
      PROVE  row' = row \/ \E r \in Row : Takes(j, r)
  <2>1. j \in Job /\ OnCourse(j)
    BY DEF SafeInv, LockInv, TypeOK, Course
  <2>2. Advances(j)
    BY <1>3, <2>1, CoroutineAdvances
  <2> QED BY <2>2 DEF Advances, Raises, Raise
<1>4. ASSUME NEW j \in jobs, NodeServes(j) \/ CallFails(j)
      PROVE  row' = row
  BY <1>4 DEF NodeServes, CallFails
<1>5. ASSUME NEW a \in AttemptIds,
             (\E n \in Nodes : RemoteFinishes(a, n)) \/ TimeoutPasses(a) \/ DelayPasses(a)
      PROVE  row' = row
  BY <1>5 DEF RemoteFinishes, TimeoutPasses, DelayPasses
<1>6. CASE UNCHANGED vars
  BY <1>6 DEF vars
<1> QED BY <1>2, <1>3, <1>4, <1>5, <1>6, TakesRows DEF Next

(* Whatever arrives when, an attempt only goes where the transition table   *)
(* says: the handlers that write rows without asking the table keep to it, *)
(* and no coroutine acts on a status that has moved on meanwhile.          *)
StatusesFollowTable ==
  [][ \A a \in AttemptIds :
        leaked \/ TaskMayBecome(row[a].status, row'[a].status) ]_vars

LEMMA FollowsStep ==
  ASSUME SafeInv, [Next]_vars, ~leaked, NEW a \in AttemptIds
  PROVE  TaskMayBecome(row[a].status, row'[a].status)
<1>1. CASE row'[a] = row[a]
  BY <1>1 DEF TaskMayBecome
<1>2. CASE Redo(a)
  <2>1. /\ TaskMayBecome("blocked", "ready") /\ TaskMayBecome("running", "cancelling")
        /\ \A s \in Unstarted : TaskMayBecome(s, "cancelled")
        /\ \A s \in Schedulable : TaskMayBecome(s, "ready")
        /\ \A s : TaskMayBecome(s, s)
    BY DEF TaskMayBecome, TaskTransitions, TaskStatus, Unstarted, Schedulable
  <2> QED BY <1>2, <2>1 DEF Redo
<1>3. ASSUME NEW j \in jobs, NEW r \in Row, Takes(j, r), j.mem = row[j.id],
             j.id \in AttemptIds, row' = [row EXCEPT ![j.id] = r]
      PROVE  TaskMayBecome(row[a].status, row'[a].status)
  <2>1. row \in [AttemptIds -> Row]
    BY DEF SafeInv, LockInv, TypeOK
  <2>2. CASE a = j.id
    <3>1. row'[a] = r
      BY <1>3, <2>1, <2>2
    <3> QED BY <1>3, <2>2, <3>1 DEF Takes
  <2>3. CASE a # j.id
    BY <1>1, <1>3, <2>1, <2>3
  <2> QED BY <2>2, <2>3
<1> QED BY <1>1, <1>2, <1>3, RowSteps DEF Conducts

(* Every change of an attempt's status, by a handler or by a coroutine, is  *)
(* one of the table's, while no coroutine has outlived its handler: what   *)
(* _set_attempt_status looks up holds of the database row too, and for     *)
(* the rows that cancel, skip, retry and restore write directly.           *)
THEOREM AttemptsFollowTheTable == Spec => StatusesFollowTable
<1>1. SafeInv /\ [Next]_vars
        => [ \A a \in AttemptIds :
               leaked \/ TaskMayBecome(row[a].status, row'[a].status) ]_vars
  BY FollowsStep
<1> QED BY <1>1, SafeInvariant, PTL DEF Spec, StatusesFollowTable

LEMMA EndedStep ==
  ASSUME SafeInv, [Next]_vars, ~leaked, NEW a \in AttemptIds
  PROVE  /\ row[a].status \in {"success", "cancelled", "skipped"} \cup AutoRetryTasks
              => row'[a].status = row[a].status
         /\ row[a].status = "needs_review"
              => row'[a].status \in {"needs_review", "skipped"}
<1>1. CASE row'[a] = row[a]
  BY <1>1
<1>2. CASE Redo(a)
  <2>1. \A s \in {"success", "cancelled"} \cup AutoRetryTasks : ~TaskMayBecome(s, "skipped")
    BY DEF TaskMayBecome, TaskTransitions, TaskStatus, AutoRetryTasks
  <2> QED BY <1>2, <2>1 DEF Redo, Unstarted, Schedulable, AutoRetryTasks
<1>3. ASSUME NEW j \in jobs, NEW r \in Row, j.id \in AttemptIds,
             row' = [row EXCEPT ![j.id] = r], a # j.id
      PROVE  row'[a] = row[a]
  BY <1>3 DEF SafeInv, LockInv, TypeOK
<1>4. ASSUME NEW j \in jobs, a = j.id,
             row[j.id].status \in {"ready"} \cup {"dispatching"} \cup ActiveTasks
      PROVE  row[a].status \notin {"success", "cancelled", "skipped", "needs_review"}
                                    \cup AutoRetryTasks
  BY <1>4 DEF ActiveTasks, AutoRetryTasks
<1> QED BY <1>1, <1>2, <1>3, <1>4, RowSteps DEF Conducts

(* What has ended stays ended, for every workflow and any number of late   *)
(* answers: a success, a cancelled or skipped task and a failure keep      *)
(* their status, and a review can only be skipped.                         *)
THEOREM EndedIsFinal == Spec => EndedStaysEnded
<1>1. SafeInv /\ [Next]_vars
        => [ \A a \in AttemptIds :
               /\ row[a].status \in {"success", "cancelled", "skipped"} \cup AutoRetryTasks
                    => leaked \/ row'[a].status = row[a].status
               /\ row[a].status = "needs_review"
                    => leaked \/ row'[a].status \in {"needs_review", "skipped"} ]_vars
  BY EndedStep
<1> QED BY <1>1, SafeInvariant, PTL DEF Spec, EndedStaysEnded

LEMMA ConfirmedStep ==
  ASSUME SafeInv, [Next]_vars, ~leaked, NEW a \in AttemptIds,
         row[a].status = "cancelling", row'[a].status = "cancelled"
  PROVE  remote[a][row[a].node] = "cancelled"
<1>1. row'[a] # row[a]
  OBVIOUS
<1>2. ~Redo(a)
  <2>1. ~TaskMayBecome("cancelling", "skipped")
    BY DEF TaskMayBecome, TaskTransitions, TaskStatus
  <2> QED BY <1>1, <2>1 DEF Redo, Unstarted, Schedulable
<1>3. PICK j \in jobs, r \in Row :
        /\ Takes(j, r) /\ j.id \in AttemptIds /\ j.mem = row[j.id]
        /\ row' = [row EXCEPT ![j.id] = r]
  BY <1>1, <1>2, RowSteps DEF Conducts
<1>4. a = j.id /\ row'[a] = r
  BY <1>1, <1>3 DEF SafeInv, LockInv, TypeOK
<1>5. j.reply = "cancelled"
  BY <1>3, <1>4 DEF Takes
<1> QED BY <1>3, <1>4, <1>5 DEF SafeInv, Believed

(* An attempt that was being cancelled becomes cancelled only when its     *)
(* node's record says so at that very moment: the confirmation on which    *)
(* _remote_cancel or _reconcile_attempt acts is never out of date.         *)
THEOREM CancelsAreConfirmed == Spec => CancelIsConfirmed
<1>1. SafeInv /\ [Next]_vars
        => [ \A a \in AttemptIds :
               row[a].status = "cancelling" /\ row'[a].status = "cancelled"
                 => leaked \/ remote[a][row[a].node] = "cancelled" ]_vars
  BY ConfirmedStep
<1> QED BY <1>1, SafeInvariant, PTL DEF Spec, CancelIsConfirmed

-----------------------------------------------------------------------------
(* What follows of the nodes.                                              *)

(* No node hears of an attempt before every task it depends on has         *)
(* succeeded or was skipped; and no retry, late answer or restart takes    *)
(* that back.                                                              *)
THEOREM DependenciesComeFirst == Spec => []DependenciesFirst
<1>1. SafeInv => DependenciesFirst
  BY DEF SafeInv, Permitted, DependenciesFirst, Done, DependencyComplete
<1> QED BY <1>1, SafeInvariant, PTL

LEMMA PauseStep ==
  ASSUME SafeInv, [Next]_vars, runStatus = "paused", handler.kind # "retry", ~leaked,
         NEW a \in AttemptIds, NEW n \in Nodes, remote[a][n] = "absent"
  PROVE  remote'[a][n] = "absent"
<1>1. CASE remote' = remote
  BY <1>1
<1>2. ASSUME NEW j \in jobs, NodeServes(j) \/ CallFails(j)
      PROVE  remote'[a][n] = "absent"
  <2>1. PICK s, reply : Changes(j, s, reply)
    BY <1>2, CallChanges
  <2>2. j.pc # "create"
    BY DEF SafeInv, Rhythm, Phased, Placing
  <2>3. j.id \in AttemptIds /\ j.mem.node \in Nodes
    BY <1>2, JobFields DEF SafeInv, LockInv, TypeOK, NodeServes, CallFails, Waiting
  <2>4. remote' = [remote EXCEPT ![j.id][j.mem.node] = s]
    BY <2>1 DEF Changes
  <2>5. remote[j.id][j.mem.node] = "absent" => s = "absent"
    BY <2>1, <2>2 DEF Changes
  <2> QED BY <2>3, <2>4, <2>5 DEF SafeInv, LockInv, TypeOK
<1>3. ASSUME NEW b \in AttemptIds, NEW m \in Nodes, RemoteFinishes(b, m)
      PROVE  remote'[a][n] = "absent"
  <2>1. PICK s \in Progress(remote[b][m], b[1] \in ReviewTasks) :
          remote' = [remote EXCEPT ![b][m] = s]
    BY <1>3 DEF RemoteFinishes
  <2>2. remote[b][m] # "absent"
    BY <2>1 DEF Progress
  <2> QED BY <2>1, <2>2 DEF SafeInv, LockInv, TypeOK
<1>4. CASE User \/ Phase \/ Tick \/ Crash \/ CrashInCancel \/ Restart
  <2>1. LockInv'
    BY LockStep DEF SafeInv
  <2>2. Conducts
    BY <1>4, <2>1, UserConducts, PhaseConducts, ProcessConducts
  <2> QED BY <1>1, <2>2 DEF Conducts
<1>5. ASSUME NEW j \in jobs, Coroutine(j)
      PROVE  remote' = remote
  <2>1. j \in Job
    BY DEF SafeInv, LockInv, TypeOK
  <2> QED BY <1>5, <2>1, CoroutineEffect DEF Effect
<1>6. ASSUME NEW b \in AttemptIds, TimeoutPasses(b) \/ DelayPasses(b)
      PROVE  remote' = remote
  BY <1>6 DEF TimeoutPasses, DelayPasses
<1>7. CASE UNCHANGED vars
  BY <1>1, <1>7 DEF vars
<1> QED BY <1>1, <1>2, <1>3, <1>4, <1>5, <1>6, <1>7 DEF Next

(* While a run is paused no node hears of an attempt it did not know, but   *)
(* for a retry the user asks for: a pause waits for the step that is       *)
(* dispatching, so nothing is on its way when it takes effect.             *)
THEOREM PauseIsKept == Spec => PauseHolds
<1>1. SafeInv /\ [Next]_vars
        => [ runStatus = "paused" /\ handler.kind # "retry" /\ ~leaked
               => \A a \in AttemptIds, n \in Nodes :
                    remote[a][n] = "absent" => remote'[a][n] = "absent" ]_vars
  BY PauseStep
<1> QED BY <1>1, SafeInvariant, PTL DEF Spec, PauseHolds

-----------------------------------------------------------------------------
(* What follows of the run.                                                *)

LEMMA RunIsLeftAlone ==
  ASSUME SafeInv, [Next]_vars, runStatus' # runStatus
  PROVE  User \/ Phase \/ CrashInCancel \/ Restart
<1>1. ASSUME NEW j \in jobs, Coroutine(j)
      PROVE  runStatus' = runStatus
  <2>1. j \in Job
    BY DEF SafeInv, LockInv, TypeOK
  <2>2. Effect(j)
    BY <1>1, <2>1, CoroutineEffect
  <2> QED
    BY <2>2 DEF Effect, Raise, Ends, Goes, SavesAndEnds, SavesAndGoes, Calm
<1>2. ASSUME NEW j \in jobs, NodeServes(j) \/ CallFails(j)
      PROVE  runStatus' = runStatus
  BY <1>2 DEF NodeServes, CallFails
<1>3. ASSUME NEW a \in AttemptIds,
             (\E n \in Nodes : RemoteFinishes(a, n)) \/ TimeoutPasses(a) \/ DelayPasses(a)
      PROVE  runStatus' = runStatus
  BY <1>3 DEF RemoteFinishes, TimeoutPasses, DelayPasses
<1>4. CASE Tick \/ Crash
  BY <1>4 DEF Tick, Crash
<1>5. CASE UNCHANGED vars
  BY <1>5 DEF vars
<1> QED BY <1>1, <1>2, <1>3, <1>4, <1>5 DEF Next

LEMMA EarnedStep ==
  ASSUME SafeInv, [Next]_vars, runStatus' # runStatus,
         runStatus' \in {"success", "success_with_warnings"}, NEW t \in Tasks
  PROVE  /\ latest[t] > 0
         /\ row[LatestOf(t)].status = "skipped" \/ LatestOf(t) \in artifacts
<1>1. FinishDispatch
  BY RunIsLeftAlone
     DEF User, Start, Pause, Resume, Cancel, CancelRaises, RetryTask, SkipTask, Unblocked,
         Phase, FinishReconcile, SettleCancellation, DispatchReady, FinishRetry,
         FinishCancel, RecoverAgain, StartFailed, RetryDue, CrashInCancel, Restart
<1>2. AllFinished
  BY <1>1 DEF FinishDispatch, SettledStatus
<1>3. latest[t] > 0 /\ row[LatestOf(t)].status \in FinishedTasks
  BY <1>2 DEF AllFinished
<1>4. LatestOf(t) \in AttemptIds
  BY <1>3, LatestIsAttempt DEF SafeInv, LockInv
<1> QED BY <1>3, <1>4 DEF SafeInv, Delivered, FinishedTasks

(* A run turns to success only when the last attempt of every task was     *)
(* skipped or has committed its artifacts, orphans or not.                 *)
THEOREM SuccessHasArtifacts == Spec => SuccessIsEarned
<1>1. SafeInv /\ [Next]_vars
        => [ runStatus' # runStatus /\ runStatus' \in {"success", "success_with_warnings"}
               => \A t \in Tasks :
                    /\ latest[t] > 0
                    /\ row[LatestOf(t)].status = "skipped" \/ LatestOf(t) \in artifacts ]_vars
  BY EarnedStep
<1> QED BY <1>1, SafeInvariant, PTL DEF Spec, SuccessIsEarned

LEMMA EndsOnceStep ==
  ASSUME SafeInv, [Next]_vars, ~leaked, runStatus \in ApiTerminalRuns
  PROVE  runStatus' = runStatus
<1> SUFFICES ASSUME runStatus' # runStatus
             PROVE  FALSE
  OBVIOUS
<1>1. Phased /\ Failing
  BY DEF SafeInv, Rhythm
<1>2. ~RunMayBecome(runStatus, "cancelling")
  BY DEF RunMayBecome, RunTransitions, RunStatus, ApiTerminalRuns
<1>3. CASE User
  BY <1>2, <1>3 DEF User, Start, Pause, Resume, Cancel, CancelRaises, MayCancel, RetryTask,
                    SkipTask, Unblocked, ApiTerminalRuns
<1>4. CASE Phase
  BY <1>1, <1>4
     DEF Phased, Failing, Phase, FinishReconcile, SettleCancellation, DispatchReady,
         FinishDispatch, FinishRetry, FinishCancel, RecoverAgain, StartFailed, RetryDue,
         ManagerTerminalRuns, ApiTerminalRuns
<1>5. CASE CrashInCancel \/ Restart
  BY <1>2, <1>5 DEF CrashInCancel, MayCancel, Restart, ApiTerminalRuns
<1> QED BY <1>3, <1>4, <1>5, RunIsLeftAlone

(* A run ends once: no user, no tick, no late done-callback of a failed    *)
(* start and no restart takes a terminal run out of its status.            *)
THEOREM RunsEndOnce == Spec => RunEndsOnce
<1>1. SafeInv /\ [Next]_vars
        => [ (runStatus \in ApiTerminalRuns) => leaked \/ runStatus' = runStatus ]_vars
  BY EndsOnceStep
<1> QED BY <1>1, SafeInvariant, PTL DEF Spec, RunEndsOnce

-----------------------------------------------------------------------------
(* What the API offers for a run, the table of the life cycle allows.      *)
LEMMA OffersFitTable ==
  TypeOK => /\ OffersStart \/ OffersResume => RunMayBecome(runStatus, "running")
            /\ OffersPause => RunMayBecome(runStatus, "paused")
            /\ Free /\ OffersCancel => MayCancel
<1>1. TypeOK => runStatus \in RunStatus
  BY DEF TypeOK
<1> QED
  BY <1>1 DEF OffersStart, OffersResume, OffersPause, OffersCancel, Closed, MayCancel,
     RunMayBecome, RunTransitions, RunStatus, ApiTerminalRuns, ManagerTerminalRuns

(* What the run API offers while no handler works, the manager accepts: in  *)
(* every state, whatever handlers, failures and crashes have led to it, the *)
(* tables of api/runs.py, of the manager and of the life cycle agree.       *)
THEOREM OffersAreAccepted == Spec => []OfferedIsAccepted
<1>1. ASSUME TypeOK, Free PROVE OfferedIsAccepted
  <2>1. ASSUME NEW t \in Tasks, OffersRetry(t) PROVE MayRetry(t)
    BY <2>1 DEF OffersRetry, MayRetry, ManualRetryTasks
  <2>2. ASSUME NEW t \in Tasks, OffersSkip(t), latest[t] # 0
        PROVE  TaskMayBecome(row[LatestOf(t)].status, "skipped")
    <3>1. row[LatestOf(t)].status \in Skippable
      BY <2>2 DEF OffersSkip
    <3> QED
      BY <3>1 DEF Skippable, TaskMayBecome, TaskTransitions, TaskStatus
  <2> QED
    BY <1>1, <2>1, <2>2, OffersFitTable DEF OfferedIsAccepted
<1>2. TypeOK => OfferedIsAccepted
  BY <1>1 DEF OfferedIsAccepted
<1> QED
  BY <1>2, TypeCorrect, PTL
=============================================================================
