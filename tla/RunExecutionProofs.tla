------------------------ MODULE RunExecutionProofs ------------------------
(***************************************************************************)
(* Types, and what the step lock of a run is for, proved for every         *)
(* workflow, every set of nodes, every retry policy and any number of      *)
(* crashes: while no coroutine has outlived its handler, no save           *)
(* overwrites another one, and no retry overtakes an attempt that is in    *)
(* progress (Superseded).                                                  *)
(*                                                                         *)
(* A coroutine's step has one of five effects (Effect).  The two           *)
(* properties of the lock are not inductive; Discipline is: a handler      *)
(* begins coroutines only when it has none, one per attempt, each for its  *)
(* task's latest attempt and with the row it was read from; between        *)
(* handlers there are none.  Every step is a handler's step (Handles), a   *)
(* coroutine's, an answer to one, the end of the process, or none of       *)
(* theirs.                                                                 *)
(***************************************************************************)
EXTENDS RunExecution, TLAPS

(* What one step of coroutine j may do to the database and to itself.      *)
Ends(j)         == row' = row /\ Drop(j) /\ Calm
Goes(j)         == \E pc \in Calls : row' = row /\ Continue(j, pc, j.mem) /\ Calm
SavesAndEnds(j) == \E r \in Row : Save(j, r) /\ Drop(j) /\ Calm
SavesAndGoes(j) ==
  \E r \in Row, pc \in Calls : Save(j, r) /\ Continue(j, pc, r) /\ Calm

Effect(j) ==
  /\ Raise(j) \/ Ends(j) \/ Goes(j) \/ SavesAndEnds(j) \/ SavesAndGoes(j)
  /\ artifacts' \in {artifacts, artifacts \cup {j.id}}
  /\ UNCHANGED <<latest, remote, clock, crashes, faults>>

-----------------------------------------------------------------------------
LEMMA AttemptIdsDef ==
  \A a : a \in AttemptIds <=>
           \E t \in Tasks : \E k \in 1..MaxAttempts[t] : a = <<t, k>>
BY DEF AttemptIds

LEMMA JobFields ==
  ASSUME NEW j \in Job
  PROVE  /\ j.id \in AttemptIds
         /\ j.pc \in Calls \cup {"place"}
         /\ j.reply \in Reply
         /\ j.mem \in Row
         /\ j.orphan \in BOOLEAN
BY DEF Job

LEMMA RowChange ==
  ASSUME NEW r \in Row, NEW status \in TaskStatus, NEW transient \in BOOLEAN,
         NEW started \in BOOLEAN
  PROVE  /\ [r EXCEPT !.status = status] \in Row
         /\ [r EXCEPT !.status = status, !.transient = transient] \in Row
         /\ [r EXCEPT !.transient = transient, !.status = status] \in Row
         /\ [r EXCEPT !.status = status, !.started = started,
                      !.transient = transient] \in Row
         /\ \A n \in Nodes : [r EXCEPT !.status = status, !.node = n] \in Row
BY Zenon DEF Row

LEMMA SettleEffect ==
  ASSUME NEW j \in Job, NEW status \in TaskStatus, NEW transient \in BOOLEAN,
         Settle(j, status, transient)
  PROVE  Raise(j) \/ SavesAndEnds(j)
BY Zenon, JobFields, RowChange DEF Settle, SavesAndEnds

(* Every step of a coroutine has one of the five effects.                  *)
LEMMA CoroutineEffect ==
  ASSUME NEW j \in Job, Coroutine(j)
  PROVE  Effect(j)
<1> USE DEF Outside
<1>0. j.mem \in Row
  BY JobFields
<1>1. CASE PlaceOnNode(j)
  <2>1. PICK n \in Nodes :
          LET r == [j.mem EXCEPT !.status = "dispatching", !.node = n]
          IN Save(j, r) /\ Continue(j, "create", r)
    BY Zenon, <1>1 DEF PlaceOnNode
  <2>2. [j.mem EXCEPT !.status = "dispatching", !.node = n] \in Row
    BY Zenon, <1>0, RowChange DEF TaskStatus
  <2>3. SavesAndGoes(j)
    BY <1>1, <2>1, <2>2 DEF PlaceOnNode, SavesAndGoes, Calls
  <2> QED BY <1>1, <2>3 DEF PlaceOnNode, Effect
<1>2. CASE PlaceLater(j)
  BY <1>2 DEF PlaceLater, Effect, Ends
<1>3. CASE PlaceNowhere(j)
  BY Zenon, <1>3, SettleEffect DEF PlaceNowhere, Effect, TaskStatus
<1>4. CASE InputsFail(j)
  BY Zenon, <1>4, SettleEffect DEF InputsFail, Effect, TaskStatus
<1>5. CASE Created(j)
  BY <1>5 DEF Created, Effect, Goes, Calls
<1>6. CASE Uploaded(j)
  BY <1>6 DEF Uploaded, Effect, Goes, Calls
<1>7. CASE Started(j)
  <2>1. [j.mem EXCEPT !.status = "running", !.started = TRUE, !.transient = FALSE] \in Row
    BY Zenon, <1>0, RowChange DEF TaskStatus
  <2> QED BY <1>7, <2>1 DEF Started, Effect, SavesAndEnds
<1>8. CASE DispatchFails(j)
  BY <1>8, SettleEffect DEF DispatchFails, Effect, TaskStatus
<1>9. CASE TimedOut(j)
  BY <1>9, SettleEffect DEF TimedOut, Effect, TaskStatus
<1>10. CASE GetFails(j)
  BY <1>0, <1>10, SettleEffect DEF GetFails, Unanswered, Effect, SavesAndEnds, TaskStatus
<1>11. CASE StillRunning(j)
  <2>1. j.mem.transient \in BOOLEAN
    BY <1>0 DEF Row
  <2> QED BY <1>11, <2>1, SettleEffect DEF StillRunning, Effect, Goes, Ends, TaskStatus, Calls
<1>12. CASE FoundCancelled(j)
  <2>1. j.mem.transient \in BOOLEAN
    BY <1>0 DEF Row
  <2> QED BY <1>12, <2>1, SettleEffect DEF FoundCancelled, Effect, TaskStatus
<1>13. CASE CancelAgain(j)
  BY <1>13 DEF CancelAgain, Effect, Goes, Calls
<1>14. CASE FoundFailed(j)
  BY Zenon, <1>14, SettleEffect DEF FoundFailed, Effect, TaskStatus
<1>15. CASE FoundUnknown(j)
  BY Zenon, <1>15, SettleEffect DEF FoundUnknown, Effect, TaskStatus
<1>16. CASE FoundDone(j)
  <2>1. [j.mem EXCEPT !.status = "collecting"] \in Row
    BY Zenon, <1>0, RowChange DEF TaskStatus
  <2> QED BY <1>16, <2>1 DEF FoundDone, Effect, SavesAndGoes, Calls
<1>17. CASE Collected(j)
  <2>1. [j.mem EXCEPT !.transient = FALSE, !.status =
           IF j.id[1] \in ReviewTasks THEN "needs_review" ELSE "success"] \in Row
    BY Zenon, <1>0, RowChange DEF TaskStatus
  <2> QED BY <1>17, <2>1 DEF Collected, Effect, SavesAndEnds
<1>18. CASE CollectFails(j)
  BY <1>18, SettleEffect DEF CollectFails, Effect, TaskStatus
<1>19. CASE CancelAnswered(j)
  BY <1>0, <1>19, SettleEffect DEF CancelAnswered, Effect, SavesAndEnds, TaskStatus
<1> QED
  BY <1>1, <1>2, <1>3, <1>4, <1>5, <1>6, <1>7, <1>8, <1>9, <1>10, <1>11, <1>12,
     <1>13, <1>14, <1>15, <1>16, <1>17, <1>18, <1>19 DEF Coroutine

-----------------------------------------------------------------------------
(* Type correctness.                                                       *)

LEMMA NewJobType ==
  ASSUME NEW a \in AttemptIds, NEW pc \in Calls \cup {"place"}, NEW r \in Row
  PROVE  NewJob(a, pc, r) \in Job
BY DEF NewJob, Job, Reply

LEMMA LatestType ==
  ASSUME NEW lt, NEW a \in LatestIds(lt)
  PROVE  a \in AttemptIds /\ a[2] = lt[a[1]]
BY DEF LatestIds

LEMMA LatestIsAttempt ==
  ASSUME TypeOK, NEW t \in Tasks, latest[t] > 0
  PROVE  LatestOf(t) \in AttemptIds
<1>1. latest[t] \in 1..MaxAttempts[t]
  BY AttemptsAssumption DEF TypeOK
<1> QED BY <1>1, AttemptIdsDef DEF LatestOf

LEMMA LatestUpdate ==
  ASSUME TypeOK, NEW t \in Tasks, NEW k \in 1..MaxAttempts[t],
         latest' = [latest EXCEPT ![t] = k]
  PROVE  latest' \in [Tasks -> Nat] /\ \A u \in Tasks : latest'[u] <= MaxAttempts[u]
BY AttemptsAssumption DEF TypeOK

(* What a retry, manual or automatic, does to the tables.                  *)
NextAttempt(t) ==
  LET a == <<t, latest[t] + 1>>
      r == [NewRow EXCEPT !.status = "ready"]
  IN /\ latest' = [latest EXCEPT ![t] = @ + 1]
     /\ row' = [row EXCEPT ![a] = r]
     /\ jobs' = jobs \cup {NewJob(a, "place", r)}

LEMMA NextAttemptType ==
  ASSUME TypeOK, NEW t \in Tasks, latest[t] \in 1..(MaxAttempts[t] - 1), NextAttempt(t)
  PROVE  /\ latest' \in [Tasks -> Nat] /\ \A u \in Tasks : latest'[u] <= MaxAttempts[u]
         /\ row' \in [AttemptIds -> Row]
         /\ jobs' \subseteq Job
<1> DEFINE a == <<t, latest[t] + 1>>
           r == [NewRow EXCEPT !.status = "ready"]
<1>1. MaxAttempts[t] \in Nat
  BY AttemptsAssumption
<1>2. latest[t] + 1 \in 1..MaxAttempts[t]
  BY <1>1
<1>3. a \in AttemptIds
  BY <1>2, AttemptIdsDef
<1>4. r \in Row
  BY DEF NewRow, Row, TaskStatus
<1>5. NewJob(a, "place", r) \in Job
  BY <1>3, <1>4, NewJobType
<1>6. /\ latest' = [latest EXCEPT ![t] = latest[t] + 1]
      /\ row' = [row EXCEPT ![a] = r]
      /\ jobs' = jobs \cup {NewJob(a, "place", r)}
  BY DEF NextAttempt
<1> HIDE DEF a, r
<1>7. row' \in [AttemptIds -> Row]
  BY <1>4, <1>6 DEF TypeOK
<1>8. jobs' \subseteq Job
  BY <1>5, <1>6 DEF TypeOK
<1> QED BY <1>2, <1>6, <1>7, <1>8, LatestUpdate

LEMMA OpenReconcileType ==
  ASSUME NEW kind \in Kinds, NEW rw \in [AttemptIds -> Row], jobs \subseteq Job,
         OpenReconcile(kind, rw)
  PROVE  /\ row' \in [AttemptIds -> Row]
         /\ jobs' \subseteq Job
         /\ handler' \in [kind: Kinds, phase: Phases]
<1>1. \A a \in LatestIds(latest') : \A pc \in {"timeout", "get"} :
        NewJob(a, pc, rw[a]) \in Job
  BY NewJobType, LatestType DEF Calls
<1>2. jobs' \subseteq Job
  BY <1>1 DEF OpenReconcile
<1> QED BY <1>2 DEF OpenReconcile, Phases

LEMMA RestoredType ==
  ASSUME TypeOK
  PROVE  Restored \in [AttemptIds -> Row]
<1>1. \A a \in AttemptIds :
        [row[a] EXCEPT !.status = "ready", !.transient = FALSE] \in Row
  BY Zenon, RowChange DEF TypeOK, TaskStatus
<1> QED BY Zenon, <1>1 DEF Restored, TypeOK

LEMMA CancelRowsType ==
  ASSUME TypeOK, NEW S
  PROVE  CancelRows(S) \in [AttemptIds -> Row]
<1>1. \A a \in AttemptIds : /\ [row[a] EXCEPT !.status = "cancelled"] \in Row
                            /\ [row[a] EXCEPT !.status = "cancelling"] \in Row
  BY Zenon, RowChange DEF TypeOK, TaskStatus
<1> QED BY <1>1 DEF CancelRows, TypeOK

LEMMA RaiseType ==
  ASSUME TypeOK, NEW j \in jobs, Raise(j)
  PROVE  /\ runStatus' \in RunStatus /\ row' \in [AttemptIds -> Row]
         /\ jobs' \subseteq Job
         /\ handler' \in [kind: Kinds, phase: Phases]
         /\ up' \in BOOLEAN /\ loop' \in BOOLEAN /\ leaked' \in BOOLEAN
         /\ failing' \in BOOLEAN
<1>1. \A k \in jobs : [k EXCEPT !.orphan = TRUE] \in Job
  BY DEF TypeOK, Job
<1>2. jobs' \subseteq Job
  BY <1>1 DEF Raise, TypeOK, Drop
<1>3. handler' \in [kind: Kinds, phase: Phases]
  BY DEF Raise, TypeOK, Calm, Idle, Kinds, Phases
<1>4. loop' \in BOOLEAN /\ leaked' \in BOOLEAN /\ failing' \in BOOLEAN
  BY DEF Raise, TypeOK, Calm
<1> QED BY <1>2, <1>3, <1>4 DEF Raise, TypeOK, Calm

LEMMA EffectType ==
  ASSUME TypeOK, NEW j \in jobs, Effect(j), UNCHANGED <<overdue, rested>>
  PROVE  TypeOK'
<1>1. j \in Job
  BY DEF TypeOK
<1>2. \A r \in Row : [row EXCEPT ![j.id] = r] \in [AttemptIds -> Row]
  BY <1>1, JobFields DEF TypeOK
<1>3. \A pc \in Calls, r \in Row :
        [j EXCEPT !.pc = pc, !.reply = "none", !.mem = r] \in Job
  BY <1>1 DEF Job, Reply
<1>4. j.mem \in Row /\ j.id \in AttemptIds
  BY <1>1, JobFields
<1>5. artifacts' \subseteq AttemptIds
  BY <1>4 DEF Effect, TypeOK
<1>6. CASE Raise(j)
  BY <1>5, <1>6, RaiseType DEF Effect, TypeOK
<1>7. CASE Ends(j) \/ SavesAndEnds(j)
  BY <1>2, <1>5, <1>7 DEF Effect, TypeOK, Ends, SavesAndEnds, Save, Drop, Calm
<1>8. CASE Goes(j) \/ SavesAndGoes(j)
  <2>1. PICK pc \in Calls, r \in Row : Continue(j, pc, r)
    BY <1>4, <1>8 DEF Goes, SavesAndGoes
  <2>2. jobs' \subseteq Job
    BY Zenon, <1>3, <2>1 DEF TypeOK, Continue
  <2>3. row' \in [AttemptIds -> Row]
    BY <1>2, <1>8 DEF TypeOK, Goes, SavesAndGoes, Save
  <2> QED
    BY <1>5, <1>8, <2>2, <2>3 DEF Effect, TypeOK, Goes, SavesAndGoes, Calm
<1> QED BY <1>6, <1>7, <1>8 DEF Effect

(* The handlers.                                                           *)
LEMMA UserType ==
  ASSUME TypeOK, User
  PROVE  TypeOK'
<1>1. CASE Start
  <2>1. "start" \in Kinds /\ jobs \subseteq Job /\ row \in [AttemptIds -> Row]
    BY DEF Kinds, TypeOK
  <2>2. OpenReconcile("start", row)
    BY <1>1 DEF Start
  <2> QED BY <1>1, <2>1, <2>2, OpenReconcileType DEF Start, TypeOK, RunStatus, clock
<1>2. CASE Pause
  BY <1>2 DEF Pause, TypeOK, RunStatus, clock
<1>3. CASE Resume
  <2>1. "step" \in Kinds /\ jobs \subseteq Job
    BY DEF Kinds, TypeOK
  <2>2. CASE OpenReconcile("step", Restored) /\ loop' = loop
    BY <1>3, <2>1, <2>2, RestoredType, OpenReconcileType
       DEF Resume, TypeOK, RunStatus, clock, EnsureLoop
  <2>3. CASE row' \in {row, Restored} /\ UNCHANGED <<jobs, handler>> /\ EnsureLoop
    BY <1>3, <2>3, RestoredType DEF Resume, TypeOK, RunStatus, clock, EnsureLoop
  <2> QED BY <1>3, <2>2, <2>3 DEF Resume
<1>4. CASE Cancel
  <2>1. row' \in [AttemptIds -> Row]
    BY <1>4, CancelRowsType DEF Cancel
  <2>2. \A a \in LatestIds(latest) : NewJob(a, "cancel", row'[a]) \in Job
    BY <2>1, NewJobType, LatestType DEF Calls
  <2>3. jobs' \subseteq Job
    BY <1>4, <2>2 DEF Cancel, TypeOK
  <2> QED
    BY <1>4, <2>1, <2>3 DEF Cancel, TypeOK, RunStatus, Kinds, Phases, clock
<1>5. CASE CancelRaises
  BY <1>5, CancelRowsType DEF CancelRaises, TypeOK, RunStatus, clock
<1>6. ASSUME NEW t \in Tasks, RetryTask(t)
      PROVE  TypeOK'
  <2>1. latest[t] \in 1..(MaxAttempts[t] - 1) /\ NextAttempt(t)
    BY <1>6 DEF RetryTask, MayRetry, NextAttempt
  <2> QED
    BY Zenon, <1>6, <2>1, NextAttemptType
       DEF RetryTask, Unblocked, TypeOK, RunStatus, Kinds, Phases, clock
<1>7. ASSUME NEW t \in Tasks, SkipTask(t)
      PROVE  TypeOK'
  <2> DEFINE a == <<t, IF latest[t] = 0 THEN 1 ELSE latest[t]>>
             skipped == [row EXCEPT ![a].status = "skipped"]
  <2>1. a[2] \in 1..MaxAttempts[t]
    BY AttemptsAssumption DEF TypeOK
  <2>2. a \in AttemptIds
    BY <2>1, AttemptIdsDef
  <2>3. skipped \in [AttemptIds -> Row]
    BY Zenon, <2>2, RowChange DEF TypeOK, TaskStatus
  <2>4. latest' = [latest EXCEPT ![t] = a[2]]
    BY <1>7 DEF SkipTask
  <2>5. latest' \in [Tasks -> Nat] /\ \A u \in Tasks : latest'[u] <= MaxAttempts[u]
    BY <2>1, <2>4, LatestUpdate
  <2>6. CASE OpenReconcile("step", skipped) /\ loop' = loop
    <3>1. "step" \in Kinds /\ jobs \subseteq Job
      BY DEF Kinds, TypeOK
    <3> QED
      BY <1>7, <2>3, <2>5, <2>6, <3>1, OpenReconcileType
         DEF SkipTask, Unblocked, TypeOK, RunStatus, clock
  <2>7. CASE row' = skipped /\ EnsureLoop /\ UNCHANGED <<jobs, handler>>
    BY <1>7, <2>3, <2>5, <2>7
       DEF SkipTask, Unblocked, TypeOK, RunStatus, clock, EnsureLoop
  <2> QED BY <1>7, <2>6, <2>7 DEF SkipTask
<1> QED BY <1>1, <1>2, <1>3, <1>4, <1>5, <1>6, <1>7 DEF User

LEMMA EndHandlerType ==
  ASSUME TypeOK, EndHandler
  PROVE  handler' \in [kind: Kinds, phase: Phases] /\ loop' \in BOOLEAN
<1>1. CASE handler.kind = "recover_restored"
  <2>1. handler' = [kind |-> "recover", phase |-> "again"] /\ loop' = loop
    BY <1>1 DEF EndHandler
  <2> QED BY <2>1 DEF TypeOK, Kinds, Phases
<1>2. CASE handler.kind # "recover_restored"
  <2>1. handler' = Idle /\ loop' = (runStatus' \notin ManagerTerminalRuns)
    BY <1>2 DEF EndHandler, Release, EnsureLoop
  <2> QED BY <2>1 DEF Idle, Kinds, Phases
<1> QED BY <1>1, <1>2

LEMMA PhaseType ==
  ASSUME TypeOK, Phase
  PROVE  TypeOK'
<1>1. CASE FinishReconcile
  <2>1. handler' \in [kind: Kinds, phase: Phases] /\ loop' \in BOOLEAN
    BY <1>1, EndHandlerType DEF FinishReconcile, TypeOK, Phases
  <2> QED
    BY <1>1, <2>1 DEF FinishReconcile, SettleCancellation, TypeOK, RunStatus, clock
<1>2. CASE DispatchReady
  <2> DEFINE ids == {<<t, latest'[t]>> : t \in ReadyTasks}
  <2>1. /\ latest' = [t \in Tasks |-> IF t \in ReadyTasks /\ latest[t] = 0
                                      THEN 1 ELSE latest[t]]
        /\ row' = [a \in AttemptIds |-> IF a \in ids
                                        THEN [row[a] EXCEPT !.status = "ready"]
                                        ELSE row[a]]
        /\ jobs' = jobs \cup {NewJob(a, "place", row'[a]) : a \in ids}
    BY <1>2 DEF DispatchReady
  <2>2. \A t \in Tasks : /\ latest'[t] \in Nat
                         /\ latest'[t] <= MaxAttempts[t]
                         /\ t \in ReadyTasks => latest'[t] \in 1..MaxAttempts[t]
    BY <2>1, AttemptsAssumption DEF TypeOK
  <2>3. \A t \in ReadyTasks : t \in Tasks
    BY DEF ReadyTasks
  <2>4. ids \subseteq AttemptIds
    BY <2>2, <2>3, AttemptIdsDef
  <2>5. \A a \in AttemptIds : [row[a] EXCEPT !.status = "ready"] \in Row
    BY Zenon, RowChange DEF TypeOK, TaskStatus
  <2>6. row' \in [AttemptIds -> Row]
    BY <2>1, <2>5 DEF TypeOK
  <2>7. \A a \in ids : NewJob(a, "place", row'[a]) \in Job
    BY <2>4, <2>6, NewJobType
  <2>8. jobs' \subseteq Job
    BY <2>1, <2>7 DEF TypeOK
  <2>9. latest' \in [Tasks -> Nat]
    BY <2>1, <2>2
  <2> QED
    BY Zenon, <1>2, <2>2, <2>6, <2>8, <2>9 DEF DispatchReady, TypeOK, Phases, clock
<1>3. CASE FinishDispatch
  BY <1>3, EndHandlerType DEF FinishDispatch, SettledStatus, TypeOK, RunStatus, clock
<1>4. CASE FinishRetry
  BY <1>4 DEF FinishRetry, Release, EnsureLoop, Idle, TypeOK, Kinds, Phases, clock
<1>5. CASE FinishCancel
  BY <1>5 DEF FinishCancel, SettleCancellation, Release, EnsureLoop, Idle, TypeOK,
              RunStatus, Kinds, Phases, clock
<1>6. CASE RecoverAgain
  <2>1. CASE OpenReconcile("recover", row) /\ loop' = loop
    <3>1. "recover" \in Kinds /\ jobs \subseteq Job /\ row \in [AttemptIds -> Row]
      BY DEF Kinds, TypeOK
    <3> QED BY <1>6, <2>1, <3>1, OpenReconcileType DEF RecoverAgain, TypeOK, clock
  <2>2. CASE Release /\ UNCHANGED <<row, jobs>>
    BY <1>6, <2>2 DEF RecoverAgain, Release, EnsureLoop, Idle, TypeOK, Kinds, Phases, clock
  <2> QED BY <1>6, <2>1, <2>2 DEF RecoverAgain
<1>7. CASE StartFailed
  BY <1>7 DEF StartFailed, TypeOK, RunStatus, clock
<1>8. ASSUME NEW t \in Tasks, RetryDue(t)
      PROVE  TypeOK'
  <2>1. latest[t] \in 1..(MaxAttempts[t] - 1) /\ NextAttempt(t)
    BY <1>8 DEF RetryDue, DueRetries, NextAttempt
  <2> QED BY <1>8, <2>1, NextAttemptType DEF RetryDue, TypeOK, clock
<1> QED BY <1>1, <1>2, <1>3, <1>4, <1>5, <1>6, <1>7, <1>8 DEF Phase

(* The nodes.                                                              *)
LEMMA ServedType ==
  ASSUME NEW pc \in Calls, NEW s \in RemoteStatus, NEW o \in Served(pc, s)
  PROVE  o[1] \in RemoteStatus /\ o[2] \in Reply
BY DEF Served, Report, Unconfirmed, RemoteStatus, Reported, Reply, Calls

LEMMA ReachType ==
  ASSUME TypeOK, NEW j \in jobs, j.mem.node \in Nodes, NEW o, NEW reply \in Reply,
         o[1] \in RemoteStatus, Reach(j, o, reply)
  PROVE  jobs' \subseteq Job /\ remote' \in [AttemptIds -> [Nodes -> RemoteStatus]]
<1>1. j \in Job
  BY DEF TypeOK
<1>2. [j EXCEPT !.reply = reply] \in Job
  BY <1>1 DEF Job
<1>3. j.id \in AttemptIds
  BY <1>1, JobFields
<1>4. jobs' \subseteq Job
  BY <1>2 DEF Reach, TypeOK
<1>5. [remote[j.id] EXCEPT ![j.mem.node] = o[1]] \in [Nodes -> RemoteStatus]
  BY <1>3 DEF TypeOK
<1>6. remote' = [remote EXCEPT ![j.id] = [remote[j.id] EXCEPT ![j.mem.node] = o[1]]]
  BY DEF Reach
<1> QED BY <1>3, <1>4, <1>5, <1>6 DEF TypeOK

LEMMA NodeType ==
  ASSUME TypeOK, NEW j \in jobs, NodeServes(j) \/ CallFails(j)
  PROVE  TypeOK'
<1>1. j.id \in AttemptIds /\ j.pc \in Calls /\ j.mem.node \in Nodes
  BY JobFields DEF TypeOK, NodeServes, CallFails, Waiting
<1>2. remote[j.id][j.mem.node] \in RemoteStatus
  BY <1>1 DEF TypeOK
<1>3. jobs' \subseteq Job /\ remote' \in [AttemptIds -> [Nodes -> RemoteStatus]]
  <2>1. CASE NodeServes(j)
    <3>1. PICK o \in Served(j.pc, remote[j.id][j.mem.node]) : Reach(j, o, o[2])
      BY <2>1 DEF NodeServes
    <3> QED BY <1>1, <1>2, <3>1, ServedType, ReachType
  <2>2. CASE CallFails(j)
    <3>1. CASE \E e \in Errors : Reach(j, <<remote[j.id][j.mem.node], e>>, e)
      <4>1. PICK e \in Errors : Reach(j, <<remote[j.id][j.mem.node], e>>, e)
        BY <3>1
      <4>2. e \in Reply
        BY DEF Errors, Reply
      <4> QED BY <1>1, <1>2, <4>1, <4>2, ReachType
    <3>2. CASE \E o \in Served(j.pc, remote[j.id][j.mem.node]) : Reach(j, o, "unreachable")
      <4>1. PICK o \in Served(j.pc, remote[j.id][j.mem.node]) : Reach(j, o, "unreachable")
        BY <3>2
      <4>2. "unreachable" \in Reply
        BY DEF Reply
      <4> QED BY <1>1, <1>2, <4>1, <4>2, ServedType, ReachType
    <3> QED BY <2>2, <3>1, <3>2 DEF CallFails
  <2> QED BY <2>1, <2>2
<1>4. faults' \in 0..MaxFaults
  BY BoundsAssumption DEF NodeServes, CallFails, TypeOK
<1> QED BY <1>3, <1>4 DEF NodeServes, CallFails, TypeOK, clock

LEMMA WorldType ==
  ASSUME TypeOK, NEW a \in AttemptIds,
         (\E n \in Nodes : RemoteFinishes(a, n)) \/ TimeoutPasses(a) \/ DelayPasses(a)
  PROVE  TypeOK'
<1>1. ASSUME NEW n \in Nodes, RemoteFinishes(a, n)
      PROVE  TypeOK'
  <2>1. PICK s \in RemoteStatus : remote' = [remote EXCEPT ![a][n] = s]
    BY <1>1 DEF RemoteFinishes, Progress, Outcomes, RemoteStatus, Reported
  <2>2. [remote[a] EXCEPT ![n] = s] \in [Nodes -> RemoteStatus]
    BY DEF TypeOK
  <2>3. remote' = [remote EXCEPT ![a] = [remote[a] EXCEPT ![n] = s]]
    BY <2>1
  <2>4. remote' \in [AttemptIds -> [Nodes -> RemoteStatus]]
    BY <2>2, <2>3 DEF TypeOK
  <2> QED BY <1>1, <2>4 DEF RemoteFinishes, TypeOK, clock
<1>2. CASE TimeoutPasses(a)
  BY <1>2 DEF TimeoutPasses, TypeOK
<1>3. CASE DelayPasses(a)
  BY <1>3 DEF DelayPasses, TypeOK
<1> QED BY <1>1, <1>2, <1>3

LEMMA ProcessType ==
  ASSUME TypeOK, Tick \/ Crash \/ CrashInCancel \/ Restart
  PROVE  TypeOK'
<1>1. CASE Tick
  <2>1. "tick" \in Kinds /\ jobs \subseteq Job /\ row \in [AttemptIds -> Row]
    BY DEF Kinds, TypeOK
  <2> QED BY <1>1, <2>1, OpenReconcileType DEF Tick, TypeOK, clock
<1>2. ASSUME Die
      PROVE  /\ crashes' \in 0..MaxCrashes /\ up' \in BOOLEAN /\ loop' \in BOOLEAN
             /\ failing' \in BOOLEAN /\ jobs' \subseteq Job
             /\ handler' \in [kind: Kinds, phase: Phases]
  <2>1. crashes' \in 0..MaxCrashes
    BY <1>2, BoundsAssumption DEF Die, TypeOK
  <2>2. Idle \in [kind: Kinds, phase: Phases]
    BY DEF Idle, Kinds, Phases
  <2> QED BY <1>2, <2>1, <2>2 DEF Die
<1>3. CASE Crash
  BY <1>2, <1>3 DEF Crash, TypeOK, clock
<1>4. CASE CrashInCancel
  BY <1>2, <1>4, CancelRowsType DEF CrashInCancel, TypeOK, RunStatus, clock
<1>5. CASE Restart
  <2>1. /\ "recover" \in Kinds /\ "recover_restored" \in Kinds
        /\ jobs \subseteq Job /\ row \in [AttemptIds -> Row]
    BY DEF Kinds, TypeOK
  <2>2. CASE UNCHANGED <<runStatus, row, jobs, handler>>
    BY <1>5, <2>2 DEF Restart, TypeOK, clock
  <2>3. CASE runStatus' = "running" /\ OpenReconcile("recover_restored", Restored)
    BY <1>5, <2>1, <2>3, RestoredType, OpenReconcileType
       DEF Restart, TypeOK, RunStatus, clock
  <2>4. CASE runStatus' = runStatus /\ OpenReconcile("recover", row)
    BY <1>5, <2>1, <2>4, OpenReconcileType DEF Restart, TypeOK, clock
  <2> QED BY <1>5, <2>2, <2>3, <2>4 DEF Restart
<1> QED BY <1>1, <1>3, <1>4, <1>5

LEMMA TypeInit ==
  ASSUME Init
  PROVE  TypeOK
<1>1. NewRow \in Row
  BY DEF NewRow, Row, TaskStatus
<1>2. latest \in [Tasks -> Nat] /\ \A t \in Tasks : latest[t] <= MaxAttempts[t]
  BY AttemptsAssumption DEF Init
<1>3. remote \in [AttemptIds -> [Nodes -> RemoteStatus]]
  BY DEF Init, RemoteStatus
<1>4. handler \in [kind: Kinds, phase: Phases]
  BY DEF Init, Idle, Kinds, Phases
<1>5. crashes \in 0..MaxCrashes /\ faults \in 0..MaxFaults
  BY BoundsAssumption DEF Init
<1>6. runStatus \in RunStatus
  BY DEF Init, RunStatus
<1> QED BY <1>1, <1>2, <1>3, <1>4, <1>5, <1>6 DEF Init, TypeOK

LEMMA TypeStep ==
  ASSUME TypeOK, [Next]_vars
  PROVE  TypeOK'
<1>1. CASE Next
  <2>1. ASSUME NEW j \in jobs, Coroutine(j)
        PROVE  TypeOK'
    <3>1. j \in Job
      BY DEF TypeOK
    <3>2. Effect(j)
      BY <2>1, <3>1, CoroutineEffect
    <3> QED BY <3>2, EffectType DEF Effect, clock
  <2> QED
    BY <1>1, <2>1, UserType, PhaseType, NodeType, WorldType, ProcessType DEF Next
<1>2. CASE UNCHANGED vars
  BY <1>2 DEF vars, TypeOK
<1> QED BY <1>1, <1>2

(* Every variable keeps its type: no attempt beyond the retry policy's      *)
(* max_attempts, no coroutine of an attempt that does not exist.           *)
THEOREM TypeCorrect == Spec => []TypeOK
<1>1. Init => TypeOK
  BY TypeInit
<1>2. TypeOK /\ [Next]_vars => TypeOK'
  BY TypeStep
<1> QED BY <1>1, <1>2, PTL DEF Spec
-----------------------------------------------------------------------------
(* The step lock.                                                          *)

(* An attempt is followed by another one only from a status that a retry   *)
(* accepts.                                                                *)
Superseded ==
  ~leaked => \A a \in AttemptIds :
               a[2] < latest[a[1]] => row[a].status \in ManualRetryTasks

Discipline ==
  /\ ~up => jobs = {} /\ handler = Idle
  /\ handler = Idle \/ handler.phase = "again" => Held = {}
  /\ ~leaked => \A j \in jobs : ~j.orphan /\ j.id \in LatestIds(latest)
  /\ NoLostUpdate
  /\ Superseded

LockInv == TypeOK /\ Discipline

(* The rows of attempts that are not their task's last stay as they are;   *)
(* an attempt is superseded only from a status that a retry accepts.       *)
Turns ==
  \A a \in AttemptIds :
    a[2] < latest'[a[1]] =>
      /\ row'[a] = row[a]
      /\ a[2] < latest[a[1]] \/ row[a].status \in ManualRetryTasks

(* The coroutines that a handler's step begins.                            *)
Fresh(New) ==
  /\ \A k \in New : ~k.orphan /\ k.mem = row'[k.id] /\ k.id \in LatestIds(latest')
  /\ \A i, k \in New : i.id = k.id => i = k

Begins(New) ==
  /\ jobs' = jobs \cup New
  /\ Fresh(New)
  /\ New # {} => handler' # Idle /\ handler'.phase # "again"

Handles ==
  /\ Held = {}
  /\ leaked' = leaked
  /\ up' = TRUE
  /\ Turns
  /\ \E New : Begins(New)

-----------------------------------------------------------------------------
(* The kinds of step keep the discipline.                                  *)

LEMMA HandlesKeeps ==
  ASSUME LockInv, Handles
  PROVE  Discipline'
<1>1. PICK New : Begins(New)
  BY DEF Handles
<1>2. ~leaked => jobs = {}
  BY DEF Handles, LockInv, Discipline, Held
<1>3. (~up => jobs = {} /\ handler = Idle)'
  BY DEF Handles
<1>4. (handler = Idle \/ handler.phase = "again" => Held = {})'
  BY <1>1 DEF Handles, Begins, Held
<1>5. (~leaked => \A j \in jobs : ~j.orphan /\ j.id \in LatestIds(latest))'
  BY <1>1, <1>2 DEF Handles, Begins, Fresh
<1>6. NoLostUpdate'
  BY <1>1, <1>2 DEF Handles, Begins, Fresh, NoLostUpdate
<1>7. Superseded'
  BY DEF Handles, Turns, LockInv, Discipline, Superseded
<1> QED BY <1>3, <1>4, <1>5, <1>6, <1>7 DEF Discipline

LEMMA EffectKeeps ==
  ASSUME LockInv, NEW j \in jobs, Effect(j), up = TRUE
  PROVE  Discipline'
<1>1. j \in Job /\ j.id \in AttemptIds /\ row \in [AttemptIds -> Row]
  BY JobFields DEF LockInv, TypeOK
<1>2. latest' = latest
  BY DEF Effect
<1>3. CASE Raise(j)
  <2>1. row' = row
    BY <1>3 DEF Raise
  <2>2. ~leaked' => ~leaked /\ jobs' = {}
    BY <1>3 DEF Raise, Calm, LockInv, Discipline, Held
  <2>3. (~up => jobs = {} /\ handler = Idle)'
    BY <1>3 DEF Raise, Calm
  <2>4. (handler = Idle \/ handler.phase = "again" => Held = {})'
    <3>1. CASE j.orphan
      BY <1>3, <3>1 DEF Raise, Calm, Drop, Held, LockInv, Discipline
    <3>2. CASE ~j.orphan
      <4>1. \A k \in jobs : [k EXCEPT !.orphan = TRUE].orphan = TRUE
        BY DEF LockInv, TypeOK, Job
      <4> QED BY <1>3, <3>2, <4>1 DEF Raise, Held
    <3> QED BY <3>1, <3>2
  <2>5. Superseded'
    BY <1>2, <2>1, <2>2 DEF Superseded, LockInv, Discipline
  <2> QED BY <2>2, <2>3, <2>4, <2>5 DEF Discipline, NoLostUpdate
<1>4. CASE Ends(j) \/ Goes(j) \/ SavesAndEnds(j) \/ SavesAndGoes(j)
  <2>1. UNCHANGED <<handler, up, leaked>>
    BY <1>4 DEF Ends, Goes, SavesAndEnds, SavesAndGoes, Calm
  <2>2. \A a \in AttemptIds : a # j.id => row'[a] = row[a]
    BY <1>1, <1>4 DEF Ends, Goes, SavesAndEnds, SavesAndGoes, Save
  <2>3. \/ jobs' = jobs \ {j}
        \/ \E k : /\ jobs' = (jobs \ {j}) \cup {k}
                  /\ k.id = j.id /\ k.orphan = j.orphan
                  /\ k.mem = row'[k.id] \/ (row' = row /\ k.mem = j.mem)
    <3>1. CASE Ends(j) \/ SavesAndEnds(j)
      BY <3>1 DEF Ends, SavesAndEnds, Drop
    <3>2. CASE Goes(j)
      <4>1. PICK pc \in Calls : row' = row /\ Continue(j, pc, j.mem)
        BY <3>2 DEF Goes
      <4> DEFINE k == [j EXCEPT !.pc = pc, !.reply = "none", !.mem = j.mem]
      <4>2. k.id = j.id /\ k.orphan = j.orphan /\ k.mem = j.mem
        BY <1>1 DEF Job
      <4> QED BY <4>1, <4>2 DEF Continue
    <3>3. CASE SavesAndGoes(j)
      <4>1. PICK r \in Row, pc \in Calls : Save(j, r) /\ Continue(j, pc, r)
        BY <3>3 DEF SavesAndGoes
      <4> DEFINE k == [j EXCEPT !.pc = pc, !.reply = "none", !.mem = r]
      <4>2. k.id = j.id /\ k.orphan = j.orphan /\ k.mem = r
        BY <1>1 DEF Job
      <4>3. row'[j.id] = r
        BY <1>1, <4>1 DEF Save
      <4> QED BY <4>1, <4>2, <4>3 DEF Continue
    <3> QED BY <1>4, <3>1, <3>2, <3>3
  <2>4. (~up => jobs = {} /\ handler = Idle)'
    BY <2>1
  <2>5. (handler = Idle \/ handler.phase = "again" => Held = {})'
    BY <2>1, <2>3 DEF Held, LockInv, Discipline
  <2>6. (~leaked => \A k \in jobs : ~k.orphan /\ k.id \in LatestIds(latest))'
    BY <1>2, <2>1, <2>3 DEF LockInv, Discipline
  <2>7. NoLostUpdate'
    BY <1>1, <2>1, <2>2, <2>3, JobFields DEF NoLostUpdate, LockInv, Discipline, TypeOK
  <2>8. Superseded'
    <3>1. ~leaked => j.id \in LatestIds(latest)
      BY DEF LockInv, Discipline
    <3>2. j.id \in LatestIds(latest) => ~(j.id[2] < latest[j.id[1]])
      BY AttemptIdsDef DEF LatestIds, LockInv, TypeOK
    <3> QED BY <1>2, <2>1, <2>2, <3>1, <3>2 DEF Superseded, LockInv, Discipline
  <2> QED BY <2>4, <2>5, <2>6, <2>7, <2>8 DEF Discipline
<1> QED BY <1>3, <1>4 DEF Effect

LEMMA AnswerKeeps ==
  ASSUME LockInv, NEW j \in jobs, NodeServes(j) \/ CallFails(j)
  PROVE  Discipline'
<1>1. PICK reply : jobs' = (jobs \ {j}) \cup {[j EXCEPT !.reply = reply]}
  BY DEF NodeServes, CallFails, Reach
<1> DEFINE k == [j EXCEPT !.reply = reply]
<1>2. k.id = j.id /\ k.mem = j.mem /\ k.orphan = j.orphan
  BY DEF LockInv, TypeOK, Job
<1>3. UNCHANGED <<latest, row, handler, up, leaked>> /\ up
  BY DEF NodeServes, CallFails, Waiting
<1> HIDE DEF k
<1>4. jobs' = (jobs \ {j}) \cup {k}
  BY <1>1 DEF k
<1>5. (handler = Idle \/ handler.phase = "again" => Held = {})'
  BY <1>2, <1>3, <1>4 DEF Held, LockInv, Discipline
<1>6. NoLostUpdate'
  BY <1>2, <1>3, <1>4 DEF NoLostUpdate, LockInv, Discipline
<1> QED
  BY <1>2, <1>3, <1>4, <1>5, <1>6 DEF LockInv, Discipline, Superseded

-----------------------------------------------------------------------------
(* The steps of the handlers are of the kind Handles.                      *)

(* A handler that begins nothing, and one that opens with a gather.        *)
LEMMA Quiet ==
  ASSUME jobs' = jobs
  PROVE  \E New : Begins(New)
<1>1. Begins({})
  BY DEF Begins, Fresh
<1> QED BY <1>1

LEMMA NewJobFields ==
  ASSUME NEW a, NEW pc, NEW r
  PROVE  /\ NewJob(a, pc, r).id = a
         /\ NewJob(a, pc, r).mem = r
         /\ ~NewJob(a, pc, r).orphan
BY DEF NewJob

LEMMA Opens ==
  ASSUME NEW kind \in Kinds, NEW rw, OpenReconcile(kind, rw)
  PROVE  \E New : Begins(New)
<1> DEFINE pc(a) == IF rw[a].status = "running" /\ rw[a].started /\ a \in overdue
                    THEN "timeout" ELSE "get"
           New == {NewJob(a, pc(a), rw[a]) :
                     a \in {b \in LatestIds(latest') : rw[b].status \in ActiveTasks}}
<1>1. jobs' = jobs \cup New /\ row' = rw
  BY DEF OpenReconcile
<1>2. \A k \in New : \E a \in LatestIds(latest') : k = NewJob(a, pc(a), rw[a])
  OBVIOUS
<1>3. Fresh(New)
  BY <1>1, <1>2, NewJobFields DEF Fresh
<1>4. handler' # Idle /\ handler'.phase # "again"
  BY DEF OpenReconcile, Idle
<1> QED BY <1>1, <1>3, <1>4 DEF Begins

(* Without a new attempt, only the rows of latest attempts may change.     *)
LEMMA SameAttempts ==
  ASSUME TypeOK, latest' = latest,
         \A a \in AttemptIds : a \notin LatestIds(latest) => row'[a] = row[a]
  PROVE  Turns
<1>1. \A a \in AttemptIds : a[2] < latest[a[1]] => a \notin LatestIds(latest)
  BY AttemptIdsDef DEF LatestIds, TypeOK
<1> QED BY <1>1 DEF Turns

LEMMA RestoredRows ==
  ASSUME row' \in {row, Restored}
  PROVE  \A a \in AttemptIds : a \notin LatestIds(latest) => row'[a] = row[a]
BY Zenon DEF Restored, TransientBlocked

LEMMA CancelledRows ==
  ASSUME NEW S \in SUBSET LatestIds(latest), row' = CancelRows(S)
  PROVE  \A a \in AttemptIds : a \notin LatestIds(latest) => row'[a] = row[a]
BY DEF CancelRows

LEMMA NextAttemptHandles ==
  ASSUME TypeOK, NEW t \in Tasks, latest[t] \in 1..(MaxAttempts[t] - 1),
         row[LatestOf(t)].status \in ManualRetryTasks, NextAttempt(t),
         handler' # Idle, handler'.phase # "again"
  PROVE  Turns /\ \E New : Begins(New)
<1> DEFINE a == <<t, latest[t] + 1>>
           r == [NewRow EXCEPT !.status = "ready"]
           k == NewJob(a, "place", r)
<1>1. MaxAttempts[t] \in Nat /\ latest[t] + 1 \in 1..MaxAttempts[t]
  BY AttemptsAssumption
<1>2. a \in AttemptIds
  BY <1>1, AttemptIdsDef
<1>3. /\ latest' = [latest EXCEPT ![t] = latest[t] + 1]
      /\ row' = [row EXCEPT ![a] = r]
      /\ jobs' = jobs \cup {k}
  BY DEF NextAttempt
<1>4. latest'[t] = latest[t] + 1 /\ \A u \in Tasks \ {t} : latest'[u] = latest[u]
  BY <1>3 DEF TypeOK
<1>5. Turns
  <2> SUFFICES ASSUME NEW b \in AttemptIds, b[2] < latest'[b[1]]
               PROVE  /\ row'[b] = row[b]
                      /\ b[2] < latest[b[1]] \/ row[b].status \in ManualRetryTasks
    BY DEF Turns
  <2> PICK u \in Tasks : \E n \in 1..MaxAttempts[u] : b = <<u, n>>
    BY AttemptIdsDef
  <2>1. PICK n \in 1..MaxAttempts[u] : b = <<u, n>>
    OBVIOUS
  <2>2. n \in Nat /\ latest[u] \in Nat /\ n < latest'[u]
    BY <2>1 DEF TypeOK
  <2>3. b # a
    BY <1>4, <2>1, <2>2
  <2>4. row'[b] = row[b]
    BY <1>3, <2>3 DEF TypeOK
  <2>5. n < latest[u] \/ (u = t /\ n = latest[t])
    BY <1>4, <2>2
  <2> QED BY <2>1, <2>4, <2>5 DEF LatestOf
<1>6. row'[a] = r
  BY <1>2, <1>3 DEF TypeOK
<1>7. a \in LatestIds(latest')
  BY <1>2, <1>4 DEF LatestIds
<1>8. Fresh({k})
  BY <1>6, <1>7 DEF Fresh, NewJob
<1>9. Begins({k})
  BY <1>3, <1>8 DEF Begins
<1> QED BY <1>5, <1>9

LEMMA FreeHoldsNothing ==
  ASSUME LockInv, Free
  PROVE  Held = {} /\ up = TRUE
BY DEF LockInv, Discipline, Free, TypeOK

LEMMA UserHandles ==
  ASSUME LockInv, User
  PROVE  Handles
<1>1. Free
  BY DEF User, Start, Pause, Resume, Cancel, CancelRaises, MayCancel, RetryTask, SkipTask
<1>2. Held = {} /\ up = TRUE /\ TypeOK
  BY <1>1, FreeHoldsNothing DEF LockInv
<1>3. CASE Start
  <2>1. Turns
    BY <1>2, <1>3, SameAttempts DEF Start, OpenReconcile
  <2>2. \E New : Begins(New)
    BY <1>3, Opens DEF Start, Kinds
  <2> QED BY <1>2, <1>3, <2>1, <2>2 DEF Handles, Start
<1>4. CASE Pause
  <2>1. Turns
    BY <1>2, <1>4, SameAttempts DEF Pause
  <2> QED BY <1>2, <1>4, <2>1, Quiet DEF Handles, Pause
<1>5. CASE Resume
  <2>1. latest' = latest /\ row' \in {row, Restored}
    BY <1>5 DEF Resume, OpenReconcile
  <2>2. Turns
    BY <1>2, <2>1, SameAttempts, RestoredRows
  <2>3. \E New : Begins(New)
    BY <1>5, Opens, Quiet DEF Resume, Kinds
  <2> QED BY <1>2, <1>5, <2>2, <2>3 DEF Handles, Resume
<1>6. CASE Cancel
  <2> DEFINE New == {NewJob(a, "cancel", row'[a]) :
                       a \in {b \in LatestIds(latest) : row[b].status \in ActiveTasks}}
  <2>1. /\ latest' = latest /\ row' = CancelRows(LatestIds(latest))
        /\ jobs' = jobs \cup New
        /\ handler' = [kind |-> "cancel", phase |-> "cancel"]
    BY <1>6 DEF Cancel
  <2>2. Turns
    BY <1>2, <2>1, SameAttempts, CancelledRows
  <2>3. \A k \in New : \E a \in LatestIds(latest) : k = NewJob(a, "cancel", row'[a])
    OBVIOUS
  <2>4. Fresh(New)
    BY <2>1, <2>3, NewJobFields DEF Fresh
  <2>5. handler' # Idle /\ handler'.phase # "again"
    BY <2>1 DEF Idle
  <2>6. Begins(New)
    BY <2>1, <2>4, <2>5 DEF Begins
  <2> QED BY <1>2, <1>6, <2>2, <2>6 DEF Handles, Cancel
<1>7. CASE CancelRaises
  <2>1. PICK S \in SUBSET LatestIds(latest) : row' = CancelRows(S)
    BY <1>7 DEF CancelRaises
  <2>2. Turns
    BY <1>2, <1>7, <2>1, SameAttempts, CancelledRows DEF CancelRaises
  <2> QED BY <1>2, <1>7, <2>2, Quiet DEF Handles, CancelRaises
<1>8. ASSUME NEW t \in Tasks, RetryTask(t)
      PROVE  Handles
  <2>1. /\ latest[t] \in 1..(MaxAttempts[t] - 1)
        /\ row[LatestOf(t)].status \in ManualRetryTasks
        /\ NextAttempt(t)
    BY <1>8 DEF RetryTask, MayRetry, NextAttempt
  <2>2. handler' # Idle /\ handler'.phase # "again"
    BY <1>8 DEF RetryTask, Idle
  <2>3. Turns /\ \E New : Begins(New)
    BY <1>2, <2>1, <2>2, NextAttemptHandles
  <2> QED BY <1>2, <1>8, <2>3 DEF Handles, RetryTask
<1>9. ASSUME NEW t \in Tasks, SkipTask(t)
      PROVE  Handles
  <2> DEFINE n == IF latest[t] = 0 THEN 1 ELSE latest[t]
             a == <<t, n>>
             skipped == [row EXCEPT ![a].status = "skipped"]
  <2>1. latest' = [latest EXCEPT ![t] = n] /\ row' = skipped
    BY <1>9 DEF SkipTask, OpenReconcile
  <2>2. latest[t] \in Nat /\ latest'[t] = n /\ \A u \in Tasks \ {t} : latest'[u] = latest[u]
    BY <1>2, <2>1 DEF TypeOK
  <2>3. Turns
    <3> SUFFICES ASSUME NEW b \in AttemptIds, b[2] < latest'[b[1]]
                 PROVE  row'[b] = row[b] /\ b[2] < latest[b[1]]
      BY DEF Turns
    <3> PICK u \in Tasks : \E m \in 1..MaxAttempts[u] : b = <<u, m>>
      BY AttemptIdsDef
    <3>1. PICK m \in 1..MaxAttempts[u] : b = <<u, m>>
      OBVIOUS
    <3>2. m \in Nat /\ m >= 1 /\ m < latest'[u]
      BY <3>1
    <3>3. m < latest[u] /\ b # a
      BY <2>2, <3>1, <3>2
    <3> QED BY <1>2, <2>1, <3>1, <3>3 DEF TypeOK
  <2>4. \E New : Begins(New)
    BY <1>9, Opens, Quiet DEF SkipTask, Kinds
  <2> QED BY <1>2, <1>9, <2>3, <2>4 DEF Handles, SkipTask
<1> QED BY <1>3, <1>4, <1>5, <1>6, <1>7, <1>8, <1>9 DEF User

LEMMA PhaseHandles ==
  ASSUME LockInv, Phase, ~StartFailed
  PROVE  Handles
<1>1. TypeOK
  BY DEF LockInv
<1>2. ASSUME UNCHANGED <<latest, row, jobs, leaked, up>>, up, Held = {}
      PROVE  Handles
  <2>1. Turns
    BY <1>1, <1>2, SameAttempts
  <2> QED BY <1>1, <1>2, <2>1, Quiet DEF Handles, TypeOK
<1>3. CASE FinishReconcile
  BY <1>2, <1>3 DEF FinishReconcile
<1>4. CASE FinishDispatch \/ FinishRetry \/ FinishCancel
  BY <1>2, <1>4 DEF FinishDispatch, FinishRetry, FinishCancel
<1>5. CASE DispatchReady
  <2> DEFINE ids == {<<t, latest'[t]>> : t \in ReadyTasks}
             New == {NewJob(a, "place", row'[a]) : a \in ids}
  <2>1. /\ Held = {} /\ leaked' = leaked /\ up' = TRUE
        /\ latest' = [t \in Tasks |-> IF t \in ReadyTasks /\ latest[t] = 0
                                      THEN 1 ELSE latest[t]]
        /\ row' = [a \in AttemptIds |-> IF a \in ids
                                        THEN [row[a] EXCEPT !.status = "ready"]
                                        ELSE row[a]]
        /\ jobs' = jobs \cup New
        /\ handler' = [handler EXCEPT !.phase = "dispatch"]
    BY <1>1, <1>5 DEF DispatchReady, TypeOK
  <2>2. \A t \in ReadyTasks : t \in Tasks
    BY DEF ReadyTasks
  <2>3. \A t \in Tasks : /\ latest[t] \in Nat /\ latest'[t] \in Nat
                         /\ t \in ReadyTasks => latest'[t] \in 1..MaxAttempts[t]
                         /\ latest[t] > 0 => latest'[t] = latest[t]
                         /\ latest[t] = 0 => latest'[t] <= 1
    BY <1>1, <2>1, AttemptsAssumption DEF TypeOK
  <2>4. \A a \in ids : a \in LatestIds(latest')
    BY <2>2, <2>3, AttemptIdsDef DEF LatestIds
  <2>5. Turns
    <3> SUFFICES ASSUME NEW b \in AttemptIds, b[2] < latest'[b[1]]
                 PROVE  row'[b] = row[b] /\ b[2] < latest[b[1]]
      BY DEF Turns
    <3> PICK u \in Tasks : \E m \in 1..MaxAttempts[u] : b = <<u, m>>
      BY AttemptIdsDef
    <3>1. PICK m \in 1..MaxAttempts[u] : b = <<u, m>>
      OBVIOUS
    <3>2. m \in Nat /\ m >= 1 /\ m < latest'[u]
      BY <3>1
    <3>3. m < latest[u]
      BY <2>3, <3>2
    <3>4. b \notin ids
      BY <3>1, <3>2
    <3> QED BY <2>1, <3>1, <3>3, <3>4
  <2>6. \A k \in New : \E a \in ids : k = NewJob(a, "place", row'[a])
    OBVIOUS
  <2>7. Fresh(New)
    BY <2>4, <2>6, NewJobFields DEF Fresh
  <2>8. handler' # Idle /\ handler'.phase # "again"
    BY <1>1, <2>1 DEF Idle, TypeOK
  <2>9. Begins(New)
    BY <2>1, <2>7, <2>8 DEF Begins
  <2> QED BY <2>1, <2>5, <2>9 DEF Handles
<1>6. CASE RecoverAgain
  <2>1. /\ Held = {} /\ leaked' = leaked /\ up' = TRUE
        /\ latest' = latest /\ row' = row
    BY <1>1, <1>6 DEF RecoverAgain, OpenReconcile, LockInv, Discipline, TypeOK
  <2>2. Turns
    BY <1>1, <2>1, SameAttempts
  <2>3. \E New : Begins(New)
    BY <1>6, Opens, Quiet DEF RecoverAgain, Kinds
  <2> QED BY <2>1, <2>2, <2>3 DEF Handles
<1>7. ASSUME NEW t \in Tasks, RetryDue(t)
      PROVE  Handles
  <2>1. /\ latest[t] \in 1..(MaxAttempts[t] - 1)
        /\ row[LatestOf(t)].status \in ManualRetryTasks
        /\ NextAttempt(t)
    BY <1>7 DEF RetryDue, DueRetries, NextAttempt, ManualRetryTasks, AutoRetryTasks,
                FailureTasks
  <2>2. handler' # Idle /\ handler'.phase # "again"
    BY <1>7 DEF RetryDue, Idle
  <2>3. Turns /\ \E New : Begins(New)
    BY <1>1, <2>1, <2>2, NextAttemptHandles
  <2> QED BY <1>1, <1>7, <2>3 DEF Handles, RetryDue, TypeOK
<1> QED BY <1>3, <1>4, <1>5, <1>6, <1>7 DEF Phase

LEMMA ProcessKeeps ==
  ASSUME LockInv, Tick \/ Crash \/ CrashInCancel \/ Restart
  PROVE  Discipline'
<1>1. TypeOK
  BY DEF LockInv
<1>2. CASE Tick
  <2>1. Held = {} /\ up = TRUE
    BY <1>2, FreeHoldsNothing DEF Tick
  <2>2. Turns
    BY <1>1, <1>2, SameAttempts DEF Tick, OpenReconcile
  <2>3. \E New : Begins(New)
    BY <1>2, Opens DEF Tick, Kinds
  <2>4. Handles
    BY <1>2, <2>1, <2>2, <2>3 DEF Handles, Tick
  <2> QED BY <2>4, HandlesKeeps
<1>3. CASE Crash \/ CrashInCancel
  <2>1. jobs' = {} /\ handler' = Idle /\ UNCHANGED <<latest, leaked>>
    BY <1>3 DEF Crash, CrashInCancel, Die
  <2>2. \A a \in AttemptIds : a \notin LatestIds(latest) => row'[a] = row[a]
    BY <1>3, CancelledRows DEF Crash, CrashInCancel
  <2>3. Turns
    BY <1>1, <2>1, <2>2, SameAttempts
  <2>4. Superseded'
    BY <2>1, <2>3 DEF Turns, Superseded, LockInv, Discipline
  <2> QED BY <2>1, <2>4 DEF Discipline, NoLostUpdate, Held
<1>4. CASE Restart
  <2>1. /\ jobs = {} /\ leaked' = leaked /\ up' = TRUE
        /\ latest' = latest /\ row' \in {row, Restored}
    BY <1>4 DEF Restart, OpenReconcile, LockInv, Discipline
  <2>2. Turns
    BY <1>1, <2>1, SameAttempts, RestoredRows
  <2>3. \E New : Begins(New)
    BY <1>4, Opens, Quiet DEF Restart, Kinds
  <2>4. Handles
    BY <2>1, <2>2, <2>3 DEF Handles, Held
  <2> QED BY <2>4, HandlesKeeps
<1> QED BY <1>2, <1>3, <1>4

-----------------------------------------------------------------------------
LEMMA LockStep ==
  ASSUME LockInv, [Next]_vars
  PROVE  LockInv'
<1>1. TypeOK'
  BY TypeStep DEF LockInv
<1> SUFFICES Discipline'
  BY <1>1 DEF LockInv
<1>2. ASSUME UNCHANGED <<latest, row, jobs, handler, up, leaked>>
      PROVE  Discipline'
  BY <1>2 DEF LockInv, Discipline, Held, LatestIds, NoLostUpdate, Superseded
<1>3. CASE User
  BY <1>3, UserHandles, HandlesKeeps
<1>4. CASE Phase
  <2>1. CASE StartFailed
    BY <1>2, <2>1 DEF StartFailed
  <2>2. CASE ~StartFailed
    BY <1>4, <2>2, PhaseHandles, HandlesKeeps
  <2> QED BY <2>1, <2>2
<1>5. ASSUME NEW j \in jobs, Coroutine(j)
      PROVE  Discipline'
  <2>1. j \in Job
    BY DEF LockInv, TypeOK
  <2>2. Effect(j)
    BY <1>5, <2>1, CoroutineEffect
  <2>3. up = TRUE
    BY <1>5 DEF LockInv, Discipline, TypeOK
  <2> QED BY <2>2, <2>3, EffectKeeps
<1>6. ASSUME NEW j \in jobs, NodeServes(j) \/ CallFails(j)
      PROVE  Discipline'
  BY <1>6, AnswerKeeps
<1>7. ASSUME NEW a \in AttemptIds,
             (\E n \in Nodes : RemoteFinishes(a, n)) \/ TimeoutPasses(a) \/ DelayPasses(a)
      PROVE  Discipline'
  BY <1>2, <1>7 DEF RemoteFinishes, TimeoutPasses, DelayPasses
<1>8. CASE UNCHANGED vars
  BY <1>2, <1>8 DEF vars
<1> QED
  BY <1>3, <1>4, <1>5, <1>6, <1>7, <1>8, ProcessKeeps DEF Next

LEMMA LockInit ==
  ASSUME Init
  PROVE  LockInv
<1>1. \A a \in AttemptIds : ~(a[2] < latest[a[1]])
  BY AttemptIdsDef DEF Init
<1> QED
  BY <1>1, TypeInit DEF Init, LockInv, Discipline, NoLostUpdate, Superseded, Held

LEMMA LockInvariant == Spec => []LockInv
<1>1. Init => LockInv
  BY LockInit
<1>2. LockInv /\ [Next]_vars => LockInv'
  BY LockStep
<1> QED BY <1>1, <1>2, PTL DEF Spec

(* While no coroutine has outlived its handler, each works on the row the   *)
(* database holds, and no two on the same attempt: no save of              *)
(* _reconcile_attempt, _dispatch or _collect overwrites another's.         *)
THEOREM NoUpdateIsLost == Spec => []NoLostUpdate
<1>1. LockInv => NoLostUpdate
  BY DEF LockInv, Discipline
<1> QED BY <1>1, LockInvariant, PTL

=============================================================================
