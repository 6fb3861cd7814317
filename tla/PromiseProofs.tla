--------------------------- MODULE PromiseProofs ---------------------------
(***************************************************************************)
(* How far the promises go that the documents make and the runs refute:    *)
(* that a key creates one remote task, and that a cancelled run has        *)
(* nothing executing on a node.  They hold, for every workflow, every set  *)
(* of nodes and any number of crashes, until the first call is lost or     *)
(* the first coroutine outlives its handler (Undisturbed); and exceptions  *)
(* of the state table and of the UNIQUE column leave coroutines behind for *)
(* two reasons only (RaisesAreKnown).                                      *)
(*                                                                         *)
(* PromiseInv adds to SafeInv what a coroutine knows of its node: what is  *)
(* being collected has been delivered (Gathered); a node that has a record *)
(* is the one the row names (SentOnce); what executes is an attempt that   *)
(* the coordinator holds active (Tracked), since every answer that takes   *)
(* an attempt out of the active ones is true of the node (Answers).        *)
(* With calls lost as well, what is saved as failed or to be reviewed has  *)
(* ended on its node, or had timed out (Spent).                            *)
(***************************************************************************)
EXTENDS RunSafetyProofs

Good     == {"success", "needs_review"}
Tracking == {"dispatching", "running", "cancelling"}

RecordOf(j) == remote[j.id][j.mem.node]

Undisturbed == faults = 0 /\ ~leaked

Gathered ==
  ~leaked =>
    /\ \A a \in AttemptIds :
         row[a].status = "collecting" =>
           row[a].node \in Nodes /\ remote[a][row[a].node] \in Good
    /\ \A j \in jobs : j.pc = "get" =>
         /\ j.reply \in Good => j.mem.node \in Nodes /\ RecordOf(j) \in Good
         /\ j.mem.status = "collecting" => j.reply \in Good \cup Errors \cup {"none"}

NothingLost ==
  /\ \A a \in AttemptIds : /\ ~row[a].transient
                           /\ \A n \in Nodes : remote[a][n] \notin Unconfirmed
  /\ \A j \in jobs : j.reply # "unreachable"

SentOnce ==
  \A a \in AttemptIds, n \in Nodes :
    remote[a][n] # "absent" => row[a].node = n /\ row[a].status \notin Schedulable

Tracked ==
  \A a \in AttemptIds, n \in Nodes : Executing(a, n) => row[a].status \in Tracking

Dispatches(j) ==
  /\ j.pc = "create" => /\ j.mem.node \in Nodes
                        /\ RecordOf(j) = IF j.reply = "none" THEN "absent" ELSE "queued"
  /\ j.pc = "upload" => j.mem.node \in Nodes /\ RecordOf(j) = "queued"

Answers(j) ==
  j.reply # "none" =>
    /\ j.mem.node \in Nodes
    /\ \/ ~Executing(j.id, j.mem.node)
       \/ j.reply = "running" /\ j.pc # "timeout"

Known ==
  /\ NothingLost /\ SentOnce /\ Tracked
  /\ \A j \in jobs : Dispatches(j) /\ Answers(j)

PromiseInv == SafeInv /\ Gathered /\ (Undisturbed => Known)

-----------------------------------------------------------------------------
(* A coroutine: why it raises, or what it knows when it moves on.          *)

Fails(j) ==
  /\ Raise(j)
  /\ \/ j.mem.status = "dispatching"
     \/ j.mem.status = "collecting" /\ PathTaken(j.id)
     \/ /\ j.mem.status = "collecting" /\ j.pc = "get"
        /\ j.reply \notin Good \cup Errors \cup {"none"}
     \/ j.mem.status = "running" /\ j.pc = "get" /\ j.reply = "cancelled"

(* What j knows when it reports the end of an execution.                   *)
Reports(j) ==
  \/ j.pc = "timeout" \/ j.mem.status = "collecting"
  \/ j.pc = "get" /\ j.reply = "failed"

(* The node does not execute the attempt, as far as j knows.               *)
Rests(j) ==
  \/ j.mem.status \notin Tracking
  \/ j.pc = "create" /\ j.reply = "none"
  \/ j.reply \notin {"none", "running"}
  \/ j.pc = "timeout" /\ j.reply # "none"

Follows(j, pc, r) ==
  /\ pc = "create" => j.pc = "place" /\ r.node \in Nodes
  /\ pc = "upload" => j.pc = "create" /\ j.reply # "none" /\ r = j.mem

Moves(j, r) ==
  /\ Calm
  /\ Save(j, r) \/ (r = j.mem /\ row' = row)
  /\ Drop(j) \/ \E pc \in Calls : Continue(j, pc, r) /\ Follows(j, pc, r)
  /\ r.node = j.mem.node \/ (j.pc = "place" /\ r.status = "dispatching")
  /\ r.transient => j.mem.transient \/ j.reply = "unreachable"
  /\ r.status \in Schedulable => r = j.mem
  /\ r.status = "collecting" =>
       j.mem.status = "collecting" \/ (j.pc = "get" /\ j.reply \in Good)
  /\ r.status \notin Tracking => Rests(j)
  /\ r.status \in {"failed", "needs_review"} => Reports(j)

LEMMA SettleMoves ==
  ASSUME NEW j \in Job, NEW status \in TaskStatus \ (Schedulable \cup {"collecting"}),
         NEW transient \in BOOLEAN, Settle(j, status, transient),
         TaskMayBecome(j.mem.status, status),
         transient => j.mem.transient \/ j.reply = "unreachable",
         status \notin Tracking => Rests(j), status \in {"failed", "needs_review"} => Reports(j)
  PROVE  \E r \in Row : Moves(j, r)
<1> DEFINE r == [j.mem EXCEPT !.status = status, !.transient = transient]
<1>1. j.mem \in Row
  BY JobFields
<1>2. r \in Row
  BY Zenon, <1>1, RowChange
<1>3. r.status = status /\ r.node = j.mem.node /\ r.transient = transient
  BY <1>1 DEF Row
<1> HIDE DEF r
<1>4. Save(j, r) /\ Drop(j) /\ Calm
  BY DEF Settle, r
<1> QED BY <1>2, <1>3, <1>4 DEF Moves

LEMMA CoroutineMoves ==
  ASSUME NEW j \in Job, OnCourse(j), Coroutine(j)
  PROVE  Fails(j) \/ \E r \in Row : Moves(j, r)
<1>0. j.mem \in Row /\ j.mem.status \in TaskStatus /\ j.mem.transient \in BOOLEAN
  BY JobFields DEF Row
<1>a. j.mem.status \in StatusAt(j.pc)
  BY DEF OnCourse
<1>b. {"blocked", "failed", "running", "artifact_failed", "cancelled"}
        \subseteq TaskStatus \ (Schedulable \cup {"collecting"})
  BY DEF TaskStatus, Schedulable
<1>c. /\ \A s \in {"ready", "dispatching", "running", "collecting"} :
             TaskMayBecome(s, "blocked")
      /\ TaskMayBecome("running", "failed")
      /\ TaskMayBecome("collecting", "artifact_failed")
      /\ \A s : TaskMayBecome(s, s)
  BY DEF TaskMayBecome, TaskTransitions, TaskStatus
<1>d. ASSUME NEW status, NEW transient, Settle(j, status, transient),
             ~TaskMayBecome(j.mem.status, status)
      PROVE  Raise(j)
  BY <1>d DEF Settle
(* Ends, saving nothing or what it has.                                    *)
<1>e. ASSUME row' = row \/ Save(j, j.mem), Drop(j), Calm,
             j.mem.status \in Tracking \cup {"ready"}
      PROVE  Moves(j, j.mem)
  BY <1>e DEF Moves, Rests, Tracking
<1>f. ASSUME row' = row, NEW pc \in Calls, Continue(j, pc, j.mem), Follows(j, pc, j.mem),
             Calm, j.mem.status \in Tracking
      PROVE  Moves(j, j.mem)
  BY <1>f DEF Moves, Tracking
<1>1. CASE PlaceOnNode(j)
  <2>1. PICK n \in Nodes :
          LET r == [j.mem EXCEPT !.status = "dispatching", !.node = n]
          IN Save(j, r) /\ Continue(j, "create", r)
    BY Zenon, <1>1 DEF PlaceOnNode
  <2> DEFINE r == [j.mem EXCEPT !.status = "dispatching", !.node = n]
  <2>2. r \in Row
    BY Zenon, <1>0, RowChange DEF TaskStatus
  <2>3. r.status = "dispatching" /\ r.node = n /\ r.transient = j.mem.transient
    BY <1>0 DEF Row
  <2>4. j.pc = "place"
    BY <1>1 DEF PlaceOnNode
  <2> HIDE DEF r
  <2>5. Save(j, r) /\ Continue(j, "create", r)
    BY <2>1 DEF r
  <2>6. Follows(j, "create", r)
    BY <2>3, <2>4 DEF Follows
  <2>7. Moves(j, r)
    BY <1>1, <2>3, <2>4, <2>5, <2>6 DEF PlaceOnNode, Moves, Calls, Schedulable, Tracking
  <2> QED BY <2>2, <2>7
<1>2. CASE PlaceLater(j)
  <2>1. j.mem.status = "ready"
    BY <1>2, <1>a DEF PlaceLater, StatusAt
  <2> QED BY <1>0, <1>2, <1>e, <2>1 DEF PlaceLater
<1>3. CASE PlaceNowhere(j)
  <2>1. j.mem.status = "ready"
    BY <1>3, <1>a DEF PlaceNowhere, StatusAt
  <2> QED BY <1>3, <1>b, <1>c, <2>1, SettleMoves DEF PlaceNowhere, Rests, Tracking
<1>4. CASE InputsFail(j)
  <2>1. /\ j.mem.status = "dispatching" /\ j.pc = "create" /\ j.reply = "none"
        /\ Settle(j, "artifact_failed", FALSE)
    BY <1>4, <1>a DEF InputsFail, Answered, StatusAt
  <2>2. CASE TaskMayBecome(j.mem.status, "artifact_failed")
    BY <1>b, <2>1, <2>2, SettleMoves DEF Rests
  <2>3. CASE ~TaskMayBecome(j.mem.status, "artifact_failed")
    BY <1>d, <2>1, <2>3 DEF Fails
  <2> QED BY <2>2, <2>3
<1>5. CASE Created(j)
  <2>1. /\ j.mem.status = "dispatching" /\ j.pc = "create" /\ j.reply # "none"
        /\ row' = row /\ Calm
        /\ \E pc \in {"upload", "start"} : Continue(j, pc, j.mem)
    BY <1>5, <1>a DEF Created, Answered, StatusAt, Reported
  <2>2. \A pc \in {"upload", "start"} : pc \in Calls /\ Follows(j, pc, j.mem)
    BY <2>1 DEF Follows, Calls
  <2> QED BY <1>0, <1>f, <2>1, <2>2 DEF Tracking
<1>6. CASE Uploaded(j)
  <2>1. j.mem.status = "dispatching" /\ row' = row /\ Calm /\ Continue(j, "start", j.mem)
    BY <1>6, <1>a DEF Uploaded, Answered, StatusAt
  <2>2. "start" \in Calls /\ Follows(j, "start", j.mem)
    BY DEF Follows, Calls
  <2> QED BY <1>0, <1>f, <2>1, <2>2 DEF Tracking
<1>7. CASE Started(j)
  <2> DEFINE r == [j.mem EXCEPT !.status = "running", !.started = TRUE, !.transient = FALSE]
  <2>1. r \in Row
    BY Zenon, <1>0, RowChange DEF TaskStatus
  <2>2. r.status = "running" /\ r.node = j.mem.node /\ ~r.transient
    BY <1>0 DEF Row
  <2> HIDE DEF r
  <2>3. Save(j, r) /\ Drop(j) /\ Calm
    BY <1>7 DEF Started, r
  <2>4. Moves(j, r)
    BY <2>2, <2>3 DEF Moves, Schedulable, Tracking
  <2> QED BY <2>1, <2>4
<1>8. CASE DispatchFails(j)
  <2>1. /\ j.mem.status = "dispatching" /\ j.reply \in Errors
        /\ Settle(j, "blocked", j.reply = "unreachable")
    BY <1>8, <1>a DEF DispatchFails, Answered, StatusAt
  <2> QED BY <1>b, <1>c, <2>1, SettleMoves DEF Rests, Errors
<1>9. CASE TimedOut(j)
  <2>1. /\ j.mem.status = "running" /\ j.pc = "timeout" /\ j.reply # "none"
        /\ Settle(j, "failed", FALSE)
    BY <1>9, <1>a DEF TimedOut, Answered, StatusAt
  <2> QED BY <1>b, <1>c, <2>1, SettleMoves DEF Rests, Reports
<1>10. CASE GetFails(j)
  <2>1. j.mem.status \in ActiveTasks /\ j.reply \in Errors
    BY <1>10, <1>a DEF GetFails, Answered, StatusAt
  <2>2. CASE j.mem.status = "cancelling"
    BY <1>0, <1>10, <1>e, <2>2 DEF GetFails, Tracking
  <2>3. CASE j.mem.status # "cancelling"
    <3>1. TaskMayBecome(j.mem.status, "blocked") /\ Rests(j)
      BY <1>c, <2>1, <2>3 DEF ActiveTasks, Rests, Errors
    <3>2. Settle(j, "blocked", j.reply = "unreachable")
      BY <1>10, <2>3 DEF GetFails, Unanswered
    <3> QED BY <1>b, <3>1, <3>2, SettleMoves
  <2> QED BY <2>2, <2>3
<1>11. CASE StillRunning(j)
  <2>1. j.mem.status \in ActiveTasks /\ j.pc = "get" /\ j.reply \in {"running", "queued"}
    BY <1>11, <1>a DEF StillRunning, Answered, StatusAt
  <2>2. CASE j.mem.status = "cancelling"
    <3>1. "cancel" \in Calls /\ Follows(j, "cancel", j.mem)
      BY DEF Follows, Calls
    <3> QED BY <1>0, <1>11, <1>f, <2>2, <3>1 DEF StillRunning, Tracking
  <2>3. CASE j.mem.status = "running"
    BY <1>0, <1>11, <1>e, <2>3 DEF StillRunning, Tracking
  <2>4. CASE j.mem.status \in {"dispatching", "collecting"}
    <3>1. Settle(j, "running", j.mem.transient)
      BY <1>11, <2>4 DEF StillRunning
    <3>2. CASE TaskMayBecome(j.mem.status, "running")
      BY <1>0, <1>b, <3>1, <3>2, SettleMoves DEF Tracking
    <3>3. CASE ~TaskMayBecome(j.mem.status, "running")
      BY <1>d, <2>1, <2>4, <3>1, <3>3 DEF Fails, Good, Errors
    <3> QED BY <3>2, <3>3
  <2> QED BY <2>1, <2>2, <2>3, <2>4 DEF ActiveTasks
<1>12. CASE FoundCancelled(j)
  <2>1. /\ j.mem.status \in ActiveTasks /\ j.pc = "get" /\ j.reply = "cancelled"
        /\ Settle(j, "cancelled", j.mem.transient)
    BY <1>12, <1>a DEF FoundCancelled, Answered, StatusAt
  <2>2. CASE TaskMayBecome(j.mem.status, "cancelled")
    BY <1>0, <1>b, <2>1, <2>2, SettleMoves DEF Rests
  <2>3. CASE ~TaskMayBecome(j.mem.status, "cancelled")
    <3>1. j.mem.status # "cancelling"
      BY <2>3 DEF TaskMayBecome, TaskTransitions, TaskStatus
    <3> QED BY <1>d, <2>1, <2>3, <3>1 DEF Fails, ActiveTasks, Good, Errors
  <2> QED BY <2>2, <2>3
<1>13. CASE CancelAgain(j)
  <2>1. "cancel" \in Calls /\ Follows(j, "cancel", j.mem)
    BY DEF Follows, Calls
  <2> QED BY <1>0, <1>13, <1>f, <2>1 DEF CancelAgain, Tracking
<1>14. CASE FoundFailed(j)
  <2>1. /\ j.mem.status \in ActiveTasks \ {"cancelling"} /\ j.pc = "get"
        /\ j.reply = "failed" /\ Settle(j, "failed", FALSE)
    BY <1>14, <1>a DEF FoundFailed, Answered, StatusAt
  <2>2. CASE TaskMayBecome(j.mem.status, "failed")
    BY <1>b, <2>1, <2>2, SettleMoves DEF Rests, Reports
  <2>3. CASE ~TaskMayBecome(j.mem.status, "failed")
    BY <1>c, <1>d, <2>1, <2>3 DEF Fails, ActiveTasks, Good, Errors
  <2> QED BY <2>2, <2>3
<1>15. CASE FoundUnknown(j)
  <2>1. /\ j.mem.status \in ActiveTasks \ {"cancelling"}
        /\ j.reply \in {"cancelling", "cancel_failed"} /\ Settle(j, "blocked", FALSE)
    BY <1>15, <1>a DEF FoundUnknown, Answered, StatusAt
  <2> QED BY <1>b, <1>c, <2>1, SettleMoves DEF ActiveTasks, Rests
<1>16. CASE FoundDone(j)
  <2> DEFINE r == [j.mem EXCEPT !.status = "collecting"]
  <2>1. /\ j.mem.status \in ActiveTasks \ {"cancelling"} /\ j.pc = "get"
        /\ j.reply \in Good
    BY <1>16, <1>a DEF FoundDone, Answered, StatusAt, Good
  <2>2. r \in Row
    BY Zenon, <1>0, RowChange DEF TaskStatus
  <2>3. r.status = "collecting" /\ r.node = j.mem.node /\ r.transient = j.mem.transient
    BY <1>0 DEF Row
  <2>4. CASE TaskMayBecome(j.mem.status, "collecting")
    <3> HIDE DEF r
    <3>1. Save(j, r) /\ Continue(j, "collect", r) /\ Calm
      BY <1>16, <2>4 DEF FoundDone, r
    <3>2. Follows(j, "collect", r) /\ "collect" \in Calls
      BY DEF Follows, Calls
    <3>3. Moves(j, r)
      BY <2>1, <2>3, <3>1, <3>2 DEF Moves, Schedulable, Rests, Good
    <3> QED BY <2>2, <3>3
  <2>5. CASE ~TaskMayBecome(j.mem.status, "collecting")
    <3>1. j.mem.status \notin {"running", "collecting"}
      BY <2>5 DEF TaskMayBecome, TaskTransitions, TaskStatus
    <3> QED BY <1>16, <2>1, <2>5, <3>1 DEF FoundDone, Fails, ActiveTasks
  <2> QED BY <2>4, <2>5
<1>17. CASE Collected(j)
  <2> DEFINE s == IF j.id[1] \in ReviewTasks THEN "needs_review" ELSE "success"
             r == [j.mem EXCEPT !.transient = FALSE, !.status = s]
  <2>1. j.mem.status = "collecting"
    BY <1>17, <1>a DEF Collected, Answered, StatusAt
  <2>2. r \in Row
    BY Zenon, <1>0, RowChange DEF TaskStatus
  <2>3. r.status = s /\ r.node = j.mem.node /\ ~r.transient
    BY <1>0 DEF Row
  <2>4. CASE PathTaken(j.id)
    BY <1>17, <2>1, <2>4 DEF Collected, Fails
  <2>5. CASE ~PathTaken(j.id)
    <3>1. Save(j, r) /\ Drop(j) /\ Calm
      BY <1>17, <2>5 DEF Collected
    <3> HIDE DEF r
    <3>2. Moves(j, r)
      BY <2>1, <2>3, <3>1 DEF Moves, Schedulable, Rests, Reports, Tracking
    <3> QED BY <2>2, <3>2
  <2> QED BY <2>4, <2>5
<1>18. CASE CollectFails(j)
  <2>1. /\ j.mem.status = "collecting"
        /\ Settle(j, "artifact_failed", FALSE) \/ Settle(j, "blocked", FALSE)
    BY <1>18, <1>a DEF CollectFails, Answered, StatusAt
  <2> QED BY <1>b, <1>c, <2>1, SettleMoves DEF Rests, Tracking
<1>19. CASE CancelAnswered(j)
  <2>1. j.mem.status = "cancelling"
    BY <1>19, <1>a DEF CancelAnswered, Answered, StatusAt
  <2>2. CASE Confirms(j.reply)
    <3>1. Settle(j, "cancelled", FALSE) /\ j.reply = "cancelled"
      BY <1>19, <2>2 DEF CancelAnswered, Confirms
    <3>2. TaskMayBecome(j.mem.status, "cancelled")
      BY <2>1 DEF TaskMayBecome, TaskTransitions, TaskStatus
    <3> QED BY <1>b, <3>1, <3>2, SettleMoves DEF Rests
  <2>3. CASE ~Confirms(j.reply)
    BY <1>0, <1>19, <1>e, <2>1, <2>3 DEF CancelAnswered, Tracking
  <2> QED BY <2>2, <2>3
<1> QED
  BY <1>1, <1>2, <1>3, <1>4, <1>5, <1>6, <1>7, <1>8, <1>9, <1>10, <1>11, <1>12,
     <1>13, <1>14, <1>15, <1>16, <1>17, <1>18, <1>19 DEF Coroutine

-----------------------------------------------------------------------------
(* What a coroutine without orphans around it does to the row it works on. *)
LEMMA MovesRows ==
  ASSUME SafeInv, NEW j \in jobs, NEW r \in Row, Moves(j, r), ~leaked
  PROVE  /\ j.id \in AttemptIds /\ j.mem = row[j.id] /\ row'[j.id] = r
         /\ \A a \in AttemptIds \ {j.id} : row'[a] = row[a]
         /\ \A k \in jobs \ {j} : k.id \in AttemptIds \ {j.id}
<1>1. j.id \in AttemptIds /\ row \in [AttemptIds -> Row]
  BY JobFields DEF SafeInv, LockInv, TypeOK
<1>2. j.mem = row[j.id]
  BY DEF SafeInv, LockInv, Discipline, NoLostUpdate
<1>3. \A k \in jobs \ {j} : k.id \in AttemptIds \ {j.id}
  BY JobFields DEF SafeInv, LockInv, TypeOK, Discipline, NoLostUpdate
<1> QED BY <1>1, <1>2, <1>3 DEF Moves, Save

LEMMA MovesJobs ==
  ASSUME SafeInv, NEW j \in jobs, NEW r \in Row, Moves(j, r)
  PROVE  \A k \in jobs' : \/ k \in jobs \ {j}
                          \/ /\ k.id = j.id /\ k.mem = r /\ k.reply = "none"
                             /\ Follows(j, k.pc, r)
<1>1. CASE Drop(j)
  BY <1>1 DEF Drop
<1>2. ASSUME NEW pc \in Calls, Continue(j, pc, r), Follows(j, pc, r)
      PROVE  \A k \in jobs' : \/ k \in jobs \ {j}
                              \/ /\ k.id = j.id /\ k.mem = r /\ k.reply = "none"
                                 /\ Follows(j, k.pc, r)
  <2> DEFINE k == [j EXCEPT !.pc = pc, !.reply = "none", !.mem = r]
  <2>1. k.id = j.id /\ k.mem = r /\ k.reply = "none" /\ k.pc = pc
    BY DEF SafeInv, LockInv, TypeOK, Job
  <2>2. jobs' = (jobs \ {j}) \cup {k}
    BY <1>2 DEF Continue
  <2> HIDE DEF k
  <2> QED BY <1>2, <2>1, <2>2
<1> QED BY <1>1, <1>2 DEF Moves

(* A step of a coroutine leaves the nodes as they are.                     *)
LEMMA MovesGathered ==
  ASSUME SafeInv, Gathered, NEW j \in jobs, NEW r \in Row, Moves(j, r), ~leaked,
         remote' = remote
  PROVE  Gathered'
<1>1. /\ j.id \in AttemptIds /\ j.mem = row[j.id] /\ row'[j.id] = r
      /\ \A a \in AttemptIds \ {j.id} : row'[a] = row[a]
  BY MovesRows
<1>2. ASSUME r.status = "collecting"
      PROVE  r.node \in Nodes /\ remote[j.id][r.node] \in Good
  <2>1. r.node = j.mem.node
    BY <1>2 DEF Moves
  <2>2. j.mem.node \in Nodes /\ RecordOf(j) \in Good
    BY <1>1, <1>2 DEF Moves, Gathered, RecordOf
  <2> QED BY <2>1, <2>2 DEF RecordOf
<1>3. \A a \in AttemptIds :
        row'[a].status = "collecting" =>
          row'[a].node \in Nodes /\ remote[a][row'[a].node] \in Good
  BY <1>1, <1>2 DEF Gathered
<1>4. \A k \in jobs' : k.pc = "get" =>
        /\ k.reply \in Good => k.mem.node \in Nodes /\ RecordOf(k) \in Good
        /\ k.mem.status = "collecting" => k.reply \in Good \cup Errors \cup {"none"}
  <2>1. \A k \in jobs' : k \in jobs \/ k.reply = "none"
    BY MovesJobs
  <2>2. "none" \notin Good
    BY DEF Good
  <2> QED BY <2>1, <2>2 DEF Gathered
<1> QED BY <1>3, <1>4 DEF Gathered, RecordOf

LEMMA MovesKnown ==
  ASSUME SafeInv, Known, NEW j \in jobs, NEW r \in Row, Moves(j, r), ~leaked,
         OnCourse(j), remote' = remote
  PROVE  Known'
<1>1. /\ j.id \in AttemptIds /\ j.mem = row[j.id] /\ row'[j.id] = r
      /\ \A a \in AttemptIds \ {j.id} : row'[a] = row[a]
  BY MovesRows
<1>2. \A k \in jobs' : \/ k \in jobs \ {j}
                       \/ /\ k.id = j.id /\ k.mem = r /\ k.reply = "none"
                          /\ Follows(j, k.pc, r)
  BY MovesJobs
<1>3. ASSUME j.pc = "place"
      PROVE  \A n \in Nodes : remote[j.id][n] = "absent"
  <2>1. row[j.id].status \in Schedulable
    BY <1>1, <1>3 DEF OnCourse, StatusAt, Schedulable
  <2> QED BY <1>1, <2>1 DEF Known, SentOnce
<1>4. NothingLost'
  <2>1. ~r.transient
    BY <1>1 DEF Moves, Known, NothingLost
  <2>2. \A k \in jobs' : k.reply # "unreachable"
    BY <1>2 DEF Known, NothingLost
  <2> QED BY <1>1, <2>1, <2>2 DEF Known, NothingLost
<1>5. SentOnce'
  <2> SUFFICES ASSUME NEW n \in Nodes, remote[j.id][n] # "absent"
               PROVE  r.node = n /\ r.status \notin Schedulable
    BY <1>1 DEF Known, SentOnce
  <2>1. j.mem.node = n /\ j.mem.status \notin Schedulable
    BY <1>1 DEF Known, SentOnce
  <2>2. j.pc # "place"
    BY <1>3
  <2> QED BY <2>1, <2>2 DEF Moves
<1>6. Tracked'
  <2> SUFFICES ASSUME NEW n \in Nodes, Executing(j.id, n), r.status \notin Tracking
               PROVE  FALSE
    BY <1>1 DEF Known, Tracked, Executing
  <2>1. j.mem.status \in Tracking
    BY <1>1 DEF Known, Tracked
  <2>2. j.mem.node = n
    BY <1>1 DEF Known, SentOnce, Executing
  <2>3. Rests(j)
    BY DEF Moves
  <2>4. Dispatches(j) /\ Answers(j)
    BY DEF Known
  <2>5. CASE j.pc = "create" /\ j.reply = "none"
    BY <2>2, <2>4, <2>5 DEF Dispatches, RecordOf, Executing
  <2>6. CASE j.reply \notin {"none", "running"} \/ (j.pc = "timeout" /\ j.reply # "none")
    BY <2>2, <2>4, <2>6 DEF Answers
  <2> QED BY <2>1, <2>3, <2>5, <2>6 DEF Rests
<1>7. ASSUME NEW k \in jobs'
      PROVE  (Dispatches(k) /\ Answers(k))'
  <2>1. CASE k \in jobs \ {j}
    BY <2>1 DEF Known, Dispatches, Answers, RecordOf, Executing
  <2>2. CASE /\ k.id = j.id /\ k.mem = r /\ k.reply = "none"
             /\ Follows(j, k.pc, r)
    <3>1. k.pc = "create" => r.node \in Nodes /\ remote[j.id][r.node] = "absent"
      BY <1>3, <2>2 DEF Follows
    <3>2. k.pc = "upload" => r.node \in Nodes /\ remote[j.id][r.node] = "queued"
      <4>1. Dispatches(j)
        BY DEF Known
      <4> QED BY <2>2, <4>1 DEF Follows, Dispatches, RecordOf
    <3> QED BY <2>2, <3>1, <3>2 DEF Dispatches, Answers, RecordOf
  <2> QED BY <1>2, <2>1, <2>2
<1> QED BY <1>4, <1>5, <1>6, <1>7 DEF Known

LEMMA CoroutineKnows ==
  ASSUME PromiseInv, NEW j \in jobs, Coroutine(j), SafeInv', ~leaked'
  PROVE  Gathered' /\ (Undisturbed' => Known')
<1>1. j \in Job /\ OnCourse(j)
  BY DEF PromiseInv, SafeInv, LockInv, TypeOK, Course
<1>2. UNCHANGED <<latest, remote, crashes, faults>>
  BY <1>1, CoroutineAdvances DEF Advances
<1>3. CASE Fails(j)
  <2>1. ~leaked /\ jobs' = {} /\ row' = row
    BY <1>3, RaiseLeavesNothing DEF Fails, Raise, PromiseInv
  <2>2. Gathered'
    BY <1>2, <2>1 DEF PromiseInv, Gathered
  <2>3. Undisturbed' => Known'
    BY <1>2, <2>1 DEF PromiseInv, Undisturbed, Known, NothingLost, SentOnce, Tracked, Executing
  <2> QED BY <2>2, <2>3
<1>4. ASSUME NEW r \in Row, Moves(j, r)
      PROVE  Gathered' /\ (Undisturbed' => Known')
  <2>1. ~leaked
    BY <1>4 DEF Moves, Calm
  <2> QED
    BY <1>1, <1>2, <1>4, <2>1, MovesGathered, MovesKnown DEF PromiseInv, Undisturbed
<1> QED BY <1>1, <1>3, <1>4, CoroutineMoves

-----------------------------------------------------------------------------
(* The nodes.  What a call that arrives, and whose answer does, changes.   *)
LEMMA ServedKnown ==
  ASSUME NEW call \in Calls, NEW s \in RemoteStatus, NEW o \in Served(call, s)
  PROVE  /\ s \notin Unconfirmed /\ (call \in {"cancel", "timeout"} => o[2] \notin Unconfirmed)
              => /\ o[1] \notin Unconfirmed
                 /\ o[1] = "running" => s = "running" \/ call = "start"
                 /\ o[1] = "running" /\ o[2] # "running" => call \in {"upload", "collect"}
                 /\ o[1] = "running" => call # "timeout"
         /\ o[2] \notin {"none", "unreachable"}
         /\ o[1] # "absent" => s # "absent" \/ call = "create"
         /\ call = "create" /\ s = "absent" => o[1] = "queued" /\ o[2] = "queued"
         /\ call = "upload" => o[1] = s
BY DEF Served, Report, Unconfirmed, Calls, RemoteStatus, Reported

LEMMA ServedGathered ==
  ASSUME NEW call \in Calls, NEW s \in RemoteStatus, NEW o \in Served(call, s)
  PROVE  /\ s \in Good /\ call \notin {"cancel", "timeout"} => o[1] \in Good
         /\ call = "get" => /\ o[1] = s
                            /\ o[2] \in Good => s \in Good
                            /\ s \in Good => o[2] \in Good
BY DEF Served, Report, Unconfirmed, Calls, RemoteStatus, Reported, Good

(* A call of j: the record becomes s, and j has its answer.                *)
Calling(j, s, reply) ==
  /\ j.id \in AttemptIds /\ j.pc \in Calls /\ j.reply = "none" /\ j.mem.node \in Nodes
  /\ Reach(j, <<s>>, reply)
  /\ \/ \E o \in Served(j.pc, RecordOf(j)) : s = o[1] /\ reply \in {o[2], "unreachable"}
     \/ s = RecordOf(j) /\ reply \in Errors
  /\ faults' = 0 =>
       /\ \E o \in Served(j.pc, RecordOf(j)) : s = o[1] /\ reply = o[2]
       /\ j.pc \in {"cancel", "timeout"} => reply \notin Unconfirmed

LEMMA CallIsOne ==
  ASSUME SafeInv, NEW j \in jobs, NodeServes(j) \/ CallFails(j)
  PROVE  /\ \E s, reply : Calling(j, s, reply)
         /\ UNCHANGED <<latest, row, leaked>>
         /\ faults' = 0 => faults = 0
<1>1. j.id \in AttemptIds /\ j.pc \in Calls /\ j.mem.node \in Nodes /\ j.reply = "none"
  BY JobFields DEF SafeInv, LockInv, TypeOK, NodeServes, CallFails, Waiting
<1>2. faults \in Nat
  BY BoundsAssumption DEF SafeInv, LockInv, TypeOK
<1>3. CASE NodeServes(j)
  <2>1. PICK o \in Served(j.pc, RecordOf(j)) :
          /\ Reach(j, o, o[2])
          /\ faults' = faults + IF j.pc \in {"cancel", "timeout"} /\ o[2] \in Unconfirmed
                                THEN 1 ELSE 0
    BY <1>3 DEF NodeServes, RecordOf
  <2>2. /\ faults' = 0 => faults = 0
        /\ faults' = 0 /\ j.pc \in {"cancel", "timeout"} => o[2] \notin Unconfirmed
    BY <1>2, <2>1
  <2>3. Calling(j, o[1], o[2])
    BY <1>1, <2>1, <2>2 DEF Calling, Reach
  <2> QED BY <1>3, <2>2, <2>3 DEF NodeServes
<1>4. CASE CallFails(j)
  <2>1. faults' # 0
    BY <1>2, <1>4 DEF CallFails
  <2>2. CASE \E e \in Errors : Reach(j, <<RecordOf(j), e>>, e)
    <3>1. PICK e \in Errors : Reach(j, <<RecordOf(j), e>>, e)
      BY <2>2
    <3>2. Calling(j, RecordOf(j), e)
      BY <1>1, <2>1, <3>1 DEF Calling, Reach
    <3> QED BY <1>4, <2>1, <3>2 DEF CallFails
  <2>3. CASE \E o \in Served(j.pc, RecordOf(j)) : Reach(j, o, "unreachable")
    <3>1. PICK o \in Served(j.pc, RecordOf(j)) : Reach(j, o, "unreachable")
      BY <2>3
    <3>2. Calling(j, o[1], "unreachable")
      BY <1>1, <2>1, <3>1 DEF Calling, Reach
    <3> QED BY <1>4, <2>1, <3>2 DEF CallFails
  <2> QED BY <1>4, <2>2, <2>3 DEF CallFails, RecordOf
<1> QED BY <1>3, <1>4

(* The call concerns one record and one coroutine.                         *)
LEMMA CallReaches ==
  ASSUME SafeInv, NEW j \in jobs, NEW s, NEW reply, Calling(j, s, reply), ~leaked
  PROVE  /\ RecordOf(j) \in RemoteStatus /\ OnCourse(j) /\ j.mem = row[j.id]
         /\ remote'[j.id][j.mem.node] = s
         /\ \A a \in AttemptIds, n \in Nodes :
              a # j.id \/ n # j.mem.node => remote'[a][n] = remote[a][n]
         /\ \A k \in jobs' :
              \/ k \in jobs /\ k.id \in AttemptIds /\ k.id # j.id
              \/ k.id = j.id /\ k.pc = j.pc /\ k.mem = j.mem /\ k.reply = reply
<1>1. j.id \in AttemptIds /\ j.mem.node \in Nodes
  BY DEF Calling
<1>2. RecordOf(j) \in RemoteStatus
  BY <1>1 DEF RecordOf, SafeInv, LockInv, TypeOK
<1>3. j.mem = row[j.id] /\ OnCourse(j)
  BY DEF SafeInv, LockInv, Discipline, NoLostUpdate, Course
<1>4. /\ remote'[j.id][j.mem.node] = s
      /\ \A a \in AttemptIds, n \in Nodes :
           a # j.id \/ n # j.mem.node => remote'[a][n] = remote[a][n]
  <2> DEFINE m == j.mem.node
  <2>1. m \in Nodes /\ remote' = [remote EXCEPT ![j.id][m] = s]
    BY DEF Calling, Reach
  <2>2. remote \in [AttemptIds -> [Nodes -> RemoteStatus]]
    BY DEF SafeInv, LockInv, TypeOK
  <2> HIDE DEF m
  <2>3. /\ remote'[j.id][m] = s
        /\ \A a \in AttemptIds, n \in Nodes :
             a # j.id \/ n # m => remote'[a][n] = remote[a][n]
    BY <1>1, <2>1, <2>2
  <2> QED BY <2>3 DEF m
<1>5. ASSUME NEW k \in jobs'
      PROVE  \/ k \in jobs /\ k.id \in AttemptIds /\ k.id # j.id
             \/ k.id = j.id /\ k.pc = j.pc /\ k.mem = j.mem /\ k.reply = reply
  <2> DEFINE i == [j EXCEPT !.reply = reply]
  <2>1. i.id = j.id /\ i.pc = j.pc /\ i.mem = j.mem /\ i.reply = reply
    BY DEF SafeInv, LockInv, TypeOK, Job
  <2>2. k \in jobs \ {j} \/ k = i
    BY DEF Calling, Reach
  <2> HIDE DEF i
  <2>3. \A l \in jobs \ {j} : l.id \in AttemptIds /\ l.id # j.id
    BY JobFields DEF SafeInv, LockInv, TypeOK, Discipline, NoLostUpdate
  <2> QED BY <2>1, <2>2, <2>3
<1> QED BY <1>2, <1>3, <1>4, <1>5

LEMMA CallGathered ==
  ASSUME SafeInv, Gathered, NEW j \in jobs, NEW s, NEW reply, Calling(j, s, reply), ~leaked,
         UNCHANGED <<row, leaked>>
  PROVE  Gathered'
<1>1. /\ RecordOf(j) \in RemoteStatus /\ OnCourse(j) /\ j.mem = row[j.id]
      /\ remote'[j.id][j.mem.node] = s
      /\ \A a \in AttemptIds, n \in Nodes :
           a # j.id \/ n # j.mem.node => remote'[a][n] = remote[a][n]
      /\ \A k \in jobs' :
           \/ k \in jobs /\ k.id \in AttemptIds /\ k.id # j.id
           \/ k.id = j.id /\ k.pc = j.pc /\ k.mem = j.mem /\ k.reply = reply
  BY CallReaches
<1>2. /\ RecordOf(j) \in Good /\ j.pc \notin {"cancel", "timeout"} => s \in Good
      /\ j.pc = "get" => /\ reply \in Good => RecordOf(j) \in Good /\ s = RecordOf(j)
                         /\ RecordOf(j) \in Good => reply \in Good \cup Errors
  BY <1>1, ServedGathered DEF Calling, Errors, Good
<1>3. ASSUME NEW a \in AttemptIds, row[a].status = "collecting"
      PROVE  row[a].node \in Nodes /\ remote'[a][row[a].node] \in Good
  <2>1. row[a].node \in Nodes /\ remote[a][row[a].node] \in Good
    BY <1>3 DEF Gathered
  <2>2. CASE a = j.id
    <3>1. j.pc \notin {"cancel", "timeout"}
      BY <1>1, <1>3, <2>2 DEF OnCourse, StatusAt
    <3> QED BY <1>1, <1>2, <2>1, <2>2, <3>1 DEF RecordOf
  <2>3. CASE a # j.id
    BY <1>1, <2>1, <2>3
  <2> QED BY <2>2, <2>3
<1>4. ASSUME NEW k \in jobs', k.pc = "get"
      PROVE  /\ k.reply \in Good =>
                  k.mem.node \in Nodes /\ remote'[k.id][k.mem.node] \in Good
             /\ k.mem.status = "collecting" => k.reply \in Good \cup Errors \cup {"none"}
  <2>1. CASE k \in jobs /\ k.id \in AttemptIds /\ k.id # j.id
    BY <1>1, <1>4, <2>1 DEF Gathered, RecordOf
  <2>2. CASE k.id = j.id /\ k.pc = j.pc /\ k.mem = j.mem /\ k.reply = reply
    <3>1. j.mem.node \in Nodes /\ j.id \in AttemptIds
      BY DEF Calling
    <3>2. j.mem.status = "collecting" => RecordOf(j) \in Good
      BY <1>1, <3>1 DEF Gathered, RecordOf
    <3> QED BY <1>1, <1>2, <1>4, <2>2, <3>1, <3>2
  <2> QED BY <1>1, <2>1, <2>2
<1> QED BY <1>3, <1>4 DEF Gathered, RecordOf

LEMMA CallKnown ==
  ASSUME SafeInv, Known, NEW j \in jobs, NEW s, NEW reply, Calling(j, s, reply), ~leaked,
         row' = row, faults' = 0
  PROVE  Known'
<1> DEFINE m == j.mem.node
<1>1. /\ RecordOf(j) \in RemoteStatus /\ OnCourse(j) /\ j.mem = row[j.id]
      /\ remote'[j.id][m] = s
      /\ \A a \in AttemptIds, n \in Nodes :
           a # j.id \/ n # m => remote'[a][n] = remote[a][n]
      /\ \A k \in jobs' :
           \/ k \in jobs /\ k.id \in AttemptIds /\ k.id # j.id
           \/ k.id = j.id /\ k.pc = j.pc /\ k.mem = j.mem /\ k.reply = reply
  BY CallReaches
<1>2. j.id \in AttemptIds /\ j.pc \in Calls /\ j.reply = "none" /\ m \in Nodes
  BY DEF Calling
<1>3. RecordOf(j) \notin Unconfirmed
  BY <1>2 DEF Known, NothingLost, RecordOf
<1>4. /\ s \notin Unconfirmed
      /\ s = "running" => RecordOf(j) = "running" \/ j.pc = "start"
      /\ s = "running" /\ reply # "running" => j.pc \in {"upload", "collect"}
      /\ s = "running" => j.pc # "timeout"
      /\ reply \notin {"none", "unreachable"}
      /\ s # "absent" => RecordOf(j) # "absent" \/ j.pc = "create"
      /\ j.pc = "create" /\ RecordOf(j) = "absent" => s = "queued" /\ reply = "queued"
      /\ j.pc = "upload" => s = RecordOf(j)
  <2>1. PICK o \in Served(j.pc, RecordOf(j)) : s = o[1] /\ reply = o[2]
    BY DEF Calling
  <2>2. j.pc \in {"cancel", "timeout"} => o[2] \notin Unconfirmed
    BY <2>1 DEF Calling
  <2> QED BY <1>1, <1>2, <1>3, <2>1, <2>2, ServedKnown
<1>5. Dispatches(j)
  BY DEF Known
<1> HIDE DEF m
<1>6. NothingLost'
  <2>1. \A a \in AttemptIds, n \in Nodes : remote'[a][n] \notin Unconfirmed
    BY <1>1, <1>4 DEF Known, NothingLost
  <2>2. \A k \in jobs' : k.reply # "unreachable"
    BY <1>1, <1>4 DEF Known, NothingLost
  <2> QED BY <2>1, <2>2 DEF Known, NothingLost
<1>7. SentOnce'
  <2> SUFFICES ASSUME NEW a \in AttemptIds, NEW n \in Nodes, remote'[a][n] # "absent"
               PROVE  row[a].node = n /\ row[a].status \notin Schedulable
    BY DEF SentOnce
  <2>1. CASE remote[a][n] # "absent"
    BY <2>1 DEF Known, SentOnce
  <2>2. CASE remote[a][n] = "absent"
    <3>1. a = j.id /\ n = m
      BY <1>1, <2>2
    <3>2. j.pc = "create"
      BY <1>1, <1>4, <2>2, <3>1 DEF RecordOf, m
    <3> QED BY <1>1, <3>1, <3>2 DEF OnCourse, StatusAt, Schedulable, m
  <2> QED BY <2>1, <2>2
<1>8. Tracked'
  <2> SUFFICES ASSUME NEW a \in AttemptIds, NEW n \in Nodes,
                      remote'[a][n] \in {"running"} \cup Unconfirmed
               PROVE  row[a].status \in Tracking
    BY DEF Tracked, Executing, Unconfirmed
  <2>1. CASE remote[a][n] = "running"
    BY <2>1 DEF Known, Tracked, Executing
  <2>2. CASE remote[a][n] # "running"
    <3>1. a = j.id /\ n = m
      BY <1>1, <2>2 DEF Known, NothingLost
    <3>2. j.pc = "start"
      BY <1>1, <1>4, <2>2, <3>1 DEF RecordOf, m
    <3> QED BY <1>1, <3>1, <3>2 DEF OnCourse, StatusAt, Tracking
  <2> QED BY <2>1, <2>2
<1>9. ASSUME s = "running", j.pc \in {"upload", "collect"}
      PROVE  FALSE
  <2>1. RecordOf(j) = "running"
    BY <1>4, <1>9
  <2>2. row[j.id].status \in Tracking
    BY <1>2, <2>1 DEF Known, Tracked, Executing, RecordOf, m
  <2>3. j.pc = "upload"
    BY <1>1, <1>9, <2>2 DEF OnCourse, StatusAt, Tracking
  <2> QED BY <1>5, <2>1, <2>3 DEF Dispatches
<1>10. ASSUME NEW k \in jobs'
       PROVE  (Dispatches(k) /\ Answers(k))'
  <2>1. CASE k \in jobs /\ k.id \in AttemptIds /\ k.id # j.id
    <3>1. Dispatches(k) /\ Answers(k)
      BY <2>1 DEF Known
    <3>2. \A n \in Nodes : remote'[k.id][n] = remote[k.id][n]
      BY <1>1, <2>1
    <3> QED BY <3>1, <3>2 DEF Dispatches, Answers, RecordOf, Executing
  <2>2. CASE k.id = j.id /\ k.pc = j.pc /\ k.mem = j.mem /\ k.reply = reply
    <3>1. k.mem.node = m /\ remote'[k.id][m] = s
      BY <1>1, <2>2 DEF m
    <3>2. Dispatches(k)'
      BY <1>2, <1>4, <1>5, <2>2, <3>1 DEF Dispatches, RecordOf
    <3>3. Answers(k)'
      BY <1>2, <1>4, <1>9, <2>2, <3>1 DEF Answers, Executing, Unconfirmed
    <3> QED BY <3>2, <3>3
  <2> QED BY <1>1, <2>1, <2>2
<1> QED BY <1>6, <1>7, <1>8, <1>10 DEF Known

LEMMA CallKnows ==
  ASSUME PromiseInv, NEW j \in jobs, NodeServes(j) \/ CallFails(j), ~leaked'
  PROVE  Gathered' /\ (Undisturbed' => Known')
<1>1. /\ UNCHANGED <<latest, row, leaked>> /\ SafeInv
      /\ faults' = 0 => faults = 0
  BY CallIsOne DEF PromiseInv
<1>2. PICK s, reply : Calling(j, s, reply)
  BY <1>1, CallIsOne
<1>3. Gathered'
  BY <1>1, <1>2, CallGathered DEF PromiseInv
<1>4. Undisturbed' => Known'
  BY <1>1, <1>2, CallKnown DEF PromiseInv, Undisturbed
<1> QED BY <1>3, <1>4

(* A task ends by itself: its record was none that anybody had gathered.    *)
LEMMA WorldKnows ==
  ASSUME PromiseInv, NEW a \in AttemptIds, ~leaked',
         (\E n \in Nodes : RemoteFinishes(a, n)) \/ TimeoutPasses(a) \/ DelayPasses(a)
  PROVE  Gathered' /\ (Undisturbed' => Known')
<1>1. UNCHANGED <<row, jobs, leaked, faults>>
  BY DEF RemoteFinishes, TimeoutPasses, DelayPasses
<1>2. CASE remote' = remote
  BY <1>1, <1>2 DEF PromiseInv, Undisturbed, Gathered, Known, NothingLost, SentOnce, Tracked,
                    Dispatches, Answers, RecordOf, Executing
<1>3. ASSUME NEW n \in Nodes, RemoteFinishes(a, n)
      PROVE  Gathered' /\ (Undisturbed' => Known')
  <2>1. PICK s \in Progress(remote[a][n], a[1] \in ReviewTasks) :
          remote' = [remote EXCEPT ![a][n] = s]
    BY <1>3 DEF RemoteFinishes
  <2>2. /\ remote[a][n] \in {"running", "cancelling"}
        /\ s = "running" => FALSE
        /\ remote[a][n] = "running" => s \notin Unconfirmed
    BY <2>1 DEF Progress, Outcomes, Unconfirmed
  <2>3. /\ remote'[a][n] = s
        /\ \A b \in AttemptIds, m \in Nodes :
             b # a \/ m # n => remote'[b][m] = remote[b][m]
    <3>1. TypeOK
      BY DEF PromiseInv, SafeInv, LockInv
    <3> QED BY <2>1, <3>1 DEF TypeOK
  <2>4. \A j \in jobs : j.id \in AttemptIds
    BY JobFields DEF PromiseInv, SafeInv, LockInv, TypeOK
  <2>5. \A b \in AttemptIds, m \in Nodes :
          remote[b][m] \in Good => remote'[b][m] = remote[b][m]
    BY <2>2, <2>3 DEF Good
  <2>6. Gathered'
    BY <1>1, <2>4, <2>5 DEF PromiseInv, Gathered, RecordOf
  <2>7. ASSUME Undisturbed
        PROVE  Known'
    <3>1. Known
      BY <2>7 DEF PromiseInv
    <3>2. remote[a][n] = "running" /\ s \notin {"running"} \cup Unconfirmed
      BY <2>2, <3>1 DEF Known, NothingLost, Unconfirmed
    <3>3. \A b \in AttemptIds, m \in Nodes :
            /\ remote'[b][m] # "absent" => remote[b][m] # "absent"
            /\ remote'[b][m] \notin Unconfirmed
            /\ remote'[b][m] = "running" => remote[b][m] = "running"
            /\ remote[b][m] \in {"absent", "queued"} => remote'[b][m] = remote[b][m]
      BY <2>3, <3>1, <3>2 DEF Known, NothingLost
    <3>4. NothingLost' /\ SentOnce'
      BY <1>1, <3>1, <3>3 DEF Known, NothingLost, SentOnce
    <3>5. \A b \in AttemptIds, m \in Nodes : Executing(b, m)' => Executing(b, m)
      BY <3>3 DEF Executing, Unconfirmed
    <3>6. Tracked'
      BY <1>1, <3>1, <3>5 DEF Known, Tracked
    <3>7. ASSUME NEW j \in jobs
          PROVE  (Dispatches(j) /\ Answers(j))'
      <4>1. Dispatches(j) /\ Answers(j) /\ j.id \in AttemptIds
        BY <2>4, <3>1 DEF Known
      <4>2. Dispatches(j)'
        BY <3>3, <4>1 DEF Dispatches, RecordOf
      <4>3. Answers(j)'
        BY <3>5, <4>1 DEF Answers
      <4> QED BY <4>2, <4>3
    <3> QED BY <1>1, <3>4, <3>6, <3>7 DEF Known
  <2> QED BY <1>1, <2>6, <2>7 DEF Undisturbed
<1>4. CASE TimeoutPasses(a) \/ DelayPasses(a)
  BY <1>2, <1>4 DEF TimeoutPasses, DelayPasses
<1> QED BY <1>3, <1>4

-----------------------------------------------------------------------------
(* The handlers tell no node anything.                                     *)
LEMMA HandlerKnows ==
  ASSUME PromiseInv, Conducts, faults' = faults, ~leaked'
  PROVE  Gathered' /\ (Undisturbed' => Known')
<1>1. /\ UNCHANGED <<remote, leaked>>
      /\ \A a \in AttemptIds : Redo(a)
      /\ \A k \in jobs' : k \in jobs \/ Opened(k)
  BY DEF Conducts
<1>2. Gathered'
  <2>1. \A a \in AttemptIds : row'[a].status = "collecting" => row'[a] = row[a]
    BY <1>1 DEF Redo
  <2>2. "none" \notin Good
    BY DEF Good
  <2> QED BY <1>1, <2>1, <2>2 DEF PromiseInv, Gathered, RecordOf, Opened
<1>3. ASSUME Undisturbed
      PROVE  Known'
  <2>1. Known
    BY <1>3 DEF PromiseInv
  <2>2. \A a \in AttemptIds :
          /\ row'[a].node = row[a].node /\ ~row'[a].transient
          /\ row'[a].status \in Schedulable => row[a].status \in Schedulable
          /\ row[a].status \in Tracking => row'[a].status \in Tracking
    <3> SUFFICES ASSUME NEW a \in AttemptIds, row'[a] # row[a]
                 PROVE  /\ row'[a].node = row[a].node /\ ~row'[a].transient
                        /\ row'[a].status \in Schedulable => row[a].status \in Schedulable
                        /\ row[a].status \in Tracking => row'[a].status \in Tracking
      BY <2>1 DEF Known, NothingLost
    <3>1. Redo(a) /\ ~row[a].transient
      BY <1>1, <2>1 DEF Known, NothingLost
    <3>2. \A s \in Tracking : ~TaskMayBecome(s, "skipped")
      BY DEF TaskMayBecome, TaskTransitions, TaskStatus, Tracking
    <3>3. Keeps(a)
      BY <3>1 DEF Redo
    <3> QED BY <3>1, <3>2, <3>3 DEF Redo, Keeps, Unstarted, Schedulable, Tracking
  <2>3. NothingLost' /\ SentOnce' /\ Tracked'
    BY <1>1, <2>1, <2>2 DEF Known, NothingLost, SentOnce, Tracked, Executing, Opened
  <2>4. ASSUME NEW k \in jobs'
        PROVE  (Dispatches(k) /\ Answers(k))'
    <3>1. CASE k \in jobs
      BY <1>1, <2>1, <3>1 DEF Known, Dispatches, Answers, RecordOf, Executing
    <3>2. CASE Opened(k)
      BY <3>2 DEF Opened, Dispatches, Answers
    <3> QED BY <1>1, <3>1, <3>2
  <2> QED BY <2>3, <2>4 DEF Known
<1> QED BY <1>1, <1>2, <1>3 DEF Undisturbed

LEMMA PromiseInit ==
  ASSUME Init
  PROVE  PromiseInv
<1>1. SafeInv
  BY SafeInit
<1>2. NewRow.status = "pending" /\ ~NewRow.transient
  BY DEF NewRow
<1>3. Gathered
  BY <1>2 DEF Init, Gathered
<1>4. Known
  BY <1>2 DEF Init, Known, NothingLost, SentOnce, Tracked, Executing, Unconfirmed
<1> QED BY <1>1, <1>3, <1>4 DEF PromiseInv

LEMMA PromiseStep ==
  ASSUME PromiseInv, [Next]_vars
  PROVE  PromiseInv'
<1>1. SafeInv' /\ LockInv'
  BY SafeStep DEF PromiseInv, SafeInv
<1> SUFFICES ASSUME ~leaked'
             PROVE  Gathered' /\ (Undisturbed' => Known')
  BY <1>1 DEF PromiseInv, Gathered, Undisturbed
<1>2. CASE User \/ Phase \/ Tick \/ Crash \/ CrashInCancel \/ Restart
  <2>1. Conducts
    BY <1>1, <1>2, UserConducts, PhaseConducts, ProcessConducts DEF PromiseInv
  <2>2. faults' = faults
    BY <1>2 DEF User, Start, Pause, Resume, Cancel, CancelRaises, RetryTask, SkipTask,
                Phase, FinishReconcile, DispatchReady, FinishDispatch, FinishRetry,
                FinishCancel, RecoverAgain, StartFailed, RetryDue, Tick, Crash,
                CrashInCancel, Restart
  <2> QED BY <2>1, <2>2, HandlerKnows
<1>3. ASSUME NEW j \in jobs, Coroutine(j)
      PROVE  Gathered' /\ (Undisturbed' => Known')
  BY <1>1, <1>3, CoroutineKnows
<1>4. ASSUME NEW j \in jobs, NodeServes(j) \/ CallFails(j)
      PROVE  Gathered' /\ (Undisturbed' => Known')
  BY <1>4, CallKnows
<1>5. ASSUME NEW a \in AttemptIds,
             (\E n \in Nodes : RemoteFinishes(a, n)) \/ TimeoutPasses(a) \/ DelayPasses(a)
      PROVE  Gathered' /\ (Undisturbed' => Known')
  BY <1>5, WorldKnows
<1>6. CASE UNCHANGED vars
  BY <1>6 DEF vars, PromiseInv, Undisturbed, Gathered, Known, NothingLost, SentOnce, Tracked,
              Dispatches, Answers, RecordOf, Executing
<1> QED BY <1>2, <1>3, <1>4, <1>5, <1>6 DEF Next

LEMMA PromiseInvariant == Spec => []PromiseInv
<1>1. Init => PromiseInv
  BY PromiseInit
<1>2. PromiseInv /\ [Next]_vars => PromiseInv'
  BY PromiseStep
<1> QED BY <1>1, <1>2, PTL DEF Spec

-----------------------------------------------------------------------------
(* What the documents promise, as long as the run is undisturbed.          *)

OneTaskUndisturbed == Undisturbed => OneRemoteTaskPerKey

(* Until the first call is lost or the first coroutine outlives its         *)
(* handler, a key creates a task on one node only: whatever is retried,    *)
(* skipped, cancelled, resumed or recovered from crashes, no attempt that  *)
(* a node has heard of becomes schedulable again.                          *)
THEOREM OneTaskPerKeyUndisturbed == Spec => []OneTaskUndisturbed
<1>1. PromiseInv => OneTaskUndisturbed
  BY DEF PromiseInv, Known, SentOnce, OneTaskUndisturbed, OneRemoteTaskPerKey
<1> QED BY <1>1, PromiseInvariant, PTL

NothingUntracked ==
  Undisturbed =>
    \A a \in AttemptIds, n \in Nodes :
      Executing(a, n) => a \in LatestIds(latest) /\ row[a].status \in ActiveTasks

LEMMA ExecutingIsLatest ==
  ASSUME PromiseInv, Undisturbed, NEW a \in AttemptIds, NEW n \in Nodes, Executing(a, n)
  PROVE  a \in LatestIds(latest) /\ row[a].status \in Tracking
<1>1. row[a].status \in Tracking /\ ~leaked
  BY DEF PromiseInv, Known, Tracked, Undisturbed
<1>2. ~(a[2] < latest[a[1]])
  BY <1>1 DEF PromiseInv, SafeInv, LockInv, Discipline, Superseded, Tracking,
              ManualRetryTasks, FailureTasks
<1>3. ~(a[2] > latest[a[1]])
  BY <1>1 DEF PromiseInv, SafeInv, Untouched, NewRow, Tracking
<1>4. a[2] \in Nat /\ latest[a[1]] \in Nat
  BY AttemptIdsDef DEF PromiseInv, SafeInv, LockInv, TypeOK
<1> QED BY <1>1, <1>2, <1>3, <1>4 DEF LatestIds

(* Until then a node executes only what the coordinator holds active, and  *)
(* of a task only its last attempt: no timeout, failed dispatch, retry or  *)
(* restart forgets an execution that goes on.                              *)
THEOREM NothingRunsUntracked == Spec => []NothingUntracked
<1>1. PromiseInv => NothingUntracked
  BY ExecutingIsLatest DEF NothingUntracked, Tracking, ActiveTasks
<1> QED BY <1>1, PromiseInvariant, PTL

CancelReachesUndisturbed ==
  [][ Undisturbed /\ runStatus' # runStatus /\ runStatus' = "cancelled"
        => \A a \in AttemptIds, n \in Nodes : ~Executing(a, n) ]_vars

LEMMA CancelStep ==
  ASSUME PromiseInv, [Next]_vars, Undisturbed, runStatus' # runStatus,
         runStatus' = "cancelled", NEW a \in AttemptIds, NEW n \in Nodes, Executing(a, n)
  PROVE  FALSE
<1>1. SettleCancellation
  BY RunIsLeftAlone
     DEF PromiseInv, User, Start, Pause, Resume, Cancel, CancelRaises, RetryTask, SkipTask,
         Unblocked, Phase, FinishReconcile, DispatchReady, FinishDispatch, SettledStatus,
         FinishRetry, FinishCancel, RecoverAgain, StartFailed, RetryDue, CrashInCancel,
         Restart
<1>2. row[a].status \in SettledForCancel
  BY <1>1, ExecutingIsLatest DEF SettleCancellation
<1> QED
  BY <1>2, ExecutingIsLatest DEF SettledForCancel, TerminalTasks, AutoRetryTasks, Tracking

(* Until then a run that turns to cancelled has been cancelled: at that     *)
(* moment no node executes any attempt of any of its tasks.                *)
THEOREM CancelsReachNodesUndisturbed == Spec => CancelReachesUndisturbed
<1>1. PromiseInv /\ [Next]_vars
        => [ Undisturbed /\ runStatus' # runStatus /\ runStatus' = "cancelled"
               => \A a \in AttemptIds, n \in Nodes : ~Executing(a, n) ]_vars
  BY CancelStep
<1> QED BY <1>1, PromiseInvariant, PTL DEF Spec, CancelReachesUndisturbed

-----------------------------------------------------------------------------
(* Where the disturbance comes from.                                       *)
LEMMA RaiseIsKnown ==
  ASSUME PromiseInv, NEW j \in jobs, Fails(j), ~leaked
  PROVE  \E a \in LatestIds(latest) :
           \/ row[a].status = "dispatching"
           \/ row[a].status = "collecting" /\ PathTaken(a)
<1>1. j.id \in LatestIds(latest) /\ j.mem = row[j.id]
  BY DEF PromiseInv, SafeInv, LockInv, Discipline, NoLostUpdate
<1>2. ~(j.mem.status = "running" /\ j.pc = "get" /\ j.reply = "cancelled")
  BY StopIsAsked DEF PromiseInv
<1>3. ~(/\ j.mem.status = "collecting" /\ j.pc = "get"
        /\ j.reply \notin Good \cup Errors \cup {"none"})
  BY DEF PromiseInv, Gathered
<1> QED BY <1>1, <1>2, <1>3 DEF Fails

LEMMA EndedEarlyStep ==
  ASSUME PromiseInv, [Next]_vars, Held # {}, handler' = Idle, crashes' = crashes, ~leaked
  PROVE  \E a \in LatestIds(latest) :
           \/ row[a].status = "dispatching"
           \/ row[a].status = "collecting" /\ PathTaken(a)
<1>1. SafeInv /\ LockInv /\ handler # Idle /\ up
  BY DEF PromiseInv, SafeInv, LockInv, Discipline, Held
<1>2. ~User
  BY <1>1, UserHandles DEF Handles
<1>3. ~Phase
  <2>1. ~StartFailed
    BY <1>1 DEF StartFailed
  <2> QED BY <1>1, <2>1, PhaseHandles DEF Handles
<1>4. ~(Tick \/ Crash \/ CrashInCancel \/ Restart)
  <2>1. crashes \in Nat
    BY <1>1, BoundsAssumption DEF LockInv, TypeOK
  <2>2. ~(Tick \/ Restart)
    BY <1>1 DEF Tick, Free, Restart
  <2>3. ~(Crash \/ CrashInCancel)
    BY <2>1 DEF Crash, CrashInCancel, Die
  <2> QED BY <2>2, <2>3
<1>5. ASSUME NEW j \in jobs, Coroutine(j)
      PROVE  Fails(j)
  <2>1. j \in Job /\ OnCourse(j)
    BY <1>1 DEF SafeInv, LockInv, TypeOK, Course
  <2>2. ~\E r \in Row : Moves(j, r)
    BY <1>1 DEF Moves, Calm
  <2> QED BY <1>5, <2>1, <2>2, CoroutineMoves
<1>6. ASSUME NEW j \in jobs, NodeServes(j) \/ CallFails(j)
      PROVE  FALSE
  BY <1>1, <1>6 DEF NodeServes, CallFails
<1>7. ASSUME NEW a \in AttemptIds,
             (\E n \in Nodes : RemoteFinishes(a, n)) \/ TimeoutPasses(a) \/ DelayPasses(a)
      PROVE  FALSE
  BY <1>1, <1>7 DEF RemoteFinishes, TimeoutPasses, DelayPasses
<1>8. ~UNCHANGED vars
  BY <1>1 DEF vars
<1> QED BY <1>2, <1>3, <1>4, <1>5, <1>6, <1>7, <1>8, RaiseIsKnown DEF Next

(* While no coroutine has outlived its handler, an exception of the state   *)
(* table or of the UNIQUE column ends a handler early only over an attempt *)
(* that it finds dispatching, or over the second delivery of a reviewed    *)
(* task: no answer of a node, whenever it comes and whatever was lost      *)
(* before, makes _set_attempt_status raise otherwise.  Errors of the disk  *)
(* are outside the model.                                                  *)
THEOREM ExceptionsAreKnown == Spec => RaisesAreKnown
<1>1. PromiseInv /\ [Next]_vars
        => [ Held # {} /\ handler' = Idle /\ crashes' = crashes /\ ~leaked
               => \E a \in LatestIds(latest) :
                    \/ row[a].status = "dispatching"
                    \/ row[a].status = "collecting" /\ PathTaken(a) ]_vars
  BY EndedEarlyStep
<1> QED BY <1>1, PromiseInvariant, PTL DEF Spec, RaisesAreKnown

-----------------------------------------------------------------------------
(* What a retry may leave behind.  The end of an execution that is saved as *)
(* such is one that the node has reported, or a timeout.                   *)

Over == {"failed", "needs_review"}

Spent ==
  ~leaked =>
    /\ \A a \in AttemptIds : row[a].status \in Over /\ RemoteGoesOn(a) => a \in overdue
    /\ \A j \in jobs : j.pc = "get" /\ j.reply = "failed" =>
                        j.mem.node \in Nodes /\ ~Executing(j.id, j.mem.node)

LEMMA CoroutineSpends ==
  ASSUME PromiseInv, Spent, NEW j \in jobs, Coroutine(j), ~leaked'
  PROVE  Spent'
<1>1. j \in Job /\ OnCourse(j) /\ SafeInv
  BY DEF PromiseInv, SafeInv, LockInv, TypeOK, Course
<1>2. UNCHANGED <<remote, overdue>>
  BY <1>1, CoroutineAdvances DEF Advances, clock
<1>3. CASE Fails(j)
  <2>1. ~leaked /\ jobs' = {} /\ row' = row
    BY <1>3, RaiseLeavesNothing DEF Fails, Raise, PromiseInv
  <2> QED BY <1>2, <2>1 DEF Spent, RemoteGoesOn, Executing
<1>4. ASSUME NEW r \in Row, Moves(j, r)
      PROVE  Spent'
  <2>1. ~leaked
    BY <1>4 DEF Moves, Calm
  <2>2. /\ j.id \in AttemptIds /\ j.mem = row[j.id] /\ row'[j.id] = r
        /\ \A a \in AttemptIds \ {j.id} : row'[a] = row[a]
    BY <1>1, <1>4, <2>1, MovesRows
  <2>3. \A k \in jobs' : k \in jobs \/ k.reply = "none"
    BY <1>1, <1>4, MovesJobs
  <2>4. ASSUME r.status \in Over, r.node \in Nodes, Executing(j.id, r.node)
        PROVE  j.id \in overdue
    <3>1. Reports(j) /\ r.node = j.mem.node
      BY <1>4, <2>4 DEF Moves, Over
    <3>2. j.mem.status # "collecting"
      BY <2>1, <2>2, <2>4, <3>1 DEF PromiseInv, Gathered, Good, Executing
    <3>3. ~(j.pc = "get" /\ j.reply = "failed")
      BY <2>1, <2>4, <3>1 DEF Spent
    <3> QED BY <1>1, <3>1, <3>2, <3>3 DEF Reports, OnCourse
  <2>5. \A a \in AttemptIds : (row[a].status \in Over /\ RemoteGoesOn(a) => a \in overdue)'
    BY <1>2, <2>1, <2>2, <2>4 DEF Spent, RemoteGoesOn, Executing
  <2> QED BY <1>2, <2>1, <2>3, <2>5 DEF Spent, Executing
<1> QED BY <1>1, <1>3, <1>4, CoroutineMoves

LEMMA ServedFailed ==
  ASSUME NEW s \in RemoteStatus, NEW o \in Served("get", s), o[2] = "failed"
  PROVE  o[1] \in {"failed", "stillborn"}
BY DEF Served, Report, RemoteStatus, Reported

LEMMA CallSpends ==
  ASSUME PromiseInv, Spent, NEW j \in jobs, NodeServes(j) \/ CallFails(j), ~leaked'
  PROVE  Spent'
<1>1. UNCHANGED <<row, leaked>> /\ SafeInv /\ overdue' = overdue
  BY CallIsOne DEF PromiseInv, NodeServes, CallFails, clock
<1>2. PICK s, reply : Calling(j, s, reply)
  BY <1>1, CallIsOne
<1>3. /\ RecordOf(j) \in RemoteStatus /\ OnCourse(j) /\ j.mem = row[j.id]
      /\ remote'[j.id][j.mem.node] = s
      /\ \A a \in AttemptIds, n \in Nodes :
           a # j.id \/ n # j.mem.node => remote'[a][n] = remote[a][n]
      /\ \A k \in jobs' :
           \/ k \in jobs /\ k.id \in AttemptIds /\ k.id # j.id
           \/ k.id = j.id /\ k.pc = j.pc /\ k.mem = j.mem /\ k.reply = reply
  BY <1>1, <1>2, CallReaches
<1>4. ASSUME NEW a \in AttemptIds, row[a].status \in Over, RemoteGoesOn(a)'
      PROVE  a \in overdue
  <2>1. a # j.id
    BY <1>3, <1>4 DEF OnCourse, StatusAt, Over, ActiveTasks
  <2> QED BY <1>1, <1>3, <1>4, <2>1 DEF Spent, RemoteGoesOn, Executing
<1>5. ASSUME NEW k \in jobs', k.pc = "get", k.reply = "failed"
      PROVE  k.mem.node \in Nodes /\ ~Executing(k.id, k.mem.node)'
  <2>1. CASE k \in jobs /\ k.id \in AttemptIds /\ k.id # j.id
    BY <1>1, <1>3, <1>5, <2>1 DEF Spent, Executing
  <2>2. CASE k.id = j.id /\ k.pc = j.pc /\ k.mem = j.mem /\ k.reply = reply
    <3>1. s \in {"failed", "stillborn"}
      BY <1>2, <1>3, <1>5, <2>2, ServedFailed DEF Calling, Errors
    <3>2. j.mem.node \in Nodes
      BY <1>2 DEF Calling
    <3> QED BY <1>3, <2>2, <3>1, <3>2 DEF Executing
  <2> QED BY <1>3, <2>1, <2>2
<1> QED BY <1>1, <1>4, <1>5 DEF Spent

LEMMA WorldSpends ==
  ASSUME PromiseInv, Spent, NEW a \in AttemptIds, ~leaked',
         (\E n \in Nodes : RemoteFinishes(a, n)) \/ TimeoutPasses(a) \/ DelayPasses(a)
  PROVE  Spent'
<1>1. UNCHANGED <<row, jobs, leaked>> /\ overdue \subseteq overdue'
  BY DEF RemoteFinishes, TimeoutPasses, DelayPasses, clock
<1>2. \A b \in AttemptIds, m \in Nodes : Executing(b, m)' => Executing(b, m)
  <2>1. CASE remote' = remote
    BY <2>1 DEF Executing
  <2>2. ASSUME NEW n \in Nodes, RemoteFinishes(a, n)
        PROVE  \A b \in AttemptIds, m \in Nodes : Executing(b, m)' => Executing(b, m)
    <3>1. PICK s \in Progress(remote[a][n], a[1] \in ReviewTasks) :
            remote' = [remote EXCEPT ![a][n] = s]
      BY <2>2 DEF RemoteFinishes
    <3>2. remote[a][n] \in {"running", "cancelling"}
      BY <3>1 DEF Progress
    <3>3. \A b \in AttemptIds, m \in Nodes :
            b # a \/ m # n => remote'[b][m] = remote[b][m]
      BY <3>1 DEF PromiseInv, SafeInv, LockInv, TypeOK
    <3> QED BY <3>2, <3>3 DEF Executing
  <2> QED BY <2>1, <2>2 DEF TimeoutPasses, DelayPasses
<1>3. \A j \in jobs : j.id \in AttemptIds
  BY JobFields DEF PromiseInv, SafeInv, LockInv, TypeOK
<1> QED BY <1>1, <1>2, <1>3 DEF Spent, RemoteGoesOn

LEMMA HandlerSpends ==
  ASSUME PromiseInv, Spent, Conducts, ~leaked'
  PROVE  Spent'
<1>1. /\ UNCHANGED <<remote, overdue, leaked>>
      /\ \A a \in AttemptIds : Redo(a)
      /\ \A k \in jobs' : k \in jobs \/ Opened(k)
  BY DEF Conducts
<1>2. \A a \in AttemptIds : row'[a].status \in Over => row'[a] = row[a]
  BY <1>1 DEF Redo, Over
<1> QED BY <1>1, <1>2 DEF Spent, RemoteGoesOn, Executing, Opened

LEMMA SpentStep ==
  ASSUME PromiseInv, Spent, [Next]_vars
  PROVE  Spent'
<1>1. SafeInv' /\ LockInv'
  BY SafeStep DEF PromiseInv, SafeInv
<1> SUFFICES ASSUME ~leaked'
             PROVE  Spent'
  BY DEF Spent
<1>2. CASE User \/ Phase \/ Tick \/ Crash \/ CrashInCancel \/ Restart
  BY <1>1, <1>2, UserConducts, PhaseConducts, ProcessConducts, HandlerSpends DEF PromiseInv
<1>3. ASSUME NEW j \in jobs, Coroutine(j)
      PROVE  Spent'
  BY <1>3, CoroutineSpends
<1>4. ASSUME NEW j \in jobs, NodeServes(j) \/ CallFails(j)
      PROVE  Spent'
  BY <1>4, CallSpends
<1>5. ASSUME NEW a \in AttemptIds,
             (\E n \in Nodes : RemoteFinishes(a, n)) \/ TimeoutPasses(a) \/ DelayPasses(a)
      PROVE  Spent'
  BY <1>5, WorldSpends
<1>6. CASE UNCHANGED vars
  BY <1>6 DEF vars, clock, Spent, RemoteGoesOn, Executing
<1> QED BY <1>2, <1>3, <1>4, <1>5, <1>6 DEF Next

(* While no coroutine has outlived its handler, every attempt but a task's  *)
(* last is in a status that a retry accepts, across crashes, lost calls    *)
(* and late answers; and where such an attempt says failed or to be        *)
(* reviewed and its node executes it all the same, it had timed out.       *)
THEOREM AttemptsTakeTurns == Spec => []AttemptsInTurn
<1>1. Init => Spent
  <2>1. NewRow.status \notin Over
    BY DEF NewRow, Over
  <2> QED BY <2>1 DEF Init, Spent
<1>2. PromiseInv /\ Spent /\ [Next]_vars => Spent'
  BY SpentStep
<1>3. PromiseInv /\ Spent => AttemptsInTurn
  BY DEF PromiseInv, SafeInv, LockInv, Discipline, Superseded, Spent, Over, AttemptsInTurn
<1> QED BY <1>1, <1>2, <1>3, PromiseInvariant, PTL DEF Spec
=============================================================================
