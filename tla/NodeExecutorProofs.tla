------------------------- MODULE NodeExecutorProofs -------------------------
(***************************************************************************)
(* The node agent, for any number of crashes, with or without inputs and   *)
(* review: its safety properties, from one inductive invariant, and that   *)
(* every step of it is a step of RemoteTask or leaves the record and the   *)
(* answer alone.                                                           *)
(***************************************************************************)
EXTENDS NodeExecutor, TLAPS

(* What a request has done so far, by what is left of it to do.             *)
RequestInv ==
  /\ ~up => request = NoRequest
  /\ request.stage = "record" => files = "bare"
  /\ request.stage = "started" =>
       /\ files = "made" /\ record = [status |-> "queued", id |-> 0]
       /\ request.run # 0 /\ request.run = known
  /\ request.stage = "verify" =>
       /\ files = "made" /\ record.status \in {"running", "cancelling"}
       /\ request.run # 0 /\ request.run = record.id
       /\ hermes[request.run] = "completed" /\ output = request.run
  /\ request.stage = "stopped" =>
       /\ files = "made"
       /\ request.run # 0 /\ request.run = record.id
       /\ request.status \in {"cancelled"} \cup Unconfirmed
       /\ request.status = "cancelled" => \A r \in Runs : hermes[r] # "executing"

(* The record of a run, and the runs that Hermes knows.                     *)
RecordInv ==
  /\ files # "made" => record = [status |-> "queued", id |-> 0]
  /\ record.id = 0 => record.status \in {"queued", "failed"}
  /\ record.id # 0 => record.status # "queued" /\ known \in {0, record.id}

RunInv ==
  /\ \A r \in Runs : hermes[r] = "executing" => r = known
  /\ known = 0 => begun <= crashes
  /\ mode = "cli" /\ known # 0 /\ request.stage # "started" => record.id = known

IInv ==
  /\ TypeOK
  /\ RequestInv
  /\ RecordInv
  /\ RunInv
  /\ CancelledIsStopped
  /\ SuccessDelivered

USE CrashesAssumption, FlagsAssumption

LEMMA InitInv == Init => IInv
<1> SUFFICES ASSUME Init PROVE IInv
  OBVIOUS
<1>1. TypeOK
  <2>1. record \in [status: Reported, id: Runs \cup {0}]
    <3>1. "queued" \in Reported
      BY DEF Reported
    <3> QED BY <3>1 DEF Init
  <2>2. hermes \in [Runs -> HermesStatus]
    BY DEF Init, HermesStatus
  <2>3. request = NoRequest
    BY DEF Init
  <2>4. up \in BOOLEAN /\ staged \in BOOLEAN
    BY DEF Init
  <2>5. crashes \in 0..MaxCrashes /\ begun \in 0..(crashes + 1)
    BY DEF Init
  <2> QED BY <2>1, <2>2, <2>3, <2>4, <2>5 DEF Init, TypeOK
<1>2. RequestInv
  BY DEF Init, RequestInv, NoRequest
<1>3. RecordInv /\ CancelledIsStopped /\ SuccessDelivered
  BY DEF Init, RecordInv, CancelledIsStopped, SuccessDelivered
<1>4. RunInv
  BY DEF Init, RunInv, NoRequest
<1> QED BY <1>1, <1>2, <1>3, <1>4 DEF IInv

-----------------------------------------------------------------------------
(* The steps keep the invariant, handler by handler.                        *)

(* Requests that change nothing but the answer, or take an input.          *)
LEMMA AnswersKeep ==
  ASSUME IInv, CreateAgain \/ NotFound \/ Upload \/ StartAgain \/
         PollSettled \/ PollUnchanged \/ CancelNothing
  PROVE  IInv'
<1> USE DEF IInv, TypeOK, RequestInv, RecordInv, RunInv, CancelledIsStopped,
            SuccessDelivered
<1>1. CASE CreateAgain
  BY <1>1 DEF CreateAgain, Accepting, Reply, Still, disk, runs, NoRequest,
         Request, Stage, Runs, Reported
<1>2. CASE NotFound
  BY <1>2 DEF NotFound, Accepting, Reply, Still, disk, runs, NoRequest,
         Request, Stage, Runs, Reported
<1>3. CASE Upload
  BY <1>3 DEF Upload, Accepting, TakesInputs, Reply, Still, runs, NoRequest,
         Request, Stage, Runs, Reported
<1>4. CASE StartAgain
  BY <1>4 DEF StartAgain, Accepting, Startable, Reply, Still, disk, runs,
         NoRequest, Request, Stage, Runs, Reported
<1>5. CASE PollSettled
  BY <1>5 DEF PollSettled, Accepting, Live, Reply, Still, disk, runs,
         NoRequest, Request, Stage, Runs, Reported
<1>6. CASE PollUnchanged
  BY <1>6 DEF PollUnchanged, Found, Reply, Still, disk, runs, Accepting, Live,
         NoRequest, Request, Stage, Runs, Reported
<1>7. CASE CancelNothing
  BY <1>7 DEF CancelNothing, Accepting, Reply, Still, disk, runs, NoRequest,
         Request, Stage, Runs, Reported
<1> QED BY <1>1, <1>2, <1>3, <1>4, <1>5, <1>6, <1>7

(* create.                                                                 *)
LEMMA CreateKeeps ==
  ASSUME IInv, MakeDirectory \/ SaveNew
  PROVE  IInv'
<1> USE DEF IInv, TypeOK, RequestInv, RecordInv, RunInv, CancelledIsStopped,
            SuccessDelivered
<1>1. CASE MakeDirectory
  BY <1>1 DEF MakeDirectory, Accepting, Then, Still, runs, NoRequest, Request,
         Stage, Runs, Reported
<1>2. CASE SaveNew
  BY <1>2 DEF SaveNew, SaveRecord, Still, runs, Reply, NoRequest, Request,
         Stage, Runs, Reported
<1> QED BY <1>1, <1>2

(* start.                                                                  *)
LEMMA StartKeeps ==
  ASSUME IInv, StartFails \/ StartRun \/ SaveStarted \/ StartAnswerLost
  PROVE  IInv'
<1> USE DEF IInv, TypeOK, RequestInv, RecordInv, RunInv, CancelledIsStopped,
            SuccessDelivered
<1>1. CASE StartFails
  BY <1>1 DEF StartFails, Accepting, Startable, SaveRecord, Still, runs,
         NoRequest, Reply, Request, Stage, Runs, Reported
<1>2. CASE StartRun
  BY <1>2 DEF StartRun, Accepting, Startable, FindsRun, Then, Still, disk,
         runs, NoRequest, Request, Stage, Runs, Reported, HermesStatus
<1>3. CASE SaveStarted
  BY <1>3 DEF SaveStarted, SaveRecord, Still, runs, Reply, NoRequest, Request,
         Stage, Runs, Reported
<1>4. CASE StartAnswerLost
  BY <1>4 DEF StartAnswerLost, SaveRecord, Still, runs, Reply, NoRequest,
         Request, Stage, Runs, Reported
<1> QED BY <1>1, <1>2, <1>3, <1>4

(* poll.                                                                   *)
LEMMA PollKeeps ==
  ASSUME IInv, PollFails \/ PollStopped \/ PollFailed \/ PollCompleted \/
         SaveVerified
  PROVE  IInv'
<1> USE DEF IInv, TypeOK, RequestInv, RecordInv, RunInv, CancelledIsStopped,
            SuccessDelivered
<1>1. CASE PollFails
  BY <1>1 DEF PollFails, Accepting, Live, SaveRecord, Still, WhenUnknown,
         runs, NoRequest, Reply, Request, Stage, Runs, Reported
<1>2. CASE PollStopped
  BY <1>2 DEF PollStopped, Found, SaveRecord, Still, runs, Accepting, Live,
         Reply, NoRequest, Request, Stage, Runs, Reported
<1>3. CASE PollFailed
  BY <1>3 DEF PollFailed, Found, SaveRecord, Still, runs, Accepting, Live,
         Reply, NoRequest, Request, Stage, Runs, Reported
<1>4. CASE PollCompleted
  BY <1>4 DEF PollCompleted, Found, CaptureOutput, Then, Still, runs,
         Accepting, Live, NoRequest, Request, Stage, Runs, Reported
<1>5. CASE SaveVerified
  BY <1>5 DEF SaveVerified, SaveRecord, Still, runs, Outcomes, Reply,
         NoRequest, Request, Stage, Runs, Reported
<1> QED BY <1>1, <1>2, <1>3, <1>4, <1>5

(* cancel.                                                                 *)
LEMMA CancelKeeps ==
  ASSUME IInv, StopProcess \/ StopRun \/ SaveStopped
  PROVE  IInv'
<1> USE DEF IInv, TypeOK, RequestInv, RecordInv, RunInv, CancelledIsStopped,
            SuccessDelivered
<1>1. CASE StopProcess
  BY <1>1 DEF StopProcess, Accepting, Then, Still, disk, NoRequest, Request,
         Stage, Runs, Reported, HermesStatus, Unconfirmed
<1>2. CASE StopRun
  BY <1>2 DEF StopRun, Accepting, StopAnswers, Then, Still, disk, NoRequest,
         Unconfirmed, Request, Stage, Runs, Reported, HermesStatus
<1>3. CASE SaveStopped
  BY <1>3 DEF SaveStopped, SaveRecord, Still, runs, Reply, NoRequest, Request,
         Stage, Runs, Reported, Unconfirmed
<1> QED BY <1>1, <1>2, <1>3

(* The agent dies, with its child processes if it has any.                  *)
LEMMA CrashKeeps ==
  ASSUME IInv, Crash
  PROVE  IInv'
<1>1. request' = NoRequest /\ up' = FALSE
  BY DEF Crash
<1>2. UNCHANGED <<mode, files, record, staged, output, begun>>
  BY DEF Crash, disk
<1>3. crashes' = crashes + 1 /\ crashes' \in 0..MaxCrashes
  BY DEF Crash, IInv, TypeOK
<1>4. /\ hermes' \in [Runs -> HermesStatus]
      /\ known' = known \/ known' = 0
      /\ \A r \in Runs : hermes'[r] = "executing" => hermes[r] = "executing" /\ known' = known
      /\ \A r \in Runs : hermes[r] = "completed" => hermes'[r] = "completed"
      /\ mode = "cli" => known' = 0
  <2>1. CASE mode = "cli"
    BY <2>1 DEF Crash, IInv, TypeOK, HermesStatus
  <2>2. CASE mode # "cli"
    BY <2>2 DEF Crash, IInv, TypeOK
  <2> QED BY <2>1, <2>2
<1>5. TypeOK'
  <2>1. begun' \in 0..(crashes' + 1)
    BY <1>2, <1>3 DEF IInv, TypeOK
  <2>2. known' \in Runs \cup {0}
    BY <1>4 DEF IInv, TypeOK
  <2> QED BY <1>1, <1>2, <1>3, <1>4, <2>1, <2>2 DEF IInv, TypeOK
<1>6. RequestInv' /\ RecordInv'
  BY <1>1, <1>2, <1>4 DEF IInv, RequestInv, RecordInv, NoRequest
<1>7. RunInv'
  BY <1>1, <1>2, <1>3, <1>4 DEF IInv, TypeOK, RunInv, NoRequest
<1>8. CancelledIsStopped' /\ SuccessDelivered'
  BY <1>2, <1>4 DEF IInv, TypeOK, CancelledIsStopped, SuccessDelivered
<1> QED BY <1>5, <1>6, <1>7, <1>8 DEF IInv

(* Hermes ends a run, by itself or because it was asked to.                 *)
LEMMA HermesKeeps ==
  ASSUME IInv, NEW r \in Runs, HermesEnds(r) \/ HermesStops(r)
  PROVE  IInv'
<1>1. PICK s \in {"completed", "failed", "stopped"} : hermes' = [hermes EXCEPT ![r] = s]
  BY DEF HermesEnds, HermesStops
<1>2. hermes[r] = "executing"
  BY DEF HermesEnds, HermesStops
<1>3. UNCHANGED <<mode, up, crashes, disk, begun, known, request>>
  BY DEF HermesEnds, HermesStops, Still
<1> QED BY <1>1, <1>2, <1>3 DEF IInv, TypeOK, RequestInv, RecordInv, RunInv,
      CancelledIsStopped, SuccessDelivered, disk, HermesStatus

LEMMA StepInv == IInv /\ [Next]_vars => IInv'
<1> SUFFICES ASSUME IInv, [Next]_vars PROVE IInv'
  OBVIOUS
<1>1. CASE Receive
  BY <1>1, AnswersKeep, CreateKeeps, StartKeeps, PollKeeps, CancelKeeps DEF Receive, Poll
<1>2. CASE Proceed
  BY <1>2, CreateKeeps, StartKeeps, PollKeeps, CancelKeeps DEF Proceed
<1>3. CASE \E r \in Runs : HermesEnds(r) \/ HermesStops(r)
  BY <1>3, HermesKeeps
<1>4. CASE Crash
  BY <1>4, CrashKeeps
<1>5. CASE Restart
  BY <1>5 DEF Restart, IInv, TypeOK, RequestInv, RecordInv, RunInv, CancelledIsStopped,
              SuccessDelivered, disk, runs
<1>6. CASE UNCHANGED vars
  BY <1>6 DEF vars, IInv, TypeOK, RequestInv, RecordInv, RunInv, CancelledIsStopped,
              SuccessDelivered
<1> QED BY <1>1, <1>2, <1>3, <1>4, <1>5, <1>6 DEF Next

LEMMA Invariant == Spec => []IInv
<1>1. Init => IInv
  BY InitInv
<1>2. IInv /\ [Next]_vars => IInv'
  BY StepInv
<1> QED BY <1>1, <1>2, PTL DEF Spec

(* Types are kept, and each run of the key but the first is paid for by a   *)
(* crash of the agent (NodeExecutor.start).                                *)
THEOREM RunsCostCrashes == Spec => []TypeOK
<1>1. IInv => TypeOK
  BY DEF IInv
<1> QED BY <1>1, Invariant, PTL

(* One idempotency key is never executed twice at once, however often the  *)
(* agent dies between Hermes's answer and task.json.                       *)
THEOREM OneExecutionPerKey == Spec => []OneExecution
<1>1. IInv => OneExecution
  BY DEF IInv, RunInv, OneExecution
<1> QED BY <1>1, Invariant, PTL

(* A record says cancelled only when no run of the task executes.           *)
THEOREM CancelledMeansStopped == Spec => []CancelledIsStopped
<1>1. IInv => CancelledIsStopped
  BY DEF IInv
<1> QED BY <1>1, Invariant, PTL

(* A record says success only when its own run has completed and its        *)
(* output is in the artifact manifest.                                     *)
THEOREM SuccessMeansDelivered == Spec => []SuccessDelivered
<1>1. IInv => SuccessDelivered
  BY DEF IInv
<1> QED BY <1>1, Invariant, PTL

-----------------------------------------------------------------------------
(* The refinement: each step is one of RemoteTask, or hidden from it.       *)

Hidden == StatusShown' = StatusShown /\ answer' = answer

Serves(call) ==
  \E o \in Served(call, StatusShown) : StatusShown' = o[1] /\ answer' = <<call, o[2]>>

LEMMA ServesIsNext ==
  ASSUME NEW call \in {"create", "upload", "start", "get", "cancel"}, Serves(call)
  PROVE  Remote!Next
BY DEF Serves, Served, Report, Unconfirmed, Remote!Next, Remote!Serve, Remote!Served,
       Remote!Report, Remote!Unconfirmed, Remote!NodeCalls

LEMMA RefuseIsNext ==
  ASSUME NEW call \in {"create", "upload", "start", "get", "cancel"},
         StatusShown' = StatusShown, answer' = <<call, "refused">>
  PROVE  Remote!Next
BY DEF Remote!Next, Remote!Refuse, Remote!NodeCalls

LEMMA FindIsNext ==
  ASSUME StatusShown' \in Progress(StatusShown, Reviewed),
         answer' = <<"get", Report(StatusShown')>>
  PROVE  Remote!Next
BY DEF Remote!Next, Remote!Find, Remote!Progress, Remote!Report, Remote!Outcomes,
       Progress, Report, Outcomes

(* A saved record is shown as it is, but for a failed start.                *)
LEMMA SavedIsShown ==
  ASSUME files' = "made", record'.id # 0 \/ record'.status # "failed"
  PROVE  StatusShown' = record'.status
BY DEF StatusShown

LEMMA RecordIsShown ==
  ASSUME files = "made", record.id # 0 \/ record.status # "failed"
  PROVE  StatusShown = record.status
BY DEF StatusShown

(* Requests that leave the record as it is answer with it, or refuse.       *)
LEMMA AnswersRefine ==
  ASSUME IInv, CreateAgain \/ NotFound \/ Upload \/ StartAgain \/
         PollSettled \/ PollUnchanged \/ CancelNothing
  PROVE  Remote!Next
<1>1. StatusShown' = StatusShown
  BY DEF CreateAgain, NotFound, Upload, StartAgain, PollSettled, PollUnchanged,
         CancelNothing, disk, StatusShown
<1>2. files = "made" => /\ StatusShown # "absent"
                        /\ Report(StatusShown) = record.status
                        /\ StatusShown \in RemoteStatus
  BY DEF StatusShown, Report, RemoteStatus, Reported, IInv, TypeOK
<1>3. CASE CreateAgain
  <2>1. CASE answer' = <<"create", "refused">>
    BY <1>1, <2>1, RefuseIsNext
  <2>2. CASE files = "made" /\ answer' = <<"create", record.status>>
    <3>1. Serves("create")
      BY <1>1, <1>2, <2>2 DEF Serves, Served
    <3> QED BY <3>1, ServesIsNext
  <2> QED BY <1>3, <2>1, <2>2 DEF CreateAgain, Reply
<1>4. CASE NotFound
  <2>1. PICK call \in {"upload", "start", "get", "cancel"} : answer' = <<call, "refused">>
    BY <1>4 DEF NotFound, Reply
  <2> QED BY <1>1, <2>1, RefuseIsNext
<1>5. CASE Upload
  <2>1. CASE answer' = <<"upload", "refused">>
    BY <1>1, <2>1, RefuseIsNext
  <2>2. CASE files = "made" /\ TakesInputs /\ answer' = <<"upload", "ok">>
    <3>1. StatusShown = "queued"
      BY <2>2 DEF StatusShown, TakesInputs
    <3>2. Serves("upload")
      BY <1>1, <2>2, <3>1 DEF Serves, Served
    <3> QED BY <3>2, ServesIsNext
  <2> QED BY <1>5, <2>1, <2>2 DEF Upload, Reply
<1>6. CASE StartAgain
  <2>1. files = "made" /\ answer' = <<"start", record.status>>
    BY <1>6 DEF StartAgain, Reply
  <2>2. StatusShown # "queued"
    BY <1>6, <2>1 DEF StartAgain, Startable, StatusShown, IInv, RecordInv
  <2>3. Serves("start")
    BY <1>1, <1>2, <2>1, <2>2 DEF Serves, Served
  <2> QED BY <2>3, ServesIsNext
<1>7. CASE PollSettled \/ PollUnchanged
  <2>1. files = "made" /\ answer' = <<"get", record.status>>
    BY <1>7 DEF PollSettled, PollUnchanged, Found, Live, Reply
  <2>2. Serves("get")
    BY <1>1, <1>2, <2>1 DEF Serves, Served
  <2> QED BY <2>2, ServesIsNext
<1>8. CASE CancelNothing
  <2>1. files = "made" /\ answer' = <<"cancel", record.status>>
    BY <1>8 DEF CancelNothing, Reply
  <2>2. StatusShown \in {"queued", "stillborn"}
    BY <1>8, <2>1 DEF CancelNothing, StatusShown, IInv, RecordInv
  <2>3. Serves("cancel")
    BY <1>1, <1>2, <2>1, <2>2 DEF Serves, Served
  <2> QED BY <2>3, ServesIsNext
<1> QED BY <1>3, <1>4, <1>5, <1>6, <1>7, <1>8

LEMMA CreateRefines ==
  ASSUME IInv, SaveNew
  PROVE  Remote!Next
<1>1. StatusShown = "absent"
  BY DEF SaveNew, IInv, RequestInv, StatusShown
<1>2. StatusShown' = "queued" /\ answer' = <<"create", "queued">>
  BY DEF SaveNew, SaveRecord, Reply, StatusShown
<1>3. Serves("create")
  BY <1>1, <1>2 DEF Serves, Served
<1> QED BY <1>3, ServesIsNext

LEMMA StartRefines ==
  ASSUME IInv, StartFails \/ SaveStarted \/ StartAnswerLost
  PROVE  Remote!Next
<1>1. StatusShown = "queued"
  BY DEF StartFails, SaveStarted, StartAnswerLost, Startable, IInv, RequestInv, StatusShown
<1>2. files' = "made"
  BY DEF StartFails, SaveStarted, StartAnswerLost, Startable, IInv, RequestInv
<1>3. \E s \in {"running", "stillborn"} :
        StatusShown' = s /\ answer' = <<"start", Report(s)>>
  <2>1. CASE StartFails \/ StartAnswerLost
    BY <1>2, <2>1 DEF StartFails, StartAnswerLost, SaveRecord, Reply, StatusShown, Report
  <2>2. CASE SaveStarted
    BY <1>2, <2>2 DEF SaveStarted, SaveRecord, Reply, StatusShown, Report, IInv, RequestInv
  <2> QED BY <2>1, <2>2
<1>4. PICK s \in {"running", "stillborn"} :
        StatusShown' = s /\ answer' = <<"start", Report(s)>>
  BY <1>3
<1>5. <<s, Report(s)>> \in Served("start", StatusShown)
  BY <1>1 DEF Served
<1>6. Serves("start")
  BY <1>4, <1>5 DEF Serves
<1> QED BY <1>6, ServesIsNext

LEMMA PollRefines ==
  ASSUME IInv, PollFails \/ PollStopped \/ PollFailed \/ SaveVerified
  PROVE  Remote!Next
<1>1. files = "made" /\ files' = "made"
  BY DEF PollFails, PollStopped, PollFailed, SaveVerified, Found, Live, IInv, RequestInv
<1>2. record.status \in {"running", "cancelling"} /\ StatusShown = record.status
  BY <1>1 DEF PollFails, PollStopped, PollFailed, SaveVerified, Found, Live, IInv,
              RequestInv, StatusShown
<1>3. record'.id # 0 /\ StatusShown' = record'.status /\ answer' = <<"get", record'.status>>
  BY <1>1 DEF PollFails, PollStopped, PollFailed, SaveVerified, SaveRecord, Reply, Found,
              Live, IInv, RequestInv, StatusShown
<1>4. record'.status \in Progress(record.status, Reviewed)
  <2>1. CASE PollFails
    BY <1>2, <2>1 DEF PollFails, SaveRecord, WhenUnknown, Progress, Outcomes
  <2>2. CASE PollStopped
    BY <2>2 DEF PollStopped, SaveRecord, Progress
  <2>3. CASE PollFailed
    BY <1>2, <2>3 DEF PollFailed, SaveRecord, Progress, Outcomes
  <2>4. CASE SaveVerified
    BY <1>2, <2>4 DEF SaveVerified, SaveRecord, Progress
  <2> QED BY <2>1, <2>2, <2>3, <2>4
<1>5. Report(StatusShown') = StatusShown'
  BY <1>2, <1>3, <1>4 DEF Report, Progress, Outcomes
<1> QED BY <1>2, <1>3, <1>4, <1>5, FindIsNext

LEMMA CancelRefines ==
  ASSUME IInv, SaveStopped
  PROVE  Remote!Next
<1>1. StatusShown = record.status /\ StatusShown \notin {"absent", "queued", "stillborn"}
  BY DEF SaveStopped, IInv, TypeOK, RequestInv, RecordInv, StatusShown, Reported
<1>2. /\ StatusShown' \in {"cancelled"} \cup Unconfirmed
      /\ answer' = <<"cancel", StatusShown'>>
  BY DEF SaveStopped, SaveRecord, Reply, IInv, RequestInv, StatusShown, Unconfirmed
<1>3. <<StatusShown', StatusShown'>> \in Served("cancel", StatusShown)
  BY <1>1, <1>2 DEF Served
<1>4. Serves("cancel")
  BY <1>2, <1>3 DEF Serves
<1> QED BY <1>4, ServesIsNext

LEMMA HiddenSteps ==
  ASSUME \/ MakeDirectory \/ StartRun \/ PollCompleted \/ StopProcess \/ StopRun
         \/ \E r \in Runs : HermesEnds(r) \/ HermesStops(r)
         \/ Crash \/ Restart \/ UNCHANGED vars
  PROVE  Hidden
BY DEF MakeDirectory, StartRun, PollCompleted, StopProcess, StopRun, HermesEnds,
       HermesStops, Crash, Restart, vars, disk, Hidden, StatusShown

(* The node agent implements what the execution manager is modelled        *)
(* against: to a coordinator, whatever the agent, Hermes and crashes do is  *)
(* a sequence of RemoteTask's steps.                                       *)
THEOREM ImplementsProtocol == Spec => KeepsProtocol
<1>1. Init => Remote!Init
  BY DEF Init, Remote!Init, StatusShown
<1>2. IInv /\ [Next]_vars => [Remote!Next]_<<StatusShown, answer>>
  <2> SUFFICES ASSUME IInv, [Next]_vars
               PROVE  Remote!Next \/ Hidden
    BY DEF Hidden
  <2>1. CASE Receive
    BY <2>1, AnswersRefine, StartRefines, PollRefines, HiddenSteps DEF Receive, Poll
  <2>2. CASE Proceed
    BY <2>2, CreateRefines, StartRefines, PollRefines, CancelRefines DEF Proceed
  <2>3. CASE (\E r \in Runs : HermesEnds(r) \/ HermesStops(r)) \/ Crash \/ Restart
    BY <2>3, HiddenSteps
  <2>4. CASE UNCHANGED vars
    BY <2>4, HiddenSteps
  <2> QED BY <2>1, <2>2, <2>3, <2>4 DEF Next
<1> QED BY <1>1, <1>2, Invariant, PTL DEF Spec, KeepsProtocol, Remote!Spec
=============================================================================
