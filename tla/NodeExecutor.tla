---------------------------- MODULE NodeExecutor ----------------------------
(***************************************************************************)
(* The node agent and one task directory of it, against Hermes, the        *)
(* agent's crashes and a coordinator that may call anything at any time.   *)
(*                                                                         *)
(* The agent serves one request after the other (its handlers never await  *)
(* between loading a record and saving it), so that requests for other     *)
(* keys only delay those for this one.  What happens in between two        *)
(* effects of a request, on the disk and on Hermes, is a crash, or Hermes  *)
(* going on.                                                               *)
(*                                                                         *)
(* Hermes is a service that survives the agent and knows a run by its      *)
(* idempotency key ("api"), or a child process per task ("cli"), which the *)
(* agent's service unit kills with the agent.                              *)
(***************************************************************************)
EXTENDS Naturals, NodeProtocol

CONSTANTS
  HasInputs,  \* the dispatch declares inputs
  Reviewed,   \* the dispatch has a manual verification step
  MaxCrashes  \* bound: crashes of the agent

ASSUME FlagsAssumption   == HasInputs \in BOOLEAN /\ Reviewed \in BOOLEAN
ASSUME CrashesAssumption == MaxCrashes \in Nat

Runs == 1..(MaxCrashes + 1)

HermesStatus == {"none", "executing", "completed", "failed", "stopped"}

(* What is left to do of the request in progress.                          *)
Stage   == {"record", "started", "verify", "stopped"}
Request == [stage: Stage, run: Runs \cup {0}, status: Reported]

NoRequest == [stage |-> "none", run |-> 0, status |-> "queued"]

VARIABLES
  mode,     \* HERMES_MODE
  up,       \* the agent runs
  files,    \* the task directory: none, bare (no task.json yet), made
  record,   \* task.json: the status, and hermes_run_id (0: none)
  staged,   \* the declared inputs have been uploaded
  output,   \* the run whose output the artifact manifest lists (0: none)
  hermes,   \* what has become of each run
  begun,    \* the number of runs begun
  known,    \* the run that Hermes finds under the key (0: none)
  request,  \* the request in progress
  answer,   \* the last answer: <<call, reply>>
  crashes   \* crashes so far

disk == <<files, record, staged, output>>
runs == <<hermes, begun, known>>
vars == <<mode, up, files, record, staged, output, hermes, begun, known, request,
          answer, crashes>>

-----------------------------------------------------------------------------
(* Requests.                                                               *)

Accepting == up /\ request = NoRequest

Then(stage, run, status) ==
  request' = [stage |-> stage, run |-> run, status |-> status]

(* The request is answered, and over.                                      *)
Reply(call, reply) ==
  /\ answer' = <<call, reply>>
  /\ request' = NoRequest

SaveRecord(call, status, id) ==
  /\ record' = [status |-> status, id |-> id]
  /\ Reply(call, status)

Still == UNCHANGED <<mode, up, crashes>>

MakeDirectory ==
  /\ Accepting
  /\ files = "none"
  /\ files' = "bare"
  /\ Then("record", 0, "queued")
  /\ UNCHANGED <<record, staged, output, runs, answer>>
  /\ Still

SaveNew ==
  /\ up
  /\ request.stage = "record"
  /\ files' = "made"
  /\ SaveRecord("create", "queued", 0)
  /\ UNCHANGED <<staged, output, runs>>
  /\ Still

(* The directory exists: its record is the answer, unless it was made for   *)
(* another content, or has no record.                                      *)
CreateAgain ==
  /\ Accepting
  /\ \/ files = "made" /\ Reply("create", record.status)
     \/ files # "none" /\ Reply("create", "refused")
  /\ UNCHANGED <<disk, runs>>
  /\ Still

(* There is no record to load.                                             *)
NotFound ==
  /\ Accepting
  /\ files # "made"
  /\ \E call \in {"upload", "start", "get", "cancel"} : Reply(call, "refused")
  /\ UNCHANGED <<disk, runs>>
  /\ Still

(* Mutant: inputs are taken at any time.                                   *)
AlwaysTakes == TRUE
TakesInputs == record.status = "queued" /\ record.id = 0

Upload ==
  /\ Accepting
  /\ files = "made"
  /\ \/ /\ HasInputs
        /\ TakesInputs
        /\ staged' = TRUE
        /\ Reply("upload", "ok")
     \/ staged' = staged /\ Reply("upload", "refused")
  /\ UNCHANGED <<files, record, output, runs>>
  /\ Still

-----------------------------------------------------------------------------
(* start.                                                                  *)

(* Mutant: a record that is not queued any more is started too.             *)
StartsAnything == files = "made"
Startable == files = "made" /\ record.id = 0 /\ record.status = "queued"

StartAgain ==
  /\ Accepting
  /\ files = "made"
  /\ ~Startable
  /\ Reply("start", record.status)
  /\ UNCHANGED <<disk, runs>>
  /\ Still

(* The inputs are not all there, or Hermes cannot be reached.               *)
StartFails ==
  /\ Accepting
  /\ Startable
  /\ SaveRecord("start", "failed", 0)
  /\ UNCHANGED <<files, staged, output, runs>>
  /\ Still

(* The run that Hermes takes the key for; the mutant sends no key.          *)
ForgetsKey == FALSE
FindsRun ==
  known # 0 /\ (mode = "api" \/ hermes[known] = "executing")

StartRun ==
  /\ Accepting
  /\ Startable
  /\ HasInputs => staged
  /\ \/ /\ FindsRun
        /\ Then("started", known, "running")
        /\ UNCHANGED runs
     \/ /\ ~FindsRun
        /\ begun' = begun + 1
        /\ known' = begun'
        /\ hermes' = [hermes EXCEPT ![begun'] = "executing"]
        /\ Then("started", begun', "running")
  /\ UNCHANGED <<disk, answer>>
  /\ Still

SaveStarted ==
  /\ up
  /\ request.stage = "started"
  /\ SaveRecord("start", "running", request.run)
  /\ UNCHANGED <<files, staged, output, runs>>
  /\ Still

(* Hermes has begun a run, and its answer is lost: the record says failed.  *)
StartAnswerLost ==
  /\ up
  /\ request.stage = "started"
  /\ mode = "api"
  /\ SaveRecord("start", "failed", 0)
  /\ UNCHANGED <<files, staged, output, runs>>
  /\ Still

-----------------------------------------------------------------------------
(* poll, which every GET of a task is.                                     *)

Live == files = "made" /\ record.status \in {"running", "cancelling"} /\ record.id # 0

PollSettled ==
  /\ Accepting
  /\ files = "made"
  /\ ~Live
  /\ Reply("get", record.status)
  /\ UNCHANGED <<disk, runs>>
  /\ Still

(* A child process is found as long as the agent that began it runs.       *)
Found == Accepting /\ Live /\ (mode = "api" \/ known # 0)

(* Mutant: a poll that fails is left for the next one.                     *)
KeepsPolling == record.status
WhenUnknown == IF record.status = "cancelling" THEN "cancel_failed" ELSE "failed"

(* Hermes does not answer, does not know the run, or its output cannot be   *)
(* written.                                                                *)
PollFails ==
  /\ Accepting
  /\ Live
  /\ mode = "api" \/ known = 0 \/ hermes[record.id] = "completed"
  /\ SaveRecord("get", WhenUnknown, record.id)
  /\ UNCHANGED <<files, staged, output, runs>>
  /\ Still

PollUnchanged ==
  /\ Found
  /\ \/ hermes[record.id] = "executing"
     \/ hermes[record.id] = "stopped" /\ record.status = "running" /\ mode = "api"
  /\ Reply("get", record.status)
  /\ UNCHANGED <<disk, runs>>
  /\ Still

PollStopped ==
  /\ Found
  /\ hermes[record.id] = "stopped"
  /\ record.status = "cancelling"
  /\ mode = "api"
  /\ SaveRecord("get", "cancelled", record.id)
  /\ UNCHANGED <<files, staged, output, runs>>
  /\ Still

PollFailed ==
  /\ Found
  /\ hermes[record.id] = "failed"
  /\ SaveRecord("get", "failed", record.id)
  /\ UNCHANGED <<files, staged, output, runs>>
  /\ Still

(* The output and its manifest are written before the verification steps.  *)
(* The mutant leaves the manifest out.                                      *)
OutputKept == output' = output
CaptureOutput == output' = record.id

PollCompleted ==
  /\ Found
  /\ hermes[record.id] = "completed"
  /\ CaptureOutput
  /\ Then("verify", record.id, record.status)
  /\ UNCHANGED <<files, record, staged, runs, answer>>
  /\ Still

SaveVerified ==
  /\ up
  /\ request.stage = "verify"
  /\ \E status \in Outcomes(Reviewed) : SaveRecord("get", status, request.run)
  /\ UNCHANGED <<files, staged, output, runs>>
  /\ Still

-----------------------------------------------------------------------------
(* cancel.                                                                 *)

CancelNothing ==
  /\ Accepting
  /\ files = "made"
  /\ record.id = 0
  /\ Reply("cancel", record.status)
  /\ UNCHANGED <<disk, runs>>
  /\ Still

(* A child process is terminated and waited for, unless it outlives even    *)
(* its kill; one that is not found, or has ended, counts as cancelled.     *)
StopProcess ==
  /\ Accepting
  /\ files = "made"
  /\ record.id # 0
  /\ mode = "cli"
  /\ \/ /\ hermes' = IF known # 0 /\ hermes[known] = "executing"
                     THEN [hermes EXCEPT ![known] = "stopped"] ELSE hermes
        /\ Then("stopped", record.id, "cancelled")
     \/ /\ known # 0 /\ hermes[known] = "executing"
        /\ hermes' = hermes
        /\ Then("stopped", record.id, "cancel_failed")
  /\ UNCHANGED <<disk, begun, known, answer>>
  /\ Still

(* Mutant: whatever Hermes answers, the task counts as cancelled.           *)
Claims(run) == {"cancelled"} \cup Unconfirmed

(* What Hermes may say of a stop, once it has done what it does.            *)
StopAnswers(run) ==
  Unconfirmed \cup (IF hermes'[run] = "executing" THEN {} ELSE {"cancelled"})

StopRun ==
  /\ Accepting
  /\ files = "made"
  /\ record.id # 0
  /\ mode = "api"
  /\ \/ hermes' = hermes
     \/ /\ hermes[record.id] = "executing"
        /\ hermes' = [hermes EXCEPT ![record.id] = "stopped"]
  /\ \E status \in StopAnswers(record.id) : Then("stopped", record.id, status)
  /\ UNCHANGED <<disk, begun, known, answer>>
  /\ Still

SaveStopped ==
  /\ up
  /\ request.stage = "stopped"
  /\ SaveRecord("cancel", request.status, request.run)
  /\ UNCHANGED <<files, staged, output, runs>>
  /\ Still

-----------------------------------------------------------------------------
(* Hermes, and the agent's crashes.                                        *)

HermesEnds(r) ==
  /\ hermes[r] = "executing"
  /\ \E s \in {"completed", "failed"} : hermes' = [hermes EXCEPT ![r] = s]
  /\ UNCHANGED <<disk, begun, known, request, answer>>
  /\ Still

(* A stop that was asked for takes effect late.                             *)
HermesStops(r) ==
  /\ hermes[r] = "executing"
  /\ record.id = r
  /\ record.status \in Unconfirmed \/ request.stage = "stopped"
  /\ hermes' = [hermes EXCEPT ![r] = "stopped"]
  /\ UNCHANGED <<disk, begun, known, request, answer>>
  /\ Still

Crash ==
  /\ up
  /\ crashes < MaxCrashes
  /\ crashes' = crashes + 1
  /\ up' = FALSE
  /\ request' = NoRequest
  /\ IF mode = "cli"
     THEN /\ hermes' = [r \in Runs |-> IF hermes[r] = "executing" THEN "stopped"
                                       ELSE hermes[r]]
          /\ known' = 0
     ELSE UNCHANGED <<hermes, known>>
  /\ UNCHANGED <<mode, disk, begun, answer>>

Restart ==
  /\ ~up
  /\ up' = TRUE
  /\ UNCHANGED <<mode, disk, runs, request, answer, crashes>>

Init ==
  /\ mode \in {"api", "cli"}
  /\ up = TRUE
  /\ files = "none"
  /\ record = [status |-> "queued", id |-> 0]
  /\ staged = FALSE
  /\ output = 0
  /\ hermes = [r \in Runs |-> "none"]
  /\ begun = 0
  /\ known = 0
  /\ request = NoRequest
  /\ answer = <<"none", "none">>
  /\ crashes = 0

Poll == PollSettled \/ PollFails \/ PollUnchanged \/ PollStopped \/ PollFailed \/ PollCompleted

Receive == \/ MakeDirectory \/ CreateAgain \/ NotFound \/ Upload
           \/ StartAgain \/ StartFails \/ StartRun
           \/ Poll \/ CancelNothing \/ StopProcess \/ StopRun

Proceed == SaveNew \/ SaveStarted \/ StartAnswerLost \/ SaveVerified \/ SaveStopped

Next ==
  \/ Receive
  \/ Proceed
  \/ \E r \in Runs : HermesEnds(r) \/ HermesStops(r)
  \/ Crash
  \/ Restart

Spec == Init /\ [][Next]_vars

(* The agent finishes its requests and is started again, Hermes finishes   *)
(* its runs, and the coordinator asks for the task again and again.        *)
FairSpec ==
  /\ Spec
  /\ WF_vars(Proceed)
  /\ WF_vars(Restart)
  /\ WF_vars(\E r \in Runs : HermesEnds(r))
  /\ SF_vars(Poll)

-----------------------------------------------------------------------------
(* Properties.                                                             *)

(* Types; a further run of the key costs a crash.                          *)
TypeOK ==
  /\ mode \in {"api", "cli"}
  /\ up \in BOOLEAN /\ staged \in BOOLEAN
  /\ files \in {"none", "bare", "made"}
  /\ record \in [status: Reported, id: Runs \cup {0}]
  /\ hermes \in [Runs -> HermesStatus]
  /\ output \in Runs \cup {0} /\ known \in Runs \cup {0}
  /\ request \in Request \cup {NoRequest}
  /\ crashes \in 0..MaxCrashes
  /\ begun \in 0..(crashes + 1)

(* One execution per idempotency key at a time, whatever is lost or dies.  *)
OneExecution ==
  \A q, r \in Runs : hermes[q] = "executing" /\ hermes[r] = "executing" => q = r

(* What a node calls cancelled is not executed any more, by no run.        *)
CancelledIsStopped ==
  record.status = "cancelled" => \A r \in Runs : hermes[r] # "executing"

(* A task reported as successful, or ready for review, has completed, and  *)
(* its manifest lists the output of the very run that the record names.    *)
SuccessDelivered ==
  record.status \in {"success", "needs_review"} =>
    /\ record.id # 0
    /\ hermes[record.id] = "completed"
    /\ output = record.id

(* A running task that is polled comes to an end, across crashes, unless a  *)
(* crash hit between the stop of its Hermes run and the record of it.      *)
RunningEnds ==
  record.status = "running" ~>
    \/ record.status # "running"
    \/ mode = "api" /\ hermes[record.id] = "stopped"

(* The refinement: task.json, with what its absence and a failed start mean. *)
StatusShown ==
  IF files # "made" THEN "absent"
  ELSE IF record.status = "failed" /\ record.id = 0 THEN "stillborn"
  ELSE record.status

Remote == INSTANCE RemoteTask WITH status <- StatusShown

(* The agent keeps to what the coordinator is modelled against.             *)
KeepsProtocol == Remote!Spec
=============================================================================
