----------------------------- MODULE RemoteTask -----------------------------
(***************************************************************************)
(* What an execution node promises of one attempt, whatever happens to the *)
(* node: its record moves by the calls it serves and by what a poll finds,  *)
(* and each answer is the record's status.  RunExecution's nodes take      *)
(* exactly these steps; NodeExecutor is shown to take no others.           *)
(***************************************************************************)
EXTENDS NodeProtocol

CONSTANT Reviewed  \* the task has a manual verification step

VARIABLES
  status,  \* the node's record of the attempt
  answer   \* the last answer of the node: <<call, reply>>

NodeCalls == {"create", "upload", "start", "get", "cancel"}

Init == status = "absent" /\ answer = <<"none", "none">>

Serve(call) ==
  \E o \in Served(call, status) : status' = o[1] /\ answer' = <<call, o[2]>>

(* A poll answers with what it has just found.                             *)
Find ==
  /\ status' \in Progress(status, Reviewed)
  /\ answer' = <<"get", Report(status')>>

Refuse(call) ==
  /\ status' = status
  /\ answer' = <<call, "refused">>

Next == Find \/ \E call \in NodeCalls : Serve(call) \/ Refuse(call)

Spec == Init /\ [][Next]_<<status, answer>>
=============================================================================
