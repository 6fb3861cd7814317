----------------------------- MODULE Services -----------------------------
(***************************************************************************)
(* The services around the runs in one specification: the authoring of     *)
(* workflows, the start of the coordinator, its supervisor, the event      *)
(* stream of a run, the collection of artifacts and the provisioning of    *)
(* nodes.  They have no variable in common, so that an invariant of one,   *)
(* or a property of its steps, does not depend on where the others are: a  *)
(* behaviour is one of a single service, chosen at the beginning, the      *)
(* others being at rest.                                                   *)
(***************************************************************************)
EXTENDS Workflows, StartUp, Supervisor, EventStream, Downloads, Provisioning

VARIABLE service   \* the one that works in this behaviour

vars == <<service, workflowVars, startVars, supervisorVars, streamVars, downloadVars,
          provisionVars>>

ServiceNames ==
  {"authoring", "start", "supervisor", "events", "collections", "provisioning"}

AtRest ==
  /\ remote = Blank
  /\ hostKey = [h \in Hosts |-> CHOOSE key \in HostKeys : TRUE]

Init ==
  /\ service \in ServiceNames
  /\ WorkflowsInit /\ SupervisorInit /\ StreamInit /\ DownloadsInit
  /\ IF service = "start" THEN StartInit ELSE Started
  /\ ProvisionInit
  /\ service # "provisioning" => AtRest

Authoring ==
  /\ service = "authoring"
  /\ WorkflowsStep
  /\ UNCHANGED <<service, startVars, supervisorVars, streamVars, downloadVars, provisionVars>>

Starting ==
  /\ service = "start"
  /\ StartUpStep
  /\ UNCHANGED <<service, workflowVars, supervisorVars, streamVars, downloadVars, provisionVars>>

Supervising ==
  /\ service = "supervisor"
  /\ SupervisorStep
  /\ UNCHANGED <<service, workflowVars, startVars, streamVars, downloadVars, provisionVars>>

StreamingEvents ==
  /\ service = "events"
  /\ StreamStep
  /\ UNCHANGED <<service, workflowVars, startVars, supervisorVars, downloadVars, provisionVars>>

Collecting ==
  /\ service = "collections"
  /\ DownloadsStep
  /\ UNCHANGED <<service, workflowVars, startVars, supervisorVars, streamVars, provisionVars>>

SettingUpNodes ==
  /\ service = "provisioning"
  /\ ProvisionStep
  /\ UNCHANGED <<service, workflowVars, startVars, supervisorVars, streamVars, downloadVars>>

Next == Authoring \/ Starting \/ Supervising \/ StreamingEvents \/ Collecting \/ SettingUpNodes

(* The start is one coroutine that the event loop keeps running.  The       *)
(* monitors are threads that check again and again.  The desktop's effect  *)
(* reconnects until it has a socket, the server's loop queries and sends   *)
(* as long as it has one, and the desktop's event loop takes what has      *)
(* arrived; a timer of the desktop asks for the coordinator's address.     *)
(* Tickets expire, sockets drop, steps fail, processes hang and users act, *)
(* or not.                                                                 *)
Fairness ==
  /\ WF_startVars(service = "start" /\ StartStep)
  /\ WF_supervisorVars(service = "supervisor" /\ Bootstrap)
  /\ \A m \in Monitors : WF_supervisorVars(service = "supervisor" /\ MonitorStep(m))
  /\ WF_streamVars(service = "events" /\ Reconnecting)
  /\ WF_streamVars(service = "events" /\ (FetchPage \/ SendEvent))
  /\ WF_streamVars(service = "events" /\ Receive)
  /\ WF_streamVars(service = "events" /\ SyncRuntime)

Spec == Init /\ [][Next]_vars /\ Fairness

ServicesTypeOK ==
  /\ service \in ServiceNames
  /\ WorkflowsTypeOK /\ StartTypeOK /\ SupervisorTypeOK
  /\ StreamTypeOK /\ DownloadsTypeOK /\ ProvisionTypeOK
=============================================================================
