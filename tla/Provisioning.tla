---------------------------- MODULE Provisioning ----------------------------
(***************************************************************************)
(* Setting up a remote node over ssh: the confirmation of host keys, which *)
(* alone makes a host known, and the provisioning of the node agent, which *)
(* runs in threads, so that several may be at work on one machine.  Every  *)
(* remote command may fail, and the machine may be rebooted under them.    *)
(***************************************************************************)
EXTENDS Naturals

CONSTANTS
  Hosts,        \* addresses; the machine below is behind one of them
  Machine,      \* that one
  HostKeys,     \* public keys
  Jobs,         \* the provisionings that are requested, one after the other or at once
  NodeTokens,   \* node tokens
  MaxMishaps    \* bound: failures, reboots, new host keys

ASSUME MachineAssumption == Machine \in Hosts
ASSUME MishapsAssumption == MaxMishaps \in Nat

VARIABLES
  hostKey,     \* the key that each host has
  inspected,   \* the host and key that the page shows, if any
  confirmed,   \* history: the hosts and keys that the user confirmed
  known,       \* the lines of known_hosts
  job,         \* where each provisioning is
  remote,      \* what is on the machine
  mishaps      \* mishaps so far

keyVars       == <<hostKey, inspected, confirmed, known>>
provisionVars == <<keyVars, job, remote, mishaps>>

Lines     == Hosts \X HostKeys
NotShown  == <<>>
NoToken   == "none"

ASSUME TokenAssumption == NoToken \notin NodeTokens

Steps == {"ssh_connect", "check_hermes", "install_hermes", "doctor",
          "start_api_server", "verify_api_server", "deploy_node_agent",
          "start_node_agent", "verify_node_agent"}

(* success is whether all steps so far say so.                             *)
Job == [step: Steps \cup {"idle", "stopped", "done"}, token: NodeTokens \cup {NoToken},
        success: BOOLEAN]

IdleJob == [step |-> "idle", token |-> NoToken, success |-> TRUE]

(* hermes is installed, its gateway is up, the agent's package is there,    *)
(* and the agent serves with a token.                                      *)
Remote == [hermes: BOOLEAN, gateway: BOOLEAN, package: BOOLEAN,
           agent: NodeTokens \cup {NoToken}]

Blank == [hermes |-> FALSE, gateway |-> FALSE, package |-> FALSE, agent |-> NoToken]

Mishap == mishaps < MaxMishaps /\ mishaps' = mishaps + 1

(* StrictHostKeyChecking: a line for this host, with the key it has now.    *)
Trusted(h) == <<h, hostKey[h]>> \in known

-----------------------------------------------------------------------------
ProvisionInit ==
  /\ hostKey \in [Hosts -> HostKeys]
  /\ inspected = NotShown
  /\ confirmed = {} /\ known = {}
  /\ job = [j \in Jobs |-> IdleJob]
  /\ remote \in {Blank, [Blank EXCEPT !.hermes = TRUE]}
  /\ mishaps = 0

Inspect(h) ==
  /\ inspected' = <<h, hostKey[h]>>
  /\ UNCHANGED <<hostKey, confirmed, known, job, remote, mishaps>>

(* The host is scanned again, and its fingerprint has to be the confirmed   *)
(* one.  The mutant takes what the second scan finds.                      *)
AnyKey(h) == TRUE
SameKey(h) == inspected = <<h, hostKey[h]>>

(* record_host_key: a key that is recorded for some host is not recorded    *)
(* again, though it be for another.                                        *)
Recorded(h) ==
  IF \E line \in known : line[2] = hostKey[h] THEN known ELSE known \cup {<<h, hostKey[h]>>}

ConfirmKey(h) ==
  /\ inspected # NotShown /\ inspected[1] = h
  /\ SameKey(h)
  /\ known' = Recorded(h)
  /\ confirmed' = confirmed \cup {inspected}
  /\ inspected' = NotShown
  /\ UNCHANGED <<hostKey, job, remote, mishaps>>

ChangeKey(h, key) ==
  /\ Mishap
  /\ key # hostKey[h]
  /\ hostKey' = [hostKey EXCEPT ![h] = key]
  /\ UNCHANGED <<inspected, confirmed, known, job, remote>>

-----------------------------------------------------------------------------
(* provision_remote.  The token is read once, at the beginning.            *)
Provision(j, token) ==
  /\ job[j] = IdleJob
  /\ job' = [job EXCEPT ![j] = [step |-> "ssh_connect", token |-> token, success |-> TRUE]]
  /\ UNCHANGED <<keyVars, remote, mishaps>>

On(j, step) == job[j].step = step /\ Trusted(Machine)

(* The step ends with what it says, and the next one follows.              *)
Goes(j, says, next) ==
  job' = [job EXCEPT ![j].step = next, ![j].success = @ /\ says]

Performs(j, step, says, next) ==
  /\ On(j, step)
  /\ Goes(j, says, next)
  /\ UNCHANGED <<keyVars, mishaps>>

Connected(j) == Performs(j, "ssh_connect", TRUE, "check_hermes") /\ UNCHANGED remote

(* That hermes was not there yet counts as a step without success.          *)
HermesChecked(j) ==
  /\ Performs(j, "check_hermes", remote.hermes,
              IF remote.hermes THEN "doctor" ELSE "install_hermes")
  /\ UNCHANGED remote

HermesInstalled(j) ==
  /\ Performs(j, "install_hermes", TRUE, "doctor")
  /\ remote' = [remote EXCEPT !.hermes = TRUE]

(* These two go on after a failure.                                        *)
DoctorRan(j) ==
  /\ \E says \in {remote.hermes, FALSE} :
       Performs(j, "doctor", says, "start_api_server")
  /\ UNCHANGED remote

ApiStarted(j) ==
  \/ /\ remote.hermes
     /\ Performs(j, "start_api_server", TRUE, "verify_api_server")
     /\ remote' = [remote EXCEPT !.gateway = TRUE]
  \/ /\ Performs(j, "start_api_server", FALSE, "verify_api_server")
     /\ UNCHANGED remote

ApiVerified(j) ==
  /\ remote.gateway
  /\ Performs(j, "verify_api_server", TRUE, "deploy_node_agent")
  /\ UNCHANGED remote

AgentDeployed(j) ==
  /\ Performs(j, "deploy_node_agent", TRUE, "start_node_agent")
  /\ remote' = [remote EXCEPT !.package = TRUE]

(* The environment file is written and the service restarted.              *)
AgentStarted(j) ==
  /\ remote.package
  /\ Performs(j, "start_node_agent", TRUE, "verify_node_agent")
  /\ remote' = [remote EXCEPT !.agent = job[j].token]

(* The agent answers with 401 to a token that is not its own.  The mutant   *)
(* takes any answer.                                                       *)
Answers(j) == remote.agent # NoToken
Online(j) == remote.agent = job[j].token

AgentVerified(j) ==
  /\ Performs(j, "verify_node_agent", Online(j), "done")
  /\ UNCHANGED remote

(* A step fails after which there are no others; the command that starts    *)
(* the agent may have done so all the same.                                *)
StepFails(j) ==
  /\ Mishap
  /\ job[j].step \in Steps \ {"check_hermes", "doctor", "start_api_server"}
  /\ Goes(j, FALSE, "stopped")
  /\ \/ UNCHANGED remote
     \/ /\ On(j, "start_node_agent") /\ remote.package
        /\ remote' = [remote EXCEPT !.agent = job[j].token]
  /\ UNCHANGED keyVars

(* The host is not known, the gateway is not up, the package has gone.      *)
StepRefused(j) ==
  /\ \/ job[j].step \in Steps /\ ~Trusted(Machine)
     \/ job[j].step = "verify_api_server" /\ ~remote.gateway
     \/ job[j].step = "start_node_agent" /\ ~remote.package
  /\ Goes(j, FALSE, "stopped")
  /\ UNCHANGED <<keyVars, remote, mishaps>>

(* systemd starts the agent again, hermes' gateway stays down.             *)
Reboot ==
  /\ Mishap
  /\ remote' = [remote EXCEPT !.gateway = FALSE]
  /\ UNCHANGED <<keyVars, job>>

ProvisionStep ==
  \/ \E h \in Hosts : Inspect(h) \/ ConfirmKey(h) \/ \E k \in HostKeys : ChangeKey(h, k)
  \/ \E j \in Jobs :
       \/ \E token \in NodeTokens : Provision(j, token)
       \/ Connected(j) \/ HermesChecked(j) \/ HermesInstalled(j) \/ DoctorRan(j)
       \/ ApiStarted(j) \/ ApiVerified(j) \/ AgentDeployed(j) \/ AgentStarted(j)
       \/ AgentVerified(j) \/ StepFails(j) \/ StepRefused(j)
  \/ Reboot

ProvisionTypeOK ==
  /\ hostKey \in [Hosts -> HostKeys]
  /\ inspected \in Lines \cup {NotShown}
  /\ confirmed \subseteq Lines /\ known \subseteq Lines
  /\ job \in [Jobs -> Job]
  /\ remote \in Remote
  /\ mishaps \in 0..MaxMishaps

-----------------------------------------------------------------------------
(* What is trusted was shown to the user as the key of that very host, and  *)
(* confirmed; whatever keys the hosts have had in between.  And what was   *)
(* confirmed is trusted, unless another host has the same key.             *)
TrustIsConfirmed ==
  /\ known \subseteq confirmed
  /\ \A line \in confirmed : \E other \in known : other[2] = line[2]

(* When a provisioning says that it has completed, the agent serves with    *)
(* the token it was given, and hermes is there, whatever other              *)
(* provisionings, failures and reboots came between its steps.             *)
CompletedMeansServing ==
  [][\A j \in Jobs :
       job[j].step # "done" /\ job'[j].step = "done" /\ job'[j].success =>
         remote.agent = job[j].token /\ remote.hermes /\ remote.package]_provisionVars
=============================================================================
