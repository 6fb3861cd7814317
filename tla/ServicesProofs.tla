--------------------------- MODULE ServicesProofs ---------------------------
(***************************************************************************)
(* Safety of the services, for all values of their constants.  A step of    *)
(* Services is one of a single service, so that an invariant over the       *)
(* variables of one has to be shown for the steps of that one only.        *)
(***************************************************************************)
EXTENDS StreamProofs

-----------------------------------------------------------------------------
(* Tickets.  A ticket that can still open a socket has opened none, and one  *)
(* that has opened a socket is bound to a run.                             *)
TicketInv ==
  /\ boundTo \in [Tickets -> Runs \cup {Unissued}]
  /\ opened \in [Tickets -> Seq(Runs)]
  /\ \A t \in Tickets :
       /\ opened[t] = <<>> \/ opened[t] = <<boundTo[t]>>
       /\ t \in store => opened[t] = <<>>

(* What Connect and Present do to the tickets: the ticket is used up, and    *)
(* opens a socket if it is still in the store and for that run.            *)
LEMMA TicketUsed ==
  ASSUME TicketInv, NEW t \in Tickets, NEW run \in Runs,
         Consume(t, run), boundTo' = boundTo,
         opened' = IF Opens(t, run) THEN [opened EXCEPT ![t] = Append(@, run)] ELSE opened
  PROVE  TicketInv'
<1>1. Unissued \notin Runs
  BY TicketAssumption
<1>2. CASE Opens(t, run)
  <2>1. opened[t] = <<>> /\ boundTo[t] = run
    BY <1>2 DEF Opens, TicketInv
  <2>2. opened' = [opened EXCEPT ![t] = <<run>>]
    BY <1>2, <2>1 DEF TicketInv
  <2>3. opened' \in [Tickets -> Seq(Runs)]
    BY <2>2 DEF TicketInv
  <2>4. ASSUME NEW u \in Tickets
        PROVE  /\ opened'[u] = <<>> \/ opened'[u] = <<boundTo'[u]>>
               /\ u \in store' => opened'[u] = <<>>
    BY <1>1, <2>1, <2>2 DEF TicketInv, Consume
  <2> QED
    BY <2>3, <2>4 DEF TicketInv
<1>3. CASE ~Opens(t, run)
  BY <1>3 DEF TicketInv, Consume
<1> QED
  BY <1>2, <1>3

(* Tickets are issued, presented, forgotten and expire; nothing else.        *)
LEMMA TicketStep == TicketInv /\ [Next]_vars => TicketInv'
<1> SUFFICES ASSUME TicketInv, [Next]_vars PROVE TicketInv'
  OBVIOUS
<1> USE WatchedAssumption, TicketAssumption
<1>1. CASE UNCHANGED streamVars
  BY <1>1 DEF streamVars, ticketVars, TicketInv
<1>2. CASE StreamStep
  <2>1. ASSUME NEW t \in Tickets, Issue(t) PROVE TicketInv'
    BY <2>1 DEF Issue, TicketInv
  <2>2. ASSUME NEW t \in Tickets, Connect(t) PROVE TicketInv'
    <3>1. opened' = IF Opens(t, Watched) THEN [opened EXCEPT ![t] = Append(@, Watched)]
                                         ELSE opened
      BY <2>2 DEF Connect
    <3> QED
      BY <2>2, <3>1, TicketUsed DEF Connect
  <2>3. ASSUME NEW t \in Tickets, NEW run \in Runs, Present(t, run) PROVE TicketInv'
    BY <2>3, TicketUsed DEF Present
  <2>4. ASSUME NEW t \in Tickets, Expire(t) PROVE TicketInv'
    BY <2>4 DEF Expire, TicketInv
  <2>5. CASE RestartServer
    BY <2>5 DEF RestartServer, TicketInv
  <2>6. CASE UNCHANGED ticketVars
    BY <2>6 DEF ticketVars, TicketInv
  <2>7. ASSUME \/ Streaming \/ Drop \/ \E run \in Runs : AppendEvent(run)
               \/ OpenRun \/ CloseRun \/ SyncRuntime
        PROVE  UNCHANGED ticketVars
    BY <2>7 DEF Streaming, FetchPage, SendEvent, Receive, Drop, AppendEvent,
                OpenRun, CloseRun, SyncRuntime
  <2> QED
    BY <1>2, <2>1, <2>2, <2>3, <2>4, <2>5, <2>6, <2>7 DEF StreamStep, Reconnecting
<1> QED
  BY <1>1, <1>2 DEF Next, vars, Authoring, Starting, Supervising, StreamingEvents,
                    Collecting, SettingUpNodes

(* However sockets drop, tickets expire and other callers present them, a   *)
(* ticket opens one socket at most, of the run it was issued for           *)
(* (session_tickets.py).                                                   *)
THEOREM TicketsOpenOnce == Spec => []TicketOpensOnce
<1>1. Init => TicketInv
  BY DEF Init, StreamInit, TicketInv
<1>2. TicketInv => TicketOpensOnce
  <2> SUFFICES ASSUME TicketInv, NEW t \in Tickets
               PROVE  Len(opened[t]) <= 1 /\ ToSet(opened[t]) \subseteq {boundTo[t]}
    BY DEF TicketOpensOnce
  <2>1. CASE opened[t] = <<>>
    BY <2>1 DEF ToSet
  <2>2. CASE opened[t] = <<boundTo[t]>>
    BY <2>2 DEF ToSet
  <2> QED
    BY <2>1, <2>2 DEF TicketInv
<1> QED
  BY <1>1, <1>2, TicketStep, PTL DEF Spec

-----------------------------------------------------------------------------
(* The supervisor.  When the app has stopped the coordinator and no monitor *)
(* was past its look at the flag, no monitor gets there any more.          *)
SupervisorInv ==
  /\ monitor \in [Monitors -> {"off", "watching", "awake", "decided"}]
  /\ strays = 0 \/ (app = "gone" /\ late)
  /\ app \in {"exiting", "stopped", "gone"} => shutdown
  /\ app = "stopped" /\ ~late =>
       /\ child \notin Running
       /\ \A m \in Monitors : monitor[m] \notin {"awake", "decided"}

(* A start never overwrites the handle of a process that runs.             *)
LEMMA NoStrayStarted == StartChild => strays' = strays
  BY DEF StartChild, MayStart

(* A monitor that starts a coordinator after the stop was recorded as late.  *)
LEMMA MonitorKeeps ==
  ASSUME SupervisorInv, NEW m \in Monitors, MonitorStep(m)
  PROVE  SupervisorInv'
<1> USE DEF SupervisorInv
<1>1. app # "gone" /\ strays = 0
  BY DEF MonitorStep
<1>2. CASE Wakes(m)
  BY <1>1, <1>2 DEF Wakes
<1>3. CASE FindsNone(m)
  BY <1>1, <1>3 DEF FindsNone, Checked
<1>4. CASE FindsHealthy(m)
  BY <1>1, <1>4 DEF FindsHealthy, Checked
<1>5. CASE FindsHanging(m)
  BY <1>1, <1>5 DEF FindsHanging, Checked, Running
<1>6. CASE Recover(m)
  <2>1. strays' = 0
    BY <1>1, <1>6, NoStrayStarted DEF Recover
  <2> QED
    BY <1>6, <2>1 DEF Recover
<1> QED
  BY <1>2, <1>3, <1>4, <1>5, <1>6 DEF MonitorStep

(* The main thread stops what runs before the app ends.                     *)
LEMMA SupervisorKeeps == SupervisorInv /\ [Next]_vars => SupervisorInv'
<1> SUFFICES ASSUME SupervisorInv, [Next]_vars PROVE SupervisorInv'
  OBVIOUS
<1>1. CASE UNCHANGED supervisorVars
  BY <1>1 DEF supervisorVars, SupervisorInv
<1>2. CASE SupervisorStep
  <2> USE DEF SupervisorInv
  <2>1. CASE Bootstrap
    <3>1. strays' = 0
      BY <2>1, NoStrayStarted DEF Bootstrap
    <3> QED
      BY <2>1, <3>1 DEF Bootstrap
  <2>2. CASE BeginRestart
    BY <2>2 DEF BeginRestart
  <2>3. CASE BeginExit
    BY <2>3 DEF BeginExit
  <2>4. CASE StopAtExit
    BY <2>4 DEF StopAtExit, Running
  <2>5. CASE EndOfApp
    BY <2>5 DEF EndOfApp
  <2>6. CASE ChildChanges
    BY <2>6 DEF ChildChanges, Running
  <2>7. ASSUME NEW m \in Monitors, MonitorStep(m) PROVE SupervisorInv'
    BY <2>7, MonitorKeeps
  <2> QED
    BY <1>2, <2>1, <2>2, <2>3, <2>4, <2>5, <2>6, <2>7 DEF SupervisorStep
<1> QED
  BY <1>1, <1>2 DEF Next, vars, Authoring, Starting, Supervising, StreamingEvents,
                    Collecting, SettingUpNodes

(* For any number of restarts and monitors there is at most one coordinator, *)
(* and none when the app has gone, but for an exit that comes between a      *)
(* monitor's look at the shutdown flag and its start (coordinator.rs).      *)
THEOREM CoordinatorIsAlone == Spec => []OneCoordinator
<1>1. Init => SupervisorInv
  BY DEF Init, SupervisorInit, SupervisorInv
<1>2. SupervisorInv => OneCoordinator
  BY DEF SupervisorInv, OneCoordinator
<1> QED
  BY <1>1, <1>2, SupervisorKeeps, PTL DEF Spec

-----------------------------------------------------------------------------
(* Host keys.  The property is inductive: what becomes known is what the    *)
(* page showed, and a key is left out only if it is known for some host.    *)
LEMMA TrustStep == TrustIsConfirmed /\ [Next]_vars => TrustIsConfirmed'
<1> SUFFICES ASSUME TrustIsConfirmed, [Next]_vars PROVE TrustIsConfirmed'
  OBVIOUS
<1>1. CASE UNCHANGED <<confirmed, known>>
  BY <1>1 DEF TrustIsConfirmed
<1>2. ASSUME NEW h \in Hosts, ConfirmKey(h) PROVE TrustIsConfirmed'
  <2>1. confirmed' = confirmed \cup {<<h, hostKey[h]>>}
    BY <1>2 DEF ConfirmKey, SameKey
  <2>2. CASE \E line \in known : line[2] = hostKey[h]
    BY <1>2, <2>1, <2>2 DEF ConfirmKey, Recorded, TrustIsConfirmed
  <2>3. CASE ~\E line \in known : line[2] = hostKey[h]
    BY <1>2, <2>1, <2>3 DEF ConfirmKey, Recorded, TrustIsConfirmed
  <2> QED
    BY <2>2, <2>3
<1>3. ASSUME ProvisionStep PROVE \/ UNCHANGED <<confirmed, known>>
                                 \/ \E h \in Hosts : ConfirmKey(h)
  BY <1>3 DEF ProvisionStep, Inspect, ChangeKey, Provision, Connected, HermesChecked,
              HermesInstalled, DoctorRan, ApiStarted, ApiVerified, AgentDeployed,
              AgentStarted, AgentVerified, StepFails, StepRefused, Reboot, Performs, keyVars
<1>4. UNCHANGED provisionVars => UNCHANGED <<confirmed, known>>
  BY DEF provisionVars, keyVars
<1> QED
  BY <1>1, <1>2, <1>3, <1>4 DEF Next, vars, Authoring, Starting, Supervising,
                                StreamingEvents, Collecting, SettingUpNodes

(* Only what the user confirmed as the key of a host is trusted for it, and *)
(* what was confirmed is trusted for some host (provisioning/ssh.py).      *)
THEOREM TrustNeedsConfirmation == Spec => []TrustIsConfirmed
<1>1. Init => TrustIsConfirmed
  BY DEF Init, ProvisionInit, TrustIsConfirmed
<1> QED
  BY <1>1, TrustStep, PTL DEF Spec

-----------------------------------------------------------------------------
(* Credentials.  What has been copied, though its file is still there, has  *)
(* the value stored last, or is among those that were set back.            *)
SecretInv ==
  /\ keychain \in [Secrets -> 0..2] /\ latest \in [Secrets -> 0..2]
  /\ file \subseteq Secrets /\ uncopied \subseteq file
  /\ \A k \in file : latest[k] # 0
  /\ \A k \in Secrets :
       /\ (k \in file => stage = "copying" /\ k \notin uncopied)
       /\ k \notin reverted
       => keychain[k] = latest[k]

(* The file is put aside only after its last key has been copied.           *)
LEMMA SecretStep == SecretInv /\ [Next]_vars => SecretInv'
<1> SUFFICES ASSUME SecretInv, [Next]_vars PROVE SecretInv'
  OBVIOUS
<1> USE DEF SecretInv
<1>1. CASE UNCHANGED startVars
  BY <1>1 DEF startVars, secretVars
<1>2. CASE StartUpStep
  <2>1. CASE ReadCredentials
    BY <2>1 DEF ReadCredentials, At
  <2>2. ASSUME NEW k \in Secrets, CopySecret(k) PROVE SecretInv'
    BY <2>2 DEF CopySecret
  <2>3. CASE RetireFile
    BY <2>3 DEF RetireFile, At, AllCopied
  <2>4. ASSUME NEW k \in Secrets, StoreSecret(k) PROVE SecretInv'
    BY <2>4 DEF StoreSecret
  <2>5. CASE UNCHANGED <<file, keychain, latest, reverted>> /\ uncopied' = {}
             /\ stage' # "copying"
    BY <2>5
  <2>6. CASE UNCHANGED secretVars /\ stage # "copying" /\ stage' # "copying"
    BY <2>6 DEF secretVars
  <2>7. ASSUME CopyFails \/ Break
        PROVE  /\ UNCHANGED <<file, keychain, latest, reverted>>
               /\ uncopied' = {} /\ stage' # "copying"
    BY <2>7 DEF CopyFails, Break
  <2>8. ASSUME \/ Begin \/ BeginMigration \/ RunStatements \/ CommitMigration
               \/ SchemaCurrent \/ NothingToMigrate \/ BackUp \/ CreateLegacy
               \/ SetFlag \/ RegisterProjects \/ DeleteLegacy \/ ConfigurePlanner
        PROVE  UNCHANGED secretVars /\ stage # "copying" /\ stage' # "copying"
    BY <2>8 DEF Begin, BeginMigration, RunStatements, Applied, CommitMigration, SchemaCurrent,
                NothingToMigrate, BackUp, CreateLegacy, SetFlag, RegisterProjects,
                DeleteLegacy, ConfigurePlanner, At
  <2> QED
    BY <1>2, <2>1, <2>2, <2>3, <2>4, <2>5, <2>6, <2>7, <2>8 DEF StartUpStep, StartStep
<1> QED
  BY <1>1, <1>2 DEF Next, vars, Authoring, Starting, Supervising, StreamingEvents,
                    Collecting, SettingUpNodes

(* Wherever the copying of credentials is cut off or fails, for any number  *)
(* of them, no credential is lost (credentials.py).                        *)
THEOREM NoSecretIsLost == Spec => []SecretsKept
<1>1. Init => SecretInv
  BY DEF Init, StartInit, Started, SecretInv
<1>2. SecretInv => SecretsKept
  BY DEF SecretInv, SecretsKept
<1> QED
  BY <1>1, <1>2, SecretStep, PTL DEF Spec

-----------------------------------------------------------------------------
(* Versions.  The numbers of the workflows are positive, so that the active *)
(* one is the greatest of them all.                                        *)
VersionInv ==
  /\ VersionsInOrder
  /\ active \in Nat
  /\ \E n \in Nat : DOMAIN workflows = 1..n
  /\ \A w \in DOMAIN workflows :
       "version" \in DOMAIN workflows[w] /\ workflows[w].version \in Nat \ {0}

(* Ids are given in order.                                                  *)
LEMMA NextId == \A n \in Nat : DOMAIN workflows = 1..n => NewId = n + 1
<1> SUFFICES ASSUME NEW n \in Nat, DOMAIN workflows = 1..n PROVE NewId = n + 1
  OBVIOUS
<1>1. Cardinality(1..n) = n
  BY FS_Interval
<1> QED
  BY <1>1 DEF NewId

(* Writing another field leaves the version alone.                          *)
LEMMA VersionField ==
  ASSUME NEW r, "version" \in DOMAIN r, NEW v
  PROVE  /\ [r EXCEPT !.content = v].version = r.version
         /\ [r EXCEPT !.status = v].version = r.version
         /\ [r EXCEPT !.confirmed = v].version = r.version
         /\ DOMAIN [r EXCEPT !.content = v] = DOMAIN r
         /\ DOMAIN [r EXCEPT !.status = v] = DOMAIN r
         /\ DOMAIN [r EXCEPT !.confirmed = v] = DOMAIN r
  OBVIOUS

(* The version after the latest is one more than the active one.            *)
LEMMA NextIsNew ==
  ASSUME VersionInv, DOMAIN workflows # {},
         NEW source, source = 1 \/ \E w \in DOMAIN workflows : source = workflows[w].version
  PROVE  NextVersion(source) = active + 1
<1> DEFINE S == {source} \cup {workflows[w].version : w \in DOMAIN workflows}
<1>1. active \in S /\ \A y \in S : y \in Nat /\ y <= active
  BY DEF VersionInv, VersionsInOrder
<1>2. \A x \in S : (\A y \in S : x >= y) => x = active
  BY <1>1 DEF VersionInv
<1>3. Max(S) = active
  BY <1>1, <1>2 DEF Max, VersionInv
<1> QED
  BY <1>3 DEF NextVersion, VersionInv

(* Saving a row with a version beyond the active one.                       *)
LEMMA SaveKeeps ==
  ASSUME VersionInv, NEW r, Save(r), "version" \in DOMAIN r, r.version \in Nat \ {0},
         DOMAIN workflows # {} => r.version = active + 1
  PROVE  VersionInv'
<1>1. PICK n \in Nat : DOMAIN workflows = 1..n
  BY DEF VersionInv
<1>2. NewId = n + 1
  BY <1>1, NextId
<1>3. /\ workflows' = [w \in 1..(n + 1) |-> IF w = n + 1 THEN r ELSE workflows[w]]
      /\ active' = r.version
  BY <1>2 DEF Save
<1>4. DOMAIN workflows' = 1..(n + 1) /\ n + 1 \in Nat
  BY <1>3
<1>5. ASSUME NEW w \in 1..(n + 1)
      PROVE  \/ w = n + 1 /\ workflows'[w] = r
             \/ w \in DOMAIN workflows /\ w # n + 1 /\ workflows'[w] = workflows[w]
  BY <1>1, <1>3
<1>6. \A w \in DOMAIN workflows :
        /\ "version" \in DOMAIN workflows[w] /\ workflows[w].version \in Nat \ {0}
        /\ workflows[w].version < r.version
  BY <1>1 DEF VersionInv, VersionsInOrder
<1>7. \A w \in DOMAIN workflows' :
        /\ "version" \in DOMAIN workflows'[w] /\ workflows'[w].version \in Nat \ {0}
        /\ workflows'[w].version <= active'
  BY <1>3, <1>4, <1>5, <1>6
<1>8. \A v, w \in DOMAIN workflows' : workflows'[v].version = workflows'[w].version => v = w
  <2> SUFFICES ASSUME NEW v \in DOMAIN workflows', NEW w \in DOMAIN workflows',
                      workflows'[v].version = workflows'[w].version
               PROVE  v = w
    OBVIOUS
  <2> QED
    BY <1>4, <1>5, <1>6 DEF VersionInv, VersionsInOrder
<1>9. workflows'[n + 1].version = active' /\ n + 1 \in DOMAIN workflows'
  BY <1>3, <1>4
<1>10. VersionsInOrder'
  BY <1>7, <1>8, <1>9 DEF VersionsInOrder
<1> QED
  BY <1>3, <1>4, <1>7, <1>10 DEF VersionInv

(* Of all handlers only these two save another version.                     *)
LEMMA VersionStep == VersionInv /\ [Next]_vars => VersionInv'
<1> SUFFICES ASSUME VersionInv, [Next]_vars PROVE VersionInv'
  OBVIOUS
<1>1. CASE UNCHANGED <<active, workflows>>
  BY <1>1 DEF VersionInv, VersionsInOrder
<1>2. ASSUME NEW plan \in plans, NEW version \in Version, NEW status, NEW extra,
             PlanAnswers(plan, version, status, extra)
      PROVE  VersionInv'
  <2>1. PICK r : Save(r) /\ "version" \in DOMAIN r /\ r.version = version
    BY <1>2 DEF PlanAnswers
  <2>2. DOMAIN workflows # {} => version = active + 1
    BY <1>2, NextIsNew DEF PlanAnswers
  <2>3. version \in Nat \ {0}
    <3>1. CASE DOMAIN workflows = {}
      BY <1>2, <3>1 DEF PlanAnswers
    <3>2. CASE DOMAIN workflows # {}
      BY <2>2, <3>2 DEF VersionInv
    <3> QED
      BY <3>1, <3>2
  <2> QED
    BY <2>1, <2>2, <2>3, SaveKeeps
<1>3. ASSUME NEW w \in Workflows, CreateRevision(w) PROVE VersionInv'
  <2>1. PICK r : /\ Save(r) /\ "version" \in DOMAIN r
                 /\ r.version = NextVersion(workflows[w].version)
    BY <1>3 DEF CreateRevision
  <2>2. r.version = active + 1
    BY <1>3, <2>1, NextIsNew DEF CreateRevision
  <2> QED
    BY <2>1, <2>2, SaveKeeps DEF VersionInv
<1>4. ASSUME NEW w \in Workflows,
             Review(w) \/ \E content \in Content : UpdateWorkflow(w, content)
      PROVE  VersionInv'
  <2>1. ASSUME NEW r, workflows' = [workflows EXCEPT ![w] = r], active' = active,
               w \in DOMAIN workflows =>
                 "version" \in DOMAIN r /\ r.version = workflows[w].version
        PROVE  VersionInv'
    <3>1. /\ DOMAIN workflows' = DOMAIN workflows
          /\ \A v \in DOMAIN workflows : workflows'[v] = IF v = w THEN r ELSE workflows[v]
      BY <2>1
    <3>2. \A v \in DOMAIN workflows :
            "version" \in DOMAIN workflows'[v] /\ workflows'[v].version = workflows[v].version
      BY <2>1, <3>1 DEF VersionInv
    <3> QED
      BY <2>1, <3>1, <3>2 DEF VersionInv, VersionsInOrder
  <2>2. ASSUME NEW content \in Content, UpdateWorkflow(w, content) PROVE VersionInv'
    <3> DEFINE r == [workflows[w] EXCEPT !.content = content]
    <3>1. workflows' = [workflows EXCEPT ![w] = r] /\ active' = active
      BY <2>2 DEF UpdateWorkflow
    <3>2. w \in DOMAIN workflows => "version" \in DOMAIN r /\ r.version = workflows[w].version
      BY VersionField DEF VersionInv
    <3> QED
      BY <2>1, <3>1, <3>2
  <2>3. ASSUME Review(w) PROVE VersionInv'
    <3> DEFINE q == [workflows[w] EXCEPT !.status = "reviewed"]
               r == [q EXCEPT !.confirmed = shown.content]
    <3>1. workflows' = [workflows EXCEPT ![w] = r] /\ active' = active
      BY <2>3 DEF Review
    <3>2. w \in DOMAIN workflows => "version" \in DOMAIN q /\ q.version = workflows[w].version
      BY VersionField DEF VersionInv
    <3>3. w \in DOMAIN workflows => "version" \in DOMAIN r /\ r.version = q.version
      <4> HIDE DEF q
      <4> QED
        BY <3>2, VersionField
    <3> HIDE DEF r, q
    <3> QED
      BY <2>1, <3>1, <3>2, <3>3
  <2> QED
    BY <1>4, <2>2, <2>3
<1>5. CASE DeleteProject
  <2>1. DOMAIN workflows' = {} /\ active' = 0
    BY <1>5 DEF DeleteProject
  <2>2. {} = 1..0
    OBVIOUS
  <2> QED
    BY <2>1, <2>2 DEF VersionInv, VersionsInOrder
<1>6. ASSUME \/ ModelsStep /\ UNCHANGED authoringVars
             \/ \E p \in Profiles \cup {Nothing}, chosen \in BOOLEAN : BeginPlan(p, chosen)
             \/ \E plan \in plans : RepairPlan(plan) \/ PlanFails(plan)
             \/ \E w \in Workflows : PrepareReview(w) \/ CreateRun(w)
             \/ RestartCoordinator
      PROVE  UNCHANGED <<active, workflows>>
  BY <1>6 DEF authoringVars, BeginPlan, RepairPlan, PlanFails, PrepareReview, CreateRun,
              RestartCoordinator
<1>7. UNCHANGED workflowVars => UNCHANGED <<active, workflows>>
  BY DEF workflowVars, authoringVars
<1>8. WorkflowsStep => VersionInv'
  BY <1>1, <1>2, <1>3, <1>4, <1>5, <1>6 DEF WorkflowsStep
<1> QED
  BY <1>1, <1>7, <1>8 DEF Next, vars, Authoring, Starting, Supervising, StreamingEvents,
                          Collecting, SettingUpNodes

(* For any number of plans that wait at once, revisions and deletions, no   *)
(* two versions of a project have the same number, and the active one is   *)
(* the latest (api/workflows.py).                                          *)
THEOREM VersionsAreInOrder == Spec => []VersionsInOrder
<1>1. Init => VersionInv
  <2>1. {} = 1..0
    OBVIOUS
  <2> QED
    BY <2>1 DEF Init, WorkflowsInit, VersionInv, VersionsInOrder
<1>2. VersionInv => VersionsInOrder
  BY DEF VersionInv
<1> QED
  BY <1>1, <1>2, VersionStep, PTL DEF Spec

-----------------------------------------------------------------------------
(* Provisioning.  As long as every step says success, hermes was found, and  *)
(* the package is there once it has been deployed.                         *)
JobInv ==
  /\ job \in [Jobs -> Job] /\ remote \in Remote
  /\ \A j \in Jobs :
       /\ job[j].success /\ job[j].step \in Steps \ {"ssh_connect", "check_hermes"}
            => remote.hermes
       /\ job[j].step \in {"start_node_agent", "verify_node_agent"} => remote.package

(* What was put on the machine stays there.                                *)
Stays == (remote.hermes => remote'.hermes) /\ (remote.package => remote'.package)

(* A provisioning goes to its next step, and no other does.                *)
LEMMA JobGoes ==
  ASSUME JobInv, remote' \in Remote, Stays, NEW j \in Jobs,
         NEW says \in BOOLEAN, NEW next \in Steps \cup {"idle", "stopped", "done"},
         Goes(j, says, next),
         job[j].success /\ says /\ next \in Steps \ {"ssh_connect", "check_hermes"}
           => remote'.hermes,
         next \in {"start_node_agent", "verify_node_agent"} => remote'.package
  PROVE  JobInv'
<1> DEFINE r == [job[j] EXCEPT !.step = next]
           q == [r EXCEPT !.success = r.success /\ says]
<1>1. j \in DOMAIN job /\ job[j] \in Job
  BY DEF JobInv
<1>2. job' = [job EXCEPT ![j] = q]
  BY <1>1 DEF Goes
<1>3. r \in Job /\ r.step = next /\ r.success = job[j].success
  BY <1>1 DEF Job
<1>4. q \in Job /\ q.step = next /\ q.success = (job[j].success /\ says)
  <2> HIDE DEF r
  <2> QED
    BY <1>3 DEF Job
<1> HIDE DEF r, q
<1>5. job' \in [Jobs -> Job]
  BY <1>2, <1>4 DEF JobInv
<1>6. ASSUME NEW i \in Jobs
      PROVE  /\ job'[i].success /\ job'[i].step \in Steps \ {"ssh_connect", "check_hermes"}
                  => remote'.hermes
             /\ job'[i].step \in {"start_node_agent", "verify_node_agent"} => remote'.package
  <2>1. CASE i = j
    BY <1>2, <1>4, <2>1 DEF JobInv
  <2>2. CASE i # j
    BY <1>2, <2>2 DEF JobInv, Stays
  <2> QED
    BY <2>1, <2>2
<1> QED
  BY <1>5, <1>6 DEF JobInv

(* Every step of a provisioning, and what happens to the machine meanwhile. *)
LEMMA JobStep ==
  ASSUME JobInv, ProvisionStep
  PROVE  JobInv'
<1> USE DEF Steps
<1>1. JobInv => remote \in [hermes: BOOLEAN, gateway: BOOLEAN, package: BOOLEAN,
                            agent: NodeTokens \cup {NoToken}]
  BY DEF JobInv, Remote
<1>2. ASSUME UNCHANGED <<job, remote>> PROVE JobInv'
  BY <1>2 DEF JobInv
<1>3. ASSUME NEW h \in Hosts,
             Inspect(h) \/ ConfirmKey(h) \/ \E k \in HostKeys : ChangeKey(h, k)
      PROVE  JobInv'
  BY <1>2, <1>3 DEF Inspect, ConfirmKey, ChangeKey
<1>4. ASSUME NEW j \in Jobs, NEW token \in NodeTokens, Provision(j, token) PROVE JobInv'
  <2>1. [step |-> "ssh_connect", token |-> token, success |-> TRUE] \in Job
    BY DEF Job
  <2> QED
    BY <1>4, <2>1 DEF Provision, JobInv
<1>5. ASSUME NEW j \in Jobs, Connected(j) PROVE JobInv'
  BY <1>1, <1>5, JobGoes DEF Connected, Performs, Stays, Remote
<1>6. ASSUME NEW j \in Jobs, HermesChecked(j) PROVE JobInv'
  BY <1>1, <1>6, JobGoes DEF HermesChecked, Performs, Stays, Remote
<1>7. ASSUME NEW j \in Jobs, HermesInstalled(j) PROVE JobInv'
  <2>1. remote' \in Remote /\ Stays /\ remote'.hermes
    BY <1>1, <1>7 DEF HermesInstalled, Stays, Remote
  <2> QED
    BY <1>7, <2>1, JobGoes DEF HermesInstalled, Performs
<1>8. ASSUME NEW j \in Jobs, DoctorRan(j) PROVE JobInv'
  <2>1. PICK says \in BOOLEAN : Performs(j, "doctor", says, "start_api_server")
    BY <1>1, <1>8 DEF DoctorRan
  <2>2. job[j].success => remote.hermes
    BY <2>1 DEF Performs, On, JobInv
  <2> QED
    BY <1>1, <1>8, <2>1, <2>2, JobGoes DEF DoctorRan, Performs, Stays, Remote
<1>9. ASSUME NEW j \in Jobs, ApiStarted(j) PROVE JobInv'
  <2>1. PICK says \in BOOLEAN : Performs(j, "start_api_server", says, "verify_api_server")
    BY <1>9 DEF ApiStarted
  <2>2. job[j].success => remote.hermes
    BY <2>1 DEF Performs, On, JobInv
  <2>3. remote' \in Remote /\ Stays
    BY <1>1, <1>9 DEF ApiStarted, Stays, Remote
  <2> QED
    BY <2>1, <2>2, <2>3, JobGoes DEF Performs, Stays
<1>10. ASSUME NEW j \in Jobs, ApiVerified(j) PROVE JobInv'
  <2>1. job[j].success => remote.hermes
    BY <1>10 DEF ApiVerified, Performs, On, JobInv
  <2> QED
    BY <1>1, <1>10, <2>1, JobGoes DEF ApiVerified, Performs, Stays, Remote
<1>11. ASSUME NEW j \in Jobs, AgentDeployed(j) PROVE JobInv'
  <2>1. remote' \in Remote /\ Stays /\ remote'.package
    BY <1>1, <1>11 DEF AgentDeployed, Stays, Remote
  <2>2. job[j].success => remote.hermes
    BY <1>11 DEF AgentDeployed, Performs, On, JobInv
  <2> QED
    BY <1>11, <2>1, <2>2, JobGoes DEF AgentDeployed, Performs, Stays
<1>12. ASSUME NEW j \in Jobs, AgentStarted(j) PROVE JobInv'
  <2>1. job[j] \in Job
    BY DEF JobInv
  <2>2. remote' \in Remote /\ Stays /\ remote'.package
    BY <1>1, <1>12, <2>1 DEF AgentStarted, Stays, Remote, Job
  <2>3. job[j].success => remote.hermes
    BY <1>12 DEF AgentStarted, Performs, On, JobInv
  <2> QED
    BY <1>12, <2>2, <2>3, JobGoes DEF AgentStarted, Performs, Stays
<1>13. ASSUME NEW j \in Jobs, AgentVerified(j) PROVE JobInv'
  <2>1. Online(j) \in BOOLEAN
    BY DEF Online
  <2> QED
    BY <1>1, <1>13, <2>1, JobGoes DEF AgentVerified, Performs, Stays, Remote
<1>14. ASSUME NEW j \in Jobs, StepFails(j) PROVE JobInv'
  <2>1. job[j] \in Job
    BY DEF JobInv
  <2>2. remote' \in Remote /\ Stays
    BY <1>1, <1>14, <2>1 DEF StepFails, Stays, Remote, Job
  <2> QED
    BY <1>14, <2>2, JobGoes DEF StepFails
<1>15. ASSUME NEW j \in Jobs, StepRefused(j) PROVE JobInv'
  BY <1>1, <1>15, JobGoes DEF StepRefused, Stays, Remote
<1>16. CASE Reboot
  <2>1. remote' \in Remote /\ Stays
    BY <1>1, <1>16 DEF Reboot, Stays, Remote
  <2> QED
    BY <1>16, <2>1 DEF Reboot, Stays, JobInv
<1> QED
  BY <1>3, <1>4, <1>5, <1>6, <1>7, <1>8, <1>9, <1>10, <1>11, <1>12, <1>13, <1>14, <1>15,
     <1>16 DEF ProvisionStep

(* What a provisioning that becomes done with success can rely on.          *)
Serving(j) ==
  job[j].step # "done" /\ job'[j].step = "done" /\ job'[j].success =>
    remote.agent = job[j].token /\ remote.hermes /\ remote.package

(* Only the last step ends with done, and it has asked the agent.           *)
LEMMA CompletionServes ==
  ASSUME JobInv, ProvisionStep, NEW j \in Jobs
  PROVE  Serving(j)
<1> USE DEF Steps
<1>1. ASSUME NEW i \in Jobs, NEW says, NEW next, next # "done", Goes(i, says, next)
      PROVE  Serving(j)
  BY <1>1 DEF Goes, JobInv, Job, Serving
<1>2. ASSUME UNCHANGED job PROVE Serving(j)
  BY <1>2 DEF Serving
<1>3. ASSUME NEW i \in Jobs, AgentVerified(i) PROVE Serving(j)
  <2>1. Goes(i, Online(i), "done") /\ job[i].step = "verify_node_agent"
    BY <1>3 DEF AgentVerified, Performs, On
  <2>2. CASE i = j
    <3>1. job'[j].success => job[j].success /\ Online(j)
      BY <2>1, <2>2 DEF Goes, JobInv, Job
    <3> QED
      BY <2>1, <2>2, <3>1 DEF JobInv, Online, Serving
  <2>3. CASE i # j
    BY <2>1, <2>3 DEF Goes, JobInv, Serving
  <2> QED
    BY <2>2, <2>3
<1>4. ASSUME NEW i \in Jobs, NEW token \in NodeTokens, Provision(i, token) PROVE Serving(j)
  BY <1>4 DEF Provision, JobInv, Serving
<1>5. ASSUME NEW i \in Jobs,
             \/ Connected(i) \/ HermesChecked(i) \/ HermesInstalled(i) \/ DoctorRan(i)
             \/ ApiStarted(i) \/ ApiVerified(i) \/ AgentDeployed(i) \/ AgentStarted(i)
             \/ StepFails(i) \/ StepRefused(i)
      PROVE  \E says, next : next # "done" /\ Goes(i, says, next)
  <2>1. CASE HermesChecked(i)
    BY <2>1 DEF HermesChecked, Performs
  <2>2. CASE DoctorRan(i) \/ ApiStarted(i)
    BY <2>2 DEF DoctorRan, ApiStarted, Performs
  <2>3. CASE Connected(i) \/ HermesInstalled(i) \/ ApiVerified(i) \/ AgentDeployed(i)
    BY <2>3 DEF Connected, HermesInstalled, ApiVerified, AgentDeployed, Performs
  <2>4. CASE AgentStarted(i) \/ StepFails(i) \/ StepRefused(i)
    BY <2>4 DEF AgentStarted, StepFails, StepRefused, Performs
  <2> QED
    BY <1>5, <2>1, <2>2, <2>3, <2>4
<1>6. ASSUME \/ Reboot
             \/ \E h \in Hosts :
                  Inspect(h) \/ ConfirmKey(h) \/ \E k \in HostKeys : ChangeKey(h, k)
      PROVE  UNCHANGED job
  BY <1>6 DEF Reboot, Inspect, ConfirmKey, ChangeKey
<1> QED
  BY <1>1, <1>2, <1>3, <1>4, <1>5, <1>6 DEF ProvisionStep

LEMMA JobBegins == Init => JobInv
<1>1. Blank \in Remote /\ [Blank EXCEPT !.hermes = TRUE] \in Remote
  BY DEF Blank, Remote
<1>2. IdleJob \in Job /\ IdleJob.step = "idle"
  BY DEF IdleJob, Job
<1>3. ProvisionInit => JobInv
  BY <1>1, <1>2 DEF ProvisionInit, JobInv, Steps
<1> QED
  BY <1>3 DEF Init

(* Whatever other provisionings, failures and reboots come between its      *)
(* steps, a provisioning that says it has completed has left an agent that *)
(* serves with its token, on a machine with hermes (provisioning/ssh.py).  *)
THEOREM CompletionMeansServing == Spec => CompletedMeansServing
<1>1. Init => JobInv
  BY JobBegins
<1>2. [Next]_vars => ProvisionStep \/ UNCHANGED provisionVars
  BY DEF Next, vars, Authoring, Starting, Supervising, StreamingEvents, Collecting,
         SettingUpNodes
<1>3. JobInv /\ [Next]_vars => JobInv'
  BY <1>2, JobStep DEF provisionVars, JobInv
<1>4. JobInv /\ [Next]_vars =>
        [\A j \in Jobs :
           job[j].step # "done" /\ job'[j].step = "done" /\ job'[j].success =>
             remote.agent = job[j].token /\ remote.hermes /\ remote.package]_provisionVars
  BY <1>2, CompletionServes DEF Serving
<1> QED
  BY <1>1, <1>3, <1>4, PTL DEF Spec, CompletedMeansServing

-----------------------------------------------------------------------------
(* Authoring.  A plan that was asked for with a chosen profile is asked of   *)
(* that profile from the beginning; a workflow is reviewed by the hash of    *)
(* what the page showed, or was called reviewed by its plan; and what is     *)
(* reviewed is not written any more.                                       *)
Asked(origin) ==
  origin.chosen => origin.asked = [of |-> origin.profile, endpoint |-> origin.endpoint]

Confirmed(row) ==
  \/ row.by # Nothing /\ row.confirmed = Nothing
  \/ Hash(row.confirmed) = Hash(row.content)

Sound(row) ==
  /\ row \in Workflow
  /\ row.by = Nothing \/ Asked(row.by)
  /\ row.status = "reviewed" => Confirmed(row)

AuthoringInv ==
  /\ WorkflowsTypeOK
  /\ VersionInv
  /\ active <= NewId
  /\ \A plan \in plans : Asked(plan.origin)
  /\ \A w \in DOMAIN workflows : Sound(workflows[w])
  /\ \A w \in runs : w \in DOMAIN workflows /\ workflows[w].status = "reviewed"

(* A profile that is written is one more profile, or another row of it.     *)
LEMMA WrittenType ==
  ASSUME ModelsTypeOK, NEW p \in Profiles, NEW row \in Profile,
         profiles' = Written(p, row)
  PROVE  DOMAIN profiles' \subseteq Profiles /\ profiles' \in [DOMAIN profiles' -> Profile]
<1>1. DOMAIN profiles' = DOMAIN profiles \cup {p}
  BY DEF Written
<1>2. ASSUME NEW q \in DOMAIN profiles PROVE [profiles[q] EXCEPT !.default = FALSE] \in Profile
  BY DEF ModelsTypeOK, Profile
<1>3. ASSUME NEW q \in DOMAIN profiles' PROVE profiles'[q] \in Profile
  BY <1>1, <1>2 DEF Written, ModelsTypeOK
<1>4. profiles' = [q \in DOMAIN profiles' |-> profiles'[q]]
  BY DEF Written
<1> QED
  BY <1>1, <1>3, <1>4 DEF ModelsTypeOK

LEMMA ModelsKeep == ModelsTypeOK /\ ModelsStep => ModelsTypeOK'
<1> SUFFICES ASSUME ModelsTypeOK, ModelsStep PROVE ModelsTypeOK'
  OBVIOUS
<1>1. Change => changes' \in 0..MaxChanges
  BY ChangesAssumption DEF Change, ModelsTypeOK
<1>2. \A p \in Profiles, given \in BOOLEAN :
        Stored(p, given) => keys' \subseteq Profiles \cup {Planner}
  BY DEF Stored, ModelsTypeOK
<1>3. ASSUME NEW p \in Profiles, NEW e \in Endpoints, NEW given \in BOOLEAN,
             NEW default \in BOOLEAN, CreateProfile(p, e, default, given)
      PROVE  ModelsTypeOK'
  <2>1. [endpoint |-> e, enabled |-> TRUE, default |-> default \/ Default = {}] \in Profile
    BY DEF Profile
  <2> QED
    BY <1>1, <1>2, <1>3, <2>1, WrittenType DEF CreateProfile, ModelsTypeOK
<1>4. ASSUME NEW p \in Profiles, NEW e \in Endpoints, NEW given \in BOOLEAN,
             NEW default \in BOOLEAN, NEW enabled \in BOOLEAN,
             UpdateProfile(p, e, enabled, default, given)
      PROVE  ModelsTypeOK'
  <2>1. [endpoint |-> e, enabled |-> enabled, default |-> default] \in Profile
    BY DEF Profile
  <2> QED
    BY <1>1, <1>2, <1>4, <2>1, WrittenType DEF UpdateProfile, ModelsTypeOK
<1>5. ASSUME NEW p \in Profiles, NEW e \in Endpoints, NEW given \in BOOLEAN,
             SetConfig(e, p, given)
      PROVE  ModelsTypeOK'
  <2>1. PICK row \in Profile : profiles' = Written(p, row)
    <3>1. [endpoint |-> e, enabled |-> TRUE, default |-> TRUE] \in Profile
      BY DEF Profile
    <3>2. p \in Default => [profiles[p] EXCEPT !.endpoint = e] \in Profile
      BY DEF Profile, ModelsTypeOK, Default
    <3> QED
      BY <1>5, <3>1, <3>2 DEF SetConfig
  <2>2. [of |-> Planner, endpoint |-> e] \in Provider
    BY DEF Provider
  <2> QED
    BY <1>1, <1>5, <2>1, <2>2, WrittenType DEF SetConfig, ModelsTypeOK
<1>6. ASSUME NEW p \in Profiles, DeleteProfile(p) PROVE ModelsTypeOK'
  BY <1>1, <1>6 DEF DeleteProfile, ModelsTypeOK
<1>7. ASSUME NEW p \in Profiles, SetDefault(p) PROVE ModelsTypeOK'
  <2>1. [profiles[p] EXCEPT !.default = TRUE] \in Profile
    BY <1>7 DEF SetDefault, ModelsTypeOK, Profile
  <2> QED
    BY <1>1, <1>7, <2>1, WrittenType DEF SetDefault, ModelsTypeOK
<1> QED
  BY <1>3, <1>4, <1>5, <1>6, <1>7 DEF ModelsStep

(* A workflow that is saved is another one, under the next id.               *)
LEMMA SavedRow ==
  ASSUME AuthoringInv, NEW r, Save(r), Sound(r), r.version <= NewId + 1, VersionInv',
         UNCHANGED runs
  PROVE  /\ \A w \in DOMAIN workflows' : w \in Workflows /\ Sound(workflows'[w])
         /\ \A w \in runs' : w \in DOMAIN workflows' /\ workflows'[w].status = "reviewed"
         /\ active' \in Version /\ active' <= NewId'
<1>1. PICK n \in Nat : DOMAIN workflows = 1..n
  BY DEF AuthoringInv, VersionInv
<1>2. NewId = n + 1
  BY <1>1, NextId
<1>3. /\ workflows' = [w \in 1..(n + 1) |-> IF w = n + 1 THEN r ELSE workflows[w]]
      /\ active' = r.version /\ n + 1 \in Workflows
  BY <1>2 DEF Save
<1>4. DOMAIN workflows' = 1..(n + 1)
  BY <1>3
<1>5. NewId' = n + 2
  BY <1>4, FS_Interval DEF NewId
<1>6. active' \in Version
  BY <1>3 DEF Sound, Workflow
<1>7. \A w \in DOMAIN workflows' : w \in Workflows /\ Sound(workflows'[w])
  <2> SUFFICES ASSUME NEW w \in 1..(n + 1) PROVE w \in Workflows /\ Sound(workflows'[w])
    BY <1>4
  <2>1. w = n + 1 => Sound(workflows'[w])
    BY <1>3
  <2>2. w # n + 1 => w \in DOMAIN workflows /\ workflows'[w] = workflows[w]
    BY <1>1, <1>3
  <2>3. w \in Workflows
    BY <1>3, PlansAssumption DEF Workflows
  <2> QED
    BY <2>1, <2>2, <2>3 DEF AuthoringInv
<1>8. \A w \in runs' : w \in DOMAIN workflows' /\ workflows'[w].status = "reviewed"
  BY <1>1, <1>3, <1>4 DEF AuthoringInv
<1>9. active' <= NewId'
  BY <1>2, <1>3, <1>5, <1>6, PlansAssumption DEF Version
<1> QED
  BY <1>6, <1>7, <1>8, <1>9

(* A draft that is written has no run.                                     *)
LEMMA EditedRow ==
  ASSUME AuthoringInv, NEW w \in DOMAIN workflows, NEW r, Sound(r),
         workflows[w].status = "draft",
         workflows' = [workflows EXCEPT ![w] = r], UNCHANGED <<active, runs>>
  PROVE  /\ \A v \in DOMAIN workflows' : v \in Workflows /\ Sound(workflows'[v])
         /\ \A v \in runs' : v \in DOMAIN workflows' /\ workflows'[v].status = "reviewed"
         /\ active' \in {0} \cup Version /\ active' <= NewId'
<1>1. DOMAIN workflows' = DOMAIN workflows
  OBVIOUS
<1>2. NewId' = NewId
  BY <1>1 DEF NewId
<1>3. w \notin runs
  BY DEF AuthoringInv
<1>4. \A v \in DOMAIN workflows : workflows'[v] = IF v = w THEN r ELSE workflows[v]
  OBVIOUS
<1>5. DOMAIN workflows \subseteq Workflows
  BY DEF AuthoringInv, WorkflowsTypeOK
<1> QED
  BY <1>1, <1>2, <1>3, <1>4, <1>5 DEF AuthoringInv, WorkflowsTypeOK

(* The planner of a plan with a choice is that of the chosen profile.       *)
LEMMA BeginPlanKeeps ==
  ASSUME AuthoringInv, NEW p \in Profiles \cup {Nothing}, NEW chosen \in BOOLEAN,
         BeginPlan(p, chosen)
  PROVE  /\ planner' \in Provider
         /\ plans' \subseteq Plan
         /\ \A plan \in plans' : Asked(plan.origin)
<1> DEFINE origin == [profile |-> p, asked |-> planner', chosen |-> chosen,
                      endpoint |-> IF p = Nothing THEN Nothing ELSE profiles[p].endpoint]
           new == [origin |-> origin, repaired |-> FALSE]
<1>1. ModelsTypeOK /\ plans \subseteq Plan
  BY DEF AuthoringInv, WorkflowsTypeOK
<1>2. p # Nothing => p \in Profiles /\ profiles[p].endpoint \in Endpoints
  BY <1>1, PlannerAssumption DEF BeginPlan, ModelsTypeOK, Profile
<1>3. p = Nothing => ~chosen
  BY PlannerAssumption, <1>1 DEF BeginPlan, ModelsTypeOK
<1>4. planner' \in Provider
  <2>1. \/ planner' = planner
        \/ p # Nothing /\ planner' = [of |-> p, endpoint |-> profiles[p].endpoint]
    BY DEF BeginPlan, PlannerFor
  <2>2. planner' # NoPlanner
    BY DEF BeginPlan
  <2> QED
    BY <1>1, <1>2, <2>1, <2>2 DEF ModelsTypeOK, Provider
<1>5. chosen => planner' = [of |-> p, endpoint |-> profiles[p].endpoint]
  BY <1>3 DEF BeginPlan, PlannerFor
<1>6. origin \in Origin
  BY <1>2, <1>4 DEF Origin
<1>7. Asked(origin)
  BY <1>3, <1>5 DEF Asked
<1>8. plans' \subseteq plans \cup {new}
  BY DEF BeginPlan
<1>9. new \in Plan /\ new.origin = origin
  BY <1>6 DEF Plan
<1> HIDE DEF new, origin
<1> QED
  BY <1>1, <1>4, <1>7, <1>8, <1>9 DEF AuthoringInv

(* Plans come from one of the plans before, whose origin they have.         *)
LEMMA PlansKept ==
  ASSUME AuthoringInv, NEW plan \in plans,
         plans' \subseteq plans \cup {[plan EXCEPT !.repaired = TRUE]}
  PROVE  plans' \subseteq Plan /\ \A q \in plans' : Asked(q.origin)
<1> DEFINE new == [plan EXCEPT !.repaired = TRUE]
<1>1. plans \subseteq Plan
  BY DEF AuthoringInv, WorkflowsTypeOK
<1>2. new \in Plan /\ new.origin = plan.origin
  BY <1>1 DEF Plan
<1> HIDE DEF new
<1>3. plans' \subseteq plans \cup {new}
  BY DEF new
<1> QED
  BY <1>1, <1>2, <1>3 DEF AuthoringInv

LEMMA AuthoringStep ==
  ASSUME AuthoringInv, WorkflowsStep, VersionInv'
  PROVE  AuthoringInv'
<1> DEFINE Typed == /\ ModelsTypeOK' /\ project' \in BOOLEAN
                    /\ planned' \in 0..MaxPlans
                    /\ \/ shown' = NoReview
                       \/ shown'.of \in Workflows /\ shown'.content \in Content
           Planned == plans' \subseteq Plan /\ \A plan \in plans' : Asked(plan.origin)
           Rows == /\ \A w \in DOMAIN workflows' : w \in Workflows /\ Sound(workflows'[w])
                   /\ \A w \in runs' :
                        w \in DOMAIN workflows' /\ workflows'[w].status = "reviewed"
                   /\ active' \in {0} \cup Version /\ active' <= NewId'
<1>0. ASSUME Typed, Planned, Rows PROVE AuthoringInv'
  <2>1. \A w \in DOMAIN workflows' : workflows'[w] \in Workflow
    BY <1>0 DEF Sound
  <2>2. runs' \subseteq Workflows
    BY <1>0
  <2>3. WorkflowsTypeOK'
    BY <1>0, <2>1, <2>2 DEF WorkflowsTypeOK
  <2> QED
    BY <1>0, <2>3 DEF AuthoringInv
<1>1. UNCHANGED modelVars => ModelsTypeOK'
  BY DEF modelVars, ModelsTypeOK, AuthoringInv, WorkflowsTypeOK, Default
<1>2. UNCHANGED plans => Planned
  BY DEF AuthoringInv, WorkflowsTypeOK
<1>3. UNCHANGED <<workflows, runs, active>> => Rows
  <2>1. UNCHANGED workflows => NewId' = NewId
    BY DEF NewId
  <2> QED
    BY <2>1 DEF AuthoringInv, WorkflowsTypeOK
<1>4. UNCHANGED <<project, planned, shown>> /\ ModelsTypeOK' => Typed
  BY DEF AuthoringInv, WorkflowsTypeOK, NoReview
<1> HIDE DEF Typed, Planned, Rows
<1> USE PlansAssumption
<1>5. CASE ModelsStep /\ UNCHANGED authoringVars
  <2>1. ModelsTypeOK'
    BY <1>5, ModelsKeep DEF AuthoringInv, WorkflowsTypeOK
  <2> QED
    BY <1>0, <1>2, <1>3, <1>4, <1>5, <2>1 DEF authoringVars
<1>6. ASSUME NEW p \in Profiles \cup {Nothing}, NEW chosen \in BOOLEAN, BeginPlan(p, chosen)
      PROVE  AuthoringInv'
  <2>1. Planned /\ planner' \in Provider
    BY <1>6, BeginPlanKeeps DEF Planned
  <2>2. UNCHANGED <<profiles, keys, config, changes, project, shown, workflows, runs, active>>
        /\ planned' \in 0..MaxPlans
    BY <1>6 DEF BeginPlan, AuthoringInv, WorkflowsTypeOK
  <2>3. ModelsTypeOK'
    BY <2>1, <2>2 DEF ModelsTypeOK, AuthoringInv, WorkflowsTypeOK
  <2>4. Typed
    BY <2>2, <2>3 DEF Typed, AuthoringInv, WorkflowsTypeOK, NoReview
  <2> QED
    BY <1>0, <1>3, <2>1, <2>2, <2>4
<1>7. ASSUME NEW plan \in plans, RepairPlan(plan) \/ PlanFails(plan)
      PROVE  AuthoringInv'
  <2>1. plans' \subseteq plans \cup {[plan EXCEPT !.repaired = TRUE]}
    BY <1>7 DEF RepairPlan, PlanFails
  <2>2. Planned
    BY <2>1, PlansKept DEF Planned
  <2> QED
    BY <1>0, <1>1, <1>3, <1>4, <1>7, <2>2 DEF RepairPlan, PlanFails
<1>8. ASSUME NEW plan \in plans, NEW version \in Version, NEW status \in {"draft", "reviewed"},
             NEW extra \in Extras, PlanAnswers(plan, version, status, extra)
      PROVE  AuthoringInv'
  <2> DEFINE content == [covered |-> 1, extra |-> extra]
             r == [version |-> version, status |-> status, content |-> content,
                   by |-> plan.origin, confirmed |-> Nothing]
  <2>1. /\ Save(r) /\ plans' = plans \ {plan}
        /\ UNCHANGED <<modelVars, project, planned, shown, runs>>
    BY <1>8 DEF PlanAnswers
  <2>2. plan.origin \in Origin /\ Asked(plan.origin)
    BY DEF AuthoringInv, WorkflowsTypeOK, Plan
  <2>3. plan.origin # Nothing
    BY <2>2, NothingAssumption
  <2>4. content \in Content
    BY DEF Content
  <2>5. r \in Workflow /\ r.by = plan.origin /\ r.confirmed = Nothing /\ r.version = version
    BY <2>2, <2>4 DEF Workflow
  <2> HIDE DEF r
  <2>6. Sound(r)
    BY <2>2, <2>3, <2>5 DEF Sound, Confirmed
  <2>7. r.version <= NewId + 1
    <3>1. PICK n \in Nat : DOMAIN workflows = 1..n
      BY DEF AuthoringInv, VersionInv
    <3>2. NewId = n + 1
      BY <3>1, NextId
    <3>3. CASE DOMAIN workflows = {}
      BY <1>8, <2>5, <3>2, <3>3 DEF PlanAnswers
    <3>4. CASE DOMAIN workflows # {}
      <4>1. version = active + 1
        BY <1>8, <3>4, NextIsNew DEF PlanAnswers, AuthoringInv
      <4> QED
        BY <2>5, <3>2, <4>1 DEF AuthoringInv, VersionInv
    <3> QED
      BY <3>3, <3>4
  <2>8. Rows
    BY <2>1, <2>6, <2>7, SavedRow DEF Rows
  <2>9. Planned
    BY <2>1 DEF Planned, AuthoringInv, WorkflowsTypeOK
  <2> QED
    BY <1>0, <1>1, <1>4, <2>1, <2>8, <2>9
<1>9. ASSUME NEW w \in Workflows, NEW content \in Content, UpdateWorkflow(w, content)
      PROVE  AuthoringInv'
  <2> DEFINE r == [workflows[w] EXCEPT !.content = content]
  <2>1. w \in DOMAIN workflows /\ workflows[w].status = "draft" /\ Sound(workflows[w])
    BY <1>9 DEF UpdateWorkflow, MayEdit, AuthoringInv
  <2>2. workflows' = [workflows EXCEPT ![w] = r] /\ UNCHANGED <<active, runs, plans>>
    BY <1>9 DEF UpdateWorkflow
  <2>3. r \in Workflow /\ r.status = "draft" /\ r.by = workflows[w].by
    BY <2>1 DEF Sound, Workflow
  <2> HIDE DEF r
  <2>4. Sound(r)
    BY <2>1, <2>3 DEF Sound
  <2>5. Rows
    BY <2>1, <2>2, <2>4, EditedRow DEF Rows
  <2>6. ModelsTypeOK'
    BY <1>9, ChangesAssumption DEF UpdateWorkflow, Change, ModelsTypeOK, AuthoringInv,
                                   WorkflowsTypeOK
  <2> QED
    BY <1>0, <1>2, <1>4, <1>9, <2>2, <2>5, <2>6 DEF UpdateWorkflow
<1>10. ASSUME NEW w \in Workflows, PrepareReview(w) PROVE AuthoringInv'
  <2>1. [of |-> w, content |-> workflows[w].content].content \in Content
    BY <1>10 DEF PrepareReview, AuthoringInv, Sound, Workflow
  <2>2. Typed
    BY <1>1, <1>10, <2>1 DEF PrepareReview, Typed, AuthoringInv, WorkflowsTypeOK
  <2> QED
    BY <1>0, <1>2, <1>3, <1>10, <2>2 DEF PrepareReview
<1>11. ASSUME NEW w \in Workflows, Review(w) PROVE AuthoringInv'
  <2> DEFINE q == [workflows[w] EXCEPT !.status = "reviewed"]
             r == [q EXCEPT !.confirmed = shown.content]
  <2>1. w \in DOMAIN workflows /\ workflows[w].status = "draft" /\ Sound(workflows[w])
    BY <1>11 DEF Review, AuthoringInv
  <2>2. workflows' = [workflows EXCEPT ![w] = r] /\ UNCHANGED <<active, runs, plans>>
    BY <1>11 DEF Review
  <2>3. shown.content \in Content
    <3>1. shown # NoReview
      BY <1>11, NothingAssumption DEF Review, NoReview
    <3> QED
      BY <3>1 DEF AuthoringInv, WorkflowsTypeOK
  <2>4. q \in Workflow /\ q.by = workflows[w].by /\ q.content = workflows[w].content
    BY <2>1 DEF Sound, Workflow
  <2>5. r \in Workflow /\ r.by = q.by /\ r.content = q.content /\ r.confirmed = shown.content
    <3> HIDE DEF q
    <3> QED
      BY <2>3, <2>4 DEF Workflow
  <2> HIDE DEF r, q
  <2>6. Sound(r)
    BY <1>11, <2>1, <2>4, <2>5 DEF Sound, Confirmed, Review
  <2>7. Rows
    BY <2>1, <2>2, <2>6, EditedRow DEF Rows
  <2> QED
    BY <1>0, <1>1, <1>2, <1>4, <1>11, <2>2, <2>7 DEF Review
<1>12. ASSUME NEW w \in Workflows, CreateRun(w) PROVE AuthoringInv'
  <2>1. NewId' = NewId
    BY <1>12 DEF CreateRun, NewId
  <2>2. Rows
    BY <1>12, <2>1 DEF CreateRun, Rows, AuthoringInv, WorkflowsTypeOK
  <2> QED
    BY <1>0, <1>1, <1>2, <1>4, <1>12, <2>2 DEF CreateRun
<1>13. ASSUME NEW w \in Workflows, CreateRevision(w) PROVE AuthoringInv'
  <2> DEFINE version == NextVersion(workflows[w].version)
             r == [version |-> version, status |-> "draft", content |-> workflows[w].content,
                   by |-> Nothing, confirmed |-> Nothing]
  <2>1. Save(r) /\ UNCHANGED <<modelVars, project, plans, planned, shown, runs>>
        /\ w \in DOMAIN workflows
    BY <1>13 DEF CreateRevision
  <2>2. version = active + 1
    BY <1>13, NextIsNew DEF CreateRevision, AuthoringInv
  <2>3. PICK n \in Nat : DOMAIN workflows = 1..n
    BY DEF AuthoringInv, VersionInv
  <2>4. NewId = n + 1
    BY <2>3, NextId
  <2>5. version \in Version /\ version <= NewId + 1
    BY <2>1, <2>2, <2>4 DEF Save, Workflows, Version, AuthoringInv, VersionInv
  <2>6. workflows[w].content \in Content
    BY <2>1 DEF AuthoringInv, Sound, Workflow
  <2> HIDE DEF version
  <2>7. r \in Workflow /\ r.by = Nothing /\ r.status = "draft" /\ r.version = version
    BY <2>5, <2>6 DEF Workflow
  <2> HIDE DEF r
  <2>8. Sound(r)
    BY <2>7 DEF Sound
  <2>9. Rows
    BY <2>1, <2>5, <2>7, <2>8, SavedRow DEF Rows
  <2> QED
    BY <1>0, <1>1, <1>2, <1>4, <2>1, <2>9
<1>14. CASE DeleteProject
  <2>1. DOMAIN workflows' = {} /\ active' = 0 /\ runs' = {} /\ project' = FALSE
    BY <1>14 DEF DeleteProject
  <2>2. NewId' = 1
    BY <2>1, FS_EmptySet DEF NewId
  <2>3. Rows
    BY <2>1, <2>2 DEF Rows
  <2>4. Typed
    BY <1>1, <1>14, <2>1 DEF Typed, DeleteProject, AuthoringInv, WorkflowsTypeOK, NoReview
  <2> QED
    BY <1>0, <1>2, <1>14, <2>3, <2>4 DEF DeleteProject
<1>15. CASE RestartCoordinator
  <2>1. planner' \in Provider \cup {NoPlanner}
    BY <1>15 DEF RestartCoordinator, ConfiguredPlanner, Provider, AuthoringInv,
                 WorkflowsTypeOK, ModelsTypeOK
  <2>2. ModelsTypeOK'
    BY <1>15, <2>1 DEF RestartCoordinator, ModelsTypeOK, AuthoringInv, WorkflowsTypeOK
  <2>3. Planned
    BY <1>15 DEF RestartCoordinator, Planned
  <2> QED
    BY <1>0, <1>3, <1>4, <1>15, <2>2, <2>3 DEF RestartCoordinator
<1> QED
  BY <1>5, <1>6, <1>7, <1>8, <1>9, <1>10, <1>11, <1>12, <1>13, <1>14, <1>15 DEF WorkflowsStep

LEMMA AuthoringKeeps == AuthoringInv /\ [Next]_vars => AuthoringInv'
<1> SUFFICES ASSUME AuthoringInv, [Next]_vars PROVE AuthoringInv'
  OBVIOUS
<1>1. VersionInv'
  BY VersionStep DEF AuthoringInv
<1>2. CASE UNCHANGED workflowVars
  <2>1. NewId' = NewId /\ ModelsTypeOK'
    BY <1>2 DEF NewId, workflowVars, modelVars, authoringVars, ModelsTypeOK, AuthoringInv,
                WorkflowsTypeOK
  <2> QED
    BY <1>1, <1>2, <2>1 DEF workflowVars, authoringVars, AuthoringInv, WorkflowsTypeOK,
                            NoReview
<1>3. CASE WorkflowsStep
  BY <1>1, <1>3, AuthoringStep
<1> QED
  BY <1>2, <1>3 DEF Next, vars, Authoring, Starting, Supervising, StreamingEvents,
                    Collecting, SettingUpNodes

LEMMA AuthoringBegins == Init => AuthoringInv
<1> SUFFICES ASSUME Init PROVE AuthoringInv
  OBVIOUS
<1>1. /\ DOMAIN workflows = {} /\ active = 0 /\ runs = {} /\ plans = {} /\ planned = 0
      /\ project = TRUE /\ shown = NoReview
  BY DEF Init, WorkflowsInit
<1>2. NewId = 1
  BY <1>1, FS_EmptySet DEF NewId
<1>3. VersionInv
  BY <1>1 DEF VersionInv, VersionsInOrder
<1>4. ModelsTypeOK
  BY ChangesAssumption DEF Init, WorkflowsInit, ModelsInit, ModelsTypeOK
<1> QED
  BY <1>1, <1>2, <1>3, <1>4, PlansAssumption DEF AuthoringInv, WorkflowsTypeOK

(* Whatever other plans, edits and deletions of profiles happen while a plan *)
(* waits, a workflow that was planned with a chosen profile was planned by   *)
(* that profile at the endpoint it records (api/workflows.py).              *)
THEOREM ChosenModelsPlan == Spec => []PlannedByChosen
<1>1. AuthoringInv => PlannedByChosen
  BY DEF AuthoringInv, Sound, Asked, PlannedByChosen
<1> QED
  BY <1>1, AuthoringBegins, AuthoringKeeps, PTL DEF Spec

(* For any number of windows, plans, edits, reviews and revisions, what runs *)
(* was confirmed as a page showed it, as far as the hash covers it, or was   *)
(* called reviewed by its thinking model (workflow_review.py).              *)
THEOREM RunsWereConfirmed == Spec => []RunsAsConfirmed
<1>1. AuthoringInv => RunsAsConfirmed
  BY DEF AuthoringInv, Sound, Confirmed, RunsAsConfirmed
<1> QED
  BY <1>1, AuthoringBegins, AuthoringKeeps, PTL DEF Spec

-----------------------------------------------------------------------------
(* Collections.  A file exists when the collection it is named after has     *)
(* begun.  Once an artifact is committed, as long as only two collections    *)
(* have begun, the other of them is the only one that may still move a file, *)
(* and it has that file for itself, from the beginning.                    *)
Values == {Collected[c] : c \in Collections} \cup {Hole}

FilesInv ==
  /\ contents \in [Collections -> Seq(Values)]
  /\ \A c \in Collections : Len(contents[c]) <= Chunks
  /\ written \in [Collections -> 0..Chunks]
  /\ into \in [Collections -> Collections \cup {NoFile}]
  /\ temporary \in Collections \cup {NoFile} /\ artifact \in Collections \cup {NoFile}
  /\ ended \subseteq Collections
  /\ committed \in {Collected[c] : c \in Collections} \cup {NoFile}
  /\ \A c \in Collections :
       /\ c \in ended => into[c] = NoFile
       /\ c \notin Begun => written[c] = 0
       /\ into[c] \in Begun \cup {NoFile}
  /\ temporary \in Begun \cup {NoFile} /\ artifact \in Begun \cup {NoFile}
  /\ temporary = artifact => temporary = NoFile

Spoilt ==
  \/ \E c \in Begun : Collected[c] # committed
  \/ \E c, d, e \in Begun : c # d /\ d # e /\ c # e

CollectionInv ==
  /\ FilesInv
  /\ committed # NoFile /\ ~Spoilt =>
       /\ artifact # NoFile /\ contents[artifact] = Whole(committed)
       /\ ended # {}
       /\ temporary # NoFile =>
            /\ into[temporary] = temporary
            /\ contents[temporary] = [i \in 1..written[temporary] |-> committed]
            /\ Begun \ {temporary} \subseteq ended

LEMMA OverwrittenType ==
  ASSUME NEW f \in Seq(Values), Len(f) <= Chunks, NEW i \in 1..Chunks, NEW a \in Values
  PROVE  Overwritten(f, i, a) \in Seq(Values) /\ Len(Overwritten(f, i, a)) <= Chunks
<1> DEFINE n == IF Len(f) < i THEN i ELSE Len(f)
<1>1. n \in Nat /\ n <= Chunks
  BY CollectedAssumption
<1>2. Overwritten(f, i, a) =
        [j \in 1..n |-> IF j = i THEN a ELSE IF j <= Len(f) THEN f[j] ELSE Hole]
  BY DEF Overwritten
<1>3. ASSUME NEW j \in 1..n
      PROVE  (IF j = i THEN a ELSE IF j <= Len(f) THEN f[j] ELSE Hole) \in Values
  BY <1>3 DEF Values
<1> HIDE DEF n
<1>4. Overwritten(f, i, a) \in [1..n -> Values]
  BY <1>2, <1>3
<1> QED
  BY <1>1, <1>4

(* What has begun goes on having begun.                                    *)
LEMMA FilesStep == FilesInv /\ DownloadsStep => FilesInv' /\ Begun \subseteq Begun'
<1> SUFFICES ASSUME FilesInv, NEW c \in Collections,
                    OpenTemporary(c) \/ WriteChunk(c) \/ Replace(c) \/ DownloadFails(c)
             PROVE  FilesInv' /\ Begun \subseteq Begun'
  BY DEF DownloadsStep
<1> USE CollectedAssumption
<1>1. CASE OpenTemporary(c)
  <2> DEFINE t == temporary'
  <2>1. t \in Collections /\ (t = temporary \/ t = c)
    BY <1>1 DEF OpenTemporary, FilesInv
  <2>2. Begun' = Begun \cup {c} /\ c \notin Begun
    BY <1>1, <2>1 DEF OpenTemporary, Begun, FilesInv
  <2>3. <<>> \in Seq(Values) /\ Len(<<>>) = 0
    OBVIOUS
  <2>4. /\ contents' \in [Collections -> Seq(Values)]
        /\ \A d \in Collections : Len(contents'[d]) <= Chunks
    BY <1>1, <2>1, <2>3 DEF OpenTemporary, FilesInv
  <2>5. t \in Begun'
    BY <2>1, <2>2 DEF FilesInv, Begun
  <2>6. t # artifact
    BY <1>1, <2>1, <2>2 DEF OpenTemporary, FilesInv, Begun
  <2>7. UNCHANGED <<artifact, written, ended, committed>> /\ into' = [into EXCEPT ![c] = t]
    BY <1>1 DEF OpenTemporary
  <2> HIDE DEF t
  <2>8. t = temporary'
    BY DEF t
  <2>9. into' \in [Collections -> Collections \cup {NoFile}]
    BY <2>1, <2>7 DEF FilesInv
  <2>10. \A d \in Collections :
           /\ d \in ended' => into'[d] = NoFile
           /\ d \notin Begun' => written'[d] = 0
           /\ into'[d] \in Begun' \cup {NoFile}
    BY <1>1, <2>2, <2>5, <2>7 DEF FilesInv, OpenTemporary
  <2> QED
    BY <2>1, <2>2, <2>4, <2>5, <2>6, <2>7, <2>8, <2>9, <2>10 DEF FilesInv
<1>2. CASE WriteChunk(c)
  <2>1. Begun' = Begun
    BY <1>2 DEF WriteChunk, Begun
  <2>2. /\ into[c] \in Collections /\ written[c] + 1 \in 1..Chunks
        /\ written' \in [Collections -> 0..Chunks]
    BY <1>2 DEF WriteChunk, FilesInv
  <2>3. written'[c] = written[c] + 1 /\ c \in Begun
    BY <1>2 DEF WriteChunk, FilesInv, Begun
  <2>4. Collected[c] \in Values
    BY DEF Values
  <2> DEFINE new == Overwritten(contents[into[c]], written'[c], Collected[c])
  <2>5. new \in Seq(Values) /\ Len(new) <= Chunks
    BY <2>2, <2>3, <2>4, OverwrittenType DEF FilesInv
  <2>6. contents' = [contents EXCEPT ![into[c]] = new]
    BY <1>2 DEF WriteChunk
  <2> HIDE DEF new
  <2>7. /\ contents' \in [Collections -> Seq(Values)]
        /\ \A d \in Collections : Len(contents'[d]) <= Chunks
    BY <2>2, <2>5, <2>6 DEF FilesInv
  <2>8. \A d \in Collections : d \notin Begun' => written'[d] = 0
    BY <1>2, <2>1, <2>3 DEF WriteChunk, FilesInv
  <2> QED
    BY <1>2, <2>1, <2>2, <2>7, <2>8 DEF WriteChunk, FilesInv
<1>3. ASSUME Ended(c), temporary' = NoFile, artifact' \in {artifact, temporary},
             committed' \in {committed, Collected[c]}
      PROVE  FilesInv' /\ Begun \subseteq Begun'
  <2>1. /\ into' = [into EXCEPT ![c] = NoFile] /\ ended' = ended \cup {c}
        /\ UNCHANGED <<contents, written>>
    BY <1>3 DEF Ended
  <2>2. Begun' = Begun \cup {c}
    BY <2>1 DEF Begun, FilesInv
  <2>3. into' \in [Collections -> Collections \cup {NoFile}]
    BY <2>1 DEF FilesInv
  <2>4. \A d \in Collections :
          /\ d \in ended' => into'[d] = NoFile
          /\ d \notin Begun' => written'[d] = 0
          /\ into'[d] \in Begun' \cup {NoFile}
    BY <2>1, <2>2 DEF FilesInv
  <2> QED
    BY <1>3, <2>1, <2>2, <2>3, <2>4 DEF FilesInv
<1>4. CASE Replace(c)
  BY <1>3, <1>4 DEF Replace
<1>5. CASE DownloadFails(c)
  BY <1>3, <1>5 DEF DownloadFails
<1> QED
  BY <1>1, <1>2, <1>4, <1>5

LEMMA CollectionStep == CollectionInv /\ DownloadsStep => CollectionInv'
<1> SUFFICES ASSUME CollectionInv, NEW c \in Collections,
                    OpenTemporary(c) \/ WriteChunk(c) \/ Replace(c) \/ DownloadFails(c),
                    committed' # NoFile, ~Spoilt'
             PROVE  /\ artifact' # NoFile /\ contents'[artifact'] = Whole(committed')
                    /\ ended' # {}
                    /\ temporary' # NoFile =>
                         /\ into'[temporary'] = temporary'
                         /\ contents'[temporary'] =
                                 [i \in 1..written'[temporary'] |-> committed']
                         /\ Begun' \ {temporary'} \subseteq ended'
  BY FilesStep DEF CollectionInv, DownloadsStep
<1> USE CollectedAssumption
<1>0. FilesInv /\ FilesInv' /\ Begun \subseteq Begun'
  BY FilesStep DEF CollectionInv, DownloadsStep
<1>1. committed' = committed => ~Spoilt
  BY <1>0 DEF Spoilt
<1>2. CASE OpenTemporary(c)
  <2>1. committed' = committed /\ UNCHANGED <<artifact, written, ended>>
    BY <1>2 DEF OpenTemporary
  <2>2. c \notin Begun /\ c \in Begun'
    BY <1>0, <1>2 DEF OpenTemporary, Begun, FilesInv
  <2>3. PICK e \in Collections : e \in ended /\ e \in Begun
    BY <1>0, <1>1, <2>1 DEF CollectionInv, FilesInv, Begun
  <2>4. \A d \in Begun : d = e
    <3> SUFFICES ASSUME NEW d \in Begun, d # e PROVE FALSE
      OBVIOUS
    <3>1. d # c /\ e # c /\ d \in Begun' /\ e \in Begun'
      BY <1>0, <2>2, <2>3
    <3> QED
      BY <2>2, <3>1 DEF Spoilt
  <2>5. temporary = NoFile
    <3> SUFFICES ASSUME temporary # NoFile PROVE FALSE
      OBVIOUS
    <3>1. temporary \in Begun /\ into[temporary] = temporary
      BY <1>0, <1>1, <2>1 DEF CollectionInv, FilesInv
    <3>2. into[e] = NoFile
      BY <1>0, <2>3 DEF FilesInv
    <3> QED
      BY <2>4, <3>1, <3>2
  <2>6. /\ temporary' = c /\ into' = [into EXCEPT ![c] = c]
        /\ contents' = [contents EXCEPT ![c] = <<>>]
    BY <1>2, <2>5 DEF OpenTemporary
  <2>7. artifact # c /\ artifact # NoFile
    BY <1>0, <1>1, <2>1, <2>2 DEF CollectionInv, FilesInv
  <2>8. contents'[artifact'] = Whole(committed')
    BY <1>1, <2>1, <2>6, <2>7 DEF CollectionInv
  <2>9. written[c] = 0 /\ contents'[c] = <<>> /\ into'[c] = c
    BY <1>0, <2>2, <2>6 DEF FilesInv
  <2>10. Begun' \ {c} \subseteq ended
    BY <1>0, <2>1, <2>3, <2>4, <2>6 DEF Begun, FilesInv
  <2> QED
    BY <2>1, <2>3, <2>6, <2>7, <2>8, <2>9, <2>10
<1>3. CASE WriteChunk(c)
  <2>1. UNCHANGED <<committed, artifact, temporary, into, ended>>
    BY <1>3 DEF WriteChunk
  <2>2. /\ artifact # NoFile /\ contents[artifact] = Whole(committed)
        /\ ended # {}
    BY <1>1, <2>1 DEF CollectionInv
  <2>3. Begun' = Begun /\ c \in Begun /\ Collected[c] = committed
    <3>1. Begun' = Begun /\ c \in Begun
      BY <1>3 DEF WriteChunk, Begun
    <3> QED
      BY <1>1, <2>1, <3>1 DEF Spoilt
  <2>4. /\ into[c] \in Collections
        /\ written'[c] = written[c] + 1 /\ written[c] \in 0..Chunks /\ written[c] < Chunks
        /\ \A d \in Collections : d # c => written'[d] = written[d]
    BY <1>0, <1>3 DEF WriteChunk, FilesInv
  <2>5. contents' = [contents EXCEPT ![into[c]] =
                       Overwritten(contents[into[c]], written[c] + 1, committed)]
    BY <1>3, <2>3, <2>4 DEF WriteChunk
  <2>6. contents'[artifact] = Whole(committed)
    <3>1. CASE into[c] # artifact
      BY <1>0, <2>2, <2>5, <3>1 DEF FilesInv
    <3>2. CASE into[c] = artifact
      <4>1. contents'[artifact] = Overwritten(Whole(committed), written[c] + 1, committed)
        BY <1>0, <2>2, <2>4, <2>5, <3>2 DEF FilesInv
      <4>2. Len(Whole(committed)) = Chunks
        BY DEF Whole
      <4> QED
        BY <2>4, <4>1, <4>2 DEF Overwritten, Whole
    <3> QED
      BY <3>1, <3>2
  <2>7. ASSUME temporary # NoFile
        PROVE  /\ into[temporary] = temporary
               /\ contents'[temporary] = [i \in 1..written'[temporary] |-> committed]
               /\ Begun \ {temporary} \subseteq ended
    <3>1. /\ into[temporary] = temporary /\ temporary \in Collections
          /\ contents[temporary] = [i \in 1..written[temporary] |-> committed]
          /\ Begun \ {temporary} \subseteq ended
      BY <1>0, <1>1, <2>1, <2>7 DEF CollectionInv, FilesInv
    <3>2. c = temporary
      BY <1>0, <1>3, <2>3, <3>1 DEF WriteChunk, FilesInv
    <3>3. contents'[c] = Overwritten(contents[c], written[c] + 1, committed)
      BY <1>0, <2>5, <3>1, <3>2 DEF FilesInv
    <3>4. Len(contents[c]) = written[c]
      BY <2>4, <3>1, <3>2
    <3>5. Overwritten(contents[c], written[c] + 1, committed)
            = [i \in 1..(written[c] + 1) |-> committed]
      BY <2>4, <3>1, <3>2, <3>4 DEF Overwritten
    <3> QED
      BY <2>4, <3>1, <3>2, <3>3, <3>5
  <2> QED
    BY <2>1, <2>2, <2>3, <2>6, <2>7
<1>4. CASE Replace(c)
  <2>1. /\ written[c] = Chunks /\ temporary # NoFile
        /\ artifact' = temporary /\ temporary' = NoFile
        /\ Ended(c) /\ contents' = contents /\ c \in ended'
    BY <1>4 DEF Replace, Ended
  <2>2. CASE committed' # committed
    <3>1. committed' = Collected[c] /\ contents[artifact'] = Whole(Collected[c])
      BY <1>4, <2>2 DEF Replace, Verified
    <3> QED
      BY <2>1, <3>1
  <2>3. CASE committed' = committed
    <3>1. c \in Begun /\ c \notin ended
      BY <1>0, <2>1 DEF FilesInv, Ended
    <3>2. c = temporary /\ contents[c] = [i \in 1..written[c] |-> committed]
      BY <1>1, <2>1, <2>3, <3>1 DEF CollectionInv
    <3>3. contents'[artifact'] = Whole(committed')
      BY <2>1, <2>3, <3>2 DEF Whole
    <3> QED
      BY <2>1, <3>3
  <2> QED
    BY <2>2, <2>3
<1>5. CASE DownloadFails(c)
  <2>1. UNCHANGED <<committed, artifact, contents>> /\ temporary' = NoFile /\ c \in ended'
    BY <1>5 DEF DownloadFails, Ended
  <2> QED
    BY <1>1, <2>1 DEF CollectionInv
<1> QED
  BY <1>2, <1>3, <1>4, <1>5

LEMMA CollectionKeeps == CollectionInv /\ [Next]_vars => CollectionInv'
<1> SUFFICES ASSUME CollectionInv, [Next]_vars PROVE CollectionInv'
  OBVIOUS
<1>1. CASE UNCHANGED downloadVars
  <2>1. Begun' = Begun
    BY <1>1 DEF downloadVars, Begun
  <2> QED
    BY <1>1, <2>1 DEF downloadVars, CollectionInv, FilesInv, Spoilt
<1>2. CASE DownloadsStep
  BY <1>2, CollectionStep
<1> QED
  BY <1>1, <1>2 DEF Next, vars, Authoring, Starting, Supervising, StreamingEvents,
                    Collecting, SettingUpNodes

LEMMA CollectionBegins == Init => CollectionInv
<1> SUFFICES ASSUME Init PROVE CollectionInv
  OBVIOUS
<1>1. DownloadsInit
  BY DEF Init
<1> QED
  BY <1>1, CollectedAssumption DEF DownloadsInit, CollectionInv, FilesInv, Begun

(* However two collections of one attempt share the temporary name, break    *)
(* off or come late, for any number of chunks the artifact that was          *)
(* committed stays whole, as long as no third one and none of another        *)
(* attempt has begun (artifacts/manager.py).                               *)
THEOREM CommittedArtifactsStay == Spec => []CommittedStaysWhole
<1>1. CollectionInv => CommittedStaysWhole
  BY DEF CollectionInv, Spoilt, CommittedStaysWhole
<1> QED
  BY <1>1, CollectionBegins, CollectionKeeps, PTL DEF Spec

-----------------------------------------------------------------------------
(* Types.  A start that migrates has a version to go to, and the tables and  *)
(* the number of the version agree but within a transaction; a process that *)
(* is kept has missed fewer checks than the threshold.                     *)
MigrationInv ==
  /\ StartTypeOK
  /\ schema.tables = schema.version
  /\ stage = "migrating" => /\ migration \in Schema /\ migration.version < LastVersion
                            /\ migration.tables = migration.version
  /\ stage = "applied" => /\ migration \in Schema /\ migration.version < LastVersion
                          /\ migration.tables = migration.version + 1

FailuresInv ==
  /\ SupervisorTypeOK
  /\ child \in Running => failures < Threshold

LEMMA MigrationStep == MigrationInv /\ StartUpStep => MigrationInv'
<1> SUFFICES ASSUME MigrationInv, StartUpStep PROVE MigrationInv'
  OBVIOUS
<1> USE StartAssumption
    DEF MigrationInv, StartTypeOK, Stages, schemaVars, secretVars, legacyVars
<1>1. CASE Begin
  BY <1>1 DEF Begin, At
<1>2. CASE BeginMigration
  BY <1>2 DEF BeginMigration, At, Schema
<1>3. CASE RunStatements
  BY <1>3 DEF RunStatements, Applied, At, Schema, Closed
<1>4. CASE CommitMigration
  BY <1>4 DEF CommitMigration, At, Schema, Closed
<1>5. CASE SchemaCurrent
  BY <1>5 DEF SchemaCurrent, At
<1>6. CASE ReadCredentials
  BY <1>6 DEF ReadCredentials, At
<1>7. ASSUME NEW k \in Secrets, CopySecret(k) PROVE MigrationInv'
  BY <1>7 DEF CopySecret
<1>8. CASE RetireFile
  BY <1>8 DEF RetireFile, At
<1>9. CASE CopyFails
  BY <1>9 DEF CopyFails
<1>10. CASE NothingToMigrate
  BY <1>10 DEF NothingToMigrate, At
<1>11. CASE BackUp \/ CreateLegacy
  BY <1>11 DEF BackUp, CreateLegacy, At
<1>12. CASE SetFlag \/ RegisterProjects
  BY <1>12 DEF SetFlag, RegisterProjects, At
<1>13. ASSUME NEW k \in Secrets, StoreSecret(k) PROVE MigrationInv'
  BY <1>13 DEF StoreSecret
<1>14. CASE DeleteLegacy \/ ConfigurePlanner
  BY <1>14 DEF DeleteLegacy, ConfigurePlanner
<1>15. CASE Break
  BY <1>15 DEF Break, Closed
<1> QED
  BY <1>1, <1>2, <1>3, <1>4, <1>5, <1>6, <1>7, <1>8, <1>9, <1>10, <1>11, <1>12, <1>13,
     <1>14, <1>15 DEF StartUpStep, StartStep

LEMMA ChildStarted ==
  ASSUME FailuresInv, StartChild
  PROVE  /\ child' \in Running \cup {"none", "exited"} /\ failures' \in 0..Threshold
         /\ strays' \in Nat /\ faults' \in 0..MaxFaults
         /\ child' \in Running => failures' < Threshold
BY SupervisorAssumption DEF FailuresInv, SupervisorTypeOK, StartChild, MayStart, Fault, Running

LEMMA FailuresStep == FailuresInv /\ SupervisorStep => FailuresInv'
<1> SUFFICES ASSUME FailuresInv, SupervisorStep PROVE FailuresInv'
  OBVIOUS
<1> USE SupervisorAssumption DEF FailuresInv, SupervisorTypeOK
<1>1. CASE Bootstrap
  BY <1>1, ChildStarted DEF Bootstrap
<1>2. CASE BeginRestart
  BY <1>2 DEF BeginRestart, Running
<1>3. CASE BeginExit
  BY <1>3 DEF BeginExit
<1>4. CASE StopAtExit
  BY <1>4 DEF StopAtExit, Running
<1>5. CASE EndOfApp
  BY <1>5 DEF EndOfApp, Running
<1>6. ASSUME NEW m \in Monitors, MonitorStep(m) PROVE FailuresInv'
  <2>1. CASE Wakes(m)
    BY <2>1 DEF Wakes
  <2>2. CASE FindsNone(m)
    BY <2>2 DEF FindsNone, Checked, Running
  <2>3. CASE FindsHealthy(m)
    BY <2>3 DEF FindsHealthy, Checked
  <2>4. CASE FindsHanging(m)
    BY <2>4 DEF FindsHanging, Checked, OneMoreFailure, Running
  <2>5. CASE Recover(m)
    BY <2>5, ChildStarted DEF Recover
  <2> QED
    BY <1>6, <2>1, <2>2, <2>3, <2>4, <2>5 DEF MonitorStep
<1>7. CASE ChildChanges
  BY <1>7 DEF ChildChanges, Fault, Running
<1> QED
  BY <1>1, <1>2, <1>3, <1>4, <1>5, <1>6, <1>7 DEF SupervisorStep

KeysTypeOK ==
  /\ hostKey \in [Hosts -> HostKeys]
  /\ inspected \in Lines \cup {NotShown}
  /\ confirmed \subseteq Lines /\ known \subseteq Lines
  /\ mishaps \in 0..MaxMishaps

LEMMA KeysStep == KeysTypeOK /\ ProvisionStep => KeysTypeOK'
<1> SUFFICES ASSUME KeysTypeOK, ProvisionStep PROVE KeysTypeOK'
  OBVIOUS
<1> USE MishapsAssumption DEF KeysTypeOK
<1>0. Mishap => mishaps' \in 0..MaxMishaps
  BY DEF Mishap
<1>1. ASSUME NEW h \in Hosts, Inspect(h) PROVE KeysTypeOK'
  <2>1. <<h, hostKey[h]>> \in Lines
    BY DEF Lines
  <2> QED
    BY <1>1, <2>1 DEF Inspect
<1>2. ASSUME NEW h \in Hosts, ConfirmKey(h) PROVE KeysTypeOK'
  <2>1. <<h, hostKey[h]>> \in Lines /\ inspected \in Lines
    BY <1>2 DEF ConfirmKey, Lines
  <2>2. known' \subseteq Lines
    BY <1>2, <2>1 DEF ConfirmKey, Recorded
  <2>3. confirmed' \subseteq Lines /\ inspected' = NotShown /\ UNCHANGED <<hostKey, mishaps>>
    BY <1>2, <2>1 DEF ConfirmKey
  <2> QED
    BY <2>2, <2>3
<1>3. ASSUME NEW h \in Hosts, NEW k \in HostKeys, ChangeKey(h, k) PROVE KeysTypeOK'
  <2>1. hostKey' \in [Hosts -> HostKeys] /\ UNCHANGED <<inspected, confirmed, known>>
    BY <1>3 DEF ChangeKey
  <2> QED
    BY <1>0, <1>3, <2>1 DEF ChangeKey
<1>4. ASSUME NEW j \in Jobs, StepFails(j) PROVE KeysTypeOK'
  BY <1>0, <1>4 DEF StepFails, keyVars
<1>5. CASE Reboot
  BY <1>0, <1>5 DEF Reboot, keyVars
<1>6. ASSUME NEW j \in Jobs,
             \/ \E token \in NodeTokens : Provision(j, token)
             \/ Connected(j) \/ HermesChecked(j) \/ HermesInstalled(j) \/ DoctorRan(j)
             \/ ApiStarted(j) \/ ApiVerified(j) \/ AgentDeployed(j) \/ AgentStarted(j)
             \/ AgentVerified(j) \/ StepRefused(j)
      PROVE  KeysTypeOK'
  <2>1. UNCHANGED <<keyVars, mishaps>>
    BY <1>6 DEF Provision, Connected, HermesChecked, HermesInstalled, DoctorRan, ApiStarted,
                ApiVerified, AgentDeployed, AgentStarted, AgentVerified, StepRefused, Performs
  <2> QED
    BY <2>1 DEF keyVars
<1> QED
  BY <1>1, <1>2, <1>3, <1>4, <1>5, <1>6 DEF ProvisionStep

(* Every variable of every service keeps its type, for all values of the     *)
(* constants.                                                              *)
TypesInv ==
  /\ service \in ServiceNames
  /\ AuthoringInv /\ MigrationInv /\ FailuresInv /\ StreamInv /\ ViewInv /\ TicketInv /\ FilesInv
  /\ KeysTypeOK /\ JobInv

LEMMA TypesKept == TypesInv /\ [Next]_vars => TypesInv'
<1> SUFFICES ASSUME TypesInv, [Next]_vars PROVE TypesInv'
  OBVIOUS
<1>1. AuthoringInv' /\ StreamInv' /\ ViewInv' /\ TicketInv'
  BY AuthoringKeeps, StreamKeeps, ViewStep, TicketStep DEF TypesInv
<1>2. service' \in ServiceNames
  BY DEF TypesInv, Next, vars, Authoring, Starting, Supervising, StreamingEvents,
         Collecting, SettingUpNodes
<1>3. MigrationInv'
  <2>1. CASE UNCHANGED startVars
    BY <2>1 DEF startVars, schemaVars, secretVars, legacyVars, TypesInv, MigrationInv,
                StartTypeOK
  <2>2. CASE StartUpStep
    BY <2>2, MigrationStep DEF TypesInv
  <2> QED
    BY <2>1, <2>2 DEF Next, vars, Authoring, Starting, Supervising, StreamingEvents,
                      Collecting, SettingUpNodes
<1>4. FailuresInv'
  <2>1. CASE UNCHANGED supervisorVars
    BY <2>1 DEF supervisorVars, TypesInv, FailuresInv, SupervisorTypeOK
  <2>2. CASE SupervisorStep
    BY <2>2, FailuresStep DEF TypesInv
  <2> QED
    BY <2>1, <2>2 DEF Next, vars, Authoring, Starting, Supervising, StreamingEvents,
                      Collecting, SettingUpNodes
<1>5. FilesInv'
  <2>1. CASE UNCHANGED downloadVars
    <3>1. Begun' = Begun
      BY <2>1 DEF downloadVars, Begun
    <3> QED
      BY <2>1, <3>1 DEF downloadVars, TypesInv, FilesInv
  <2>2. CASE DownloadsStep
    BY <2>2, FilesStep DEF TypesInv
  <2> QED
    BY <2>1, <2>2 DEF Next, vars, Authoring, Starting, Supervising, StreamingEvents,
                      Collecting, SettingUpNodes
<1>6. KeysTypeOK' /\ JobInv'
  <2>1. CASE UNCHANGED provisionVars
    BY <2>1 DEF provisionVars, keyVars, TypesInv, KeysTypeOK, JobInv
  <2>2. CASE ProvisionStep
    BY <2>2, KeysStep, JobStep DEF TypesInv
  <2> QED
    BY <2>1, <2>2 DEF Next, vars, Authoring, Starting, Supervising, StreamingEvents,
                      Collecting, SettingUpNodes
<1> QED
  BY <1>1, <1>2, <1>3, <1>4, <1>5, <1>6 DEF TypesInv

LEMMA TypesBegin == Init => TypesInv
<1> SUFFICES ASSUME Init PROVE TypesInv
  OBVIOUS
<1>1. service \in ServiceNames /\ AuthoringInv /\ StreamInv /\ ViewInv
  BY AuthoringBegins, StreamBegins, ViewBegins DEF Init
<1>2. TicketInv
  BY DEF Init, StreamInit, TicketInv
<1>3. MigrationInv
  <2>1. [version |-> 0, tables |-> 0] \in Schema /\ 0 \in 0..MaxBreaks
    BY StartAssumption DEF Schema
  <2>2. [version |-> LastVersion, tables |-> LastVersion] \in Schema
    BY StartAssumption DEF Schema
  <2>3. CASE StartInit
    <3>1. /\ file \subseteq Secrets /\ keychain \in [Secrets -> 0..2]
          /\ latest \in [Secrets -> 0..2] /\ configured \in BOOLEAN
      BY <2>3 DEF StartInit
    <3> QED
      BY <2>1, <2>3, <3>1 DEF StartInit, MigrationInv, StartTypeOK, Stages
  <2>4. CASE Started
    <3>1. file \subseteq Secrets /\ keychain \in [Secrets -> 0..2] /\ latest = keychain
      BY <2>4 DEF Started
    <3> QED
      BY <2>1, <2>2, <2>4, <3>1 DEF Started, MigrationInv, StartTypeOK, Stages
  <2> QED
    BY <2>3, <2>4 DEF Init
<1>4. FailuresInv
  <2>1. SupervisorInit
    BY DEF Init
  <2>2. monitor \in [Monitors -> {"off", "watching", "awake", "decided"}]
    BY <2>1 DEF SupervisorInit
  <2>3. /\ failures \in 0..Threshold /\ restarts \in 0..MaxRestarts
        /\ faults \in 0..MaxFaults /\ strays \in Nat
    BY <2>1, SupervisorAssumption DEF SupervisorInit
  <2>4. child = "none" /\ app = "setup" /\ shutdown = FALSE /\ late = FALSE
    BY <2>1 DEF SupervisorInit
  <2> QED
    BY <2>2, <2>3, <2>4 DEF FailuresInv, SupervisorTypeOK, Running
<1>5. FilesInv
  BY CollectionBegins DEF CollectionInv
<1>6. KeysTypeOK
  <2>1. ProvisionInit
    BY DEF Init
  <2> QED
    BY <2>1, MishapsAssumption DEF ProvisionInit, KeysTypeOK
<1>7. JobInv
  BY JobBegins
<1> QED
  BY <1>1, <1>2, <1>3, <1>4, <1>5, <1>6, <1>7 DEF TypesInv

(* For all values of the constants, whichever service works, its variables   *)
(* keep their types: no number grows over its bound, a migration has a      *)
(* version to go to (migrations.py), a process that misses the threshold of  *)
(* checks is not kept (coordinator.rs), and ids, lines and files that are   *)
(* named exist.                                                            *)
THEOREM ServicesTypeCorrect == Spec => []ServicesTypeOK
<1>1. TypesInv => ServicesTypeOK
  <2> SUFFICES ASSUME TypesInv PROVE ServicesTypeOK
    OBVIOUS
  <2>1. WorkflowsTypeOK /\ StartTypeOK /\ SupervisorTypeOK /\ service \in ServiceNames
    BY DEF TypesInv, AuthoringInv, MigrationInv, FailuresInv
  <2>2. StreamTypeOK
    <3>1. \A s \in Seq(Ids) : ToSet(s) \subseteq Ids
      BY LenProperties, ElementOfSeq DEF ToSet
    <3>2. \A t \in Tickets : ToSet(opened[t]) \subseteq Runs
      BY LenProperties, ElementOfSeq DEF TypesInv, TicketInv, ToSet
    <3> QED
      BY <3>1, <3>2 DEF TypesInv, StreamInv, ViewInv, EventsType, TicketInv, StreamTypeOK
  <2>3. DownloadsTypeOK
    <3>1. \A c \in Collections : ToSet(contents[c]) \subseteq Values
      BY LenProperties, ElementOfSeq DEF TypesInv, FilesInv, ToSet
    <3> QED
      BY <3>1 DEF TypesInv, FilesInv, DownloadsTypeOK, Values
  <2>4. ProvisionTypeOK
    BY DEF TypesInv, KeysTypeOK, JobInv, ProvisionTypeOK
  <2> QED
    BY <2>1, <2>2, <2>3, <2>4 DEF ServicesTypeOK
<1> QED
  BY <1>1, TypesBegin, TypesKept, PTL DEF Spec
=============================================================================
