# A TLA+ model of XuanJi

XuanJi turns a workflow of dependent tasks into work for AI agents on remote
machines. A desktop application (Tauri and React) supervises a local
*coordinator* (FastAPI, SQLite), which sends each task over an SSH tunnel to a
*node agent*; the agent has a *Hermes* service execute it, and the coordinator
polls, downloads and verifies the artifacts, retries, cancels and recovers.

This directory holds the TLA+ model of the coordinator's execution core, of the
node agent, of the pool of nodes that all runs share, and of the services around
them, with their model-checking runs and machine-checked proofs. `PROJECT.json`
gives, for every definition of the modules, the lines of code it stands for.

    tlc -workers 2 -config RunExecution_crash.cfg MCRunExecution
    tlc -workers 2 -config NodeExecutor.cfg NodeExecutor
    tlc -workers 2 -config NodePool.cfg MCNodePool
    tlc -workers 2 -config Services.cfg MCServices
    tlapm RunExecutionProofs.tla ; tlapm RunSafetyProofs.tla ; tlapm PromiseProofs.tla
    tlapm NodeExecutorProofs.tla ; tlapm NodePoolProofs.tla ; tlapm TunnelProofs.tla
    tlapm StreamProofs.tla ; tlapm ServicesProofs.tla

## 1. The system: an inventory

Paths are relative to `src/`; `xuanji/` is `backend/src/xuanji/`.

| Component | State it keeps | Operations | What is hard | Correct when |
|---|---|---|---|---|
| **Life cycle** `xuanji/domain/enums.py`, `scheduler/state_machine.py` | none: two transition tables | `transition_task`, `transition_run` raise `StateTransitionError` | the tables lack pairs that can come up at run time | every status change is in the table |
| **Execution manager** `xuanji/execution/manager.py` | step locks, one dispatch lock, polling loops, cached clients; all else in the database | start, pause, resume, cancel, retry_task, skip_task, recover, the tick | coroutines gathered over attempts, each with a copy of its row across awaits; exceptions that leave siblings behind; crashes between a remote effect and its save | no lost update; dependencies first; attempts one at a time; success only with artifacts; a cancel is confirmed; what ended stays ended; runs come to an end |
| **Run repository** `xuanji/storage/repositories.py` | runs, task_attempts, artifacts, events | save_attempt, update_attempt (the whole row), latest attempts, `commit_attempt_success` in one transaction | UNIQUE(run_id, relative_path) | status, artifacts and event are committed together |
| **Scheduler** `xuanji/scheduler/service.py`, `scoring.py`, `nodes/registry.py` | none | filter and score the nodes, `select_node` | stale capacity, several runs on one pool | no node gets more than its max_concurrency |
| **Node agent** `node-agent/executor.py`, `app.py` | one JSON record per idempotency key, an input directory | create, upload, start, poll, cancel, collect; against Hermes as an HTTP service or as child processes | one request is served after the other (the handlers never await in between), but a crash falls between what Hermes, the disk and the record each come to know | one Hermes run per key at a time; cancelled means stopped; success means delivered |
| **Node client** `xuanji/nodes/client.py` | an HTTP client | the agent's calls; refused, connection and timeout errors | an answer that is lost after its effect | errors that may have had an effect are told from those that had none |
| **SSH tunnels** `xuanji/nodes/tunnels.py` (`app/src-tauri/src/tunnel.rs` is only a list that the desktop shows) | one ssh process and local port per owner, one lock | open, close, close_all | releases scheduled for later; a settle window under the lock; a stop while ssh settles | no tunnel of a live owner is closed, none of a finished one stays |
| **Event stream** `xuanji/api/events.py`, `runEventState.ts`, `useRunEvents.ts`, and of `workspaceStore.ts` and `AppShell.tsx` which run is shown | events table; cursor per WebSocket; the desktop's view of one run, with the events applied in it | append, page, reconnect, reduce, refresh; open and close the view | drops in the middle of a page, ids shared with other runs, a refresh that answers late, a coordinator that restarts with another address | within a view every event once, in order; the view catches up, or is closed |
| **Workflow authoring** `xuanji/api/workflows.py`, `workflow_review.py` | versions, snapshot hash, frozen flag | generate, edit, prepare, review, revise, run | a plan waits for minutes while versions, profiles and the project change; a page shows what is edited meanwhile | only what was reviewed is executed; versions are told apart |
| **Node administration** `xuanji/api/nodes.py`, `readiness.py` | node rows, tokens, clients | create, update, diagnose, delete | a diagnosis that writes an old copy; row, token and client are three stores, and two pieces of code ask differently whether there is a token | a client leads where its row says; what readiness calls ready can be dispatched |
| **Provisioning** `xuanji/provisioning/ssh.py` | known_hosts; what is on the remote machine | inspect, confirm host key, nine remote steps | steps that fail, reboots, two provisionings of one machine, a host key that changes | only confirmed keys are trusted; completed means serving |
| **Desktop supervisor** `app/src-tauri/src/coordinator.rs` | handle of a child process, failure count, shutdown flag | start, stop, restart, monitor, recover | several monitors; one decides without the lock | at most one coordinator, none after the exit; a dead one comes back |
| **Session tickets** `xuanji/session_tickets.py` | tickets with expiry | issue, consume | concurrency of both | a ticket opens one session |
| **Thinking models, planner** `xuanji/thinking_models/`, `xuanji/planner/` | profiles, default, credentials, the planner in memory | create, update, delete, set default, configure, plan | credential and profile are two stores; the planner outlives an edit of its profile | a plan is made by the model it was asked of |
| **Artifacts** `xuanji/artifacts/` | files, temporary files, delivery manifest | download, verify, replace | two writers of one temporary name | a committed artifact stays what was verified |
| **Start and migrations** `xuanji/api/app.py`, `xuanji/storage/migrations.py`, `backup.py`, `credentials.py`, `thinking_models/service.py` | schema version, credentials file and Keychain, legacy flag | upgrade, copy credentials, create the legacy profile, make directories | a crash or a failing step between any two | no credential is lost; a restart completes what was cut off |
| **Workspace store, updater** `app/src/store`, `lib/updater.ts` | client state | API calls | late answers | - |
| **Diagnostics, views** | none that interleaves | single calls | - | - |

How they interact: the API calls the manager, which holds a run's *step lock*
for a whole handler. It gathers one coroutine per active attempt. A coroutine
calls a node agent through the client (opened over a tunnel), then saves its
copy of the attempt over the database row and appends an event. A polling loop
per run ticks until the run is terminal. The lifespan hook recovers all
unfinished runs before the API answers anything. Attempts of all runs take their
nodes from one pool, under the dispatch lock, and reach them through one tunnel
each, while the node API edits that pool. The desktop application starts
the coordinator, restarts it when it dies, and follows a run through the event
stream.

All hazards found in the code, each at its line, are listed in `PROJECT.json`.

## 2. Modules

| Module | Content |
|---|---|
| `Lifecycle` | statuses, both transition tables, the status sets that the manager, the scheduler and the API decide by |
| `RunExecution` | the execution manager on one run, the database, the nodes' answers, crashes; its properties and the mutants' operators |
| `MCRunExecution` | instances for TLC: two tasks, a chain or parallel, one or two attempts |
| `NodeProtocol` | pure definitions: what a call does to a node's record of an attempt, and what a poll may find; shared by both sides |
| `RemoteTask` | the abstract node: a record that moves by `Served` and `Progress`, and answers |
| `NodeExecutor` | the node agent on one task directory, with Hermes, crashes and restarts; its properties, its refinement of `RemoteTask`, the mutants' operators |
| `RunExecutionProofs` | type correctness, and what the step lock guarantees, proved |
| `RunSafetyProofs` | the other safety properties of the manager and of the offered actions, proved |
| `PromiseProofs` | why a handler raises, which attempts may be followed by another, and how far the refuted promises on remote tasks hold, proved |
| `NodeExecutorProofs` | the node agent's safety and its refinement of `RemoteTask`, proved |
| `RunActions` | what the run API offers to do with a run and its tasks, against what the manager accepts |
| `Scheduling` | pure definitions: eligibility, policies, ranking of a table of nodes |
| `NodeAdmin` | node rows, tokens and clients; creation, update, deletion, diagnosis |
| `Readiness` | what readiness says of the nodes before a run is created |
| `Tunnels` | the tunnel provider: its lock as a queue of calls, the table, the ssh processes |
| `NodePool`, `MCNodePool` | composition of the four: the attempts of all runs, the dispatch lock, cached clients, releases, stop, kill and restart |
| `ThinkingModels` | profiles, credentials, the default, the configuration and the planner in memory |
| `Workflows` | plans, drafts, review by hash, revisions, runs, deletion of the project |
| `StartUp` | the start of the coordinator, step by step, over what is on disk |
| `Supervisor` | the desktop's supervisor: main thread, monitor threads, the process |
| `EventLog` | abstract: from `Open` to `Close` a run's events are seen one by one, each once, in order; what is opened again starts over |
| `EventStream` | events table, tickets, sockets, pages, drops, the desktop's view of a run, restarts of the coordinator; implements `EventLog` |
| `Downloads` | the collections of one artifact over one temporary name |
| `Provisioning` | host keys and the steps of setting up a machine |
| `Services`, `MCServices` | the last six components, one in each behaviour |
| `NodePoolProofs` | capacity, clients that follow their rows, and readiness, proved |
| `TunnelProofs` | the pool's types, and clients, tunnels and processes against the queue of the tunnels' lock, proved |
| `StreamProofs` | sets of numbers in their order; the stream's refinement of `EventLog`, proved |
| `ServicesProofs` | types of all services; versions, plans and reviews, credentials, the coordinator, tickets, collections, host keys and provisioning, proved |

### State

| Variable of `RunExecution` | Code |
|---|---|
| `runStatus` | `runs.status` |
| `latest[t]` | number of the latest attempt of `t` in `task_attempts` (0: no row) |
| `row[a]` | the row of attempt `a = <<task, number>>`: status, node_id, whether started_at is set, whether the error is a transient one |
| `artifacts` | attempts whose artifacts are committed |
| `remote[a][n]` | the record of `a`'s idempotency key on node `n` |
| `jobs` | coroutines in flight: what each waits for (`pc`), the reply that has arrived, its own copy of the attempt (`mem`), whether its handler has gone (`orphan`) |
| `handler` | the holder of the step lock and its phase |
| `up`, `loop`, `failing` | process alive; polling loop alive; a failed start whose done-callback is still to run |
| `overdue`, `rested` | attempts past their timeout; failed attempts past the retry delay |
| `leaked` | history: some coroutine has outlived its handler |
| `crashes`, `faults` | counters that carry the bounds |

### Actions

A handler is the chain *begin - phases - release*. `Start`, `Tick`, a resume of
a blocked run, a skip and `Restart` begin with the gather over active attempts
(`OpenReconcile`); when the last coroutine is gone `FinishReconcile` either ends
the handler, settles a cancellation, or lets a running run go on to due
retries (`RetryDue`), ready tasks (`DispatchReady`) and settling
(`FinishDispatch`). `Cancel` saves all its rows and gathers the remote cancels;
`CancelRaises` is the same call meeting an attempt the table cannot cancel.

A call to a node is three steps, with everything else free to happen between
them: the coroutine waits (`pc`, reply "none"), the node serves it
(`NodeServes`, or `CallFails`: lost on the way there, lost on the way back, or
refused), and the coroutine acts on a reply that may be stale (`Created`,
`Started`, `FoundFailed`, `Collected`, ...). Steps of a coroutine between two
awaits are one action, as the event loop runs them, with the database writes in
them.

`Raise` is a `StateTransitionError` or `IntegrityError` out of a coroutine.
`asyncio.gather` is called without `return_exceptions`, so that it ends the
handler and frees the lock while the siblings go on: the model marks them
orphans. Out of a tick it also ends the polling loop, out of a start it leaves the
done-callback (`StartFailed`), out of a recovery it stops the process, and out
of an API call it is only an error answer. Most properties carry `~leaked`: they
say what the code achieves as long as this has not happened, and the runs
`orphan` and `parallel` look at what it does when it has.

### The node agent

`RunExecution` has a node's record change by `NodeServes` (a call, by `Served`) and
by `RemoteFinishes` (by `Progress`). Whether the real agent keeps to that is the
question of `NodeExecutor`, whose `KeepsProtocol` is `RemoteTask!Spec` under a
refinement mapping: the status of `task.json`, *absent* as long as there is no such
file, *stillborn* for a failed record without a Hermes id. (A poll with news is one
step of `RemoteTask`, which finds and answers; in `RunExecution` it is
`RemoteFinishes` and then `NodeServes`.)

| Variable of `NodeExecutor` | Code |
|---|---|
| `mode` | `HERMES_MODE`: *api* is `HermesNodeClient`, *cli* is `HermesCliClient`, whose children die with the service unit |
| `files`, `record`, `staged`, `output` | the task directory: directory without record or with it; status and hermes_run_id in `task.json`; the uploaded inputs; the run whose output `artifacts.json` lists |
| `hermes`, `begun`, `known` | what became of each Hermes run of the key; how many were begun; the one that Hermes finds under the key, or the agent in `_processes` |
| `request` | what is left to do of the request in progress |
| `answer` | the last answer, for the refinement |
| `up`, `crashes` | the agent's process, and the bound |

A request that touches only the record is one action. One that has an effect
elsewhere before its save is two: `MakeDirectory` and `SaveNew` (create), `StartRun`
and `SaveStarted` or `StartAnswerLost` (start), `PollCompleted` and `SaveVerified`
(poll), `StopRun` or `StopProcess` and `SaveStopped` (cancel). Between them Hermes
goes on or the agent crashes. The handlers are `async def` without an await
between loading and saving, in one uvicorn process, so that requests do not
overlap. Two assumptions are about Hermes itself: over HTTP it finds
a run by its idempotency key, and it says *stopped* only of a run that has ended.

### The pool of nodes

| Variable of `NodePool` | Code |
|---|---|
| `nodes`, `clients` | the nodes table, `services.node_clients` |
| `tokens`, `blanks` | the nodes whose stored token is not empty, and those whose stored token is empty (a creation or an update with `""`): `api/app.py:113` makes a client for the former only, `api/readiness.py:195` finds no token missing in either |
| `diagnosing` | diagnoses in progress: the copy of the row each will write back, and whether the agent has been asked |
| `attempt[a]` | status and node_id in task_attempts, as far as the pool can tell statuses apart |
| `cached[a]` | `_attempt_clients`: where the client of the attempt leads |
| `releases` | tunnel releases scheduled and not yet begun |
| `tunnels`, `process`, `calls` | the provider's table; the ssh process of each owner; the calls that hold its lock or wait for it, in order |
| `phase` | up, stopping (`close`), down |
| `strays`, `astray` | history: ssh processes nobody knows of; nodes whose row changed behind their client |

`Claim` is `_dispatch_attempt` under the dispatch lock: count, choose, save. Its
tunnel is a call in the queue, with an ssh process that settles (`Spawn`) and then
holds (`Settled`) or not (`Refused`). Leaving the active statuses schedules a
release, which first drops the cached client (`BeginRelease`) and then waits for the
provider's lock (`CloseTunnel`): between the two and after them the attempt may be
restored and placed again. `Stop` cancels the waiting coroutines, `Kill`
forgets everything in memory, `Restart` builds the clients anew from rows and tokens.
`Diagnosed` and `DiagnosisFails` write back the row that `BeginDiagnosis` has copied.
`RunExecution` has the same dispatch with the nodes' answer left open; here the
attempts' life is left open and the pool is exact.

### The services

`Services` puts six specifications side by side. They share no variable, and a
behaviour is one of a single service, chosen at the beginning by `service`, the
others being at rest: their product would only multiply states. What two of them
have to do with each other in the code is in one of them (the planner and its
profiles in `Workflows`, tickets and sockets in `EventStream`).

- `Workflows`: a plan is `BeginPlan`, then any time later `PlanAnswers` or
  `PlanFails`, with one `RepairPlan` between; all other handlers are one step, as
  there is no await in them. The hash covers part of the content only.
- `StartUp`: one action for each step of the lifespan hook that commits something;
  `Break` is a crash, a stop or a step that raises, after any of them.
- `Supervisor`: an operation under the mutex is one step; a monitor is
  *watching*, *awake* (past its look at the flag) or *decided*.
- `EventStream`: `OpenRun` - `Issue` - `Connect` - `FetchPage` - `SendEvent` - `Receive`,
  with `Drop`, `CloseRun`, `Expire` and other callers (`Present`) in between.
  `RestartServer` is another process with another port and session token and no
  tickets; the view (`viewing`) stays, in vain, until the desktop's two-second timer
  notices (`current`, `SyncRuntime`: `AppShell.tsx:132-151`, `workspaceStore.ts:401-413`)
  and closes it. A view that is opened again has applied nothing
  (`useRunEvents.ts:95-100`): its events come again, from id 0.
- `Downloads`: a collection is `OpenTemporary`, `WriteChunk`s and `Replace` (move,
  read back, commit: no await) or `DownloadFails`. Files and names are kept apart.
- `Provisioning`: one action per remote step; the threads of two provisionings
  interleave between steps.

## 3. Runs

| Run | Instance | Shows |
|---|---|---|
| `crash` | chain t1, t2; t1 twice; t2 reviewed, its inputs possibly corrupt; 1 node, 1 crash, 1 fault | `TypeOK`, `DependenciesFirst`, `AttemptsInTurn`, `SuccessIsEarned`, `CancelIsConfirmed`, `EndedStaysEnded`, `RunEndsOnce`, `PauseHolds` under every user operation in every order |
| `parallel` | t1, t2 independent; t1 reviewed and tried twice; 1 crash | `NoLostUpdate`, `OfferedIsAccepted`, `RaisesAreKnown` with two coroutines in flight, orphans and late start failures |
| `liveness` | chain, no crash, 1 fault, fair | `CancelSettles`, `RunSettles` |
| `node` | one task with inputs, both modes, 2 crashes, fair | `TypeOK`, `OneExecution`, `CancelledIsStopped`, `SuccessDelivered`, `KeepsProtocol`, `RunningEnds` |
| `nodes` | 2 attempts, one prefers the remote node and one is bound to it; a local and a remote node; 1 edit, 1 diagnosis, 1 ssh exit, 1 stop or kill | `PoolTypeOK`, `CapacityKept`, `ClientHasItsTunnel`, `ClientFollowsRow`, `ReadyIsDispatchable`, `NothingHeldAfterRelease`, `ProcessesAreKnown` |
| `services` | each service on its own instance, fair | `ServicesTypeOK`, `VersionsInOrder`, `PlannedByChosen`, `RunsAsConfirmed`, `SecretsKept`, `ComesUp`, `OneCoordinator`, `CoordinatorComesBack`, `TicketOpensOnce`, `StreamImplements`, `ClientCatchesUp`, `CommittedStaysWhole`, `TrustIsConfirmed`, `CompletedMeansServing` |
| `cancel_reach` | chain, 1 fault | violated: `CancelReachesNodes` |
| `cancel_end` | chain, no fault, fair | violated: `CancelCompletes` |
| `one_task` | chain, 2 nodes, 1 fault | violated: `OneRemoteTaskPerKey` |
| `recovery` | chain, 1 crash | violated: `RecoveryCompletes` |
| `orphan` | parallel, 1 fault | violated: `VerifiedSuccessKept` |
| `review` | one workflow with two contents of equal hash | violated: `ReviewedAsShown` |

**Properties.** `NoLostUpdate` is what the step lock is for: a coroutine about
to save a whole row holds exactly what the row holds, and no other works on it.
`DependenciesFirst`: a node hears of an attempt only when its dependencies have
succeeded or were skipped, and they remain so. `AttemptsInTurn`: an attempt is
followed by another only when it failed, is blocked or is in review, and one that is
called failed or in review has ended on its node, unless it had timed out: losing an
answer must not make a failure of what goes on. It does not say that two attempts of a
task never execute at once; section 4 has the two ways in which they may.
`SuccessIsEarned`: a run turns to success only when each task was skipped or
committed its artifacts. `CancelIsConfirmed`: *cancelling* becomes *cancelled* only
on the node's word. `EndedStaysEnded`: no late answer changes a final status.
`RunEndsOnce`: a terminal run keeps its status, across retries and the
done-callback. `PauseHolds`: in a paused run no node hears of another attempt,
but for a retry the user asks for. `CancelSettles` and `RunSettles`: a run being
cancelled is cancelled, unless its node has nothing to stop; a running run ends
or is blocked, pausing included. `OfferedIsAccepted`: what the API offers to do
with a run or a task, the manager's and the life cycle's own tables accept.
`RaisesAreKnown`: as long as no coroutine has outlived its handler, an exception ends a
handler that still has coroutines only over an attempt it finds *dispatching* or over a second
delivery (the table answers every other reply that may come in, however late). This is
about `StateTransitionError` and the UNIQUE column, the exceptions that `Raise` stands for;
a disk error while a log is written (`manager.py:310-318`) would do the same and is not
modelled.

Of the node agent: `OneExecution`: at most one run of a key executes at a time.
`CancelledIsStopped`: a record says cancelled only when no run of its key executes.
`SuccessDelivered`: a successful or reviewable record names a completed run, and the
manifest lists that run's output. `RunningEnds`: a running record that is polled
comes to an end, across crashes, but for the one crash named in section 4.

Of the pool: `CapacityKept`: no dispatch places more attempts on a node than its
max_concurrency of that moment, whatever runs and restarts. `ClientHasItsTunnel`: the
client an attempt talks through has its own tunnel, which no earlier release has
closed, to the node the attempt is on. `NothingHeldAfterRelease` and
`ProcessesAreKnown`: an ended attempt keeps no client, tunnel or process, and no ssh
process is unknown to the provider. `ClientFollowsRow`: a client leads where its row
says. `ReadyIsDispatchable`: what readiness calls ready, a dispatch of that moment can
place, on a node with a client, unless all that match were entered as full (a creation
gives `running_tasks`, `api/nodes.py:43`, which readiness does not look at), or the node
has an empty token (`blanks`).

Of the services: `VersionsInOrder`: versions are distinct and the active one is the
latest. `PlannedByChosen`: a plan made for a chosen profile was made by it. `RunsAsConfirmed`:
what runs was confirmed by its hash. `SecretsKept`: a credential is in the file or, with
its last value, in the Keychain. `ComesUp`: the start completes after whatever cut it
off. `OneCoordinator`: at most one process, the one behind the handle; none after
the exit. `CoordinatorComesBack`: one that died, hangs for good or failed to start is
followed by one that answers. `TicketOpensOnce`: a ticket opens one socket at most, of
its run. `StreamImplements`: from the opening of a view to its closing the desktop's events
are a prefix of the run's that only grows, whatever drops, pages and tickets come in
between (refinement of `EventLog`). `ClientCatchesUp`: a view that stays open has all of
them again and again, and none waits for ever for a coordinator that is gone.
`CommittedStaysWhole`:
a committed artifact stays what was verified, while no collection of another attempt
and no third one of its own has begun. `TrustIsConfirmed`: known_hosts has only
what the user confirmed for that very host. `CompletedMeansServing`: a provisioning
that says it completed left an agent that serves with its token.

Several of these are stated with the exceptions that the code needs (`astray`, `blanks`,
`late`, `reverted`, a legacy profile without its flag, a retry or a third collection at work on
the artifact): each is
a behaviour the code really has, and is listed in section 4.

**Bounds.** Two tasks give every relation the code looks at (a task and its
dependency, two siblings in one gather); two attempts of t1 give a retry and a
last attempt; two nodes are needed only where the attempt moves. `MaxCrashes`,
`MaxFaults` (lost calls and unconfirmed stops) and `MaxOrphans` (orphans in
flight when a handler begins) are 0 or 1: every finding needs at most one of
each, and the proofs below hold for all of them. The chain run has the crash and
the fault together; the parallel one has the crash only, because there the orphans
multiply the states (`RaisesAreKnown` needs the crash, which leaves attempts *dispatching*). `NodeExecutor` has one key, since records share nothing and
requests are served one after the other; two crashes let one fall into start and
another into a later request, and three runs of the key. In the pool two attempts
compete for one room, or share a node after an edit that gives it two, and a creation may
enter a node as full; one each of edit, diagnosis, exit and stop let every pair of them race.
In the services two plans, versions, contents and two ways to plan (a profile and the configuration) make any
two differ; three checks of a monitor
make a hanging process one to be replaced; four events of two runs in pages of two
give a gap in the ids and a page that is cut off, three tickets a reconnect after a
drop, `MaxDrops` of 2 a restart next to a lost socket, a closed view or another restart;
three collections of one attempt and one of its retry give every kind of collision; two
provisionings with two tokens a machine that is set up twice. The exceptions are reached, and every property breaks under its mutant, within these bounds.

**Fairness** (`FairSpec`). The event loop runs each coroutine that can go on and
each phase of a handler: weak fairness. The step lock is an `asyncio.Lock`, which
serves its waiters in order, and the polling loop waits for it every interval:
strong fairness of `Tick`, since user operations may take the lock in between.
Nodes answer (a lost call is a `CallFails`, of which there are `MaxFaults`), Hermes
finishes what it executes, retry delays pass, and a process that is down is started
again by the supervisor: weak fairness. Capacity that is looked for again and again is
found: strong fairness of `PlaceOnNode`; without it a ready task waits forever
on a full pool, as it should. The user owes nothing. That a stop which Hermes did not
confirm is confirmed in the end is part of this: unconfirmed stops count as
faults, of which there are `MaxFaults`.

The node agent (`FairSpec` of `NodeExecutor`): it finishes the request it serves and is
started again by systemd (`Restart=on-failure`), and Hermes ends its runs: weak
fairness. The coordinator's loop polls again and again, in between other calls and
crashes: strong fairness of `Poll`.

The services (`Fairness` of `Services`), weak throughout: the start is one coroutine of
the event loop, begun again by the supervisor or by the user after it broke
(`Begin`); monitor threads wake every two seconds, and the main thread finishes a
restart; the effect behind an open view asks for a ticket and connects whenever it has
no socket, the server's loop queries and sends, the desktop takes what has arrived, and
its timer asks every two seconds where the coordinator is (`SyncRuntime`).
Expiry, drops, faults, exits and users owe nothing; nobody has to open a view (`OpenRun`),
nor to open again one that a restart has closed. The pool states no
liveness.

## 4. What the documents promise and the code does not keep

Six runs exhibit a divergence; each is a finding of `PROJECT.json` with its
quotation.

1. `cancel_reach` - cancel ends a *blocked* attempt in the database only, although
   one lost answer suffices to block an attempt that its node executes.
2. `cancel_end` - an attempt whose Hermes run could not be created answers
   "failed" to every cancel; the run stays *cancelling*.
3. `one_task` - a restored attempt may be placed on another node, where its
   idempotency key is unknown.
4. `recovery` - after a crash between the remote start and the save of RUNNING, a
   task that has finished meets *dispatching*, from which the table allows neither
   *collecting* nor *failed*; the exception ends the start-up of the process.
5. `orphan` - an orphan's stale answer overwrites a verified success.
6. `review` - the snapshot hash leaves out writes, done definitions, verify steps and run
   gates: an edit of those between the page and its confirmation is confirmed unseen.

Seen in the model, with no run of their own:

- **Timeouts.** The design wants an attempt that has timed out to be cancelled first, and
  the next attempt to be made once that is confirmed
  (`docs/superpowers/specs/2026-07-29-xuanji-3-completion-design.md:268-269`, 「到期先请求真实取消」,
  「取消确认后才创建下一 Attempt」). The code sends the cancel, ignores its answer and every
  error of it, and fails the attempt at once (`manager.py:249-258`): after a lost or
  unconfirmed cancel the retry may execute while its predecessor does, on that node or
  another one. This is the exception `a \in overdue` in `AttemptsInTurn`; without it the
  run `crash` finds the behaviour, with its one fault. A manual retry of a *blocked*
  attempt, whose start may have arrived, is the other way to two executions of a task.
- **A cancel that is cut off.** `cancel` saves the run and then its rows one by one, before the
  first call (`manager.py:133-141`). A crash in between leaves a run *cancelling* whose blocked attempts have not
  been ended; no later step does, and the run stays *cancelling* until the user cancels
  again. `CancelSettles` is checked without crashes, `EndedStaysEnded` with them; TLC
  finds this one when the liveness run is given a crash.
- **A coordinator that restarts** closes the view of the run: address and token are new,
  and `setCoordinatorBaseUrl` drops project, run and last event id
  (`workspaceStore.ts:401-413`). The desktop then opens its first project by itself
  (`ProjectRail.tsx`) and with it that project's latest unfinished run; a run of another
  project, or one that has ended, stays closed, although `docs/USER_GUIDE.md:54` has the
  latest unfinished run restored after a restart. What is reopened replays its events
  from id 0. In a browser with a fixed address there are no tickets and no such restart;
  that mode is not modelled.
- **An empty token**, which the node API accepts and stores (`api/nodes.py:45`, `:67`,
  `:103`), is a token to readiness (`readiness.py:195`, `is None`) and none to the
  clients (`api/app.py:113`, `not token`): such a node is ready and chosen, and cannot be
  reached. The desktop sends no empty token; only another caller of the API can.
- A dependent of a skipped task is to be blocked when it declares an input of that task
  (the same design, line 88); in the code, and so in the model, it is dispatched with the
  artifacts that there are (`manager.py:380-400`).
- Tampered inputs found while dispatching set ARTIFACT_FAILED, which the table does
  not allow from DISPATCHING: the dispatch raises (`manager.py:433-436`).
- The done-callback of a failed start writes FAILED past the table and without the
  step lock (`api/app.py:138-173`).
- A retry in a cancelled or successful run creates and dispatches an attempt; the
  design wants a run that is not cancelled
  (`docs/superpowers/specs/2026-07-29-xuanji-3-completion-design.md:262`).
- After a crash between remote start and save, a reconciliation that finds the
  task running saves RUNNING without started_at: such an attempt never times out.
- A restored attempt with inputs is refused their second upload once its
  node has started it, and is blocked for good.
- `_TERMINAL_RUNS` lacks `success_with_warnings`: the manager's loop goes on in such a run.
- A second delivery of a task in review leaves its attempt *collecting* for good, and a
  cancel of the run raises over it: the exception in `OfferedIsAccepted`.
- A *needs_review* task with successors leaves its run *running*: the
  successors wait, and the run neither ends nor blocks. `RunSettles` is checked
  without review tasks for this reason.

- The node agent that dies between making a task's directory and writing its record
  refuses that key from then on: a repeated create finds the directory and
  fails to load (`node-agent/executor.py:225-227`).
- A `create_run` whose answer is lost leaves a failed record without an id while Hermes
  executes; neither a start nor a cancel of that key reaches it any more
  (`node-agent/executor.py:351`, `:454`).
- A crash between Hermes's stop and the save of *cancelled* leaves a running record. Over
  HTTP, `poll` has no branch for a run that is stopped but was not being cancelled, so
  the record runs until it is cancelled again (`node-agent/executor.py:367`): the
  exception in `RunningEnds`.
- `cancel` looks at the id and not at the status: a cancel that arrives late turns a
  *success* into *cancelled* (`node-agent/executor.py:454`).

- A diagnosis writes back the row it copied: it undoes an edit made meanwhile and brings
  back a node that was deleted (`api/nodes.py`); a creation or update whose credential
  cannot be stored leaves the old client with the new row. Both are `astray`.
- The token of a node outlives its deletion when the credential store fails.
- An attempt that was placed before keeps its node without a look at that node's
  status (`Keeps`).
- A stop while ssh is in its settle window cancels the caller and leaves the process;
  so does a kill at any time (`strays`).
- A plan without a choice records the default profile, although it is made by whatever
  planner is in memory (`api/workflows.py:64`). `PlannedByChosen` is about plans with a choice;
  no property covers this one, as nothing says which of the two is meant.
- The thinking model may call its plan reviewed, which then runs without a confirmation: the
  exception in `RunsAsConfirmed`.
- A crash between the creation of the legacy profile and its flag makes every later
  start fail (`thinking_models/service.py:108`); a project directory that cannot be made
  fails the start as well (`api/app.py:292`).
- A copying of credentials that failed is repeated at the next start over a value that
  was stored in between (`credentials.py:91`). A profile's credential is stored before
  the profile (`thinking_models/service.py:55`).
- Every restart that the user asks for adds a monitor (`app/src-tauri/src/lib.rs:68`), so that the
  checks come faster than the two seconds of `docs/TROUBLESHOOTING.md:7`; an exit
  between a monitor's look at the flag and its start leaves a coordinator behind (`late`).
- `run.background_failed` is no status event for the client (`runEventState.ts:101`), and a
  refresh may answer after newer events (`useRunEvents.ts:83`).
- Paging of a task's log counts parsed events, not lines: a malformed or blank line
  shifts the next page (`api/runs.py:218`).
- A retry's collection moves its file over the artifact of a committed attempt before
  its own commit fails: an exception in `CommittedStaysWhole`.
- With three collections of one attempt (a handler's and those of coroutines that outlived
  theirs) a committed artifact can be replaced by an incomplete file: two share a file, the
  first moves it to the artifact and commits, the third opens the temporary name anew, and
  the second, which only knows that name, moves the third's beginning over the artifact
  before its own verification fails (`artifacts/manager.py:137-153`). The proof of
  `CommittedStaysWhole` met this; the property excepts it and TLC exhibits it without.
- A host with the same key as a known one is not recorded (`provisioning/ssh.py:96`), and is
  then refused by ssh: the second clause of `TrustIsConfirmed`.
- On a machine without Hermes `check_hermes` counts as a failed step, so that a
  provisioning that installs it never reports completion (`provisioning/ssh.py:262`),
  against `docs/NODE_DEPLOYMENT.md:61`.

## 5. Proofs

For every set of tasks, dependency relation, set of nodes, retry policy and bound,
from `DepsAssumption`, `NodeAssumption`, `AttemptsAssumption` and
`BoundsAssumption` only:

- `TypeCorrect == Spec => []TypeOK` (`RunExecutionProofs`). `TypeOK` is inductive.
  It says more than types: attempts stay within max_attempts and every coroutine
  works on an attempt that exists.
- `NoUpdateIsLost == Spec => []NoLostUpdate` (`RunExecutionProofs`).

`NoLostUpdate` is not inductive: whether a new handler's coroutines may be the only
ones on their attempts depends on the lock being free only when none is in
flight, and whether a retry may supersede an attempt depends on no coroutine holding
it. The inductive invariant is `LockInv == TypeOK /\ Discipline`. `Discipline` says that
a process that is down has no coroutine and no handler; that no coroutine is held by
a handler while the lock is free, or between the two reconciliations of a recovery;
that, as long as nothing has leaked, no coroutine is an orphan and each works on the
latest attempt of its task; that an attempt is followed by another only when it may be
retried (`Superseded`, the first half of `AttemptsInTurn`); and `NoLostUpdate` itself.
The proof splits the 19 coroutine actions by what they do to the shared state
(`HandlesKeeps` for the lock's side, `EffectKeeps` for a row saved and a coroutine
continued or dropped, `AnswerKeeps` for a node's answer), shows the handler
openings once (`Opens`, with `RestoredRows` and `CancelledRows` for the rows they
rewrite), and leaves one step per action.

On top of it, in `RunSafetyProofs` and from the same assumptions, what the manager does
with the rows:

- `DependenciesComeFirst == Spec => []DependenciesFirst` and
  `OffersAreAccepted == Spec => []OfferedIsAccepted`;
- the action properties `EndedIsFinal` (`EndedStaysEnded`), `CancelsAreConfirmed`
  (`CancelIsConfirmed`), `PauseIsKept` (`PauseHolds`), `SuccessHasArtifacts`
  (`SuccessIsEarned`) and `RunsEndOnce` (`RunEndsOnce`);
- `AttemptsFollowTheTable`: every change of an attempt's status is in the transition table,
  although many of the handlers write rows without asking it. `StatusesFollowTable` is
  stated with its proof; no run checks it.

The inductive invariant is `SafeInv`: `LockInv` and seven parts, each needed by the next.
`Course`: which status a coroutine's copy has at each of its awaits. `Untouched`: an attempt
that has not begun is a new row. `Delivered`: success and review come with artifacts.
`Permitted`: whatever has left the waiting statuses, or is known to a node, has its
dependencies done; being done is for good (`DoneStays`). `Believed`: a confirmed stop that
a coroutine is about to act on is still true on the node. `Stops`: a node was told to stop
only what is being cancelled or overdue, so that no poll reports a stop to anybody else.
`Rhythm`: in which status of the run each phase of a handler works, and that a start which
failed leaves an attempt behind that no cancel gets past, so that no other handler ends
the run before the done-callback; from it follows `RunEndsOnce`. The proof takes the
coroutines first (`CoroutineAdvances` says what any of them does to its row,
`CoroutineKeeps` that it keeps the invariant), then calls and the world, then users,
phases and the process, once for the rows (`Conducts`) and once for the rhythm.
`SuccessIsEarned` needed no exception for coroutines that outlive their handlers, and has
none.

`PromiseProofs` takes up the promises of the documents that runs refute, and says how far
they hold. Let a run be `Undisturbed` as long as no call was lost, no stop went unconfirmed
and no coroutine has outlived its handler. Then, for any number of crashes:

- `OneTaskPerKeyUndisturbed`: a key has a task on one node only (against `one_task`);
- `NothingRunsUntracked`: what a node executes is the last attempt of its task, and
  *dispatching*, *running* or *cancelling* in the database;
- `CancelsReachNodesUndisturbed`: when a run turns to cancelled, no node executes any of its
  attempts (against `cancel_reach`);
- and, with lost calls too, `ExceptionsAreKnown == Spec => RaisesAreKnown`: what the
  condition on coroutines comes down to, as far as the state table and the UNIQUE column
  raise. The findings `recovery` and `orphan` are both of that kind;
- with lost calls too, `AttemptsTakeTurns == Spec => []AttemptsInTurn`.

The first three are stated with their proofs; no run checks them, only their refutations
without the condition. `PromiseInv` adds to `SafeInv` what a coroutine knows of its node.
`Gathered`: what is *collecting* has been delivered there, and an attempt that is collecting
is never answered as running or stopped. `SentOnce`: only the node that the row names has
heard of an attempt, and from then on the row is not schedulable; a loss makes it so again,
by way of *blocked*. `Tracked`: what executes has an active row. `Dispatches`: create and
upload find the record that the step before has left. `Answers`: a reply other than *running*
is of a node that does not execute the attempt. `NothingLost`: none of the exceptions to
these has occurred. `AttemptsTakeTurns` needs one more invariant, `Spent`, which holds with
calls lost as well: an attempt called failed or in review, or about which *failed* has been
answered, is not executed by the node of its row, unless it is overdue; a coroutine that
changes a row to such a status reports what its node has said (`Reports`), or nothing but
a timeout. That a restored attempt is placed anew needed `Redo` of
`RunSafetyProofs` in a stronger form: only a transient error brings an attempt back.

For the node agent, for every number of crashes, with or without inputs and review
(`CrashesAssumption`, `FlagsAssumption`), in `NodeExecutorProofs`:

- `OneExecutionPerKey`, `CancelledMeansStopped`, `SuccessMeansDelivered` and
  `RunsCostCrashes == Spec => []TypeOK` (a key begins at most one run more than the
  agent has crashed);
- `ImplementsProtocol == Spec => KeepsProtocol`: each step of the agent is a step of
  `RemoteTask` or leaves record and answer alone.

All five follow from one inductive invariant, `IInv`: to `TypeOK` and the two
properties on statuses it adds what a request has already done, given what is left of
it (`RequestInv`: a start in progress finds its record still queued, a verification
its run completed and its output kept, a stop that is to be recorded as
cancelled nothing executing), which id goes with which status (`RecordInv`), and that
whatever executes is the run known under the key (`RunInv`), from which
`OneExecution` follows. One lemma per handler shows that it is kept, one per handler
that it refines; `HiddenSteps` collects the steps a coordinator does not see.

For the pool, for every finite set of attempts and any nodes, policies and bounds
(`AttemptsAssumption`, `SettingsAssumption`, `OffersAssumption`, `BoundsAssumption`), in
`NodePoolProofs`:

- `CapacityIsKept == Spec => CapacityKept`, from `PoolInv` (types of the tables). A node
  that is chosen has room by the count (`ChosenHasRoom`), a claim adds one attempt to it
  (`ClaimKeeps`), and every other step is `Quiet`: what is active afterwards was so
  before, on the same node.
- `ClientsFollowRows == Spec => []ClientFollowsRow`, inductive next to `PoolInv`; `InstalledFollows`
  is the edit that goes through, `ChangedRowFollows` every change of a row alone.
- `ReadyMeansDispatchable == Spec => []ReadyIsDispatchable`, for a finite set of nodes
  (`NodesAssumption`). That something is chosen is about the scheduler alone
  (`SomeoneIsChosen`): of finitely many nodes with room some is not outranked, which
  is an induction over sets of nodes, in the form that every such set has a first.
  That the chosen node has a client takes two invariants: the node of an attempt keeps
  its row (`Rowed`), and a node with row and token has a client, is `astray`, or has an
  empty token only, to which no client belongs (`Served`).
  The proof found what the run's instance could not show before: a node entered as full,
  at which the property now looks, and the instance too.

For clients, tunnels and processes, in `TunnelProofs`, under `NoneAssumption` as well:

- `PoolTypeCorrect == Spec => []PoolTypeOK`, `ClientsHaveTunnels` (`ClientHasItsTunnel`),
  `NothingIsLeft` (`NothingHeldAfterRelease`), `ProcessesAreInSight` (`ProcessesAreKnown`).

All follow from `TunnelInv`. None of them is inductive, because what a release does
later depends on the calls before it: `Attended(a)` says of each attempt that an open
in the queue is the last call for it, of an active attempt without a client, for the
node it is on (`OpensLast`); that a client has its tunnel and no call waits that would
close it (`ClientStands`); that a tunnel has its client, or the call that will close
it (`TunnelOwned`); and where its process is (`ProcessKnown`). `Halting` says what a stop
has left. Most steps are of one attempt: `OneActs` shows once that they leave the others'
parts alone, a lemma each that they keep their own.

For the services, for all values of their constants, in `ServicesProofs`; a step of
`Services` is one of a single service, so that each invariant has to be shown for one:

- `VersionsAreInOrder`: with ids and numbers given in order (`VersionInv`), the version
  after the latest is the active one plus one (`NextIsNew`), whoever asks.
- `NoSecretIsLost`: what has been copied has its last value already while the file
  is still there (`SecretInv`).
- `CoordinatorIsAlone`: after a stop that no monitor was past the flag for, none gets
  there any more (`SupervisorInv`).
- `TicketsOpenOnce`: a ticket that is still in the store has opened nothing (`TicketInv`).
- `TrustNeedsConfirmation`: inductive as it stands.
- `CompletionMeansServing`: as long as all steps say success, hermes was found, and the
  package is there once it was deployed (`JobInv`).
- `ChosenModelsPlan` (`PlannedByChosen`) and `RunsWereConfirmed` (`RunsAsConfirmed`), from
  `AuthoringInv`: a plan with a chosen profile is asked of that profile from the moment it
  begins (`Asked`), whatever happens to the profile or to the planner in memory before it
  answers; a reviewed workflow was confirmed with its hash, or called reviewed by its plan
  (`Confirmed`), and is not written any more; what runs is reviewed. `NothingAssumption`
  says that the absence of a plan is none.
- `CommittedArtifactsStay` (`CommittedStaysWhole`), from `CollectionInv`: once an artifact is
  committed and while at most two collections have begun, the temporary name, if there is one,
  is of a file that one collection has for itself, from its beginning; everyone else
  has ended. With the property as it was stated before, with any number of collections
  of one attempt, this was not to be proved: section 4 has the counterexample.
- `ServicesTypeCorrect == Spec => []ServicesTypeOK`: the invariants above, and two more:
  the tables and the number of the schema agree but within a migration's transaction,
  which has a version to go to (`MigrationInv`), and a process that is kept has missed
  fewer checks than the threshold (`FailuresInv`).

`StreamKeepsLog == Spec => StreamImplements` is the refinement of `EventLog`, in
`StreamProofs`. The events after a cursor are a set of ids in their order (`After`,
`InOrder`), about which the first part shows that every set of numbers up to n has one
such sequence (`Enumerable`) and only one (`ListUnique`); that what follows its k-th member
is the rest of it (`LaterListed`); and that a greater number comes at its end
(`OneMoreListed`). With these `StreamInv` is inductive: what the desktop has applied, what is
on the wire and what was fetched follow each other in the history of the run, without gap
or repetition (`Follows`), the cursor of an open socket stands at the last that was sent,
and without a view nothing is applied or under way (`ViewInv`).
Then an event of the run is the log's `Happen`, one that is received is its `See`, never
ignored and never early (`NextApplied`), `OpenRun` is its `Open`, a view closed by the user
or by `SyncRuntime` its `Close` (`StreamStartsOver`), and everything else, a restart of the
coordinator included, is hidden from it.

Every invariant that a passing run checks is proved, and every action property and
refinement. Model-checked only are the liveness properties (`CancelSettles`, `RunSettles`,
`RunningEnds`, `ComesUp`, `CoordinatorComesBack`, `ClientCatchesUp`), which the prover cannot
do, as it has neither fairness' `ENABLED` nor leads-to under it, and the refutations, which
are single behaviours.

## 6. Not modelled

- *Data*: prompts and answers of thinking models, contents and checksums of artifacts
  (two are equal or not), graph validation (`_layers`), times (a timeout, a delay or an
  expiry passes or not), task logs, the statements of each migration, the redaction of
  diagnostics. An address stands for the connection settings of a node, one set of
  labels for its capabilities, models and tags.
- *Measures that nobody takes*: latency and success rates are in the scheduler's score, but
  the same for all nodes.
- *Ports*: a local port is allocated before ssh binds it; that another process takes it is
  one of the ways in which ssh ends in its settle window.
- *Branches and states that the program's own parts do not reach*: a node that answers a
  dispatch with another task's id (`manager.py:440`), the workflow status *archived*, which
  nothing writes but a plan that returns it. *Errors of the disk* while logs are
  synchronised (`manager.py:310-318`) are not among the exceptions of `Raise`.
- *Around the node agent*: reading artifacts and logs, health, the legacy `goal` field
  with which create also starts; the kinds of verification step are an outcome.
- *What the desktop makes of events and answers*: the reducer, the workspace store but for
  which run is shown, the views, its list of tunnels; the delivery manifest of a project; menus and the updater.
  They interleave with nothing but the answers they show, and hold no truth of the system.
- *Products*: a run's coroutines in full detail and the pool in full detail are two
  specifications; together they are out of TLC's reach.

`PROJECT.json` names every component.

## 7. Plan

Done: the execution core, the node agent, the pool of nodes with tunnels and
administration, the services, and the proofs of section 5. Next:

1. An abstract run (what a user is promised of its tasks) with `RunExecution` refining it
   where nothing leaks; `SafeInv` and `PromiseInv` have what the step simulation needs.
2. The non-temporal half of the liveness properties, as theorems: the steps that can no
   longer be undone (a cancelled attempt, a copied credential, an applied event) and the
   measures that they decrease.
3. Capacity with the tunnels: that an attempt which is placed twice in a row keeps one
   room, across `Keeps`.
