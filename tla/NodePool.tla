----------------------------- MODULE NodePool -----------------------------
(***************************************************************************)
(* The attempts of all runs share the configured nodes, under one dispatch *)
(* lock, and each reaches its node through a tunnel of its own, while the  *)
(* nodes are edited, deleted and diagnosed, ssh processes exit, and the    *)
(* coordinator stops or is killed.                                         *)
(*                                                                         *)
(* An attempt is here what RunExecution makes of it as far as the pool is  *)
(* concerned: "ready" may be placed, "dispatching" waits for its tunnel or *)
(* for the node to take the task, "running" stands for collecting too,     *)
(* "blocked" for a block by a transient error, and "ended" for every status *)
(* that nothing makes ready again, blocked by another error included.  A   *)
(* tunnel is released by a task of its own, scheduled when the attempt     *)
(* leaves the active statuses: it drops the cached client, then waits for  *)
(* the lock of the tunnels.                                                *)
(***************************************************************************)
EXTENDS Readiness, Tunnels, FiniteSets

CONSTANTS
  PolicyOf,   \* PolicyOf[a]: the execution policy of the task of a
  MaxStops    \* bound: stops and crashes of the coordinator

ASSUME AttemptsAssumption == IsFiniteSet(Attempts)
ASSUME PolicyAssumption == PolicyOf \in [Attempts -> Policies]
ASSUME StopsAssumption  == MaxStops \in Nat

VARIABLES
  attempt,    \* the task_attempts table
  cached,     \* _attempt_clients: the node that the client of an attempt leads to
  releases,   \* attempts whose release is scheduled and has not begun
  phase,      \* "up", "stopping" (close waits for the lock) or "down"
  stops       \* stops and crashes so far

vars == <<adminVars, tunnelVars, attempt, cached, releases, phase, stops>>

poolVars == <<attempt, cached, releases, phase, stops>>

Active == {"dispatching", "running", "cancelling"}
Status == Active \cup {"ready", "blocked", "ended"}

Attempt == [status: Status, node: Nodes \cup {None}]

IsActive(a) == attempt[a].status \in Active

(* count_active_attempts_by_node.                                          *)
Load(n) == Cardinality({a \in Attempts : IsActive(a) /\ attempt[a].node = n})

Larger(i, j) == IF i < j THEN j ELSE i

Available ==
  [n \in DOMAIN nodes |-> [nodes[n] EXCEPT !.running = Larger(nodes[n].running, Load(n))]]

(* An attempt that was placed before keeps its node while it has room; its  *)
(* mutant, whatever its room.                                              *)
KeepsAnyway(a) == attempt[a].node \in DOMAIN nodes
Keeps(a) == attempt[a].node \in DOMAIN nodes /\ HasRoom(Available[attempt[a].node])

Placements(a) ==
  IF Keeps(a) THEN {attempt[a].node} ELSE Selected(Available, PolicyOf[a])

(* The coroutine of a waits for its tunnel.                                *)
Idle(a) == a \notin releases /\ ~Opening(a)

(* Leaving the active statuses schedules the release.                      *)
Becomes(a, status) ==
  /\ attempt' = [attempt EXCEPT ![a].status = status]
  /\ releases' = IF IsActive(a) /\ status \notin Active
                 THEN releases \cup {a} ELSE releases
  /\ UNCHANGED <<cached, phase, stops>>

-----------------------------------------------------------------------------
Init ==
  /\ AdminInit
  /\ TunnelsInit
  /\ attempt = [a \in Attempts |-> [status |-> "ready", node |-> None]]
  /\ cached = [a \in Attempts |-> None]
  /\ releases = {}
  /\ phase = "up"
  /\ stops = 0

(* Counting, choosing and claiming are one step, under the dispatch lock.   *)
(* By the time an attempt is dispatched again the event loop has run the   *)
(* first step of its release, scheduled long before.                       *)
Claim(a, n) ==
  /\ attempt[a].status = "ready"
  /\ a \notin releases
  /\ n \in Placements(a)
  /\ n \in DOMAIN clients
  /\ attempt' = [attempt EXCEPT ![a].status = "dispatching", ![a].node = n]
  /\ IF cached[a] = None THEN Enqueue(Open(a, n)) ELSE UNCHANGED calls
  /\ UNCHANGED <<cached, releases, phase, stops, adminVars,
                 tunnels, process, strays, exits>>

(* The node was claimed, but there is no client for it.                    *)
ClaimWithoutClient(a, n) ==
  /\ attempt[a].status = "ready"
  /\ a \notin releases
  /\ n \in Placements(a)
  /\ n \notin DOMAIN clients
  /\ cached[a] = None
  /\ attempt' = [attempt EXCEPT ![a].status = "ended", ![a].node = n]
  /\ releases' = releases \cup {a}
  /\ UNCHANGED <<cached, phase, stops, adminVars, tunnelVars>>

(* The attempt waits while some node could take it if it were idle.        *)
NoNode(a) ==
  /\ attempt[a].status = "ready"
  /\ Placements(a) = {}
  /\ Selected(nodes, PolicyOf[a]) = {}
  /\ Becomes(a, "ended")
  /\ UNCHANGED <<adminVars, tunnelVars>>

(* A coroutine that waits for the lock of the tunnels gets one, and caches *)
(* the client that is bound to its local end.                              *)
Opened(a) ==
  /\ OpenExisting(a) \/ OpenDirect(a) \/ Settled(a)
  /\ cached' = [cached EXCEPT ![a] = tunnels'[a]]
  /\ UNCHANGED <<attempt, releases, phase, stops, adminVars>>

(* A TunnelError is not transient; an attempt that is being cancelled tries *)
(* again.                                                                  *)
OpenFails(a) ==
  /\ Refused(a)
  /\ IF attempt[a].status = "cancelling" THEN UNCHANGED poolVars
                                         ELSE Becomes(a, "ended")
  /\ UNCHANGED adminVars

(* The task was created and started on the node.                           *)
Dispatched(a) ==
  /\ attempt[a].status = "dispatching"
  /\ cached[a] # None
  /\ process[a] # "exited"
  /\ Becomes(a, "running")
  /\ UNCHANGED <<adminVars, tunnelVars>>

(* A call through the client fails: of a dead tunnel it is the first sign.  *)
CallFails(a) ==
  /\ attempt[a].status \in {"dispatching", "running"}
  /\ cached[a] # None
  /\ \E status \in {"blocked", "ended"} : Becomes(a, status)
  /\ UNCHANGED <<adminVars, tunnelVars>>

(* The task has succeeded or failed, was stopped or timed out.             *)
Ends(a) ==
  /\ attempt[a].status \in {"running", "cancelling"}
  /\ cached[a] # None
  /\ Becomes(a, "ended")
  /\ UNCHANGED <<adminVars, tunnelVars>>

(* After a restart an active attempt has no client, and polling opens its  *)
(* tunnel anew: to its own node, whatever the scheduler would say now.     *)
Reconnect(a) ==
  /\ IsActive(a)
  /\ Idle(a)
  /\ cached[a] = None
  /\ attempt[a].node \in DOMAIN clients
  /\ Enqueue(Open(a, attempt[a].node))
  /\ UNCHANGED <<adminVars, poolVars, tunnels, process, strays, exits>>

NoClient(a) ==
  /\ attempt[a].status \in {"dispatching", "running"}
  /\ Idle(a)
  /\ cached[a] = None
  /\ attempt[a].node \notin DOMAIN clients
  /\ Becomes(a, "ended")
  /\ UNCHANGED <<adminVars, tunnelVars>>

(* A resumed or recovered run makes a transiently blocked attempt ready.   *)
Restore(a) ==
  /\ attempt[a].status = "blocked"
  /\ Becomes(a, "ready")
  /\ UNCHANGED <<adminVars, tunnelVars>>

Cancel(a) ==
  /\ attempt[a].status \in {"ready", "blocked", "running"}
  /\ Becomes(a, IF IsActive(a) THEN "cancelling" ELSE "ended")
  /\ UNCHANGED <<adminVars, tunnelVars>>

(* Mutant: the client stays in the cache.                                  *)
BeginReleaseOnly(a) ==
  /\ a \in releases
  /\ releases' = releases \ {a}
  /\ Enqueue(Close(a))
  /\ UNCHANGED <<attempt, cached, phase, stops, adminVars,
                 tunnels, process, strays, exits>>
BeginRelease(a) ==
  /\ a \in releases
  /\ releases' = releases \ {a}
  /\ cached' = [cached EXCEPT ![a] = None]
  /\ Enqueue(Close(a))
  /\ UNCHANGED <<attempt, phase, stops, adminVars, tunnels, process, strays, exits>>

-----------------------------------------------------------------------------
(* A stop cancels the coroutines of all runs, clears the cache and closes   *)
(* the tunnels; a release that was scheduled still runs.                   *)
Stop ==
  /\ phase = "up"
  /\ stops < MaxStops
  /\ phase' = "stopping"
  /\ stops' = stops + 1
  /\ cached' = [a \in Attempts |-> None]
  /\ CancelOpens
  /\ UNCHANGED <<attempt, releases, adminVars>>

Kill ==
  /\ phase = "up"
  /\ stops < MaxStops
  /\ phase' = "down"
  /\ stops' = stops + 1
  /\ cached' = [a \in Attempts |-> None]
  /\ releases' = {}
  /\ Forget
  /\ UNCHANGED <<attempt, adminVars>>

Stopped ==
  /\ phase = "stopping"
  /\ CloseAll \notin {calls[i] : i \in 1..Len(calls)}
  /\ phase' = "down"
  /\ releases' = {}
  /\ Forget
  /\ UNCHANGED <<attempt, cached, stops, adminVars>>

Restart ==
  /\ phase = "down"
  /\ phase' = "up"
  /\ RebuildClients
  /\ UNCHANGED <<attempt, cached, releases, stops, tunnelVars>>

(* What the lock of the tunnels and the release tasks do by themselves.     *)
Closing(a) == CloseTunnel(a) /\ UNCHANGED <<adminVars, poolVars>>
Connect(a) == Opened(a) \/ OpenFails(a) \/ (Spawn(a) /\ UNCHANGED <<adminVars, poolVars>>)
CloseRest  == CloseEvery /\ UNCHANGED <<adminVars, poolVars>>

Work(a) ==
  \/ \E n \in Nodes : Claim(a, n) \/ ClaimWithoutClient(a, n)
  \/ NoNode(a) \/ Dispatched(a) \/ CallFails(a) \/ Ends(a)
  \/ Reconnect(a) \/ NoClient(a) \/ Restore(a) \/ Cancel(a)

(* A row that an attempt refers to cannot be deleted.                      *)
Referenced(n) == \E a \in Attempts : attempt[a].node = n

Administer ==
  \/ \E n \in Nodes, entered \in Settings, given \in Credentials :
       \/ CreateNode(n, entered, given)
       \/ \E address \in Addresses : UpdateNode(n, address, entered, given)
  \/ \E n \in Nodes, entered \in Settings :
       \/ CreateFails(n, entered, Referenced(n))
       \/ \E address \in Addresses : UpdateFails(n, address, entered)
  \/ \E n \in Nodes : (~Referenced(n) /\ DeleteNode(n)) \/ BeginDiagnosis(n)
  \/ \E d \in diagnosing : AskAgent(d) \/ Diagnosed(d) \/ DiagnosisFails(d)

Next ==
  \/ phase = "up" /\ \E a \in Attempts : Work(a)
  \/ phase = "up" /\ Administer /\ UNCHANGED <<tunnelVars, poolVars>>
  \/ phase # "down" /\ \E a \in Attempts : BeginRelease(a) \/ Closing(a) \/ Connect(a)
  \/ phase # "down" /\ CloseRest
  \/ \E a \in Attempts : ProcessExits(a) /\ UNCHANGED <<adminVars, poolVars>>
  \/ Stop \/ Kill \/ Stopped \/ Restart

Spec == Init /\ [][Next]_vars

-----------------------------------------------------------------------------
(* Properties.                                                             *)

PoolTypeOK ==
  /\ AdminTypeOK
  /\ attempt \in [Attempts -> Attempt]
  /\ tunnels \in [Attempts -> Nodes \cup {None}]
  /\ cached \in [Attempts -> Nodes \cup {None}]
  /\ process \in [Attempts -> {None, "settling", "alive", "exited"}]
  /\ \A i \in 1..Len(calls) : calls[i] \in TunnelCalls
  /\ releases \subseteq Attempts /\ strays \subseteq Attempts
  /\ phase \in {"up", "stopping", "down"}
  /\ exits \in 0..MaxExits /\ stops \in 0..MaxStops

(* Dispatches of whatever runs, before and after restarts, never place more *)
(* attempts on a node than its max_concurrency of that moment allows.      *)
CapacityKept ==
  [][\A n \in Nodes : Load(n)' > Load(n) => n \in DOMAIN nodes /\ Load(n)' <= nodes[n].max]_vars

(* The client that an attempt talks through leads, until its release has   *)
(* begun, through a tunnel of the attempt's own that no earlier release    *)
(* has closed, to the node the attempt was placed on.                      *)
ClientHasItsTunnel ==
  \A a \in Attempts :
    cached[a] # None /\ a \notin releases =>
      IsActive(a) /\ tunnels[a] = cached[a] /\ cached[a] = attempt[a].node

(* When readiness lets a task run, a dispatch of that moment would neither  *)
(* find no node for it nor a node without a client: rows, stored tokens    *)
(* and clients agree after whatever edits, diagnoses and restarts.  Except  *)
(* for a node whose token outlived its deletion, and whose row a diagnosis *)
(* has brought back, for one whose stored token is empty, which readiness  *)
(* takes for a token and a client does not, and for nodes that were        *)
(* entered as full.                                                        *)
ReadyIsDispatchable ==
  \A a \in Attempts :
    NodesReady({PolicyOf[a]}) =>
      LET fit    == Matching(nodes, PolicyOf[a])
          chosen == Selected(nodes, PolicyOf[a])
      IN /\ chosen # {} \/ (fit # {} /\ \A n \in fit : ~HasRoom(nodes[n]))
         /\ chosen \subseteq DOMAIN clients \cup astray \cup blanks

(* An attempt that has left the active statuses, and whose release is done, *)
(* holds neither client nor tunnel nor ssh process.                        *)
NothingHeldAfterRelease ==
  \A a \in Attempts :
    ~IsActive(a) /\ a \notin releases /\ ~Waiting(a) =>
      /\ cached[a] = None
      /\ tunnels[a] = None
      /\ process[a] = None \/ (phase = "stopping" /\ a \in strays)

(* An ssh process is in the table of tunnels, or in the settle window of    *)
(* the call that holds the lock, or it was abandoned by a stop.            *)
ProcessesAreKnown ==
  \A a \in Attempts :
    process[a] # None =>
      \/ tunnels[a] # None
      \/ process[a] = "settling" /\ (Holds("open", a) \/ (phase = "stopping" /\ a \in strays))
=============================================================================
