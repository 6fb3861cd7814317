------------------------------ MODULE Tunnels ------------------------------
(***************************************************************************)
(* The tunnel provider: at most one tunnel per owner (an attempt), and one *)
(* lock that open, close and close_all hold to their end, while ssh is     *)
(* spawned and watched for its settle window too.  The lock serves its     *)
(* waiters in order, so that the calls are a queue whose head is at work.  *)
(* A local node gets an endpoint without a process.                        *)
(***************************************************************************)
EXTENDS Sequences, Scheduling

CONSTANTS
  Attempts,   \* attempt ids: the owners of tunnels
  Direct,     \* the nodes reached without ssh: local ones, and those without host
  None,       \* no node, no process, no owner
  MaxExits    \* bound: ssh processes that exit by themselves

ASSUME DirectAssumption == Local \subseteq Direct /\ Direct \subseteq Nodes
ASSUME NoneAssumption   ==
  None \notin Nodes /\ None \notin Attempts /\ None \notin {"settling", "alive", "exited"}
ASSUME ExitsAssumption  == MaxExits \in Nat

VARIABLES
  tunnels,   \* _tunnels: where the tunnel of an owner leads
  process,   \* the ssh process spawned last for an owner
  calls,     \* calls that hold the lock or wait for it
  strays,    \* history: owners of an ssh process that nobody knows of
  exits      \* processes that have exited so far

tunnelVars == <<tunnels, process, calls, strays, exits>>

(* Mutant: the arguments of open are swapped.                              *)
OpenSwapped(o, n) == [op |-> "open", owner |-> n, node |-> o]
Open(o, n) == [op |-> "open", owner |-> o, node |-> n]
Close(o)   == [op |-> "close", owner |-> o, node |-> None]
CloseAll   == [op |-> "close_all", owner |-> None, node |-> None]

TunnelCalls == [op: {"open", "close", "close_all"}, owner: Attempts \cup {None},
          node: Nodes \cup {None}]

Waiting(o) == \E i \in 1..Len(calls) : calls[i].owner = o
Opening(o) == \E i \in 1..Len(calls) : calls[i].owner = o /\ calls[i].op = "open"

(* The call that holds the lock.                                           *)
Holds(op, o) == calls # <<>> /\ Head(calls).op = op /\ Head(calls).owner = o

(* Mutant: a caller gets ahead of those that wait already.                 *)
Overtakes(call) ==
  calls' = IF calls = <<>> THEN <<call>> ELSE <<Head(calls), call>> \o Tail(calls)
Enqueue(call) == calls' = Append(calls, call)

Done == calls' = Tail(calls)

Usable(o) == tunnels[o] # None /\ process[o] # "exited"

-----------------------------------------------------------------------------
TunnelsInit ==
  /\ tunnels = [o \in Attempts |-> None]
  /\ process = [o \in Attempts |-> None]
  /\ calls = <<>>
  /\ strays = {}
  /\ exits = 0

OpenExisting(o) ==
  /\ Holds("open", o)
  /\ Usable(o)
  /\ Done
  /\ UNCHANGED <<tunnels, process, strays, exits>>

OpenDirect(o) ==
  /\ Holds("open", o)
  /\ ~Usable(o)
  /\ Head(calls).node \in Direct
  /\ tunnels' = [tunnels EXCEPT ![o] = Head(calls).node]
  /\ process' = [process EXCEPT ![o] = None]
  /\ Done
  /\ UNCHANGED <<strays, exits>>

(* An earlier tunnel whose process has exited is forgotten.                *)
Spawn(o) ==
  /\ Holds("open", o)
  /\ ~Usable(o)
  /\ Head(calls).node \notin Direct
  /\ process[o] # "settling"
  /\ tunnels' = [tunnels EXCEPT ![o] = None]
  /\ process' = [process EXCEPT ![o] = "settling"]
  /\ UNCHANGED <<calls, strays, exits>>

(* ssh is alive at the end of its settle window.                           *)
Settled(o) ==
  /\ Holds("open", o)
  /\ process[o] = "settling"
  /\ tunnels' = [tunnels EXCEPT ![o] = Head(calls).node]
  /\ process' = [process EXCEPT ![o] = "alive"]
  /\ Done
  /\ UNCHANGED <<strays, exits>>

(* ssh has exited within it: an unknown host key, a refused login, a taken  *)
(* port.  The caller gets a TunnelError.                                   *)
Refused(o) ==
  /\ Holds("open", o)
  /\ process[o] = "settling"
  /\ process' = [process EXCEPT ![o] = None]
  /\ Done
  /\ UNCHANGED <<tunnels, strays, exits>>

(* The process is terminated, and after two seconds killed.  The mutant     *)
(* only takes it off the table.                                            *)
CloseTableOnly(o) ==
  /\ Holds("close", o)
  /\ tunnels' = [tunnels EXCEPT ![o] = None]
  /\ Done
  /\ UNCHANGED <<process, strays, exits>>
CloseTunnel(o) ==
  /\ Holds("close", o)
  /\ tunnels' = [tunnels EXCEPT ![o] = None]
  /\ process' = [process EXCEPT ![o] = None]
  /\ Done
  /\ UNCHANGED <<strays, exits>>

CloseEvery ==
  /\ Holds("close_all", None)
  /\ tunnels' = [o \in Attempts |-> None]
  /\ process' = [o \in Attempts |-> IF tunnels[o] = None THEN process[o] ELSE None]
  /\ Done
  /\ UNCHANGED <<strays, exits>>

(* The coroutines that open are cancelled.  What open catches is Exception, *)
(* which a cancellation is not: the process in its settle window stays.    *)
Left == {i \in 1..Len(calls) : calls[i].op # "open"}

CancelOpens ==
  /\ \E order \in [1..Cardinality(Left) -> Left] :
       /\ \A i, j \in DOMAIN order : i < j => order[i] < order[j]
       /\ calls' = Append([i \in DOMAIN order |-> calls[order[i]]], CloseAll)
  /\ strays' = strays \cup {o \in Attempts : process[o] = "settling"}
  /\ UNCHANGED <<tunnels, process, exits>>

ProcessExits(o) ==
  /\ exits < MaxExits
  /\ process[o] = "alive"
  /\ process' = [process EXCEPT ![o] = "exited"]
  /\ exits' = exits + 1
  /\ UNCHANGED <<tunnels, calls, strays>>

(* A process that has stopped leaves no lock and no table.  The ssh        *)
(* processes that it was killed over go on by themselves.                  *)
Forget ==
  /\ tunnels' = [o \in Attempts |-> None]
  /\ process' = [o \in Attempts |-> None]
  /\ calls' = <<>>
  /\ strays' = strays \cup {o \in Attempts : process[o] \in {"settling", "alive"}}
  /\ UNCHANGED exits
=============================================================================
