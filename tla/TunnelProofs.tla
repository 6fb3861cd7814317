--------------------------- MODULE TunnelProofs ---------------------------
(***************************************************************************)
(* Tunnels are neither mixed up nor leaked, for any number of attempts and *)
(* nodes, any direct nodes, ssh exits, stops and kills: the client that an *)
(* attempt uses leads through its own tunnel to its own node; when all is  *)
(* released nothing is held; and every ssh process is known.               *)
(*                                                                         *)
(* The argument is the order of the calls that wait for the lock: behind   *)
(* an open of an attempt there is no other call for it, and a tunnel that  *)
(* no client uses has its close in the queue.                              *)
(***************************************************************************)
EXTENDS NodePoolProofs, SequenceTheorems

(* The calls that coroutines and release tasks make.                       *)
QueueCalls == {Open(a, n) : a \in Attempts, n \in Nodes}
                \cup {Close(a) : a \in Attempts} \cup {CloseAll}

Queue == calls \in Seq(QueueCalls)

Pending(call) == \E i \in 1..Len(calls) : calls[i] = call

(* An open is of an active attempt, for the node that it was placed on,    *)
(* and the last call for it.                                               *)
OpensLast(a) ==
  \A i \in 1..Len(calls) :
    calls[i].op = "open" /\ calls[i].owner = a =>
      /\ phase = "up" /\ IsActive(a) /\ a \notin releases
      /\ cached[a] = None /\ calls[i].node = attempt[a].node
      /\ \A k \in 1..Len(calls) : k > i => calls[k].owner # a

(* A client has a tunnel, and no call waits to change that.                *)
ClientStands(a) ==
  cached[a] # None =>
    /\ phase = "up" /\ (IsActive(a) \/ a \in releases)
    /\ tunnels[a] = cached[a] /\ cached[a] = attempt[a].node
    /\ ~Waiting(a)

(* A tunnel has a client, or is to be closed.                              *)
TunnelOwned(a) ==
  tunnels[a] # None =>
    \/ cached[a] # None
    \/ Pending(Close(a))
    \/ Pending(CloseAll) /\ (IsActive(a) \/ a \in releases)

ProcessKnown(a) ==
  /\ process[a] \in {"alive", "exited"} => tunnels[a] # None
  /\ process[a] = "settling" =>
       /\ tunnels[a] = None
       /\ Holds("open", a) \/ (phase = "stopping" /\ a \in strays)

Attended(a) == OpensLast(a) /\ ClientStands(a) /\ TunnelOwned(a) /\ ProcessKnown(a)

(* A coordinator that is down holds nothing, one that stops no client.     *)
Halting ==
  /\ Pending(CloseAll) => phase = "stopping"
  /\ phase = "down" =>
       /\ calls = <<>> /\ releases = {}
       /\ \A a \in Attempts : tunnels[a] = None /\ process[a] = None

TunnelTypes ==
  /\ tunnels \in [Attempts -> Nodes \cup {None}]
  /\ cached \in [Attempts -> Nodes \cup {None}]
  /\ process \in [Attempts -> {None, "settling", "alive", "exited"}]
  /\ releases \subseteq Attempts /\ strays \subseteq Attempts
  /\ phase \in {"up", "stopping", "down"}
  /\ exits \in 0..MaxExits /\ stops \in 0..MaxStops

TunnelInv ==
  TunnelTypes /\ Queue /\ Halting /\ \A a \in Attempts : Attended(a)

-----------------------------------------------------------------------------
(* The queue.                                                              *)
LEMMA CallShape ==
  ASSUME NEW c \in QueueCalls
  PROVE  /\ c \in TunnelCalls
         /\ c.op = "open" => c.owner \in Attempts /\ c.node \in Nodes
         /\ c.owner \in Attempts /\ c.op # "open" => c = Close(c.owner)
         /\ c.owner \notin Attempts => c = CloseAll
         /\ c.op = "close_all" => c = CloseAll
  BY NoneAssumption DEF QueueCalls, TunnelCalls, Open, Close, CloseAll

LEMMA CallsAre ==
  /\ CloseAll \in QueueCalls /\ CloseAll.owner = None /\ CloseAll.op = "close_all"
  /\ \A a \in Attempts : Close(a) \in QueueCalls /\ Close(a).owner = a /\ Close(a).op = "close"
  /\ \A a \in Attempts, n \in Nodes :
       /\ Open(a, n) \in QueueCalls /\ Open(a, n).owner = a
       /\ Open(a, n).op = "open" /\ Open(a, n).node = n
  BY DEF QueueCalls, Open, Close, CloseAll

LEMMA InQueue ==
  ASSUME Queue
  PROVE  /\ Len(calls) \in Nat
         /\ \A i \in 1..Len(calls) : calls[i] \in QueueCalls
         /\ calls # <<>> => Len(calls) > 0 /\ Head(calls) = calls[1]
         /\ calls = <<>> => Len(calls) = 0
  BY DEF Queue

(* A call that gets in line.                                               *)
LEMMA Joins ==
  ASSUME Queue, NEW c \in QueueCalls, Enqueue(c)
  PROVE  /\ Queue' /\ Len(calls') = Len(calls) + 1
         /\ \A i \in 1..Len(calls) : calls'[i] = calls[i]
         /\ calls'[Len(calls) + 1] = c
         /\ calls # <<>> => Head(calls') = Head(calls)
  BY DEF Queue, Enqueue

(* The call that holds the lock is done.                                   *)
LEMMA Leaves ==
  ASSUME Queue, calls # <<>>, Done
  PROVE  /\ Queue' /\ Len(calls') = Len(calls) - 1
         /\ \A i \in 1..Len(calls') : calls'[i] = calls[i + 1]
  BY DEF Queue, Done

(* The opens are gone, the other calls and a close_all are left.            *)
LEMMA OpensLeave ==
  ASSUME Queue, CancelOpens
  PROVE  /\ Queue' /\ Pending(CloseAll)'
         /\ \A i \in 1..Len(calls') :
              calls'[i] = CloseAll \/ \E k \in Left : calls'[i] = calls[k]
         /\ \A k \in Left : \E i \in 1..Len(calls') : calls'[i] = calls[k]
<1> DEFINE n == Cardinality(Left)
<1>1. Left \subseteq 1..Len(calls) /\ Len(calls) \in Nat
  BY DEF Left, Queue
<1>2. IsFiniteSet(Left) /\ n \in Nat
  <2>1. IsFiniteSet(1..Len(calls))
    BY <1>1, FS_Interval
  <2>2. IsFiniteSet(Left)
    BY <1>1, <2>1, FS_Subset
  <2> QED
    BY <2>2, FS_CardinalityType
<1>3. PICK order \in [1..n -> Left] :
        /\ \A i, j \in 1..n : i < j => order[i] < order[j]
        /\ calls' = Append([i \in 1..n |-> calls[order[i]]], CloseAll)
  BY DEF CancelOpens
<1>4. \A k \in Left : \E i \in 1..n : order[i] = k
  <2>1. \A i, j \in 1..n : i # j => order[i] # order[j]
    <3> SUFFICES ASSUME NEW i \in 1..n, NEW j \in 1..n, i < j PROVE order[i] # order[j]
      BY <1>2
    <3>1. order[i] \in Left /\ order[j] \in Left
      OBVIOUS
    <3>2. \A k \in Left : k \in Int
      BY <1>1
    <3>3. order[i] \in Int /\ order[j] \in Int
      BY <3>1, <3>2, Zenon
    <3> QED
      BY <1>3, <3>3
  <2>2. order \in Injection(1..n, Left)
    BY <1>3, <2>1 DEF Injection, IsInjective
  <2>3. IsFiniteSet(1..n) /\ Cardinality(1..n) = n
    BY <1>2, FS_Interval
  <2>4. order \in Surjection(1..n, Left)
    BY <1>2, <2>2, <2>3, FS_Injection
  <2> QED
    BY <2>4 DEF Surjection
<1> DEFINE rest == [i \in 1..n |-> calls[order[i]]]
<1> HIDE DEF n
<1>5. \A i \in 1..n : rest[i] = calls[order[i]] /\ rest[i] \in QueueCalls /\ order[i] \in Left
  BY <1>1, <1>3, InQueue
<1>6. rest \in Seq(QueueCalls) /\ Len(rest) = n
  BY <1>2, <1>5, IsASeq, LenProperties
<1>7. /\ calls' \in Seq(QueueCalls) /\ Len(calls') = n + 1 /\ calls'[n + 1] = CloseAll
      /\ \A i \in 1..n : calls'[i] = rest[i]
  <2>1. calls' = Append(rest, CloseAll)
    BY <1>3
  <2> HIDE DEF rest
  <2> QED
    BY <1>2, <1>6, <2>1, CallsAre
<1>8. Queue' /\ Pending(CloseAll)'
  BY <1>2, <1>7 DEF Queue, Pending
<1>9. \A i \in 1..Len(calls') :
        calls'[i] = CloseAll \/ \E k \in Left : calls'[i] = calls[k]
  <2> SUFFICES ASSUME NEW i \in 1..(n + 1)
               PROVE  calls'[i] = CloseAll \/ \E k \in Left : calls'[i] = calls[k]
    BY <1>7
  <2>1. CASE i \in 1..n
    BY <1>5, <1>7, <2>1
  <2>2. CASE i = n + 1
    BY <1>7, <2>2
  <2> QED
    BY <1>2, <2>1, <2>2
<1>10. \A k \in Left : \E i \in 1..Len(calls') : calls'[i] = calls[k]
  <2> SUFFICES ASSUME NEW k \in Left PROVE \E i \in 1..(n + 1) : calls'[i] = calls[k]
    BY <1>7
  <2>1. PICK i \in 1..n : order[i] = k
    BY <1>4
  <2>2. calls'[i] = calls[k] /\ i \in 1..(n + 1)
    BY <1>2, <1>5, <1>7, <2>1
  <2> QED
    BY <2>2
<1> QED
  BY <1>8, <1>9, <1>10

-----------------------------------------------------------------------------
(* What others do leaves an attempt attended.  Their calls join the queue,  *)
(* or the first call of the queue is theirs and leaves it.                  *)
Aside(a) ==
  /\ attempt'[a] = attempt[a] /\ cached'[a] = cached[a]
  /\ tunnels'[a] = tunnels[a] /\ process'[a] = process[a]
  /\ a \in releases' <=> a \in releases
  /\ UNCHANGED <<phase, strays>>

LEMMA AsideOfStep ==
  ASSUME Queue, NEW a \in Attempts, Attended(a), Aside(a), UNCHANGED calls
  PROVE  Attended(a)'
  BY DEF Aside, Attended, OpensLast, ClientStands, TunnelOwned, ProcessKnown, Waiting,
         Pending, Holds, IsActive

LEMMA AsideOfJoin ==
  ASSUME Queue, NEW a \in Attempts, Attended(a), Aside(a),
         NEW c \in QueueCalls, Enqueue(c), c.owner # a
  PROVE  Attended(a)'
<1> USE DEF Aside
<1>1. /\ Len(calls) \in Nat /\ Len(calls') = Len(calls) + 1
      /\ \A i \in 1..Len(calls) : calls'[i] = calls[i]
      /\ calls'[Len(calls) + 1] = c
      /\ calls # <<>> => Head(calls') = Head(calls) /\ calls' # <<>>
  BY Joins, InQueue DEF Queue
<1>2. \A i \in 1..Len(calls') :
        i \in 1..Len(calls) \/ (i = Len(calls) + 1 /\ calls'[i].owner # a)
  BY <1>1
<1>3. OpensLast(a)'
  BY <1>1, <1>2 DEF Attended, OpensLast, IsActive
<1>4. Waiting(a)' => Waiting(a)
  BY <1>1, <1>2 DEF Waiting
<1>5. \A d : Pending(d) => Pending(d)'
  BY <1>1 DEF Pending
<1>6. ClientStands(a)' /\ TunnelOwned(a)'
  BY <1>4, <1>5 DEF Attended, ClientStands, TunnelOwned, IsActive, Close, CloseAll
<1>7. ProcessKnown(a)'
  BY <1>1 DEF Attended, ProcessKnown, Holds
<1> QED
  BY <1>3, <1>6, <1>7 DEF Attended

LEMMA AsideOfLeave ==
  ASSUME Queue, NEW a \in Attempts, Attended(a), Aside(a),
         calls # <<>>, Done, Head(calls).owner # a, Head(calls) # CloseAll
  PROVE  Attended(a)'
<1> USE DEF Aside
<1>1. /\ Len(calls) \in Nat \ {0} /\ Len(calls') = Len(calls) - 1
      /\ \A i \in 1..Len(calls') : calls'[i] = calls[i + 1]
      /\ calls[1].owner # a /\ calls[1] # CloseAll
  BY Leaves, InQueue
<1>2. \A i \in 1..Len(calls') : i + 1 \in 1..Len(calls)
  BY <1>1
<1>3. OpensLast(a)'
  <2> SUFFICES ASSUME NEW i \in 1..Len(calls'), calls'[i].op = "open", calls'[i].owner = a
               PROVE  /\ phase = "up" /\ IsActive(a) /\ a \notin releases
                      /\ cached[a] = None /\ calls'[i].node = attempt[a].node
                      /\ \A k \in 1..Len(calls') : k > i => calls'[k].owner # a
    BY DEF OpensLast, IsActive
  <2>1. i + 1 \in 1..Len(calls) /\ calls[i + 1].op = "open" /\ calls[i + 1].owner = a
    BY <1>1, <1>2
  <2>2. \A k \in 1..Len(calls) : k > i + 1 => calls[k].owner # a
    BY <2>1 DEF Attended, OpensLast
  <2>3. \A k \in 1..Len(calls') : k > i => calls'[k].owner # a
    BY <1>1, <1>2, <2>2
  <2> QED
    BY <1>1, <2>1, <2>3 DEF Attended, OpensLast
<1>4. Waiting(a)' => Waiting(a)
  BY <1>1, <1>2 DEF Waiting
<1>5. ASSUME NEW d, Pending(d), d.owner = a \/ d = CloseAll PROVE Pending(d)'
  <2>1. PICK i \in 1..Len(calls) : calls[i] = d
    BY <1>5 DEF Pending
  <2>2. i # 1
    BY <1>1, <1>5, <2>1
  <2>3. i - 1 \in 1..Len(calls') /\ calls'[i - 1] = d
    BY <1>1, <2>1, <2>2
  <2> QED
    BY <2>3 DEF Pending
<1>6. ClientStands(a)'
  BY <1>4 DEF Attended, ClientStands, IsActive
<1>7. Pending(Close(a)) => Pending(Close(a))'
  BY <1>5, CallsAre
<1>8. Pending(CloseAll) => Pending(CloseAll)'
  BY <1>5
<1>9. TunnelOwned(a)'
  BY <1>7, <1>8 DEF Attended, TunnelOwned, IsActive, Close, CloseAll
<1>10. ProcessKnown(a)'
  BY DEF Attended, ProcessKnown, Holds
<1> QED
  BY <1>3, <1>6, <1>9, <1>10 DEF Attended

(* A step of one attempt: its calls are its own, and it leaves the others   *)
(* alone.                                                                   *)
QueueStep(a) ==
  \/ UNCHANGED calls
  \/ \E c \in QueueCalls : c.owner = a /\ Enqueue(c)
  \/ calls # <<>> /\ Head(calls).owner = a /\ Done

Alone(a) == /\ \A b \in Attempts \ {a} : Aside(b)
            /\ phase # "down" /\ UNCHANGED phase
            /\ QueueStep(a)

LEMMA OneActs ==
  ASSUME TunnelInv, NEW a \in Attempts, Alone(a), Attended(a)'
  PROVE  Queue' /\ Halting' /\ \A b \in Attempts : Attended(b)'
<1>1. Queue /\ Halting /\ a # None
  BY NoneAssumption DEF TunnelInv
<1>2. CASE UNCHANGED calls
  <2>1. ASSUME NEW b \in Attempts PROVE Attended(b)'
    BY <1>1, <1>2, <2>1, AsideOfStep DEF Alone, TunnelInv
  <2> QED
    BY <1>1, <1>2, <2>1 DEF Queue, Halting, Alone, Pending
<1>3. ASSUME NEW c \in QueueCalls, c.owner = a, Enqueue(c)
      PROVE  Queue' /\ Halting' /\ \A b \in Attempts : Attended(b)'
  <2>1. ASSUME NEW b \in Attempts PROVE Attended(b)'
    BY <1>1, <1>3, <2>1, AsideOfJoin DEF Alone, TunnelInv
  <2>2. /\ Queue' /\ Len(calls') = Len(calls) + 1 /\ Len(calls) \in Nat
        /\ \A i \in 1..Len(calls) : calls'[i] = calls[i]
        /\ calls'[Len(calls) + 1] = c
    BY <1>1, <1>3, Joins, InQueue
  <2>3. c # CloseAll
    BY <1>1, <1>3 DEF CloseAll
  <2>4. Pending(CloseAll)' => Pending(CloseAll)
    BY <2>2, <2>3 DEF Pending, CloseAll
  <2> QED
    BY <1>1, <2>1, <2>2, <2>4 DEF Halting, Alone
<1>4. CASE calls # <<>> /\ Head(calls).owner = a /\ Done
  <2>1. Head(calls) # CloseAll
    BY <1>1, <1>4 DEF CloseAll
  <2>2. ASSUME NEW b \in Attempts PROVE Attended(b)'
    BY <1>1, <1>4, <2>1, <2>2, AsideOfLeave DEF Alone, TunnelInv
  <2>3. /\ Queue' /\ Len(calls') = Len(calls) - 1 /\ Len(calls) \in Nat
        /\ \A i \in 1..Len(calls') : calls'[i] = calls[i + 1]
    BY <1>1, <1>4, Leaves, InQueue
  <2>4. Pending(CloseAll)' => Pending(CloseAll)
    BY <2>3 DEF Pending, CloseAll
  <2> QED
    BY <1>1, <2>2, <2>3, <2>4 DEF Halting, Alone
<1> QED
  BY <1>2, <1>3, <1>4 DEF Alone, QueueStep

-----------------------------------------------------------------------------
(* A status changes.  While a coroutine waits for its tunnel the attempt    *)
(* stays active.                                                           *)
LEMMA BecomesAttended ==
  ASSUME PoolInv, TunnelInv, NEW a \in Attempts, NEW status \in Status, phase = "up",
         Becomes(a, status), UNCHANGED tunnelVars,
         Opening(a) => IsActive(a) /\ status \in Active
  PROVE  Alone(a) /\ Attended(a)'
<1>1. attempt[a] \in Attempt
  BY DEF PoolInv
<1>2. /\ \A b \in Attempts \ {a} : attempt'[b] = attempt[b]
      /\ attempt'[a].status = status /\ attempt'[a].node = attempt[a].node
  BY <1>1 DEF PoolInv, Becomes, Attempt
<1>3. /\ UNCHANGED <<cached, phase, tunnels, process, calls, strays>>
      /\ releases' = IF IsActive(a) /\ status \notin Active THEN releases \cup {a}
                                                              ELSE releases
  BY DEF Becomes, tunnelVars
<1>4. Alone(a)
  BY <1>2, <1>3 DEF Alone, Aside, QueueStep
<1>5. Attended(a) /\ Halting /\ (IsActive(a)' <=> status \in Active)
  BY <1>2 DEF TunnelInv, IsActive
<1>6. OpensLast(a)'
  <2>1. ASSUME NEW i \in 1..Len(calls), calls[i].op = "open", calls[i].owner = a
        PROVE  IsActive(a) /\ status \in Active
    BY <2>1 DEF Opening
  <2> QED
    BY <1>2, <1>3, <1>5, <2>1 DEF Attended, OpensLast
<1>7. ClientStands(a)'
  BY <1>2, <1>3, <1>5 DEF Attended, ClientStands, Waiting
<1>8. TunnelOwned(a)'
  BY <1>3, <1>5 DEF Attended, TunnelOwned, Halting, Pending, Close, CloseAll
<1>9. ProcessKnown(a)'
  BY <1>3, <1>5 DEF Attended, ProcessKnown, Holds
<1> QED
  BY <1>4, <1>6, <1>7, <1>8, <1>9 DEF Attended

(* An attempt gets in line for a tunnel.                                    *)
LEMMA OpenJoins ==
  ASSUME TunnelInv, NEW a \in Attempts, NEW n \in Nodes, Enqueue(Open(a, n)),
         phase = "up", ~Opening(a), cached[a] = None, a \notin releases,
         UNCHANGED <<phase, cached, releases, tunnels, process, strays>>,
         IsActive(a)', attempt'[a].node = n
  PROVE  Attended(a)'
<1> DEFINE c == Open(a, n)
<1>1. c \in QueueCalls /\ c.op = "open" /\ c.owner = a /\ c.node = n
  BY CallsAre
<1>2. Queue /\ Halting /\ Attended(a) /\ Enqueue(c)
  BY DEF TunnelInv
<1> HIDE DEF c
<1>3. /\ Len(calls') = Len(calls) + 1 /\ Len(calls) \in Nat
      /\ \A i \in 1..Len(calls) : calls'[i] = calls[i]
      /\ calls'[Len(calls) + 1] = c
      /\ calls # <<>> => Head(calls') = Head(calls) /\ calls' # <<>>
  BY <1>1, <1>2, Joins, InQueue DEF Queue
<1>4. \A i \in 1..Len(calls') : i \in 1..Len(calls) \/ i = Len(calls) + 1
  BY <1>3
<1>5. ASSUME NEW i \in 1..Len(calls'), calls'[i].op = "open", calls'[i].owner = a
      PROVE  i = Len(calls) + 1
  BY <1>3, <1>4, <1>5 DEF Opening
<1>6. OpensLast(a)'
  <2>1. \A k \in 1..Len(calls') : ~(k > Len(calls) + 1)
    BY <1>3
  <2> QED
    BY <1>1, <1>3, <1>5, <2>1 DEF OpensLast
<1>7. ClientStands(a)'
  BY DEF ClientStands
<1>8. TunnelOwned(a)'
  BY <1>2, <1>3 DEF Attended, TunnelOwned, Halting, Pending, Close, CloseAll
<1>9. ProcessKnown(a)'
  BY <1>2, <1>3 DEF Attended, ProcessKnown, Holds
<1> QED
  BY <1>6, <1>7, <1>8, <1>9 DEF Attended

(* What coroutines do, one step for each action.                            *)
LEMMA WorkAttended ==
  ASSUME PoolInv, TunnelInv, NEW a \in Attempts, phase = "up", Work(a)
  PROVE  Alone(a) /\ Attended(a)'
<1>1. /\ attempt[a] \in Attempt /\ Attended(a)
      /\ Opening(a) => IsActive(a) /\ cached[a] = None
      /\ cached[a] # None => IsActive(a) \/ a \in releases
  BY DEF PoolInv, TunnelInv, Attended, OpensLast, ClientStands, Opening
<1>2. ASSUME NEW n \in Nodes, Claim(a, n) PROVE Alone(a) /\ Attended(a)'
  <2>1. ~IsActive(a) /\ a \notin releases
    BY <1>2 DEF Claim, IsActive, Active
  <2>2. cached[a] = None /\ ~Opening(a)
    BY <1>1, <2>1
  <2>3. /\ Enqueue(Open(a, n))
        /\ UNCHANGED <<phase, cached, releases, tunnels, process, strays>>
    BY <1>2, <2>2 DEF Claim
  <2>4. /\ \A b \in Attempts \ {a} : attempt'[b] = attempt[b]
        /\ attempt'[a].status = "dispatching" /\ attempt'[a].node = n
    BY <1>1, <1>2 DEF Claim, PoolInv, Attempt
  <2>5. Attended(a)'
    BY <2>1, <2>2, <2>3, <2>4, OpenJoins DEF IsActive, Active
  <2> QED
    BY <2>3, <2>4, <2>5, CallsAre DEF Alone, Aside, QueueStep
<1>3. ASSUME NEW n \in Nodes, ClaimWithoutClient(a, n) PROVE Alone(a) /\ Attended(a)'
  <2>1. /\ ~IsActive(a) /\ ~Opening(a) /\ cached[a] = None /\ releases' = releases \cup {a}
        /\ UNCHANGED <<calls, phase, cached, tunnels, process, strays>>
    BY <1>1, <1>3 DEF ClaimWithoutClient, IsActive, Active, tunnelVars
  <2>2. \A b \in Attempts \ {a} : attempt'[b] = attempt[b]
    BY <1>3 DEF ClaimWithoutClient, PoolInv
  <2>3. OpensLast(a)' /\ ClientStands(a)'
    BY <2>1 DEF OpensLast, ClientStands, Opening
  <2>4. TunnelOwned(a)' /\ ProcessKnown(a)'
    BY <1>1, <2>1 DEF Attended, TunnelOwned, ProcessKnown, Pending, Holds, Close, CloseAll
  <2> QED
    BY <2>1, <2>2, <2>3, <2>4 DEF Alone, Aside, QueueStep, Attended
<1>4. CASE NoNode(a) \/ Dispatched(a) \/ Ends(a) \/ NoClient(a)
  <2>1. ~Opening(a)
    BY <1>1, <1>4 DEF NoNode, Dispatched, Ends, NoClient, Idle, IsActive, Active
  <2> QED
    BY <1>4, <2>1, BecomesAttended DEF NoNode, Dispatched, Ends, NoClient, Status, Active
<1>5. CASE CallFails(a)
  <2>1. ~Opening(a)
    BY <1>1, <1>5 DEF CallFails
  <2> QED
    BY <1>5, <2>1, BecomesAttended DEF CallFails, Status, Active
<1>6. CASE Reconnect(a)
  <2>1. attempt[a].node \in Nodes /\ UNCHANGED attempt
    BY <1>6 DEF Reconnect, poolVars, PoolInv, AdminTypeOK
  <2>2. /\ Enqueue(Open(a, attempt[a].node)) /\ ~Opening(a) /\ a \notin releases
        /\ cached[a] = None /\ IsActive(a)
        /\ UNCHANGED <<phase, cached, releases, tunnels, process, strays>>
    BY <1>6 DEF Reconnect, Idle, poolVars
  <2>3. Attended(a)'
    BY <2>1, <2>2, OpenJoins DEF IsActive
  <2> QED
    BY <2>1, <2>2, <2>3, CallsAre DEF Alone, Aside, QueueStep
<1>7. CASE Restore(a)
  <2>1. ~Opening(a)
    BY <1>1, <1>7 DEF Restore, IsActive, Active
  <2> QED
    BY <1>7, <2>1, BecomesAttended DEF Restore, Status
<1>8. CASE Cancel(a)
  <2>1. Opening(a) => IsActive(a)
    BY <1>1
  <2>2. CASE IsActive(a)
    BY <1>8, <2>2, BecomesAttended DEF Cancel, Status, Active
  <2>3. CASE ~IsActive(a)
    BY <1>8, <2>1, <2>3, BecomesAttended DEF Cancel, Status, Active
  <2> QED
    BY <2>2, <2>3
<1> QED
  BY <1>2, <1>3, <1>4, <1>5, <1>6, <1>7, <1>8 DEF Work

-----------------------------------------------------------------------------
(* A release begins: the client is dropped, and the close gets in line.     *)
LEMMA ReleaseAttended ==
  ASSUME TunnelInv, NEW a \in Attempts, phase # "down", BeginRelease(a)
  PROVE  Alone(a) /\ Attended(a)'
<1>1. /\ Queue /\ Attended(a) /\ Close(a) \in QueueCalls /\ Close(a).owner = a
      /\ Close(a).op = "close" /\ cached \in [Attempts -> Nodes \cup {None}]
  BY CallsAre DEF TunnelInv, TunnelTypes
<1>2. /\ a \in releases /\ releases' = releases \ {a} /\ Enqueue(Close(a))
      /\ UNCHANGED <<attempt, phase, tunnels, process, strays>>
      /\ cached'[a] = None /\ \A b \in Attempts \ {a} : cached'[b] = cached[b]
  BY <1>1 DEF BeginRelease
<1>3. Alone(a)
  BY <1>1, <1>2 DEF Alone, Aside, QueueStep
<1> DEFINE c == Close(a)
<1>4. Enqueue(c) /\ c \in QueueCalls /\ c.op # "open" /\ c = Close(a)
  BY <1>1, <1>2
<1> HIDE DEF c
<1>5. /\ Len(calls') = Len(calls) + 1 /\ Len(calls) \in Nat
      /\ \A i \in 1..Len(calls) : calls'[i] = calls[i]
      /\ calls'[Len(calls) + 1] = c
      /\ calls # <<>> => Head(calls') = Head(calls) /\ calls' # <<>>
  BY <1>1, <1>4, Joins, InQueue DEF Queue
<1>6. \A i \in 1..Len(calls') : i \in 1..Len(calls) \/ calls'[i] = c
  BY <1>5
<1>7. OpensLast(a)'
  <2>1. \A i \in 1..Len(calls) : ~(calls[i].op = "open" /\ calls[i].owner = a)
    BY <1>1, <1>2 DEF Attended, OpensLast
  <2> QED
    BY <1>4, <1>5, <1>6, <2>1 DEF OpensLast
<1>8. Pending(Close(a))'
  BY <1>4, <1>5 DEF Pending, Close
<1>9. ClientStands(a)' /\ TunnelOwned(a)'
  BY <1>2, <1>8 DEF ClientStands, TunnelOwned, Close
<1>10. ProcessKnown(a)'
  BY <1>1, <1>2, <1>5 DEF Attended, ProcessKnown, Holds
<1> QED
  BY <1>3, <1>7, <1>9, <1>10 DEF Attended

(* When the open of an attempt holds the lock, there is no tunnel, and no   *)
(* call for the attempt behind it.                                          *)
LEMMA OpenHolds ==
  ASSUME TunnelInv, NEW a \in Attempts, Holds("open", a)
  PROVE  /\ phase = "up" /\ IsActive(a) /\ a \notin releases
         /\ cached[a] = None /\ tunnels[a] = None
         /\ Head(calls).node = attempt[a].node /\ Head(calls).node \in Nodes
         /\ Done => ~Waiting(a)'
<1>1. Queue /\ Halting /\ Attended(a)
  BY DEF TunnelInv
<1>2. /\ Len(calls) \in Nat \ {0} /\ Head(calls) = calls[1] /\ calls # <<>>
      /\ calls[1] \in QueueCalls /\ calls[1].op = "open" /\ calls[1].owner = a
  BY <1>1, InQueue DEF Holds
<1>3. /\ phase = "up" /\ IsActive(a) /\ a \notin releases
      /\ cached[a] = None /\ calls[1].node = attempt[a].node
      /\ \A k \in 1..Len(calls) : k > 1 => calls[k].owner # a
  BY <1>1, <1>2 DEF Attended, OpensLast
<1>4. ~Pending(Close(a))
  <2> SUFFICES ASSUME NEW i \in 1..Len(calls), calls[i] = Close(a) PROVE FALSE
    BY DEF Pending
  <2>1. calls[i].owner = a /\ calls[i].op = "close"
    BY CallsAre
  <2>2. i = 1
    BY <1>2, <1>3, <2>1
  <2> QED
    BY <1>2, <2>1, <2>2
<1>5. tunnels[a] = None
  BY <1>1, <1>3, <1>4 DEF Attended, TunnelOwned, Halting
<1>6. calls[1].node \in Nodes
  BY <1>2, CallShape
<1>7. ASSUME Done PROVE ~Waiting(a)'
  <2>1. /\ Len(calls') = Len(calls) - 1
        /\ \A i \in 1..Len(calls') : calls'[i] = calls[i + 1]
    BY <1>1, <1>2, <1>7, Leaves
  <2>2. \A i \in 1..Len(calls') : i + 1 \in 1..Len(calls) /\ i + 1 > 1
    BY <1>2, <2>1
  <2> QED
    BY <1>3, <2>1, <2>2 DEF Waiting
<1> QED
  BY <1>2, <1>3, <1>5, <1>6, <1>7

(* Opening: the tunnel leads to the node of the attempt.                    *)
LEMMA OpenedAttended ==
  ASSUME TunnelInv, NEW a \in Attempts, Opened(a)
  PROVE  Alone(a) /\ Attended(a)'
<1>1. Holds("open", a)
  BY DEF Opened, OpenExisting, OpenDirect, Settled
<1>2. /\ phase = "up" /\ IsActive(a) /\ a \notin releases
      /\ cached[a] = None /\ tunnels[a] = None
      /\ Head(calls).node = attempt[a].node /\ Head(calls).node \in Nodes
      /\ Done => ~Waiting(a)'
  BY <1>1, OpenHolds
<1>3. /\ tunnels \in [Attempts -> Nodes \cup {None}]
      /\ cached \in [Attempts -> Nodes \cup {None}]
      /\ process \in [Attempts -> {None, "settling", "alive", "exited"}]
  BY DEF TunnelInv, TunnelTypes
<1>4. ~OpenExisting(a)
  BY <1>2 DEF OpenExisting, Usable
<1>5. /\ Done /\ UNCHANGED <<strays, attempt, releases, phase>>
      /\ tunnels'[a] = attempt[a].node /\ cached'[a] = attempt[a].node
      /\ process'[a] \in {None, "alive"}
      /\ \A b \in Attempts \ {a} : /\ tunnels'[b] = tunnels[b] /\ cached'[b] = cached[b]
                                   /\ process'[b] = process[b]
  BY <1>2, <1>3, <1>4 DEF Opened, OpenDirect, Settled
<1>6. Alone(a)
  BY <1>1, <1>2, <1>5 DEF Alone, Aside, QueueStep, Holds
<1>7. ~Waiting(a)' /\ attempt[a].node # None
  BY <1>2, <1>5, NoneAssumption
<1>8. OpensLast(a)'
  BY <1>7 DEF OpensLast, Waiting
<1>9. ClientStands(a)' /\ TunnelOwned(a)'
  BY <1>2, <1>5, <1>7 DEF ClientStands, TunnelOwned, IsActive
<1>10. ProcessKnown(a)'
  <2>1. tunnels'[a] # None /\ process'[a] # "settling"
    BY <1>2, <1>5, <1>7, NoneAssumption
  <2> QED
    BY <2>1 DEF ProcessKnown
<1> QED
  BY <1>6, <1>8, <1>9, <1>10 DEF Attended

(* A refused open leaves neither process nor tunnel.                        *)
LEMMA RefusedAttended ==
  ASSUME PoolInv, TunnelInv, NEW a \in Attempts, OpenFails(a)
  PROVE  Alone(a) /\ Attended(a)'
<1>1. /\ IsActive(a) /\ cached[a] = None /\ tunnels[a] = None /\ phase = "up"
      /\ Holds("open", a) /\ Done /\ ~Waiting(a)'
  BY OpenHolds DEF OpenFails, Refused
<1>2. /\ process \in [Attempts -> {None, "settling", "alive", "exited"}]
      /\ attempt \in [Attempts -> Attempt] /\ a \in Attempts
  BY DEF TunnelInv, TunnelTypes, PoolInv
<1>3. /\ UNCHANGED <<tunnels, strays, cached, phase>> /\ process'[a] = None
      /\ \A b \in Attempts \ {a} : /\ process'[b] = process[b] /\ attempt'[b] = attempt[b]
                                   /\ b \in releases' <=> b \in releases
  BY <1>2 DEF OpenFails, Refused, Becomes, poolVars
<1>4. Alone(a)
  BY <1>1, <1>3 DEF Alone, Aside, QueueStep, Holds
<1>5. OpensLast(a)'
  BY <1>1 DEF OpensLast, Waiting
<1>6. ClientStands(a)' /\ TunnelOwned(a)' /\ ProcessKnown(a)'
  BY <1>1, <1>3, NoneAssumption DEF ClientStands, TunnelOwned, ProcessKnown
<1> QED
  BY <1>4, <1>5, <1>6 DEF Attended

(* ssh is spawned: the call goes on holding the lock.                       *)
LEMMA SpawnAttended ==
  ASSUME TunnelInv, NEW a \in Attempts, Spawn(a), UNCHANGED poolVars
  PROVE  Alone(a) /\ Attended(a)'
<1>1. /\ cached[a] = None /\ tunnels[a] = None /\ phase = "up" /\ Holds("open", a)
      /\ Attended(a)
  BY OpenHolds DEF Spawn, TunnelInv
<1>2. /\ process \in [Attempts -> {None, "settling", "alive", "exited"}]
      /\ tunnels \in [Attempts -> Nodes \cup {None}]
  BY DEF TunnelInv, TunnelTypes
<1>3. /\ UNCHANGED <<calls, strays, attempt, cached, releases, phase>>
      /\ tunnels'[a] = None /\ process'[a] = "settling"
      /\ \A b \in Attempts \ {a} : tunnels'[b] = tunnels[b] /\ process'[b] = process[b]
  BY <1>2 DEF Spawn, poolVars
<1>4. Alone(a)
  BY <1>1, <1>3 DEF Alone, Aside, QueueStep
<1>5. OpensLast(a)'
  BY <1>1, <1>3 DEF Attended, OpensLast, IsActive
<1>6. ClientStands(a)' /\ TunnelOwned(a)' /\ ProcessKnown(a)'
  BY <1>1, <1>3 DEF ClientStands, TunnelOwned, ProcessKnown, Holds
<1> QED
  BY <1>4, <1>5, <1>6 DEF Attended

(* A close terminates the process, and takes the tunnel off the table.      *)
LEMMA CloseAttended ==
  ASSUME TunnelInv, NEW a \in Attempts, phase # "down", Closing(a)
  PROVE  Alone(a) /\ Attended(a)'
<1>1. /\ Queue /\ Attended(a) /\ Holds("close", a) /\ Done
      /\ process \in [Attempts -> {None, "settling", "alive", "exited"}]
      /\ tunnels \in [Attempts -> Nodes \cup {None}]
  BY DEF Closing, CloseTunnel, TunnelInv, TunnelTypes
<1>2. /\ UNCHANGED <<strays, attempt, cached, releases, phase>>
      /\ tunnels'[a] = None /\ process'[a] = None
      /\ \A b \in Attempts \ {a} : tunnels'[b] = tunnels[b] /\ process'[b] = process[b]
  BY <1>1 DEF Closing, CloseTunnel, poolVars
<1>3. Alone(a)
  BY <1>1, <1>2 DEF Alone, Aside, QueueStep, Holds
<1>4. /\ Len(calls) \in Nat \ {0} /\ Len(calls') = Len(calls) - 1
      /\ \A i \in 1..Len(calls') : calls'[i] = calls[i + 1]
      /\ calls[1].owner = a
  BY <1>1, Leaves, InQueue DEF Holds
<1>5. cached[a] = None
  BY <1>1, <1>4 DEF Attended, ClientStands, Waiting
<1>6. OpensLast(a)'
  <2> SUFFICES ASSUME NEW i \in 1..Len(calls'), calls'[i].op = "open", calls'[i].owner = a
               PROVE  /\ phase = "up" /\ IsActive(a) /\ a \notin releases
                      /\ cached[a] = None /\ calls'[i].node = attempt[a].node
                      /\ \A k \in 1..Len(calls') : k > i => calls'[k].owner # a
    BY <1>2 DEF OpensLast, IsActive
  <2>1. i + 1 \in 1..Len(calls) /\ calls[i + 1].op = "open" /\ calls[i + 1].owner = a
    BY <1>4
  <2>2. \A k \in 1..Len(calls) : k > i + 1 => calls[k].owner # a
    BY <1>1, <2>1 DEF Attended, OpensLast
  <2>3. ASSUME NEW k \in 1..Len(calls'), k > i PROVE calls'[k].owner # a
    <3>1. k + 1 \in 1..Len(calls) /\ k + 1 > i + 1
      BY <1>4, <2>3
    <3>2. calls'[k] = calls[k + 1]
      BY <1>4
    <3> QED
      BY <2>2, <3>1, <3>2
  <2> QED
    BY <1>1, <1>4, <2>1, <2>3 DEF Attended, OpensLast
<1>7. ClientStands(a)' /\ TunnelOwned(a)' /\ ProcessKnown(a)'
  BY <1>2, <1>5, NoneAssumption DEF ClientStands, TunnelOwned, ProcessKnown
<1> QED
  BY <1>3, <1>6, <1>7 DEF Attended

(* An ssh process exits by itself.                                          *)
LEMMA ExitAttended ==
  ASSUME TunnelInv, NEW a \in Attempts, ProcessExits(a), UNCHANGED poolVars
  PROVE  Alone(a) /\ Attended(a)'
<1>1. /\ Attended(a) /\ process[a] = "alive"
      /\ process \in [Attempts -> {None, "settling", "alive", "exited"}]
  BY DEF ProcessExits, TunnelInv, TunnelTypes
<1>2. phase # "down"
  BY <1>1, NoneAssumption DEF TunnelInv, Halting
<1>3. /\ UNCHANGED <<tunnels, calls, strays, attempt, cached, releases, phase>>
      /\ process'[a] = "exited"
      /\ \A b \in Attempts \ {a} : process'[b] = process[b]
  BY <1>1 DEF ProcessExits, poolVars
<1>4. Alone(a)
  BY <1>2, <1>3 DEF Alone, Aside, QueueStep
<1>5. OpensLast(a)' /\ ClientStands(a)' /\ TunnelOwned(a)'
  BY <1>1, <1>3 DEF Attended, OpensLast, ClientStands, TunnelOwned, Waiting, Pending,
                    IsActive, Close, CloseAll
<1>6. ProcessKnown(a)'
  BY <1>1, <1>3 DEF Attended, ProcessKnown
<1> QED
  BY <1>4, <1>5, <1>6 DEF Attended

-----------------------------------------------------------------------------
(* Stops and starts.                                                        *)
LEMMA StopAttended ==
  ASSUME TunnelInv, Stop
  PROVE  Queue' /\ Halting' /\ \A a \in Attempts : Attended(a)'
<1>1. Queue /\ Halting /\ ~Pending(CloseAll)
  BY DEF TunnelInv, Stop, Halting
<1>2. /\ Queue' /\ Pending(CloseAll)'
      /\ \A i \in 1..Len(calls') :
           calls'[i] = CloseAll \/ \E k \in Left : calls'[i] = calls[k]
      /\ \A k \in Left : \E i \in 1..Len(calls') : calls'[i] = calls[k]
  BY <1>1, OpensLeave DEF Stop
<1>3. /\ phase = "up" /\ phase' = "stopping" /\ cached' = [a \in Attempts |-> None]
      /\ strays' = strays \cup {o \in Attempts : process[o] = "settling"}
      /\ UNCHANGED <<tunnels, process, attempt, releases>>
  BY DEF Stop, CancelOpens
<1>4. ASSUME NEW a \in Attempts PROVE Attended(a)'
  <2>1. Attended(a)
    BY DEF TunnelInv
  <2>2. OpensLast(a)'
    <3>1. \A k \in Left : calls[k].op # "open"
      BY DEF Left
    <3> QED
      BY <1>2, <3>1, CallsAre DEF OpensLast
  <2>3. ClientStands(a)'
    BY <1>3 DEF ClientStands
  <2>4. Pending(Close(a)) => Pending(Close(a))'
    <3>1. ASSUME NEW i \in 1..Len(calls), calls[i] = Close(a) PROVE i \in Left
      BY <3>1, CallsAre DEF Left
    <3> QED
      BY <1>2, <3>1 DEF Pending, Close
  <2>5. TunnelOwned(a)'
    BY <1>1, <1>2, <1>3, <2>1, <2>4
       DEF Attended, TunnelOwned, ClientStands, IsActive, Close, CloseAll
  <2>6. ProcessKnown(a)'
    BY <1>3, <2>1 DEF Attended, ProcessKnown
  <2> QED
    BY <2>2, <2>3, <2>5, <2>6 DEF Attended
<1> QED
  BY <1>2, <1>3, <1>4 DEF Halting

LEMMA ForgetAttended ==
  ASSUME TunnelInv, Kill \/ Stopped
  PROVE  Queue' /\ Halting' /\ \A a \in Attempts : Attended(a)'
<1>1. /\ phase' = "down" /\ releases' = {} /\ calls' = <<>>
      /\ tunnels' = [o \in Attempts |-> None] /\ process' = [o \in Attempts |-> None]
  BY DEF Kill, Stopped, Forget
<1>2. ASSUME NEW a \in Attempts PROVE cached'[a] = None
  BY DEF Kill, Stopped, TunnelInv, Attended, ClientStands
<1>3. Len(calls') = 0
  BY <1>1
<1>4. Queue' /\ Halting'
  BY <1>1, <1>3 DEF Queue, Halting, Pending
<1>5. ASSUME NEW a \in Attempts PROVE Attended(a)'
  BY <1>1, <1>2, <1>3, NoneAssumption
     DEF Attended, OpensLast, ClientStands, TunnelOwned, ProcessKnown
<1> QED
  BY <1>4, <1>5

LEMMA RestartAttended ==
  ASSUME TunnelInv, Restart
  PROVE  Queue' /\ Halting' /\ \A a \in Attempts : Attended(a)'
<1>1. /\ calls' = <<>> /\ phase' = "up" /\ Queue
      /\ \A a \in Attempts : tunnels'[a] = None /\ process'[a] = None /\ cached'[a] = None
  BY DEF Restart, TunnelInv, Halting, tunnelVars, Attended, ClientStands
<1>2. Len(calls') = 0 /\ Queue'
  BY <1>1 DEF Queue
<1>3. Halting'
  BY <1>1, <1>2 DEF Halting, Pending
<1>4. ASSUME NEW a \in Attempts PROVE Attended(a)'
  BY <1>1, <1>2, NoneAssumption
     DEF Attended, OpensLast, ClientStands, TunnelOwned, ProcessKnown
<1> QED
  BY <1>2, <1>3, <1>4

LEMMA CloseRestAttended ==
  ASSUME TunnelInv, CloseRest
  PROVE  Queue' /\ Halting' /\ \A a \in Attempts : Attended(a)'
<1>1. /\ Queue /\ Halting /\ Holds("close_all", None) /\ Done
      /\ tunnels' = [o \in Attempts |-> None]
      /\ process' = [o \in Attempts |-> IF tunnels[o] = None THEN process[o] ELSE None]
      /\ UNCHANGED <<strays, attempt, cached, releases, phase>>
  BY DEF CloseRest, CloseEvery, TunnelInv, poolVars
<1>2. phase = "stopping"
  <2>1. /\ Len(calls) \in Nat \ {0} /\ calls[1] \in QueueCalls /\ calls[1].op = "close_all"
    BY <1>1, InQueue DEF Holds
  <2>2. calls[1] = CloseAll
    BY <2>1, CallShape
  <2> QED
    BY <1>1, <2>1, <2>2 DEF Halting, Pending
<1>3. /\ Queue' /\ Len(calls') = Len(calls) - 1 /\ Len(calls) \in Nat
      /\ \A i \in 1..Len(calls') : calls'[i] = calls[i + 1] /\ i + 1 \in 1..Len(calls)
  <2>1. calls # <<>>
    BY <1>1 DEF Holds
  <2> QED
    BY <1>1, <2>1, Leaves, InQueue
<1>4. ASSUME NEW a \in Attempts PROVE Attended(a)'
  <2>1. Attended(a) /\ ~Holds("open", a)
    BY <1>2, OpenHolds DEF TunnelInv
  <2>2. OpensLast(a)'
    BY <1>2, <1>3, <2>1 DEF Attended, OpensLast
  <2>3. ClientStands(a)' /\ TunnelOwned(a)'
    BY <1>1, <1>2, <2>1 DEF Attended, ClientStands, TunnelOwned
  <2>4. ProcessKnown(a)'
    BY <1>1, <1>2, <2>1, NoneAssumption DEF Attended, ProcessKnown
  <2> QED
    BY <2>2, <2>3, <2>4 DEF Attended
<1> QED
  BY <1>1, <1>2, <1>3, <1>4 DEF Halting

-----------------------------------------------------------------------------
(* The types.                                                               *)
LEMMA TunnelTyped ==
  ASSUME PoolInv, TunnelInv, [Next]_vars
  PROVE  TunnelTypes'
<1> USE DEF TunnelTypes
<1>1. TunnelTypes
  BY DEF TunnelInv
<1>2. ASSUME NEW a \in Attempts, Work(a) PROVE TunnelTypes'
  BY <1>1, <1>2 DEF Work, Claim, ClaimWithoutClient, NoNode, Dispatched, CallFails, Ends,
     Reconnect, NoClient, Restore, Cancel, Becomes, tunnelVars, poolVars
<1>3. ASSUME NEW a \in Attempts, Opened(a) PROVE TunnelTypes'
  <2>1. Holds("open", a)
    BY <1>3 DEF Opened, OpenExisting, OpenDirect, Settled
  <2>2. Head(calls).node \in Nodes
    BY <2>1, OpenHolds
  <2>3. /\ tunnels' \in [Attempts -> Nodes \cup {None}]
        /\ process' \in [Attempts -> {None, "settling", "alive", "exited"}]
        /\ UNCHANGED <<strays, exits, releases, phase, stops>>
    BY <1>1, <1>3, <2>2 DEF Opened, OpenExisting, OpenDirect, Settled
  <2>4. cached' \in [Attempts -> Nodes \cup {None}]
    BY <1>1, <1>3, <2>3 DEF Opened
  <2> QED
    BY <1>1, <2>3, <2>4
<1>4. ASSUME NEW a \in Attempts, BeginRelease(a) \/ Closing(a) \/ OpenFails(a)
                                 \/ (Spawn(a) /\ UNCHANGED <<adminVars, poolVars>>)
      PROVE  TunnelTypes'
  BY <1>1, <1>4 DEF BeginRelease, Closing, CloseTunnel, OpenFails, Refused, Spawn, Becomes,
                    poolVars
<1>5. ASSUME NEW a \in Attempts, ProcessExits(a), UNCHANGED poolVars PROVE TunnelTypes'
  BY <1>1, <1>5, ExitsAssumption DEF ProcessExits, poolVars
<1>6. CASE CloseRest
  BY <1>1, <1>6 DEF CloseRest, CloseEvery, poolVars
<1>7. CASE Stop
  BY <1>1, <1>7, StopsAssumption DEF Stop, CancelOpens
<1>8. CASE Kill \/ Stopped
  BY <1>1, <1>8, StopsAssumption DEF Kill, Stopped, Forget
<1>9. CASE Restart
  BY <1>1, <1>9 DEF Restart, tunnelVars
<1>10. CASE UNCHANGED <<tunnelVars, poolVars>>
  BY <1>1, <1>10 DEF tunnelVars, poolVars
<1> QED
  BY <1>2, <1>3, <1>4, <1>5, <1>6, <1>7, <1>8, <1>9, <1>10 DEF Next, Connect, vars, poolVars

(* One step of the pool keeps every tunnel in order.                        *)
LEMMA TunnelStep ==
  ASSUME PoolInv, TunnelInv, [Next]_vars
  PROVE  TunnelInv'
<1>1. ASSUME NEW a \in Attempts, Alone(a), Attended(a)'
      PROVE  Queue' /\ Halting' /\ \A b \in Attempts : Attended(b)'
  BY <1>1, OneActs
<1>2. ASSUME NEW a \in Attempts, phase = "up", Work(a)
      PROVE  Queue' /\ Halting' /\ \A b \in Attempts : Attended(b)'
  BY <1>1, <1>2, WorkAttended
<1>3. ASSUME NEW a \in Attempts, phase # "down", BeginRelease(a) \/ Closing(a) \/ Connect(a)
      PROVE  Queue' /\ Halting' /\ \A b \in Attempts : Attended(b)'
  BY <1>1, <1>3, ReleaseAttended, CloseAttended, OpenedAttended, RefusedAttended, SpawnAttended
     DEF Connect
<1>4. ASSUME NEW a \in Attempts, ProcessExits(a), UNCHANGED poolVars
      PROVE  Queue' /\ Halting' /\ \A b \in Attempts : Attended(b)'
  BY <1>1, <1>4, ExitAttended
<1>5. ASSUME CloseRest \/ Stop \/ Kill \/ Stopped \/ Restart
      PROVE  Queue' /\ Halting' /\ \A b \in Attempts : Attended(b)'
  BY <1>5, CloseRestAttended, StopAttended, ForgetAttended, RestartAttended
<1>6. ASSUME UNCHANGED <<tunnelVars, poolVars>>
      PROVE  Queue' /\ Halting' /\ \A b \in Attempts : Attended(b)'
  <2>1. Queue /\ Halting
    BY DEF TunnelInv
  <2>2. UNCHANGED <<tunnels, process, calls, strays, attempt, cached, releases, phase>>
    BY <1>6 DEF tunnelVars, poolVars
  <2>3. Queue' /\ Halting'
    BY <2>1, <2>2 DEF Queue, Halting, Pending
  <2>4. ASSUME NEW a \in Attempts PROVE Attended(a)'
    BY <2>1, <2>2, AsideOfStep DEF Aside, TunnelInv
  <2> QED
    BY <2>3, <2>4
<1>7. Queue' /\ Halting' /\ \A b \in Attempts : Attended(b)'
  BY <1>2, <1>3, <1>4, <1>5, <1>6 DEF Next, vars, poolVars
<1> QED
  BY <1>7, TunnelTyped DEF TunnelInv

LEMMA InitTunnels == Init => TunnelInv
<1> SUFFICES ASSUME Init PROVE TunnelInv
  OBVIOUS
<1>1. /\ tunnels = [a \in Attempts |-> None] /\ process = [a \in Attempts |-> None]
      /\ cached = [a \in Attempts |-> None] /\ calls = <<>> /\ Len(calls) = 0
      /\ strays = {} /\ releases = {} /\ phase = "up" /\ exits = 0 /\ stops = 0
  BY DEF Init, TunnelsInit
<1>2. TunnelTypes
  BY <1>1, ExitsAssumption, StopsAssumption DEF TunnelTypes
<1>3. Queue /\ Halting
  BY <1>1 DEF Queue, Halting, Pending
<1>4. ASSUME NEW a \in Attempts PROVE Attended(a)
  BY <1>1, NoneAssumption DEF Attended, OpensLast, ClientStands, TunnelOwned, ProcessKnown
<1> QED
  BY <1>2, <1>3, <1>4 DEF TunnelInv

LEMMA TunnelInvariant == Spec => [](PoolInv /\ TunnelInv)
<1>1. Init => PoolInv /\ TunnelInv
  BY InitPool, InitTunnels
<1>2. PoolInv /\ TunnelInv /\ [Next]_vars => (PoolInv /\ TunnelInv)'
  BY PoolStep, TunnelStep
<1> QED
  BY <1>1, <1>2, PTL DEF Spec

-----------------------------------------------------------------------------
(* The nodes, the attempts, the tunnels and the queue keep their types, and *)
(* every call that waits for the lock is one that the provider has.         *)
THEOREM PoolTypeCorrect == Spec => []PoolTypeOK
<1>1. PoolInv /\ TunnelInv => PoolTypeOK
  BY InQueue, CallShape DEF PoolInv, TunnelInv, TunnelTypes, PoolTypeOK
<1> QED
  BY <1>1, TunnelInvariant, PTL

(* Until its release begins, the client of an attempt leads through the     *)
(* attempt's own tunnel, which no earlier release has closed, to the node   *)
(* that the attempt was placed on (nodes/tunnels.py, execution/manager.py). *)
THEOREM ClientsHaveTunnels == Spec => []ClientHasItsTunnel
<1>1. TunnelInv => ClientHasItsTunnel
  BY DEF TunnelInv, Attended, ClientStands, ClientHasItsTunnel
<1> QED
  BY <1>1, TunnelInvariant, PTL

LEMMA CloseIsWaitedFor ==
  ASSUME NEW a \in Attempts, ~Waiting(a), Queue
  PROVE  ~Pending(Close(a)) /\ ~Holds("open", a)
<1>1. ~Pending(Close(a))
  BY CallsAre DEF Pending, Waiting
<1>2. ~Holds("open", a)
  BY InQueue DEF Holds, Waiting
<1> QED
  BY <1>1, <1>2

(* When an attempt has left the active statuses and its release is done,    *)
(* neither client nor tunnel nor ssh process is left of it, whatever opens, *)
(* closes, exits, stops and kills came in between.                          *)
THEOREM NothingIsLeft == Spec => []NothingHeldAfterRelease
<1>1. TunnelInv => NothingHeldAfterRelease
  <2> SUFFICES ASSUME TunnelInv, NEW a \in Attempts,
                      ~IsActive(a), a \notin releases, ~Waiting(a)
               PROVE  /\ cached[a] = None /\ tunnels[a] = None
                      /\ process[a] = None \/ (phase = "stopping" /\ a \in strays)
    BY DEF NothingHeldAfterRelease
  <2>1. Attended(a) /\ Queue /\ process[a] \in {None, "settling", "alive", "exited"}
    BY DEF TunnelInv, TunnelTypes
  <2>2. cached[a] = None /\ tunnels[a] = None
    BY <2>1, CloseIsWaitedFor DEF Attended, ClientStands, TunnelOwned
  <2>3. process[a] = None \/ (phase = "stopping" /\ a \in strays)
    BY <2>1, <2>2, CloseIsWaitedFor DEF Attended, ProcessKnown
  <2> QED
    BY <2>2, <2>3
<1> QED
  BY <1>1, TunnelInvariant, PTL

(* No ssh process is lost sight of: it is in the table of tunnels, or in    *)
(* the settle window of the call that holds the lock, or was abandoned by   *)
(* a stop that cancelled this call.                                         *)
THEOREM ProcessesAreInSight == Spec => []ProcessesAreKnown
<1>1. TunnelInv => ProcessesAreKnown
  BY DEF TunnelInv, TunnelTypes, Attended, ProcessKnown, ProcessesAreKnown
<1> QED
  BY <1>1, TunnelInvariant, PTL
=============================================================================
