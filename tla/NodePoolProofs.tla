--------------------------- MODULE NodePoolProofs ---------------------------
(***************************************************************************)
(* The dispatch lock does its work for any number of attempts, nodes,       *)
(* edits, diagnoses, ssh exits and restarts: no dispatch overfills a node.  *)
(***************************************************************************)
EXTENDS NodePool, FiniteSetTheorems, TLAPS

PoolInv == AdminTypeOK /\ attempt \in [Attempts -> Attempt]

-----------------------------------------------------------------------------
(* The tables of the administration keep their types.                       *)
(* A row that is put in keeps a table typed, one that is taken out too.      *)
LEMMA PutTyped ==
  ASSUME NEW f, NEW V, DOMAIN f \subseteq Nodes, f \in [DOMAIN f -> V],
         NEW n \in Nodes, NEW v \in V
  PROVE  DOMAIN Put(f, n, v) \subseteq Nodes /\ Put(f, n, v) \in [DOMAIN Put(f, n, v) -> V]
  BY DEF Put

LEMMA WithoutTyped ==
  ASSUME NEW f, NEW V, DOMAIN f \subseteq Nodes, f \in [DOMAIN f -> V], NEW n
  PROVE  DOMAIN Without(f, n) \subseteq Nodes /\ Without(f, n) \in [DOMAIN Without(f, n) -> V]
  BY DEF Without

(* The table of clients, too.                                                *)
LEMMA InstallTyped ==
  ASSUME DOMAIN clients \subseteq Nodes, clients \in [DOMAIN clients -> Addresses],
         NEW n \in Nodes, NEW row \in NodeRow, NEW known, Install(n, row, known)
  PROVE  DOMAIN clients' \subseteq Nodes /\ clients' \in [DOMAIN clients' -> Addresses]
<1>1. row.address \in Addresses
  BY DEF NodeRow
<1>2. CASE n \in known
  BY <1>1, <1>2, PutTyped DEF Install
<1>3. CASE n \notin known
  BY <1>3, WithoutTyped DEF Install
<1> QED
  BY <1>2, <1>3

(* What a user enters is a row, with the address that it had or a new one.  *)
LEMMA EnteredRow ==
  ASSUME AdminTypeOK, Edit, NEW entered \in Settings
  PROVE  /\ Fresh \in Addresses
         /\ \A address \in Addresses : At(address, entered) \in NodeRow
         /\ \A address \in Addresses, k \in Nat :
              [At(address, entered) EXCEPT !.running = k] \in NodeRow
<1>1. Fresh \in Addresses
  BY BoundsAssumption DEF AdminTypeOK, Edit, Fresh, Addresses
<1>2. At(1, entered) \in NodeRow
  BY SettingsAssumption
<1>3. ASSUME NEW address \in Addresses PROVE At(address, entered) \in NodeRow
  BY <1>2 DEF At, NodeRow
<1>4. ASSUME NEW address \in Addresses, NEW k \in Nat
      PROVE  [At(address, entered) EXCEPT !.running = k] \in NodeRow
  BY <1>3 DEF NodeRow
<1> QED
  BY <1>1, <1>3, <1>4

(* What a diagnosis writes back is a row.                                    *)
LEMMA WriteBackTyped ==
  ASSUME AdminTypeOK, NEW d \in diagnosing, NEW row \in NodeRow, WriteBack(d, row)
  PROVE  AdminTypeOK'
<1>1. d.node \in Nodes
  BY DEF AdminTypeOK, Diagnosis
<1>2. DOMAIN nodes' \subseteq Nodes /\ nodes' \in [DOMAIN nodes' -> NodeRow]
  BY <1>1, PutTyped DEF AdminTypeOK, WriteBack
<1> QED
  BY <1>1, <1>2 DEF AdminTypeOK, WriteBack

(* What it copies as well.                                                   *)
LEMMA DiagnosingTyped ==
  ASSUME AdminTypeOK, NEW n \in Nodes, NEW row \in NodeRow, Diagnosing(n, row)
  PROVE  diagnosing' \subseteq Diagnosis /\ diagnoses' \in 0..MaxDiagnoses
<1>1. [node |-> n, copy |-> row, asked |-> FALSE] \in Diagnosis
  BY DEF Diagnosis
<1>2. diagnoses' \in 0..MaxDiagnoses
  BY BoundsAssumption DEF AdminTypeOK, Diagnosing
<1> QED
  BY <1>1, <1>2 DEF AdminTypeOK, Diagnosing

(* One step for each operation on nodes.                                     *)
LEMMA AdminTyped ==
  ASSUME AdminTypeOK, Administer
  PROVE  AdminTypeOK'
<1>1. \A n \in DOMAIN nodes : nodes[n] \in NodeRow /\ nodes[n].running \in Nat
                              /\ nodes[n].address \in Addresses
  BY DEF AdminTypeOK, NodeRow
<1>2. Edit => edits' \in 0..MaxEdits
  BY BoundsAssumption DEF AdminTypeOK, Edit
<1>3. ASSUME NEW n \in Nodes, NEW entered \in Settings, NEW given \in Credentials,
             CreateNode(n, entered, given)
      PROVE  AdminTypeOK'
  <2>1. At(Fresh, entered) \in NodeRow
    BY <1>3, EnteredRow DEF CreateNode
  <2>2. DOMAIN nodes' \subseteq Nodes /\ nodes' \in [DOMAIN nodes' -> NodeRow]
    BY <1>3, <2>1, PutTyped DEF CreateNode, AdminTypeOK
  <2>3. DOMAIN clients' \subseteq Nodes /\ clients' \in [DOMAIN clients' -> Addresses]
    BY <1>3, <2>1, InstallTyped DEF CreateNode, AdminTypeOK
  <2>4. diagnosing' \subseteq Diagnosis /\ diagnoses' \in 0..MaxDiagnoses
    BY <1>3, <2>1, DiagnosingTyped DEF CreateNode
  <2> QED
    BY <1>2, <1>3, <2>2, <2>3, <2>4 DEF CreateNode, Store, AdminTypeOK
<1>4. ASSUME NEW n \in Nodes, NEW entered \in Settings, NEW given \in Credentials,
             NEW address \in Addresses, UpdateNode(n, address, entered, given)
      PROVE  AdminTypeOK'
  <2> DEFINE row == [At(address, entered) EXCEPT !.running = nodes[n].running]
  <2>1. row \in NodeRow
    BY <1>1, <1>4, EnteredRow DEF UpdateNode
  <2>2. /\ nodes' = Put(nodes, n, row) /\ Install(n, row, tokens')
    BY <1>4 DEF UpdateNode
  <2> HIDE DEF row
  <2>3. DOMAIN nodes' \subseteq Nodes /\ nodes' \in [DOMAIN nodes' -> NodeRow]
    BY <2>1, <2>2, PutTyped DEF AdminTypeOK
  <2>4. DOMAIN clients' \subseteq Nodes /\ clients' \in [DOMAIN clients' -> Addresses]
    BY <2>1, <2>2, InstallTyped DEF AdminTypeOK
  <2> QED
    BY <1>2, <1>4, <2>3, <2>4 DEF UpdateNode, Store, AdminTypeOK
<1>5. ASSUME NEW n \in Nodes, NEW entered \in Settings, NEW referenced \in BOOLEAN,
             CreateFails(n, entered, referenced)
      PROVE  AdminTypeOK'
  <2>1. At(Fresh, entered) \in NodeRow
    BY <1>5, EnteredRow DEF CreateFails
  <2>2. DOMAIN nodes' \subseteq Nodes /\ nodes' \in [DOMAIN nodes' -> NodeRow]
    BY <1>5, <2>1, PutTyped, WithoutTyped DEF CreateFails, AdminTypeOK
  <2> QED
    BY <1>2, <1>5, <2>2 DEF CreateFails, AdminTypeOK
<1>6. ASSUME NEW n \in Nodes, NEW entered \in Settings, NEW address \in Addresses,
             UpdateFails(n, address, entered)
      PROVE  AdminTypeOK'
  <2> DEFINE row == [At(address, entered) EXCEPT !.running = nodes[n].running]
  <2>1. row \in NodeRow
    BY <1>1, <1>6, EnteredRow DEF UpdateFails
  <2>2. nodes' = Put(nodes, n, row)
    BY <1>6 DEF UpdateFails
  <2> HIDE DEF row
  <2>3. DOMAIN nodes' \subseteq Nodes /\ nodes' \in [DOMAIN nodes' -> NodeRow]
    BY <2>1, <2>2, PutTyped DEF AdminTypeOK
  <2> QED
    BY <1>2, <1>6, <2>3 DEF UpdateFails, AdminTypeOK
<1>7. ASSUME NEW n \in Nodes, DeleteNode(n) PROVE AdminTypeOK'
  <2>1. DOMAIN nodes' \subseteq Nodes /\ nodes' \in [DOMAIN nodes' -> NodeRow]
    BY <1>7, WithoutTyped DEF DeleteNode, AdminTypeOK
  <2>2. DOMAIN clients' \subseteq Nodes /\ clients' \in [DOMAIN clients' -> Addresses]
    BY <1>7, WithoutTyped DEF DeleteNode, AdminTypeOK
  <2> QED
    BY <1>2, <1>7, <2>1, <2>2 DEF DeleteNode, AdminTypeOK
<1>8. ASSUME NEW n \in Nodes, BeginDiagnosis(n) PROVE AdminTypeOK'
  <2>1. diagnosing' \subseteq Diagnosis /\ diagnoses' \in 0..MaxDiagnoses
    BY <1>1, <1>8, DiagnosingTyped DEF BeginDiagnosis
  <2> QED
    BY <1>8, <2>1 DEF BeginDiagnosis, AdminTypeOK
<1>9. ASSUME NEW d \in diagnosing, AskAgent(d) PROVE AdminTypeOK'
  <2>1. d \in Diagnosis
    BY DEF AdminTypeOK
  <2>2. [d EXCEPT !.asked = TRUE] \in Diagnosis
    BY <2>1 DEF Diagnosis
  <2> QED
    BY <1>9, <2>2 DEF AskAgent, AdminTypeOK
<1>10. ASSUME NEW d \in diagnosing, Diagnosed(d) PROVE AdminTypeOK'
  <2>1. d.copy \in NodeRow /\ Offers[d.node] \subseteq Labels
    BY OffersAssumption DEF AdminTypeOK, Diagnosis
  <2>2. \A s \in {"online", "degraded"} :
          [d.copy EXCEPT !.status = s, !.labels = Offers[d.node]] \in NodeRow
    BY <2>1 DEF NodeRow, NodeStatus
  <2> QED
    BY <1>10, <2>2, WriteBackTyped DEF Diagnosed
<1>11. ASSUME NEW d \in diagnosing, DiagnosisFails(d) PROVE AdminTypeOK'
  <2>1. d.copy \in NodeRow
    BY DEF AdminTypeOK, Diagnosis
  <2>2. [d.copy EXCEPT !.status = "offline"] \in NodeRow
    BY <2>1 DEF NodeRow, NodeStatus
  <2> QED
    BY <1>11, <2>2, WriteBackTyped DEF DiagnosisFails
<1> QED
  BY <1>3, <1>4, <1>5, <1>6, <1>7, <1>8, <1>9, <1>10, <1>11 DEF Administer, Referenced

-----------------------------------------------------------------------------
(* Loads.                                                                   *)
On(n) == {a \in Attempts : IsActive(a) /\ attempt[a].node = n}

(* The load of a node is a number, and counts a finite set.                  *)
LEMMA LoadIsCount ==
  \A n : /\ Load(n) = Cardinality(On(n)) /\ Load(n) \in Nat
         /\ IsFiniteSet(On(n)) /\ On(n) \in SUBSET Attempts
<1> SUFFICES ASSUME NEW n
             PROVE  /\ Load(n) = Cardinality(On(n)) /\ Load(n) \in Nat
                    /\ IsFiniteSet(On(n)) /\ On(n) \in SUBSET Attempts
  OBVIOUS
<1>1. On(n) \in SUBSET Attempts /\ Load(n) = Cardinality(On(n))
  BY DEF On, Load
<1>2. IsFiniteSet(On(n))
  BY <1>1, FS_Subset, AttemptsAssumption
<1> QED
  BY <1>1, <1>2, FS_CardinalityType

(* A step after which every active attempt was active before, on the same   *)
(* node, loads no node further.                                            *)
LEMMA NoneAdded ==
  ASSUME \A a \in Attempts :
           IsActive(a)' => IsActive(a) /\ attempt'[a].node = attempt[a].node
  PROVE  \A n : Load(n)' <= Load(n) /\ Load(n)' \in Nat
<1> SUFFICES ASSUME NEW n PROVE Load(n)' <= Load(n) /\ Load(n)' \in Nat
  OBVIOUS
<1>1. On(n)' \in SUBSET On(n)
  BY DEF On
<1>2. Load(n)' = Cardinality(On(n)')
  BY DEF On, Load
<1>3. Cardinality(On(n)') <= Cardinality(On(n)) /\ IsFiniteSet(On(n)')
  BY <1>1, FS_Subset, LoadIsCount
<1> QED
  BY <1>2, <1>3, LoadIsCount, FS_CardinalityType

(* A node that is chosen has room, by its own figure and by the count.      *)
LEMMA ChosenHasRoom ==
  ASSUME PoolInv, NEW a \in Attempts, NEW n \in Placements(a)
  PROVE  n \in DOMAIN nodes /\ Load(n) < nodes[n].max /\ nodes[n].max \in Nat
<1>1. n \in DOMAIN Available /\ HasRoom(Available[n])
  <2>1. CASE Keeps(a)
    BY <2>1 DEF Placements, Keeps, Available
  <2>2. CASE ~Keeps(a)
    BY <2>2 DEF Placements, Selected, Preferred, Eligible, Matching
  <2> QED
    BY <2>1, <2>2
<1>2. n \in DOMAIN nodes /\ nodes[n] \in NodeRow
  BY <1>1 DEF Available, PoolInv, AdminTypeOK
<1>3. /\ Available[n].running = Larger(nodes[n].running, Load(n))
      /\ Available[n].max = nodes[n].max
  BY <1>2 DEF Available, NodeRow
<1>4. Larger(nodes[n].running, Load(n)) < nodes[n].max
  BY <1>1, <1>3 DEF HasRoom
<1> QED
  BY <1>2, <1>4, LoadIsCount DEF Larger, NodeRow

Kept(n) == Load(n)' > Load(n) => n \in DOMAIN nodes /\ Load(n)' <= nodes[n].max

(* A claim adds one attempt to a node that has room, and to no other.        *)
LEMMA ClaimKeeps ==
  ASSUME PoolInv, NEW a \in Attempts, NEW m \in Nodes, Claim(a, m), NEW n \in Nodes
  PROVE  Kept(n) /\ attempt' \in [Attempts -> Attempt]
<1>1. attempt[a] \in Attempt /\ ~IsActive(a)
  BY DEF PoolInv, Claim, IsActive, Active
<1>2. /\ \A b \in Attempts \ {a} : attempt'[b] = attempt[b]
      /\ attempt'[a] = [status |-> "dispatching", node |-> m]
      /\ attempt' \in [Attempts -> Attempt]
  BY <1>1 DEF PoolInv, Claim, Attempt, Status, Active
<1>3. On(n)' = IF n = m THEN On(n) \cup {a} ELSE On(n)
  BY <1>1, <1>2 DEF On, IsActive, Active
<1>4. Load(n)' = Cardinality(On(n)')
  BY DEF On, Load
<1>5. CASE n = m
  <2>1. n \in DOMAIN nodes /\ Load(n) < nodes[n].max /\ nodes[n].max \in Nat
    BY <1>5, ChosenHasRoom DEF Claim
  <2>2. a \notin On(n)
    BY <1>1 DEF On
  <2>3. Load(n)' = Load(n) + 1
    <3>1. Load(n)' = Cardinality(On(n) \cup {a})
      BY <1>3, <1>4, <1>5
    <3>2. IsFiniteSet(On(n)) /\ Load(n) = Cardinality(On(n))
      BY LoadIsCount
    <3>3. Cardinality(On(n) \cup {a}) = Cardinality(On(n)) + 1
      BY <2>2, <3>2, FS_AddElement
    <3> QED
      BY <3>1, <3>2, <3>3
  <2> QED
    BY <1>2, <2>1, <2>3, LoadIsCount DEF Kept
<1>6. CASE n # m
  <2>1. Load(n)' = Load(n)
    BY <1>3, <1>4, <1>6, LoadIsCount
  <2> QED
    BY <1>2, <2>1, LoadIsCount DEF Kept
<1> QED
  BY <1>5, <1>6

(* All other steps move an attempt among the active statuses or out of them. *)
Quiet == /\ attempt' \in [Attempts -> Attempt]
         /\ \A a \in Attempts :
              IsActive(a)' => IsActive(a) /\ attempt'[a].node = attempt[a].node

(* Becoming active is for those that are active already.                     *)
LEMMA BecomesQuiet ==
  ASSUME PoolInv, NEW a \in Attempts, NEW status \in Status, Becomes(a, status),
         status \in Active => IsActive(a)
  PROVE  Quiet
<1>1. attempt[a] \in Attempt
  BY DEF PoolInv
<1>2. /\ \A b \in Attempts \ {a} : attempt'[b] = attempt[b]
      /\ attempt'[a] = [status |-> status, node |-> attempt[a].node]
  BY <1>1 DEF PoolInv, Becomes, Attempt
<1>3. attempt' \in [Attempts -> Attempt]
  BY <1>1, <1>2 DEF PoolInv, Becomes, Attempt
<1> QED
  BY <1>2, <1>3 DEF Quiet, IsActive

(* Nor does a step that leaves the table alone.                              *)
LEMMA UnchangedQuiet == PoolInv /\ UNCHANGED attempt => Quiet
  BY DEF Quiet, PoolInv, IsActive

(* Of what coroutines do, a claim alone makes an attempt active.             *)
LEMMA WorkQuiet ==
  ASSUME PoolInv, NEW a \in Attempts, Work(a), ~\E n \in Nodes : Claim(a, n)
  PROVE  Quiet
<1> USE DEF Status, Active
<1>1. ASSUME NEW n \in Nodes, ClaimWithoutClient(a, n) PROVE Quiet
  <2>1. attempt[a] \in Attempt
    BY DEF PoolInv
  <2>2. /\ \A b \in Attempts \ {a} : attempt'[b] = attempt[b]
        /\ attempt'[a] = [status |-> "ended", node |-> n]
        /\ attempt' \in [Attempts -> Attempt]
    BY <1>1, <2>1 DEF PoolInv, ClaimWithoutClient, Attempt
  <2> QED
    BY <2>2 DEF Quiet, IsActive
<1>2. CASE NoNode(a) \/ Ends(a) \/ NoClient(a)
  BY <1>2, BecomesQuiet DEF NoNode, Ends, NoClient
<1>3. CASE Dispatched(a)
  BY <1>3, BecomesQuiet DEF Dispatched, IsActive
<1>4. CASE CallFails(a)
  BY <1>4, BecomesQuiet DEF CallFails
<1>5. CASE Reconnect(a)
  BY <1>5, UnchangedQuiet DEF Reconnect, poolVars
<1>6. CASE Restore(a)
  BY <1>6, BecomesQuiet DEF Restore
<1>7. CASE Cancel(a)
  BY <1>7, BecomesQuiet DEF Cancel, IsActive
<1> QED
  BY <1>1, <1>2, <1>3, <1>4, <1>5, <1>6, <1>7 DEF Work

(* One step: the invariant is kept, and no node is loaded beyond its room.   *)
LEMMA PoolStep ==
  ASSUME PoolInv, [Next]_vars
  PROVE  PoolInv' /\ \A n \in Nodes : Kept(n)
<1>1. ASSUME Quiet PROVE attempt' \in [Attempts -> Attempt] /\ \A n \in Nodes : Kept(n)
  <2>1. \A n : Load(n)' <= Load(n) /\ Load(n)' \in Nat
    BY <1>1, NoneAdded DEF Quiet
  <2> QED
    BY <1>1, <2>1, LoadIsCount DEF Kept, Quiet
<1>2. UNCHANGED adminVars => AdminTypeOK'
  BY DEF adminVars, PoolInv, AdminTypeOK
<1>3. ASSUME UNCHANGED adminVars, Quiet PROVE PoolInv' /\ \A n \in Nodes : Kept(n)
  BY <1>1, <1>2, <1>3 DEF PoolInv
<1>4. ASSUME NEW a \in Attempts, Work(a) PROVE PoolInv' /\ \A n \in Nodes : Kept(n)
  <2>1. UNCHANGED adminVars
    BY <1>4 DEF Work, Claim, ClaimWithoutClient, NoNode, Dispatched, CallFails, Ends,
                Reconnect, NoClient, Restore, Cancel
  <2>2. CASE \E m \in Nodes : Claim(a, m)
    BY <1>2, <2>1, <2>2, ClaimKeeps DEF PoolInv
  <2>3. CASE ~\E m \in Nodes : Claim(a, m)
    BY <1>3, <1>4, <2>1, <2>3, WorkQuiet
  <2> QED
    BY <2>2, <2>3
<1>5. CASE Administer /\ UNCHANGED <<tunnelVars, poolVars>>
  <2>1. AdminTypeOK'
    BY <1>5, AdminTyped DEF PoolInv
  <2>2. Quiet
    BY <1>5, UnchangedQuiet DEF poolVars
  <2> QED
    BY <1>1, <2>1, <2>2 DEF PoolInv
<1>6. ASSUME NEW a \in Attempts, BeginRelease(a) \/ Closing(a) \/ Connect(a)
      PROVE  PoolInv' /\ \A n \in Nodes : Kept(n)
  <2>1. UNCHANGED adminVars
    BY <1>6 DEF BeginRelease, Closing, Connect, Opened, OpenFails
  <2>2. CASE OpenFails(a)
    <3>1. CASE attempt[a].status = "cancelling"
      BY <1>3, <2>1, <2>2, <3>1, UnchangedQuiet DEF OpenFails, poolVars
    <3>2. CASE attempt[a].status # "cancelling"
      BY <1>3, <2>1, <2>2, <3>2, BecomesQuiet DEF OpenFails, Status, Active
    <3> QED
      BY <3>1, <3>2
  <2>3. CASE ~OpenFails(a)
    <3>1. UNCHANGED attempt
      BY <1>6, <2>3 DEF BeginRelease, Closing, Connect, Opened, poolVars
    <3> QED
      BY <1>3, <2>1, <3>1, UnchangedQuiet
  <2> QED
    BY <2>2, <2>3
<1>7. CASE \/ CloseRest \/ UNCHANGED vars
           \/ \E a \in Attempts : ProcessExits(a) /\ UNCHANGED <<adminVars, poolVars>>
  BY <1>3, <1>7, UnchangedQuiet DEF CloseRest, poolVars, vars
<1>8. CASE Stop \/ Kill \/ Stopped
  BY <1>3, <1>8, UnchangedQuiet DEF Stop, Kill, Stopped
<1>9. CASE Restart
  <2>1. UNCHANGED <<attempt, nodes, tokens, blanks, edits, diagnoses>>
    BY <1>9 DEF Restart, RebuildClients
  <2>2. \A n \in DOMAIN nodes : nodes[n].address \in Addresses
    BY DEF PoolInv, AdminTypeOK, NodeRow
  <2>3. /\ DOMAIN clients' \subseteq Nodes /\ clients' \in [DOMAIN clients' -> Addresses]
        /\ diagnosing' = {} /\ astray' = {}
    BY <1>9, <2>2 DEF Restart, RebuildClients, PoolInv, AdminTypeOK
  <2>4. AdminTypeOK'
    BY <2>1, <2>3 DEF PoolInv, AdminTypeOK
  <2> QED
    BY <1>1, <2>1, <2>4, UnchangedQuiet DEF PoolInv
<1> QED
  BY <1>4, <1>5, <1>6, <1>7, <1>8, <1>9 DEF Next

(* At the start every node is online, and nothing has been placed.           *)
LEMMA InitPool == Init => PoolInv
<1> SUFFICES ASSUME Init PROVE PoolInv
  OBVIOUS
<1>1. 1 \in Addresses
  BY BoundsAssumption DEF Addresses
<1>2. \A n \in Nodes : nodes[n] \in NodeRow
  <2>1. ASSUME NEW n \in Nodes
        PROVE  [address |-> 1, max |-> 1, running |-> 0, status |-> "online",
                labels |-> Offers[n]] \in NodeRow
    BY <1>1, OffersAssumption DEF NodeRow, NodeStatus
  <2> QED
    BY <2>1 DEF Init, AdminInit
<1>3. AdminTypeOK
  BY <1>1, <1>2, BoundsAssumption DEF Init, AdminInit, AdminTypeOK
<1>4. [status |-> "ready", node |-> None] \in Attempt
  BY DEF Attempt, Status
<1> QED
  BY <1>3, <1>4 DEF Init, PoolInv

(* Dispatches of whatever runs, before and after restarts and edits, never  *)
(* place more attempts on a node than its max_concurrency of that moment   *)
(* allows (the dispatch lock of execution/manager.py).                     *)
THEOREM CapacityIsKept == Spec => CapacityKept
<1>1. Init => PoolInv
  BY InitPool
<1>2. PoolInv /\ [Next]_vars => PoolInv'
  BY PoolStep
<1>3. PoolInv /\ [Next]_vars =>
        [\A n \in Nodes :
           Load(n)' > Load(n) => n \in DOMAIN nodes /\ Load(n)' <= nodes[n].max]_vars
  BY PoolStep DEF Kept
<1> QED
  BY <1>1, <1>2, <1>3, PTL DEF Spec, CapacityKept

-----------------------------------------------------------------------------
(* Clients.  What ClientFollowsRow says of one node.                        *)
Follows(n) ==
  n \in DOMAIN clients \ astray =>
    n \in tokens /\ n \in DOMAIN nodes /\ clients[n] = nodes[n].address

(* An edit that installs a client does so for the row it has stored.        *)
LEMMA InstalledFollows ==
  ASSUME ClientFollowsRow, NEW n \in Nodes, NEW row,
         nodes' = Put(nodes, n, row), Install(n, row, tokens'),
         tokens \ {n} \subseteq tokens', astray' = astray \ {n}
  PROVE  ClientFollowsRow'
<1> SUFFICES ASSUME NEW m PROVE Follows(m)'
  BY DEF ClientFollowsRow, Follows
<1>1. n \in DOMAIN nodes' /\ nodes'[n] = row
  BY DEF Put
<1>2. CASE m = n
  BY <1>1, <1>2 DEF Install, Put, Without, Follows
<1>3. CASE m # n
  <2>1. m \in DOMAIN clients' => m \in DOMAIN clients /\ clients'[m] = clients[m]
    BY <1>3 DEF Install, Put, Without
  <2>2. m \in DOMAIN nodes => m \in DOMAIN nodes' /\ nodes'[m] = nodes[m]
    BY <1>3 DEF Put
  <2> QED
    BY <1>3, <2>1, <2>2 DEF ClientFollowsRow, Follows
<1> QED
  BY <1>2, <1>3

(* A row that changes alone leaves its client astray, or where it led.      *)
LEMMA ChangedRowFollows ==
  ASSUME ClientFollowsRow, NEW n, UNCHANGED <<tokens, blanks, clients>>, astray \subseteq astray',
         DOMAIN nodes \ {n} \subseteq DOMAIN nodes',
         \A m \in DOMAIN nodes \ {n} : nodes'[m] = nodes[m],
         n \in DOMAIN clients \ astray' =>
           n \in DOMAIN nodes' /\ n \in DOMAIN nodes /\ nodes'[n].address = nodes[n].address
  PROVE  ClientFollowsRow'
  BY DEF ClientFollowsRow

(* One step for each operation on nodes, again.                              *)
LEMMA AdminFollows ==
  ASSUME PoolInv, ClientFollowsRow, Administer
  PROVE  ClientFollowsRow'
<1>1. ASSUME NEW n \in Nodes, NEW entered \in Settings, NEW given \in Credentials,
             CreateNode(n, entered, given)
      PROVE  ClientFollowsRow'
  BY <1>1, InstalledFollows DEF CreateNode, Store
<1>2. ASSUME NEW n \in Nodes, NEW entered \in Settings, NEW given \in Credentials,
             NEW address \in Addresses, UpdateNode(n, address, entered, given)
      PROVE  ClientFollowsRow'
  <2> DEFINE row == [At(address, entered) EXCEPT !.running = nodes[n].running]
  <2>1. /\ nodes' = Put(nodes, n, row) /\ Install(n, row, tokens')
        /\ tokens \ {n} \subseteq tokens' /\ astray' = astray \ {n}
    BY <1>2 DEF UpdateNode, Store
  <2> HIDE DEF row
  <2> QED
    BY <2>1, InstalledFollows
<1>3. ASSUME NEW n \in Nodes, NEW entered \in Settings, NEW referenced,
             CreateFails(n, entered, referenced)
      PROVE  ClientFollowsRow'
  <2>1. \A m \in DOMAIN nodes \ {n} : m \in DOMAIN nodes' /\ nodes'[m] = nodes[m]
    BY <1>3 DEF CreateFails, Put, Without
  <2> QED
    BY <1>3, <2>1, ChangedRowFollows DEF CreateFails
<1>4. ASSUME NEW n \in Nodes, NEW entered \in Settings, NEW address \in Addresses,
             UpdateFails(n, address, entered)
      PROVE  ClientFollowsRow'
  <2>1. \A m \in DOMAIN nodes \ {n} : m \in DOMAIN nodes' /\ nodes'[m] = nodes[m]
    BY <1>4 DEF UpdateFails, Put
  <2> QED
    BY <1>4, <2>1, ChangedRowFollows DEF UpdateFails
<1>5. ASSUME NEW n \in Nodes, DeleteNode(n) PROVE ClientFollowsRow'
  <2> SUFFICES ASSUME NEW m PROVE Follows(m)'
    BY DEF ClientFollowsRow, Follows
  <2>1. n \notin DOMAIN clients'
    BY <1>5 DEF DeleteNode, Without
  <2>2. m # n => /\ m \in DOMAIN clients' => m \in DOMAIN clients /\ clients'[m] = clients[m]
                 /\ m \in DOMAIN nodes => m \in DOMAIN nodes' /\ nodes'[m] = nodes[m]
                 /\ m \in tokens => m \in tokens'
                 /\ m \in astray => m \in astray'
    BY <1>5 DEF DeleteNode, Without
  <2> QED
    BY <2>1, <2>2 DEF ClientFollowsRow, Follows
<1>6. ASSUME NEW d \in diagnosing, NEW row, WriteBack(d, row)
      PROVE  ClientFollowsRow'
  <2>1. /\ \A m \in DOMAIN nodes \ {d.node} : m \in DOMAIN nodes' /\ nodes'[m] = nodes[m]
        /\ d.node \in DOMAIN nodes' /\ nodes'[d.node] = row
    BY <1>6 DEF WriteBack, Put
  <2> QED
    BY <1>6, <2>1, ChangedRowFollows DEF WriteBack
<1>7. ASSUME NEW d \in diagnosing, Diagnosed(d) \/ DiagnosisFails(d) PROVE ClientFollowsRow'
  <2>1. PICK row : WriteBack(d, row)
    BY <1>7 DEF Diagnosed, DiagnosisFails
  <2> QED
    BY <1>6, <2>1
<1>8. ASSUME \/ \E n \in Nodes : BeginDiagnosis(n)
             \/ \E d \in diagnosing : AskAgent(d)
      PROVE  ClientFollowsRow'
  <2>1. UNCHANGED <<nodes, tokens, blanks, clients, astray>>
    BY <1>8 DEF BeginDiagnosis, AskAgent
  <2> QED
    BY <2>1 DEF ClientFollowsRow
<1> QED
  BY <1>1, <1>2, <1>3, <1>4, <1>5, <1>7, <1>8 DEF Administer, Referenced

(* A client leads where the row of its node says and is there by right of a *)
(* stored token that is not empty, after whatever edits, diagnoses and      *)
(* restarts, except where the row was changed behind its back              *)
(* (api/nodes.py, api/app.py).                                             *)
THEOREM ClientsFollowRows == Spec => []ClientFollowsRow
<1>1. Init => PoolInv /\ ClientFollowsRow
  BY InitPool DEF Init, AdminInit, ClientFollowsRow
<1>2. PoolInv /\ ClientFollowsRow /\ [Next]_vars => ClientFollowsRow'
  <2> SUFFICES ASSUME PoolInv, ClientFollowsRow, [Next]_vars PROVE ClientFollowsRow'
    OBVIOUS
  <2>1. CASE UNCHANGED adminVars
    BY <2>1 DEF adminVars, ClientFollowsRow
  <2>2. CASE Administer
    BY <2>2, AdminFollows
  <2>3. CASE Restart
    <3>1. /\ clients' = [n \in DOMAIN nodes \cap tokens |-> nodes[n].address]
          /\ nodes' = nodes /\ tokens' = tokens
      BY <2>3 DEF Restart, RebuildClients
    <3> QED
      BY <3>1 DEF ClientFollowsRow
  <2>4. UNCHANGED adminVars \/ Administer \/ Restart
    BY DEF Next, vars, Work, Claim, ClaimWithoutClient, NoNode, Dispatched, CallFails, Ends,
           Reconnect, NoClient, Restore, Cancel, BeginRelease, Closing, Connect, Opened,
           OpenFails, CloseRest, Stop, Kill, Stopped
  <2> QED
    BY <2>1, <2>2, <2>3, <2>4
<1>3. PoolInv /\ [Next]_vars => PoolInv'
  BY PoolStep
<1> QED
  BY <1>1, <1>2, <1>3, PTL DEF Spec

-----------------------------------------------------------------------------
(* Readiness and dispatch.                                                  *)
(* What AsFree says of two rows in Selected.                               *)
AsFreeIn(rows, n, m) == rows[n].running * rows[m].max <= rows[m].running * rows[n].max

(* Comparing loads by cross-multiplication is a total preorder.            *)
LEMMA SharesCompare ==
  ASSUME NEW r \in Nat, NEW s \in Nat, NEW u \in Nat,
         NEW x \in Nat \ {0}, NEW y \in Nat \ {0}, NEW z \in Nat \ {0},
         r * y <= s * x, s * z <= u * y
  PROVE  r * z <= u * x
<1>1. (r * y) * z <= (s * x) * z
  BY SMTT(30)
<1>2. (s * z) * x <= (u * y) * x
  BY SMTT(30)
<1>3. (r * z) * y <= (u * x) * y
  BY <1>1, <1>2, SMTT(30)
<1> QED
  BY <1>3, SMTT(30)

(* In a finite table with a node that is eligible one is chosen, and only   *)
(* what is eligible.                                                       *)
LEMMA SomeoneIsChosen ==
  ASSUME NEW rows, NEW policy, IsFiniteSet(DOMAIN rows),
         \A n \in DOMAIN rows : rows[n].running \in Nat /\ rows[n].max \in Nat \ {0}
  PROVE  /\ Selected(rows, policy) \subseteq Eligible(rows, policy)
         /\ Eligible(rows, policy) # {} => Selected(rows, policy) # {}
<1> DEFINE C == Preferred(Eligible(rows, policy), policy)
           Freer(n) == {m \in C : AsFreeIn(rows, m, n)}
           T == {Freer(n) : n \in C}
<1>1. C \subseteq Eligible(rows, policy) /\ C \subseteq DOMAIN rows
  BY DEF Preferred, Eligible, Matching
<1>2. Eligible(rows, policy) # {} => C # {}
  BY DEF Preferred
<1>3. Selected(rows, policy) = {n \in C : \A m \in C : AsFreeIn(rows, n, m)}
  BY DEF Selected, AsFreeIn
<1> HIDE DEF C
<1>4. ASSUME C # {} PROVE \E n \in C : \A m \in C : AsFreeIn(rows, n, m)
  <2>1. IsWellFoundedOn(StrictSubsetOrdering(C), SUBSET C)
    BY <1>1, FS_Subset, FS_StrictSubsetOrderingWellFounded, FS_FiniteSubsetsOfFinite
  <2>2. T \subseteq SUBSET C /\ T # {}
    BY <1>4
  <2>3. PICK S \in T : \A R \in T : <<R, S>> \notin StrictSubsetOrdering(C)
    <3> HIDE DEF T
    <3> QED
      BY <2>1, <2>2, WFMin
  <2>4. PICK n \in C : S = Freer(n)
    BY <2>3
  <2>5. ASSUME NEW m \in C, ~AsFreeIn(rows, n, m) PROVE FALSE
    <3>1. AsFreeIn(rows, m, n)
      BY <1>1, <2>5 DEF AsFreeIn
    <3>2. Freer(m) \subseteq Freer(n)
      <4> SUFFICES ASSUME NEW k \in C, AsFreeIn(rows, k, m) PROVE AsFreeIn(rows, k, n)
        OBVIOUS
      <4>1. \A i \in C : rows[i].running \in Nat /\ rows[i].max \in Nat \ {0}
        BY <1>1
      <4> QED
        BY <3>1, <4>1, SharesCompare DEF AsFreeIn
    <3>3. n \notin Freer(m) /\ n \in Freer(n)
      BY <1>1, <2>5 DEF AsFreeIn
    <3>4. <<Freer(m), Freer(n)>> \in StrictSubsetOrdering(C)
      BY <3>2, <3>3 DEF StrictSubsetOrdering
    <3> QED
      BY <2>3, <2>4, <3>4
  <2> QED
    BY <2>5
<1> QED
  BY <1>1, <1>2, <1>3, <1>4

(* The node of an attempt keeps its row, and one with row and token has a    *)
(* client, unless its row has changed behind the clients' back.             *)
Rowed  == \A a \in Attempts : attempt[a].node \in DOMAIN nodes \cup {None}
Served == DOMAIN nodes \cap tokens \subseteq DOMAIN clients \cup astray

LEMMA AdminServes ==
  ASSUME Rowed, Served, Administer
  PROVE  Served' /\ \A n \in DOMAIN nodes : Referenced(n) => n \in DOMAIN nodes'
<1> USE DEF Served, Put, Without
<1>1. ASSUME NEW n \in Nodes, NEW entered \in Settings, NEW given \in Credentials,
             \/ CreateNode(n, entered, given)
             \/ \E address \in Addresses : UpdateNode(n, address, entered, given)
      PROVE  Served' /\ DOMAIN nodes \subseteq DOMAIN nodes'
  <2>1. /\ DOMAIN nodes' = DOMAIN nodes \cup {n} /\ tokens' \subseteq tokens \cup {n}
        /\ astray' = astray \ {n}
    BY <1>1 DEF CreateNode, UpdateNode, Store
  <2>2. DOMAIN clients' = IF n \in tokens' THEN DOMAIN clients \cup {n}
                                            ELSE DOMAIN clients \ {n}
    BY <1>1 DEF CreateNode, UpdateNode, Install
  <2> QED
    BY <2>1, <2>2
<1>2. ASSUME NEW n \in Nodes, NEW entered \in Settings, CreateFails(n, entered, Referenced(n))
      PROVE  Served' /\ \A m \in DOMAIN nodes : Referenced(m) => m \in DOMAIN nodes'
  <2>1. /\ DOMAIN nodes' = IF Referenced(n) THEN DOMAIN nodes \cup {n} ELSE DOMAIN nodes \ {n}
        /\ astray' = astray \cup ({n} \cap DOMAIN clients)
        /\ UNCHANGED <<tokens, blanks, clients>>
    BY <1>2 DEF CreateFails
  <2>2. Referenced(n) => n \in DOMAIN nodes
    BY NoneAssumption DEF Rowed, Referenced
  <2> QED
    BY <2>1, <2>2
<1>3. ASSUME NEW n \in Nodes, NEW entered \in Settings, NEW address \in Addresses,
             UpdateFails(n, address, entered)
      PROVE  Served' /\ DOMAIN nodes \subseteq DOMAIN nodes'
  BY <1>3 DEF UpdateFails
<1>4. ASSUME NEW n \in Nodes, ~Referenced(n), DeleteNode(n)
      PROVE  Served' /\ \A m \in DOMAIN nodes : Referenced(m) => m \in DOMAIN nodes'
  BY <1>4 DEF DeleteNode
<1>5. ASSUME NEW d \in diagnosing, Diagnosed(d) \/ DiagnosisFails(d)
      PROVE  Served' /\ DOMAIN nodes \subseteq DOMAIN nodes'
  <2>1. PICK row : WriteBack(d, row)
    BY <1>5 DEF Diagnosed, DiagnosisFails
  <2> QED
    BY <2>1 DEF WriteBack
<1>6. ASSUME \/ \E n \in Nodes : BeginDiagnosis(n)
             \/ \E d \in diagnosing : AskAgent(d)
      PROVE  Served' /\ UNCHANGED nodes
  BY <1>6 DEF BeginDiagnosis, AskAgent
<1> QED
  BY <1>1, <1>2, <1>3, <1>4, <1>5, <1>6 DEF Administer

(* An attempt is placed on a node with a row.                               *)
LEMMA PlacedOnRow ==
  ASSUME PoolInv, [Next]_vars, NEW a \in Attempts
  PROVE  attempt'[a].node = attempt[a].node \/ attempt'[a].node \in DOMAIN nodes
<1>1. attempt[a] \in Attempt /\ attempt \in [Attempts -> Attempt]
  BY DEF PoolInv
<1>2. ASSUME NEW b \in Attempts, NEW n \in Nodes, Claim(b, n) \/ ClaimWithoutClient(b, n)
      PROVE  attempt'[a].node = attempt[a].node \/ attempt'[a].node \in DOMAIN nodes
  <2>1. n \in DOMAIN nodes
    BY <1>2, ChosenHasRoom DEF Claim, ClaimWithoutClient
  <2>2. a = b => attempt'[a].node = n
    BY <1>1, <1>2 DEF Claim, ClaimWithoutClient, Attempt
  <2>3. a # b => attempt'[a] = attempt[a]
    BY <1>1, <1>2 DEF Claim, ClaimWithoutClient
  <2> QED
    BY <2>1, <2>2, <2>3
<1>3. ASSUME NEW b \in Attempts, NEW status, Becomes(b, status)
      PROVE  attempt'[a].node = attempt[a].node
  BY <1>1, <1>3 DEF Becomes, Attempt
<1>4. \/ UNCHANGED attempt
      \/ \E b \in Attempts, n \in Nodes : Claim(b, n) \/ ClaimWithoutClient(b, n)
      \/ \E b \in Attempts, status \in Status : Becomes(b, status)
  BY DEF Next, vars, poolVars, Work, NoNode, Dispatched, CallFails, Ends, Reconnect, NoClient,
         Restore, Cancel, BeginRelease, Closing, Connect, Opened, OpenFails, CloseRest,
         Stop, Kill, Stopped, Restart, Status, Active
<1> QED
  BY <1>2, <1>3, <1>4

LEMMA ServedStep ==
  ASSUME PoolInv, Rowed, Served, [Next]_vars
  PROVE  Rowed' /\ Served'
<1>1. CASE UNCHANGED adminVars
  BY <1>1, PlacedOnRow DEF adminVars, Rowed, Served
<1>2. CASE Administer /\ UNCHANGED <<tunnelVars, poolVars>>
  BY <1>2, AdminServes DEF Rowed, Referenced, poolVars
<1>3. CASE Restart
  BY <1>3 DEF Restart, RebuildClients, Rowed, Served
<1>4. UNCHANGED adminVars \/ (Administer /\ UNCHANGED <<tunnelVars, poolVars>>) \/ Restart
  BY DEF Next, vars, Work, Claim, ClaimWithoutClient, NoNode, Dispatched, CallFails, Ends,
         Reconnect, NoClient, Restore, Cancel, BeginRelease, Closing, Connect, Opened,
         OpenFails, CloseRest, Stop, Kill, Stopped
<1> QED
  BY <1>1, <1>2, <1>3, <1>4

(* What readiness calls ready, a dispatch of that moment finds a node and a *)
(* client for, whatever was edited, deleted or diagnosed before, except for *)
(* nodes that were entered as full, a row that a diagnosis brought back,    *)
(* and nodes whose stored token is empty (readiness.py, scheduler/,         *)
(* api/nodes.py, api/app.py).                                               *)
THEOREM ReadyMeansDispatchable == Spec => []ReadyIsDispatchable
<1>1. Init => PoolInv /\ Rowed /\ Served
  BY InitPool DEF Init, AdminInit, Rowed, Served
<1>2. PoolInv /\ Rowed /\ Served /\ [Next]_vars => (PoolInv /\ Rowed /\ Served)'
  BY PoolStep, ServedStep
<1>3. PoolInv /\ Served => ReadyIsDispatchable
  <2> SUFFICES ASSUME PoolInv, Served, NEW a \in Attempts, NodesReady({PolicyOf[a]})
               PROVE  LET fit    == Matching(nodes, PolicyOf[a])
                          chosen == Selected(nodes, PolicyOf[a])
                      IN /\ chosen # {} \/ (fit # {} /\ \A n \in fit : ~HasRoom(nodes[n]))
                         /\ chosen \subseteq DOMAIN clients \cup astray \cup blanks
    BY DEF ReadyIsDispatchable
  <2> DEFINE policy == PolicyOf[a]
  <2>1. /\ IsFiniteSet(DOMAIN nodes)
        /\ \A n \in DOMAIN nodes : nodes[n].running \in Nat /\ nodes[n].max \in Nat \ {0}
    BY FS_Subset, NodesAssumption DEF PoolInv, AdminTypeOK, NodeRow
  <2>2. Matching(nodes, policy) # {} /\ DOMAIN nodes \subseteq tokens \cup blanks
    BY DEF NodesReady, Unmatched, MissingCredentials
  <2>3. /\ Selected(nodes, policy) \subseteq Eligible(nodes, policy)
        /\ Eligible(nodes, policy) # {} => Selected(nodes, policy) # {}
    BY <2>1, SomeoneIsChosen
  <2>4. Eligible(nodes, policy) \subseteq DOMAIN nodes
    BY DEF Eligible, Matching
  <2>5. Eligible(nodes, policy) = {} => \A n \in Matching(nodes, policy) : ~HasRoom(nodes[n])
    BY DEF Eligible
  <2> QED
    BY <2>2, <2>3, <2>4, <2>5 DEF Served
<1> QED
  BY <1>1, <1>2, <1>3, PTL DEF Spec
=============================================================================
