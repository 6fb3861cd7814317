----------------------------- MODULE NodeAdmin -----------------------------
(***************************************************************************)
(* The administration of execution nodes: the rows of the nodes table, the *)
(* stored tokens and the clients built from both.  A diagnosis copies the  *)
(* row, waits for name resolution, connections and the node's answers, and *)
(* then writes its whole copy back, whatever has happened to the row.      *)
(*                                                                         *)
(* An address stands for the connection settings of a row, its url above   *)
(* all; a client keeps those that it was built with.                       *)
(***************************************************************************)
EXTENDS Scheduling

CONSTANTS
  Offers,        \* Offers[n]: the capabilities that the agent of n reports
  Settings,      \* the [max, running, status, labels] that users enter
  MaxEdits,      \* bound: creations, updates and deletions of nodes
  MaxDiagnoses   \* bound: diagnoses

ASSUME OffersAssumption == Offers \in [Nodes -> SUBSET Labels]
ASSUME BoundsAssumption == MaxEdits \in Nat /\ MaxDiagnoses \in Nat

VARIABLES
  nodes,        \* the nodes table: a row for each configured node
  tokens,       \* the nodes whose token in the credential store is not empty
  blanks,       \* the nodes whose token in the credential store is empty
  clients,      \* node_clients: the address each client leads to
  diagnosing,   \* the diagnoses in progress
  astray,       \* history: nodes whose row changed behind their client's back
  edits,        \* edits so far
  diagnoses     \* diagnoses so far

adminVars == <<nodes, tokens, blanks, clients, diagnosing, astray, edits, diagnoses>>

NodeStatus == {"unknown", "online", "offline", "degraded"}
Addresses  == 1..(MaxEdits + 1)
NodeRow    == [address: Addresses, max: Nat \ {0}, running: Nat,
               status: NodeStatus, labels: SUBSET Labels]

At(address, entered) ==
  [address |-> address, max |-> entered.max, running |-> entered.running,
   status |-> entered.status, labels |-> entered.labels]

ASSUME SettingsAssumption == \A s \in Settings : At(1, s) \in NodeRow

(* A diagnosis: the row it has copied, and whether it has sent its request  *)
(* to the agent, for which it takes the client of that moment.             *)
Diagnosis == [node: Nodes, copy: NodeRow, asked: BOOLEAN]

Put(f, n, v)   == [m \in DOMAIN f \cup {n} |-> IF m = n THEN v ELSE f[m]]
Without(f, n)  == [m \in DOMAIN f \ {n} |-> f[m]]

(* The credential of a request: an empty one is stored like any other.      *)
Credentials == {"absent", "empty", "token"}

Store(n, given) ==
  \/ given = "absent" /\ UNCHANGED <<tokens, blanks>>
  \/ given = "empty"  /\ tokens' = tokens \ {n}   /\ blanks' = blanks \cup {n}
  \/ given = "token"  /\ tokens' = tokens \cup {n} /\ blanks' = blanks \ {n}

(* install_node_client: a client needs a token that is not empty.  The       *)
(* mutant keeps a client that is there already.                            *)
InstallOnce(n, row, known) ==
  clients' = IF n \in known \ DOMAIN clients THEN Put(clients, n, row.address)
                                              ELSE clients
Install(n, row, known) ==
  clients' = IF n \in known THEN Put(clients, n, row.address)
                            ELSE Without(clients, n)

Edit == edits < MaxEdits /\ edits' = edits + 1

Fresh == edits + 2

-----------------------------------------------------------------------------
AdminInit ==
  /\ nodes = [n \in Nodes |-> [address |-> 1, max |-> 1, running |-> 0,
                               status |-> "online", labels |-> Offers[n]]]
  /\ tokens = Nodes /\ blanks = {}
  /\ clients = [n \in Nodes |-> 1]
  /\ diagnosing = {}
  /\ astray = {}
  /\ edits = 0
  /\ diagnoses = 0

Diagnosing(n, row) ==
  /\ diagnoses < MaxDiagnoses
  /\ diagnosing' = diagnosing \cup {[node |-> n, copy |-> row, asked |-> FALSE]}
  /\ diagnoses' = diagnoses + 1

(* Creating an id that exists rewrites its row.  The response waits for a   *)
(* first diagnosis.                                                        *)
CreateNode(n, entered, given) == LET row == At(Fresh, entered) IN
  /\ Edit
  /\ nodes' = Put(nodes, n, row)
  /\ Store(n, given)
  /\ Install(n, row, tokens')
  /\ Diagnosing(n, row)
  /\ astray' = astray \ {n}

(* The credential store fails: the new row is taken back, and with it an    *)
(* earlier one of the same id.  A row that attempts refer to stays.        *)
CreateFails(n, entered, referenced) ==
  /\ Edit
  /\ nodes' = IF referenced THEN Put(nodes, n, At(Fresh, entered)) ELSE Without(nodes, n)
  /\ astray' = astray \cup ({n} \cap DOMAIN clients)
  /\ UNCHANGED <<tokens, blanks, clients, diagnosing, diagnoses>>

UpdateNode(n, address, entered, given) ==
  LET row == [At(address, entered) EXCEPT !.running = nodes[n].running] IN
  /\ Edit
  /\ n \in DOMAIN nodes
  /\ address \in {nodes[n].address, Fresh}
  /\ nodes' = Put(nodes, n, row)
  /\ Store(n, given)
  /\ Install(n, row, tokens')
  /\ astray' = astray \ {n}
  /\ UNCHANGED <<diagnosing, diagnoses>>

(* The credential store fails, and the new row has the old client.         *)
UpdateFails(n, address, entered) ==
  /\ Edit
  /\ n \in DOMAIN nodes
  /\ address \in {nodes[n].address, Fresh}
  /\ nodes' = Put(nodes, n, [At(address, entered) EXCEPT !.running = nodes[n].running])
  /\ astray' = astray \cup ({n} \cap DOMAIN clients)
  /\ UNCHANGED <<tokens, blanks, clients, diagnosing, diagnoses>>

(* When the credential store fails, the token outlives its node.           *)
DeleteNode(n) ==
  /\ Edit
  /\ n \in DOMAIN nodes
  /\ nodes' = Without(nodes, n)
  /\ \/ tokens' = tokens \ {n} /\ blanks' = blanks \ {n}
     \/ UNCHANGED <<tokens, blanks>>
  /\ clients' = Without(clients, n)
  /\ astray' = astray \ {n}
  /\ UNCHANGED <<diagnosing, diagnoses>>

BeginDiagnosis(n) ==
  /\ n \in DOMAIN nodes
  /\ Diagnosing(n, nodes[n])
  /\ UNCHANGED <<nodes, tokens, blanks, clients, astray, edits>>

AskAgent(d) ==
  /\ d.node \in DOMAIN clients
  /\ ~d.asked
  /\ diagnosing' = (diagnosing \ {d}) \cup {[d EXCEPT !.asked = TRUE]}
  /\ UNCHANGED <<nodes, tokens, blanks, clients, astray, edits, diagnoses>>

(* The copy overwrites what was edited meanwhile, and brings back a row     *)
(* that was deleted.  The client is left as it is.                         *)
WriteBack(d, row) ==
  /\ nodes' = Put(nodes, d.node, row)
  /\ diagnosing' = diagnosing \ {d}
  /\ astray' = IF d.node \in DOMAIN nodes /\ nodes[d.node].address = row.address
               THEN astray ELSE astray \cup {d.node}
  /\ UNCHANGED <<tokens, blanks, clients, edits, diagnoses>>

Diagnosed(d) ==
  /\ d.asked
  /\ \E s \in {"online", "degraded"} :
       WriteBack(d, [d.copy EXCEPT !.status = s, !.labels = Offers[d.node]])

(* There is no client, or the agent does not answer.                       *)
DiagnosisFails(d) ==
  /\ d.asked \/ d.node \notin DOMAIN clients
  /\ WriteBack(d, [d.copy EXCEPT !.status = "offline"])

(* A start builds the clients anew, from the rows and the stored tokens;     *)
(* an empty one does not count.                                            *)
RebuildClients ==
  /\ clients' = [n \in DOMAIN nodes \cap tokens |-> nodes[n].address]
  /\ diagnosing' = {}
  /\ astray' = {}
  /\ UNCHANGED <<nodes, tokens, blanks, edits, diagnoses>>

-----------------------------------------------------------------------------
AdminTypeOK ==
  /\ DOMAIN nodes \subseteq Nodes /\ nodes \in [DOMAIN nodes -> NodeRow]
  /\ tokens \subseteq Nodes /\ blanks \subseteq Nodes
  /\ DOMAIN clients \subseteq Nodes /\ clients \in [DOMAIN clients -> Addresses]
  /\ diagnosing \subseteq Diagnosis
  /\ astray \subseteq Nodes
  /\ edits \in 0..MaxEdits /\ diagnoses \in 0..MaxDiagnoses

(* A client leads where the row of its node says and is there by right of a *)
(* stored token that is not empty, whatever was edited, deleted or         *)
(* diagnosed in between; except where a stale diagnosis or a failed        *)
(* creation or update changed the row behind it.                           *)
ClientFollowsRow ==
  \A n \in DOMAIN clients \ astray :
    /\ n \in tokens
    /\ n \in DOMAIN nodes
    /\ clients[n] = nodes[n].address
=============================================================================
