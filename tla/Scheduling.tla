---------------------------- MODULE Scheduling ----------------------------
(***************************************************************************)
(* How a node is found for a task: the scheduler's filter and ranking, and *)
(* the matching that readiness and review show the user beforehand.  Pure  *)
(* definitions over a table of nodes.                                      *)
(*                                                                         *)
(* A row has a status, max_concurrency, running_tasks and capabilities;    *)
(* models, tools and tags are one set of labels.  An eligible node has     *)
(* every required one, so that the terms of its score for capabilities     *)
(* and models are full; latency is the same constant for all, and success  *)
(* rates are taken to be equal: what ranks nodes is their free share.      *)
(***************************************************************************)
EXTENDS Naturals, FiniteSets

CONSTANTS
  Nodes,   \* node ids
  Local,   \* the nodes of kind local
  Labels   \* capabilities, and names of node groups

ASSUME NodesAssumption == IsFiniteSet(Nodes) /\ Local \subseteq Nodes

Modes == {"auto", "fixed", "node_group", "local_first", "remote_first"}

(* The execution policy of a task.                                         *)
Policies == [mode: Modes, node: Nodes, group: Labels, required: SUBSET Labels]

Supports(row, policy) == policy.required \subseteq row.labels

(* The nodes that the mode of the policy admits.                           *)
Admits(rows, policy, n) ==
  /\ policy.mode = "fixed" => n = policy.node
  /\ policy.mode = "node_group" => policy.group \in rows[n].labels

Matching(rows, policy) ==
  {n \in DOMAIN rows : /\ rows[n].status = "online"
                       /\ Supports(rows[n], policy)
                       /\ Admits(rows, policy, n)}

HasRoom(row) == row.running < row.max

Eligible(rows, policy) == {n \in Matching(rows, policy) : HasRoom(rows[n])}

(* The preferred kind, as long as one of that kind is eligible.            *)
Preferred(eligible, policy) ==
  LET kind == CASE policy.mode = "local_first"  -> Local
                [] policy.mode = "remote_first" -> Nodes \ Local
                [] OTHER                        -> Nodes
  IN IF eligible \cap kind # {} THEN eligible \cap kind ELSE eligible

(* The highest scores; select_node takes the first of them by id.          *)
Selected(rows, policy) ==
  LET candidates == Preferred(Eligible(rows, policy), policy)
      AsFree(n, m) == rows[n].running * rows[m].max <= rows[m].running * rows[n].max
  IN {n \in candidates : \A m \in candidates : AsFree(n, m)}
=============================================================================
