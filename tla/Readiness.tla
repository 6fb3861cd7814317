----------------------------- MODULE Readiness -----------------------------
(***************************************************************************)
(* What readiness says of the nodes before a run is created: that one is   *)
(* online, that each task has one that matches, and that every configured  *)
(* node has a token, be it an empty one.  The clients, which a dispatch    *)
(* needs, it only looks at in its deep mode, and only to warn.             *)
(***************************************************************************)
EXTENDS NodeAdmin

OnlineNodes == {n \in DOMAIN nodes : nodes[n].status = "online"}

(* Rooms are not asked for: a node that is full now will be free later.    *)
Unmatched(policies) == {p \in policies : Matching(nodes, p) = {}}

(* Mutant: a node that is online is taken to have its token.               *)
MissingOffline == (DOMAIN nodes \ OnlineNodes) \ (tokens \cup blanks)
MissingCredentials == DOMAIN nodes \ (tokens \cup blanks)

NodesReady(policies) ==
  OnlineNodes # {} /\ Unmatched(policies) = {} /\ MissingCredentials = {}
=============================================================================
