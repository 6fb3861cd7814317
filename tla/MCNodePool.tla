---------------------------- MODULE MCNodePool ----------------------------
(* Instances of NodePool for TLC: a local and a remote node with the same  *)
(* capability, one attempt that prefers the remote node, and one that needs *)
(* the capability and is bound to that node.                               *)
EXTENDS NodePool

CONSTANTS a1, a2, here, there, gpu

EveryLabel == [n \in Nodes |-> Labels]

(* As an update it admits one attempt more, and leaves the running tasks as *)
(* they are; as a creation it enters a node as full.  The status is left to *)
(* a diagnosis.                                                            *)
RoomierOrFull ==
  {[max |-> 2, running |-> 2, status |-> "unknown", labels |-> Labels]}

FirstOrFixed ==
  [a \in {a1, a2} |->
     [mode |-> IF a = a1 THEN "remote_first" ELSE "fixed", node |-> there,
      group |-> gpu, required |-> IF a = a1 THEN {} ELSE {gpu}]]
=============================================================================
