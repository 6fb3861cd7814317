-------------------------- MODULE MCRunExecution --------------------------
(* Instances of RunExecution for TLC: two tasks, independent or the second *)
(* depending on the first, with one or two attempts each.                  *)
EXTENDS RunActions

CONSTANTS t1, t2

Chain    == [t \in {t1, t2} |-> IF t = t2 THEN {t1} ELSE {}]
Parallel == [t \in {t1, t2} |-> {}]

Once       == [t \in {t1, t2} |-> 1]
FirstTwice == [t \in {t1, t2} |-> IF t = t1 THEN 2 ELSE 1]
=============================================================================
