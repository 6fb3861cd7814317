---------------------------- MODULE MCServices ----------------------------
(* Instances of Services for TLC: the machine that is provisioned is behind *)
(* h1; three collections of the same attempt and one of its retry.         *)
EXTENDS Services

CONSTANTS h1, h2, r1, r2, c1, c2, c3, c4, first, retry

OfAttempts == [c \in {c1, c2, c3, c4} |-> IF c = c4 THEN retry ELSE first]
=============================================================================
