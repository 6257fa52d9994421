--------------------------- MODULE MCMultiTurnRollout ---------------------------
(* Values of MultiTurnRollout's constants for TLC. *)
EXTENDS MultiTurnRollout

CONSTANTS r1, r2, t1, t2

\* The second request has only one of the tools.
BothAndOne == [r \in Reqs |-> IF r = r1 THEN Tools ELSE {t1}]
AllTools   == [r \in Reqs |-> Tools]

OneOrTwo == {<<t1>>, <<t2, t1>>}
================================================================================
