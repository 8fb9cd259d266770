----------------------------- MODULE MCTaskPool -----------------------------
(* Instances of TaskPool for TLC: four tasks on the three levels.            *)
EXTENDS TaskPool, TLC

CONSTANTS h, n1, n2, l1
MCLevel == [t \in Tasks |-> IF t = h THEN 1 ELSE IF t \in {n1, n2} THEN 2 ELSE 3]
=============================================================================
