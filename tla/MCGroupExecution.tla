--------------------------- MODULE MCGroupExecution ---------------------------
(* One task group, number 1, with the children 11 and 12.                   *)
EXTENDS GroupExecution, TLC

CONSTANTS w1, w2

WorkerSymmetry == Permutations(Worker)

OneDeliverable == [g \in {1} |-> 11]
OneAudit == [g \in {1} |-> 12]
===============================================================================
