---------------------------- MODULE MCJobExecution ----------------------------
(* Standalone jobs on small instances: j1 alone, or j1 and j2.              *)
EXTENDS JobExecution, TLC

CONSTANTS j1, j2

\* What each instance makes of its jobs.
OneDeliverable == [j \in {j1} |-> "deliverable"]
OneCalculationBook == [j \in {j1} |-> "calculation_book"]
OneChangePage == [j \in {j1} |-> "change_page"]
BookAndAudit ==
  [j \in {j1, j2} |-> IF j = j1 THEN "calculation_book" ELSE "audit"]

\* Worker processes are interchangeable; used in the runs of safety properties.
WorkerSymmetry == Permutations(Worker)
===============================================================================
