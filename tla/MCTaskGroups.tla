----------------------------- MODULE MCTaskGroups -----------------------------
(* Two groups of one album, the second created after the first.             *)
EXTENDS TaskGroups

CONSTANTS NoFile, A, R, B

\* The newer group is submitted while the older one is archived, or replaces it
\* once it is approved; or the older one is still in review.
Begin(older, newer) == [g \in {1, 2} |-> IF g = 1 THEN older ELSE newer]
Replacement == {Begin("archived", "draft"), Begin("archived", "replacing")}
Replacing == {Begin("archived", "replacing")}
Rivalry == {Begin("in_review", "draft")}
EveryBeginning == Replacement \cup Rivalry
===============================================================================
