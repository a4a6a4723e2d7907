----------------------------- MODULE SummaryIndex -----------------------------
(***************************************************************************)
(* The job_summaries and summary_tombstones tables of SQLiteQueueStore, as *)
(* far as task groups use them: what a reader of the task list sees of the *)
(* group.json files.  Each operation is one SQLite transaction.            *)
(***************************************************************************)
EXTENDS GroupStore

VARIABLES
  summaries,    \* summaries[g]: the record the summary of g was made from
  tombstones    \* groups whose summary was deleted for ever

storeVars == <<group_json, summaries, tombstones>>

\* _is_stale_group_summary; without a summary nothing is stale.
Stale(g, rec) == rec.version < summaries[g].version

\* Mistake: a late publication replaces a newer one.
UpsertAnySummary(g, rec) ==
  /\ summaries' = IF g \in tombstones THEN summaries ELSE [summaries EXCEPT ![g] = rec]
  /\ UNCHANGED tombstones

\* One transaction: a deleted item stays deleted, an older version is ignored.
UpsertSummary(g, rec) ==
  /\ summaries' = IF g \in tombstones \/ Stale(g, rec)
                  THEN summaries
                  ELSE [summaries EXCEPT ![g] = rec]
  /\ UNCHANGED tombstones

\* Mistake: the summary goes, but nothing keeps a late publication out.
DropSummary(g) ==
  /\ summaries' = [summaries EXCEPT ![g] = Missing]
  /\ UNCHANGED tombstones

DeleteSummary(g) ==
  /\ tombstones' = tombstones \cup {g}
  /\ summaries' = [summaries EXCEPT ![g] = Missing]
===============================================================================
