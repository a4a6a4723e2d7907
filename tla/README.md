# TLA+ verification of auto-fanban

The repository is a job server for engineering drawings. An API process accepts uploads,
creates jobs and task groups and puts them into a queue. Separate worker processes take
them out, drive AutoCAD and Office, and report. The pieces share nothing but a SQLite file
(`fanban_queue.sqlite3`), one `job.json` or `group.json` for every item, and lock files.
This directory holds the TLA+ model of that coordination, the TLC runs over small
instances, and theorems proved with TLAPS for instances of every size.

How to run (TLC and tlapm on the path, the community modules and the TLAPS library in the
search path):

    tlc -config WorkerCrash.cfg MCJobExecution      # also DocumentStall, JobEndsCrash, LateWorker, TornRead
    tlc -config GroupRaces.cfg MCTaskGroups         # also GroupRecovery, LostArchive
    tlc -config GroupCrash.cfg MCGroupExecution     # also GroupStall
    tlc -config ChatRequests.cfg MCAiChat           # also ChatFiles
    tlapm SQLiteQueueProofs.tla                     # also JobExecutionProofs, GroupExecutionProofs,
                                                    # GroupExecutionSafetyProofs, TaskBoardProofs,
                                                    # TaskGroupsProofs, TaskGroupsSafetyProofs, AiChatProofs

`PROJECT.json` is the index: components, runs, mutants, map from definitions to source
lines, findings, hazards, theorems.

## 1. Inventory

| Component | Source | State | Operations | Correct when |
|---|---|---|---|---|
| SQLite queue and execution fence | `pipeline/sqlite_queue.py` | `queue_items`, `execution_controls`, `job_summaries`, `summary_tombstones`, heartbeats | enqueue, claim_next, heartbeat_claim, recover_stale_claims, acknowledge, complete_claim, begin / finish_execution, request_execution_cancel, upsert / delete_summary | one unfinished row for an item; a claim stays with its owner; an execution begins once; no cancellation is lost |
| Worker process | `API/app/worker.py` | the row in hand, heartbeat thread, summary thread | run_once: recover, reconcile, claim, run, wait, complete | an interrupted job is marked once and for good; a row is done when the job has stopped |
| Job runner | `API/app/runtime.py` 2366-2555 | Job object in memory, document thread, CAD slot | _run_job, _run_non_cad_job, _run_doc_job, _wait_for_job_completion | non-idempotent stages run once; file and database agree at the end |
| Job store | `pipeline/job_manager.py`, `pipeline/cross_process_lock.py` | `job.json`, its lock file, a cache | create, reload, update, finish_execution | a cancelled job is never overwritten |
| Job actions | `API/app/job_actions.py` | an action lock for each item | cancel, retry | a cancellation is honoured; a retry starts one new job |
| Job executors | `pipeline/executor.py`, `calculation_book/executor.py`, `audit_replace`, `audit_check`, `change_page_extract` | files | stages; they also write `job.json` themselves | (their results are out of scope) |
| API runtime | `API/app/runtime.py` | caches, uploads, executors | submit, previews, _process_group, results | a group ends when its children end, with their outcome |
| Task-group store | `pipeline/group_manager.py` | `group.json` with `state_version` | reload, compare-and-swap update, delete | no lost update |
| State writer, reconciliation | `task_groups/state_writer.py`, `task_groups/reconciliation_worker.py`, the summary tables | the publication mark in the group, `job_summaries`, `summary_tombstones` | write, publish, retry | a group without the mark is published; the list never goes back |
| Archive and replacement | `task_groups/archive_coordinator.py`, `replacement_cleanup_fence.py`, `archive/` | the archive directory, a lease in the group's metadata, operation lock, deletion receipt | complete, claim, clean up, record, retry | the replaced group goes completely, and only after its successor is archived, settled and shown |
| Workflow and submission | `workflow/service.py`, `task_groups/submit_guards.py`, `task_groups/service.py` | workflow nodes in the group | submit, approve, repair | approvals in order; one submission of an album in progress |
| CAD slot pool | `cad/slot_pool.py` | a queue of slots | acquire, release | no slot lost, none given twice |
| AI chat | `ai/chat_service.py`, `ai/chat_store.py`, `ai/attachment_store.py` | conversations, messages and attachments in SQLite; their files; a lock for each conversation, a gate for each owner, one gate for all | create, rename, send, upload, delete an attachment, clear, delete, list (which purges) | one answer at a time; an answer keeps what it works on; every question settles; rows and files go together |
| Accounts, sessions | `accounts/`, `auth/` | JSON registries | create, look up, delete | no lost update within the process |
| CAD, documents, frontend, deployment, tools | the rest | external programs, user interface | | not modelled |

How they interact: the API and the workers never call each other. The API inserts rows and
sets cancellation flags; a worker polls, claims, executes and completes; both save
`job.json` under the file lock of the job, the executors save it without that lock.
Within a worker the main thread hands deferred work to a document thread through an
executor pool and polls file and database until the job is over. A heartbeat thread keeps
the claim fresh. Any worker recovers the claims whose heartbeat is too old.

A task group is one queue row and two child jobs without rows: its worker prepares the
drawing, runs the children in its own executors, waits for them and saves the outcome.
What happens to a finished group (submission to review, approvals, archive, removal of the
group it replaces) is done by the API process, in the thread of a request or in one of two
background workers, over the versioned `group.json`. A save there is followed by the
publication of the group's summary, which is what the task list shows.

What is hard: the database and the file are two stores without a common transaction; a
worker that stalls is treated as dead but wakes up later; three kinds of writers save one
file; a cancellation can fall between any two steps; a reader can meet a file that is just
being rewritten; and two threads of one worker finish the same job. For groups: an object
loaded hours ago is saved under a version check; three stores (group file, summary table,
directories) change one after the other, and the process may die in between; a lease may
lapse under its owner.

The AI chat runs in the API process and touches none of this. Each request has a thread;
locks and gates are tried and never waited for, and the answer of the model takes minutes
under them. What takes no lock (uploads, renames, the purge that every listing begins with)
meets a request half way, and rows and files are again two stores.

## 2. Modules

| Module | What it is |
|---|---|
| `ExecutionLifecycle` | Abstract specification: what the execution fence promises for each item |
| `SQLiteQueue` | `queue_items` and `execution_controls` under their most general client; each action is one SQLite transaction |
| `JobExecution` | Standalone jobs end to end: worker main thread, document thread, API requests, `job.json`, locks, tombstones, time, crashes. Its queue steps are the actions of `SQLiteQueue` |
| `GroupStore` | The `group.json` files: read, compare-and-swap, delete |
| `SummaryIndex` | The summaries and tombstones over `GroupStore` |
| `TaskBoard` | Abstract specification: what the task list promises to its readers |
| `TaskGroups` | Task groups after their execution: submission, approval, archive, settlement, cleanup of the replaced group, publication, the two background workers, the backfill, crashes; over `SummaryIndex`; implements `TaskBoard` |
| `GroupExecution` | The execution of a task group: `_process_group`, the children in the executors, the slot pool, cancellation, recovery; its queue steps are the actions of `SQLiteQueue`, its saves those of `GroupStore` |
| `AiChat` | The AI chat: requests with their locks and gates, the three tables, the files of attachments, the purge, a crash and the restart |
| `MCJobExecution`, `MCTaskGroups`, `MCGroupExecution`, `MCAiChat` | Symmetry sets and values of constants for the TLC instances |
| `SQLiteQueueProofs`, `TaskBoardProofs`, `TaskGroupsProofs`, `AiChatProofs` | Theorems about the module of the same name |
| `TaskGroupsSafetyProofs` | Theorems about what the threads of `TaskGroups` may do to each other's groups; they use `TaskGroupsProofs` |
| `GroupExecutionSafetyProofs` | Theorems about what a group and its children owe each other, and what a group leaves behind when it is settled; they use `GroupExecutionProofs` |
| `JobExecutionProofs`, `GroupExecutionProofs` | Theorems about the composed systems of jobs and of groups; they use those of the store through a refinement |

### State

| Variable | Code |
|---|---|
| `last_id`, `queue_items` | table `queue_items`: AUTOINCREMENT high-water mark, and the row of each id. `expired` abstracts the age of `heartbeat_at`, `interrupted` says that `last_error` is `worker_interrupted_before_completion` |
| `execution_controls` | table `execution_controls`; `absent` for no row |
| `job_json` | the status that `job.json` holds; `TORN` for a file opened with mode `"w"` and not completely written, `absent` for no file. `INTERRUPTED` is FAILED with the marks of `_mark_interrupted` |
| `tombstones` | table `summary_tombstones`, for jobs |
| `main[w]` | the main thread of a worker: where it is in `run_once` / `_run_job`, the row and job in hand, the status of the Job object in memory, the interrupted rows left to reconcile |
| `doc[w][j]` | the document phase of a job in a worker (`_run_doc_job`) |
| `api[j]` | the API request that works on a job |

In the modules of groups:

| Variable | Code |
|---|---|
| `group_json` | per group the `state_version` and the contents of `group.json`; version 0 for no file |
| `summaries`, `tombstones` | tables `job_summaries` (the record a summary was made from) and `summary_tombstones` |
| `thread[t]` (`TaskGroups`) | a request thread, the archive retry worker, the reconciliation worker or the backfill: where it is, the TaskGroup object in memory, the claim it took, the group it deletes, the rest of the snapshot of `load_all_groups` |
| `archive_dir`, `artifacts`, `receipts`, `op_lock`, `lapsed` | the archive target of the album, job directories, deletion receipts, locks of `ReplacementCleanupFence`, claims older than their TTL (a claim is named by the version that carried it first) |
| `main[w]`, `run[w][c]`, `slots[w]` (`GroupExecution`) | the main thread of a worker, a child in its heavy or document executor, idle slots of its pool |
| `job_json`, `api[g]` | the status in a child's `job.json`, the cancel request of a group |

In `AiChat`:

| Variable | Code |
|---|---|
| `conversations` | table `ai_conversations`: no row yet, `recent`, `expired` (`updated_at` before the retention cutoff), `deleted` |
| `questions[r]` | the row of `ai_messages` that request `r` added as the user's message, by its `status` |
| `attachments[a]` | table `ai_attachments`: `status`, and in `message` the question it is bound to |
| `files` | attachments whose original is on disk |
| `thread[r]` | a request: where it is, its operation, conversation and attachments (or the names it read for removal), which gates it acquired |
| `locks`, `owner_gates`, `global_gate` | `_conversation_locks` that are taken; permits left in `_owner_gates` and `_global_gate` |

### Actions and code

| Actions | Code |
|---|---|
| `Enqueue`, `ClaimNext`, `HeartbeatClaim`, `RecoverStaleClaims`, `AcknowledgeInterruptedClaim`, `CompleteClaim`, `BeginExecution`, `RequestExecutionCancel`, `FinishExecution` | the method of the same name of `SQLiteQueueStore` |
| `RunOnce`, `ReconcileNext`, `Finalize`, `LockForUpdate` and `WriteAndUnlock` (reconcile), `RefreshAfter`, `Acknowledge`, `ReconcileDone` | `_recover_stale_claims`, `_finalize_interrupted_item` |
| `Claim`, `LoadJob`, `Begin`, `Prepare`, `Process`, `ProcessWritten`, `LockForUpdate` and `WriteAndUnlock` (update), `Boundary`, `FinishJob`, `WriteAndUnlock` (finish) | `run_once`, `_run_job`, `_run_non_cad_job`, `PipelineExecutor`, `JobManager.update_job`, `JobManager.finish_execution` |
| `DocStart`, `DocCalculate`, `DocDeliver`, `DocDelivered`, `DocFinish`, `DocFinished`, `DocRefresh` | `_run_doc_job`, `CalculationBookJobExecutor.execute`, the post-slot phase of `PipelineExecutor` |
| `Check`, `Wait`, `Report`, `CompleteOwned`, `CompleteRejected` | the rest of `run_once`, `_wait_for_job_completion`, `_finish_owned_claim` |
| `CreateJob`, `EnqueueCreated`, `EnqueueAgain`, `CancelCheck` ... `CancelRefresh` | the submissions in `runtime.py`, `JobActionService.retry` on a retry job that is still QUEUED, `JobActionService.cancel` |
| `Heartbeat`, `Expire`, `Crash` | heartbeat thread, passing time, death of a process |
| `RunOnce`, `RecoverGroup`, `MarkGroup`, `MarkConflicts`, `RecoverChild`, `MarkChild`, `Acknowledge`, `Claim`, `Complete` (`GroupExecution`) | `run_once`, `_recover_stale_claims`, `_finalize_interrupted_item`, `_finish_owned_claim` for a group |
| `Load`, `Begin`, `SaveProgress`, `Prepare`, `UpdateChildren`, `StartChildren`, `WaitForChild`, `GiveUpWaiting`, `Conclude`, `Finish`, `SaveOutcome`; `FailDeliverable`, `StartDeliverable` | `_process_group`; `_run_replace_then_deliverable_group` |
| `LoadChild` ... `ReleaseSlot`, `StartDocuments` ... `FinishDocuments` | `_run_job`, `_run_doc_job`, `CADSlotPool` |
| `EnqueueGroup`, `CancelCheck` ... `AnswerCancel` | `_enqueue_group`, `JobActionService.cancel` of a group |
| `SaveGroup`, `ReloadForSummary`, `PublishSummary`, `ClearMark`, `PublicationFails`, `RetainMark` (`TaskGroups`) | `TaskGroupStateWriter.write`, `_publish_pending`, `refresh_summary_index` |
| `Submit`, `GuardSubmission`, `Approve`, `EditAccounts` | `TaskGroupService.submit`, `TaskGroupSubmitGuards`, `approve`, `repair_current_node` and `rebind_account_references` |
| `Archive`, `CopyFiles`, `ArchiveFails`, `SettlementFails` | `TaskGroupArchiveCoordinator.complete`, `ArchiveService.archive_group` |
| `ClaimCleanup` ... `CompleteCleanup`, `DeleteVictim*` | `retry_pending_replacement_cleanup`, `ReplacementCleanupFence`, `ArchiveOverwriteService` |
| `ScanArchives`, `ScanPublications`, `ScanCleanups`, `ScanBackfill`, `LapseClaim`, `Crash` | the background workers, `_backfill_summary_index`, passing time, death and restart of the API process |
| `CreateConversation` ... `ListConversations` (`AiChat`) | a request of that name arrives, with what it does before it asks for a lock |
| `LockConversation`, `Acquire*Gate`, `Release*` | the tries and the finally block of `send_message`; the lock of `clear_conversation`, `delete_conversation`, `delete_attachment` |
| `ResolveAttachments`, `AddMessage`, `BuildMessages`, `AskModel`, `MarkFailed`, `CompleteExchange`, `BindAttachment`, `AllBound` | `send_message` in order |
| `ReadNames`, `DeleteRows`, `RemoveFiles` | the three parts that `clear_conversation`, `delete_conversation`, `purge_expired` and `delete_attachment` have in common |
| `WriteFile`, `InsertAttachment`, `UndoFile`, `ParseAttachment` | `upload_attachment` |
| `Crash` | death of the API process, and `AiChatService.__init__` of the next one with its two purges |

A step is one transaction, one read of a file, or one write of a file. A read of `job.json`
and of the control in one statement of the code (`Check`, `ReconcileNext`,
`CompleteRejected`) is one step. A save under the file lock is two steps (read the control;
replace the file), so that everything that does not take the lock can fall in between.
`PipelineExecutor` truncates and then writes: two steps without a lock.

### Abstractions

Summaries, progress, artifacts and messages are left out. Nobody passes `priority` or
`run_after`, so claims go by id. File-lock timeouts and the failure of a replacement after
five attempts are left out: a lock is waited for. Replacing a file that an executor has
open is refused (Windows, the deployment target) and retried. Acquiring a CAD slot either
succeeds or fails the job. `Prepare`, `Process` and the document steps choose the outcome
of the work freely. The API process does not crash.

`TaskGroups`. All groups of an instance are of one album, since others do not meet. A
group's contents are what the properties tell apart: workflow, number of approvals, archive,
settlement, replacement, the publication mark, the claim. Left out: who may act, personnel
and factors; error texts in the metadata; requests that are rejected at once; the branches
for an empty or changed `replaced_group_id`, which nothing writes. A publication fails at
one place (before it reads the group). A settlement that fails again on a retry is left out;
it changes the group as the first failure did. Taking the operation lock and the check of the
group under it are one step; a lock that would be given back at once is not taken. A save
that cannot replace its file, or waits too long for a file lock, raises like a conflict does
and is left out. The groups of an instance begin in states that the
program reaches without conflict (`Begun`), which saves the steps to get there.

`GroupExecution`. A save of `job.json` is one step (the steps inside it and the in-place
rewriting are in `JobExecution`). Heartbeats that come in time change nothing and are left
out. A group has one row (two rows for one item are in `SQLiteQueue` and `JobExecution`).
The heavy executor has as many threads as there are slots, as in the worker's configuration.
A replacement that succeeds without a drawing is not told apart from one that fails. Retry
and edits of a group that is being executed are not modelled.

`AiChat`. Of the messages the questions are kept, one for each request; titles, texts, the
message count, the history, skills, tools and what the model says make no difference to the
state. Whether a file can be read matters for images, whose bytes every answer reads; other
attachments are sent as text. A conversation begins recent, expired or not yet created, and
none grows old while requests run. Deleting several files is one step, and so is writing
the temporary file and renaming it. Files whose unlink fails (they are logged and stay), a
busy database and the migration of old owner keys are left out.

## 3. Runs

Constants: one or two items, two workers (a claim can change hands only between two; a
third adds nothing a property tells apart), at most `MaxRows` rows (2 for jobs: the
original and one more), at most `MaxCrashes` = 1 dead workers so that one survives. `Disturbances`
selects what the environment does, so that a run says under which faults its property
holds: `stall` (a live worker misses its heartbeats for the claim timeout), `crash`,
`timeout` (the wait for a job gives up), `retry` (the same retry is asked for again).

| Run | Instance | Checks |
|---|---|---|
| `worker_crash` | calculation book and audit, crash, cancel | types, `RowDoneMeansStopped`, `SettledIsTerminal`, `NoStartAfterCancel`, `CancelledSticks`, `AcknowledgedWasReconciled` |
| `document_stall` | deliverable, stall, retry, cancel | `SingleExecution`, `SettledAgrees`; of the store `UniqueUnfinished`, `OutcomeMatchesFlag`, `FinishedRowsFrozen`, `ClaimNeverChangesHands`, `ImplementsLifecycle` |
| `job_ends_crash` | calculation book, crash, fairness | `EveryJobEnds`, `InterruptionsReconciled` |
| `late_worker` | change-page job, stall, retry, timeout, cancel, fairness | `InterruptionStands`, `CancelIsHonoured` |
| `torn_read` | deliverable, no fault | `RowDoneMeansStopped` is violated |
| `group_races` | 2 groups, 2 requests, 2 approval nodes, lapse, lock timeout | types, `UnmarkedIsPublished`, `SuccessorComesFirst`, `NoProgressLost`, `ClaimIsHonoured`, `ImplementsTaskBoard` |
| `group_recovery` | 2 groups, 1 request, one fault of any kind, fairness | `CleanupIsComplete`, `PublicationConverges`, `CleanupConverges`, `ArchiveConverges` |
| `lost_archive` | 2 groups, 2 requests, a copy may fail | `ArchivedFilesArePresent` is violated |
| `group_crash` | 1 group of either kind, 2 workers, 1 slot, one crash or wait timeout, cancel, fairness | `NobodyLeftBehind`, `SuccessIsComplete`, `NoChildAfterCancel`, `GroupEnds`, `CancelIsHonoured` |
| `group_stall` | 1 replacing group, 2 workers, 1 slot, one stall, cancel | types, `SlotsConserved`, `DeliveredAfterReplacement`, `StoppedStays` |
| `chat_requests` | 3 requests of any kind, 3 conversations of 2 owners, 2 attachments, 1 permit in each gate, 1 crash | `GatesConserved`, `AnswerKeepsItsChat`, `QuestionsSettle`, `RowsHaveFiles` |
| `chat_files` | the same without the crash | `FilesGoWithRows` is violated |

The properties of the store are checked where the most happens to its rows: a claim that is
recovered while its owner lives, a second row of the same job, cancellations at every step.
That they hold for any sequence of calls by anybody (`SpecQ`), with any number of items and
rows, is proved.

Bounds of the group runs. Two groups are an old and a new one of the album; a third could
only repeat what the two do to each other. `group_races` begins with every pair that can
meet: an archived group and a draft or a replacing successor, a group in review and a draft.
With two requests two submissions, two approvals or an approval and an edit race, next to
both background workers. `MaxFaults` is 1 where liveness is checked (a fault at every step
of the path) and 2 in `group_races`, so that a claim may lapse and its successor time out on
the lock. `MaxVersion` = 6 ends the endless retries of an archive whose artifacts are gone.
One group suffices in `GroupExecution`, since groups share only slots and threads; one slot
makes its children compete. Both children, both kinds of group and both workers occur.

Bounds of the chat runs. Two owners and two conversations of one of them tell the three
locks apart: with one permit each, a request can be refused at the conversation, at the owner
and at the service. Three requests are two that are in each other's way and one that changes
what they work on. One conversation has expired with an image in it, one is recent, one is
still to be created; the second attachment, which no answer has to read, is there or is
uploaded during the run.

Deadlock is checked in the runs of jobs: an idle worker polls, so the system never stops. In
the chat runs the requests are used up, after which nothing has to happen
(`CHECK_DEADLOCK` is off), and nobody waits for a lock. In
the group runs a poll that finds nothing to do is no step, so the system stops when all
requests are used and nothing is pending; there `CHECK_DEADLOCK` is off and `GroupEnds` and
the three `Converges` properties say that it does not stop too early.

Each property of a passing run has a mutant: a definition marked "Mistake" in the module,
which changes one definition the way a slip in the code would and breaks the property.

### What the violations show

* `torn_read`. `PipelineExecutor._persist_job` truncates `job.json` and writes it anew.
  If `run_once` reads it at that moment, `reload_job` returns None, the wait is skipped and
  the row becomes `done` while the document phase runs. From then on no claim protects the
  job: if the worker dies, nobody recovers it.
* `lost_archive`. Two requests for the last approval (a double click) both read the group in
  review and both archive it. The second one removes the directory that the first one has
  filled and fails to copy; its save is refused by the version check, so the group stays
  archived, settled and successful, with an empty archive that nobody looks at again.
* `chat_files`. Every listing purges expired conversations. It reads the names of their
  files, and then a transaction deletes the rows of what has expired by then. A rename or a
  question in between makes the conversation recent: no row is deleted and all its files are.
  The next question with such an image is stored, fails outside of the block that marks
  failures, and stays `pending`. An upload between the names and the rows of a clear or a
  deletion leaves a file that no row names. `RowsHaveFiles` says that nothing but the purge
  breaks the first half: clearing, deleting, uploading, failing and crashing do not.

### Where a property does not hold and no run says so

Met while choosing the runs, each with an entry in the hazards:
`AcknowledgedWasReconciled` under `stall` (a worker recovered between the claim and
`begin_execution` begins afterwards); `SettledAgrees` under `crash` (death between the
commit of `finish_execution` and the write of the file); `EveryJobEnds` under `crash` and
`timeout` together (the row failed by the timeout, then the worker dies), and for the same
reason, or with `crash` and `stall` together, `NobodyLeftBehind` with two faults;
`CancelledSticks` under `stall` (an executor's unlocked save overwrites CANCELLED until the
job's final save restores it, which is why `CancelIsHonoured` is stated as eventually
always).

Three more disagreements were found by TLC and have no run of their own now:

* A torn read in `refresh_summary_index` (`runtime.py:2042`) deletes the summary of a live
  job with a tombstone that no later summary gets past: the job is never listed again.
* With `retry` added to `worker_crash`, `AcknowledgedWasReconciled` fails: a second request
  for the same retry enqueues the job after its claim was recovered; reconciliation takes
  the interrupted row for superseded and acknowledges it, but the new row can never begin.
* For a calculation book `InterruptionStands` fails: recovery ends the execution in the
  database, which releases the late worker's main thread although its document thread is
  still at work; that thread then saves over the interruption. `late_worker` shows that the
  reassertion is enough where the job runs in the main thread.

For groups: a worker that dies between the save of a child's outcome and `finish_execution`
leaves the child's control running for ever, since recovery asks the file (`LeftRunning`
excepts it); a group recovered before it began and cancelled afterwards has a cancelled
control and an interrupted file; after a stall, children that recovery marked as interrupted
may still begin in the late worker, whose `update_job` may write QUEUED over the
interruption, so `NoChildAfterCancel` is stated for groups that were not recovered;
`SuccessorComesFirst` excepts two deletions by a submission (`cancel_existing_in_progress`):
that of the predecessor itself, which has no successor yet and may hit a group that was
archived meanwhile, and that of the successor. The second needs three groups: group 2
replaces group 1, a submission of group 3 found group 2 in review and deletes it although it
was archived in the meantime, and the cleanup of group 1 goes on at the same time. Then for
a moment both are on their way out; the promise is kept for a successor without a tombstone.

### Fairness

In `JobExecution`, `FairSpec` assumes weak fairness of each live worker's main thread and of its document
thread (`run_forever` polls, the executors end, a blocked thread polls for the lock), of
each accepted API request, and of the ageing of a dead worker's claim. No fairness is
assumed of users, of heartbeats, of stalls or of crashes. Weak fairness is enough because
an enabled step of a thread stays enabled except while another one holds the file lock or
has the file open, and those holders are fair themselves.
`EveryJobEnds` starts from `api[j] = "created"`: the request that created the job goes on
to enqueue it. The liveness runs use no symmetry.

In `GroupExecution` the same is assumed of the main thread, of the executors' threads
together, of accepted requests and of the ageing of a dead worker's claim.

In `TaskGroups` every thread runs (weak fairness), the archive worker, the backfill of a
restarted process and the ageing of claims go on, and both halves of the reconciliation
worker's `run_once` happen again and again. The latter is strong fairness: a pass
of one half makes the worker busy, which disables the other half for a while, but each cycle
of the code does both. Faults and requests are not fair. `ArchiveConverges` ends when the
artifacts are gone, because the retry can then never succeed.

## 4. Proofs

Assumptions: `QueueAssumption` (`NoWorker` is no worker; `MaxRows` is a natural number),
`JobAssumption` (`NoJob` is no job; `Kind` gives each job a kind; `Disturbances` is a set of
disturbances; `MaxCrashes` is a natural number), `GroupExecutionAssumption` (a group has
two children of its own, all items are groups or children, and `Slots` is positive), `GroupAssumption` (groups are numbered) and `TaskAssumption` (the bounds are natural numbers, thread names differ, beginnings have at most
one archived group), `ChatAssumption` (conversations have
an owner and attachments a conversation, the gates have a permit, and what is there at the
beginning belongs to a conversation that is there). Nothing is assumed of the number of items, workers, rows, groups or
requests, or of finiteness. Unless a theorem says otherwise it holds for all disturbances
together.

Store (`SQLiteQueueProofs`):

* `ControlsSound`, `OutcomeAgrees`: `ControlInv` says that each control is typed and that
  its state agrees with its flag. All changes of a control are a begin, a cancel or a
  finish (`ControlStep`), and the agreement is preserved by each.
* `StoreImplementsLifecycle`: under `ControlInv` each step of the store maps to a step of
  `ExecutionLifecycle` or a stutter. The invariant is needed: a control that is
  `completed` with the flag set would be turned to `cancelled` by a second
  `finish_execution`.
* `RowsSound`, `QueueTypes`, `UnfinishedRowsUnique`: every action either updates rows in
  place (`RowsUpdated`: the item of a row, a finished row and the owner of a claim stay,
  but for an acknowledgement) or appends one (`RowInserted`: born cancelled, or the only
  unfinished row of its item); `RowInv` (types and uniqueness) is preserved by both.
* `HistoryFrozen`, `ClaimsKept`: the two action properties, from the same classification.

System (`JobExecutionProofs`):

* `CallsSound`: `CallInv` is the inductive invariant. It types all state and says what a
  thread has in hand when it calls the store: rows below the high-water mark, a job where a
  job is needed, a status that can be written. Types alone are not inductive: `Finalize`
  and `FinishJob` call the store with the job in hand.
* `Types`: `TypeOK` follows.
* `JobsUseTheStore`: under `CallInv` every step of `JobExecution` is a step of `SpecQ` or
  leaves the tables alone. So `UniqueUnfinished`, `OutcomeMatchesFlag` and
  `ImplementsLifecycle` carry over to the system (`JobsKeepTheLifecycle`).
* `FenceSound`, `ExecutedByOne`: `FenceInv` strengthens `SingleExecution` with "whoever
  executes a job has passed the fence", that is, its control is not absent. A thread enters
  an execution only through `Begin`, which needs the control to be absent, so nobody else
  can be inside; the control never becomes absent again. The main thread leaves in the
  step in which the document thread enters.
* `CancelledIsNotStarted`: only `Begin` enters an execution from outside, and it needs an
  absent control.

What is saved of a job (also `JobExecutionProofs`). A step is classified once: `Step` has
the turn of a main thread, of a document thread or of a request, a passing of time or a
death (`StepKinds`), and `RowMoves` and `NewRows` say what any of them may do to a row. The
invariants below are preserved by `Step`, without another case analysis of the actions.

* `SavedSound`: `SavedInv` ties files, threads and tables. A thread works on the job of its
  row; what it has in memory is what it may save there; the file lock is in one hand;
  CANCELLED on disk has a cancelled control behind it, and whoever holds the lock then
  writes CANCELLED. It holds whatever happens, and so does its first consequence:
  `CancelledSticksUnlessRecovered` says that only an executor whose claim was recovered, and
  which saves without the lock, overwrites a cancellation.
* `HoldSound`: who holds which row. A claim is its owner's until he dies, completes it or
  loses it to recovery, and a row behind an open one of its job was born cancelled.
* `AliveSound`: `ConcludeInv` says that a job whose fence was released, whose worker reports
  it or whose newest row is closed is `Concluded`: terminal on disk, or somebody has in hand
  what makes it so. It holds as long as nobody died, since that somebody may die with it: in
  the middle of a rewrite, or between the commit of `finish_execution` and the file. A settled
  job has a newest row (`NewestRow`, from the well-foundedness of the numbers) and nobody
  working on it, hence
  `SettledIsTerminalWhileAlive` and `SettledAgreesWhileAlive`. Without crashes nobody dies
  (`NobodyDies`), which gives `SettledWithoutCrashes`: for all kinds of job, and any stalls,
  timeouts and retries.
* `StandsSound`: until the interruption of a row is on disk for good, the late worker still
  holds the row, is going to mark the job again, or somebody is marking it. The late worker
  can save its own outcome only while it holds that row (`LateWorker`, from `HoldInv`), and
  then its completion is refused and it finalizes the row again (`ClaimRefused`). For jobs of
  the main thread this gives `InterruptionStandsWithoutCrashes`. It is about a job of which
  one claim was interrupted: with two of them and a third worker TLC has the first late
  worker save its outcome after all, because its own row is superseded and it does not look
  further.
* `Calm`: no live worker stalls and no retry is asked for twice. Then each job has one row,
  and a claim is recovered only from the dead (`CalmSound`), so that recovery never has a
  live executor against it (`ExecutedByOwner`). Workers may still die at any step.
  `CancelledSticksWhenCalm` and `AcknowledgedWhenCalm` follow for all kinds of job. With stalls
  or repeated retries both fail, see section 3.
* `RowDoneMeansStoppedWhenCalm` and `SettledIsTerminalWhenCalm` are about calm systems whose
  files are replaced as a whole (`NoDeliverable`; `torn_read` shows why); the second needs
  that nobody gives up a wait as well, as the worker that failed its row by a timeout may
  die with the job half done. `OverInv` is the counterpart of `ConcludeInv` for a system
  in which workers die: nobody closes or acknowledges a row before the job is over, rather
  than on behalf of somebody who is going to end it. These hypotheses are those of
  `worker_crash`, and the theorem is for any number of jobs, workers, rows and deaths.

Execution of groups (`GroupExecutionProofs`). `IInv` has four parts, each with one lemma for
each action:

* `CallInv` types all state and says what a thread has in hand when it calls the store, as
  for jobs. Under it a step is a step of `SpecQ` (`GroupsUseTheStore`), so the promises of
  the store carry over to groups and their children (`GroupsKeepTheLifecycle`).
* `FollowInv`: every group object in memory is either what is on disk or has an older
  version than the disk, and while it has the current version, what its thread believes of
  the group (not yet stopped) is true. So a save that the version check lets through
  replaces a group that is not stopped (`StoppedStaysHolds`).
* `FreshInv`: while a group has not begun, no worker has submitted a child of it, and the main
  thread submits each child at most once; so a new submission never overwrites a thread that
  holds a slot, on which the next part rests.
* `SlotInv` counts: idle slots and threads that hold one add up to the pool, and no more
  threads run than the executor has. Slots are counted with finite sets
  (`FS_AddElement`, `FS_RemoveElement`), since cardinality is what `SlotsConserved` is about.

What a group and its children owe each other (`GroupExecutionSafetyProofs`), for all
disturbances together:

* `SafetyInvariance`: `SInv` strengthens `IInv` with five parts.
  `Shape` says what each thread has in hand: a recovery reconciles only interrupted rows and
  marks children only of a group that is stopped on disk, a thread that has executed nothing
  yet has no success in hand, a child is cancelled together with its group.
  `Alone` says that at most one worker is `Engaged` in a group (executes it or still runs a
  child of it), only after the group has begun, and that no child that its main thread has
  yet to submit (`Ahead`) is in the executors. This is where the fence of the store does
  its work: a second worker cannot begin the group, even after a stall, when the first one
  goes on.
  `FileSafe` says that SUCCEEDED in the file of a child was written by its execution, and
  where its thread can be then.
  `GroupSafe` says that the children a group concludes from are `Firm`: succeeded on disk,
  completed in the database, and out of the reach of their thread and of every recovery.
  `BarSafe` says that children whose group is cancelled are `Barred`: begun before, or out of
  the reach of the worker for good, unless the group was recovered.
* `Firm` is what makes the first promise inductive. That both children succeeded when
  the main thread looked is not enough, since a late thread, a recovery or a cancellation could
  write their files after that; the group may save SUCCEEDED only because nobody
  who could write has a child in hand unless the group is stopped on disk, and then the
  version check refuses the save (`FollowInv`).
* A step is classified once, by `Moving`: the turn of each main thread, the fate of each
  child (at most one of a begin, a finish, a cancellation, a recovery, a rewritten file),
  the turn of the request, and who may save a success. `StepMoves` shows it of every action,
  and each part of `SInv` is then preserved by `Moving` alone, without another case analysis
  of the actions.
* `SuccessIsCompleteHolds` follows from `GroupSafe`. `DeliveredAfterReplacementHolds` and
  `NoChildAfterCancelHolds` are action properties: a child begins only from a thread at
  `begin` that finds no control (`BeginsFromBegin`), and there `GroupSafe` has the drawing
  replaced and `BarSafe` excludes the children of a cancelled group.

What a settled group leaves behind (the second half of `GroupExecutionSafetyProofs`).
`NobodyLeftBehind` says of a group whose row is closed and that no thread or request has in
hand: its file agrees with the database (`StatusAgrees`), its fence is open, and no child of
it is in execution on paper without a result in its file (`LeftRunning`).

* `EndsInvariance`: `LInv` strengthens `SInv` with five parts, each of which says how long
  somebody is still responsible for an end.
  `EndInv` follows the claim. A row that is closed without an interruption belongs to a group
  that is `Over`, or that a cancel request is about to save (`RowSafe`); a main thread that
  holds a claim owns the row until it is interrupted, and what it has in hand can be saved
  unless the group is stopped (`MainSafe`, `Kept`); a cancel request that found the group
  not begun excludes every worker from it (`ApiSafe`); an ended execution whose outcome is
  not in the file has somebody on the way to save it (`EndSafe`).
  `FenceHeld`: while no worker is dead, every closed fence has its thread.
  `ChildSafe`: a child that began is not submitted again, and a cancellation in its file is
  one in the database.
  `QuietInv`, for workers that do not stall: only claims of the dead become stale, so what is
  recovered does not move, a recovery finds the fence of the group open, and the
  children it has treated are not `LeftRunning`.
  `MindedInv`, for workers that moreover do not die after they gave up a wait: a child
  in the executors is still waited for by its main thread, so when its worker dies the claim on
  the group is there to be recovered (`Recoverable`).
* Steps are classified once more, by `Going`: the course of every main thread and request,
  the move of every row, and of the fence and the file of every group (`StepGoes`).
  Every part of `LInv` is preserved by `Going` without the actions.
* `SettledAgreesHolds` (the file agrees with the database) needs no hypothesis at all.
  `NothingLeftByTheLiving` gives the whole property in every state in which nobody has
  died, and `NobodyLeftBehindWithoutCrashes` where nobody can.
  `NoFenceLeftClosed` assumes `NoStall`. `NobodyLeftBehindHolds` assumes `Apart`: no
  stalls, and no timeout of a wait unless there is at most one fault; so it covers any number
  of crashes, and the run `group_crash`, where one crash or one timeout comes.
* The hypotheses are not for convenience. With a crash and a stall a worker that was recovered
  between its claim and `begin_execution` begins, dies, and nobody recovers its claim again: the
  control of the group stays `running` (TLC finds a behaviour of 17 states). With a timeout and a
  crash the group fails by the timeout, its row is done, and then the worker dies with a
  child in hand (19 states). Both are in section 3 and in the hazards
  (`worker.py:133` and `worker.py:141`).

Task list (`TaskBoardProofs`): `EntryWasSavedHolds` and `ReadersNeverGoBackHolds` are what a
reader may rely on, proved once of the small abstract specification. The invariant
`BoardInv` adds to `EntryWasSaved` that a removed group was withdrawn before; without it a
save could bring a group back that has an entry.

Task groups (`TaskGroupsProofs`):

* `Invariance`: `IInv` has four parts. `StoreInv` says that what is published *follows* what
  is on disk (`Follows`: not ahead of it, and equal to it at the same version), that
  nothing on disk is malformed and that a missing file has a tombstone. `ThreadsGood` says the same of every
  object in a thread's hands: what the publisher reloaded, the group in memory, the snapshot
  of a pass. `LocksOK` and `OthersOK` type the rest. A summary that is published late is an
  old record, and only because each reloaded record follows the disk does the version check
  of `UpsertSummary` keep the board from going back; so the threads have to be in the
  invariant.
* Every action is one lemma (`...IsGood`): its effect on the stores is one of four steps
  (`StoreStep`), and the state the thread enters is good in the stores after it
  (`NextState`). `StoreInvStep` and `FollowsOn` do the rest once for all actions.
* `TypeCorrect` follows from `IInv`, and `Refinement` from `StoreStepIsBoardStep`: a store
  step under `StoreInv` is a step of the board or a stutter.

What the threads may do to each other's groups (`TaskGroupsSafetyProofs`):

* `SafetyInvariance`: `SInv` strengthens `IInv` with three parts. `DiskSafe` says of each
  file that a cleanup that is over left nothing behind, and of each summary that it shows
  what is on disk, unless the file is marked or the summary is of an older version than the
  record that was published last. `ThreadsSafe` says what a thread has in hand: an object at
  the version on disk keeps all progress of the disk and the claim of everybody else
  (`Handled`), so that the version check of a save decides; what it may still publish now or
  later in its pass (`KnownOf`) shows what is on disk or is overruled by the summary that is
  there (`Abreast`); and a thread that deletes works for a group that replaces its victim.
  The records still to be published have to be in the invariant, since an old snapshot of a
  pass reaches the task list many steps after it was read.
* `CleanersLast` is about two groups: as long as a thread deletes the group that `g`
  replaces, `g` is archived and settled on disk, in the list and in every record that may
  yet be published over it. Only the last part makes it inductive.
* The changes that several threads make to a file are classified once: `FileStep` (a file
  advances, see `Advances`, or goes with a tombstone), `SummaryStep` and `WorldStep` are what
  any action may do to the stores, `ThreadSafeOn` and `LastingOn` that all other threads
  survive it. Each action is then one lemma about its own thread.
* `PublishedWithoutMark`, `SuccessorFirst` and `CompleteCleanups` follow from `SInv`;
  `ProgressIsKept` and `ClaimsAreHonoured` are action properties and follow from `Handled` of
  the thread that saves.

AI chat (`AiChatProofs`):

* `GateInv` types all state and counts: permits left and requests that hold one add up to
  the gate, and a lock is taken exactly while one request is in its part of the code. Types
  alone are not inductive, since a release stays in range only because the permit was taken.
  `TypeCorrect` and `GatesConservedHolds` follow.
* `ChatInv` adds what requests rely on. `RequestsSound` says for each place of a question, an
  upload or a removal what is true of the conversation, the question, the attachments and the
  files in hand; it has to survive the steps of the others. `Rely` states once what a step of
  anybody else may do to a request (`RelyOthers`: every step of another request keeps to it),
  and `RelyKeeps` that `RequestsSound` survives that. The purge, which takes no lock, is
  harmless because a question makes its conversation recent.
* `BoundSound` says where a question is whose attachments are bound, and `UploadsApart` that
  no two uploads write the same file, without which `RowsHaveFiles` is not inductive.
* `AnswerKeepsItsChatHolds`, `QuestionsSettleHolds`, `RowsHaveFilesHolds` and
  `BoundOnceHolds` follow from `ChatInv`.

Only model-checked: liveness (`EveryJobEnds`, `InterruptionsReconciled`, `CancelIsHonoured`,
`GroupEnds`, the three `Converges` properties), which TLAPS cannot prove here. Every
invariant and every action property that a passing run checks is stated by a theorem, some
of them under the hypotheses named above.

## 5. Not modelled

The coordination code of the repository is about ten thousand of its more than eighty
thousand lines of implementation, and the models are about that part. The bulk of the rest
finds frames and title blocks in drawings, drives AutoCAD and Office through scripts and COM,
fills in spreadsheets and documents, and packages installers: long sequential code over
geometry, text and external programs, without state that two actors share. A model of it
would be a transliteration with nothing for a model checker to vary, so the share of the
implementation that the map covers stays small however complete the models are.

Within the coordination code: retry of a job or a group (a clone under the action lock; the
repeated retry of a queued job is modelled); uploads, previews and results; the dispatcher
threads of the mode without worker processes; the summary thread of a worker, progress and
heartbeat tables; `SQLiteQueueStore.complete`, which no production code calls; edits of a
group that is being executed (`rebind_account_references` on a RUNNING group makes the
worker's next save a conflict, so the group fails); accounts and sessions (registries
rewritten whole under one in-process lock). Of the AI chat what section 2 names.

## 6. Plan

Done: 1. `ExecutionLifecycle`, 2. `SQLiteQueue`, 3. `JobExecution`, 4. `GroupExecution`,
5. `GroupStore`, `SummaryIndex` and `TaskBoard`, 6. `TaskGroups` (archive, cleanup, submission
and workflow in one module, since they work on the same object in the same threads); the
proofs of 1 to 6, the ends of groups included; 7. `AiChat` with its proofs.

Left, in this order: retry of a group as an action of `GroupExecution`; files of the chat that
cannot be unlinked.
