----------------------------- MODULE JobExecution -----------------------------
(***************************************************************************)
(* The life of standalone jobs when the API only enqueues and separate     *)
(* worker processes execute: DeliverableWorkerRuntime.run_once and its     *)
(* recovery of stale claims, DeliverableApiRuntime._run_job with its doc   *)
(* thread, JobManager's job.json files and file locks, the executors' own  *)
(* writes of job.json, and JobActionService.cancel.  The queue tables are  *)
(* those of SQLiteQueue and change only through its operations.            *)
(*                                                                         *)
(* A worker process has two threads that touch a job: the main thread      *)
(* (main[w]) and the document thread (doc[w]).  A step is one database     *)
(* transaction, one file read or one file write.                           *)
(***************************************************************************)
EXTENDS SQLiteQueue, FiniteSets

CONSTANTS
  NoJob,
  Kind,        \* Kind[j]: which executor PipelineJobProcessor routes j to
  Disturbances,  \* what the environment does in this instance, see Disturbance
  MaxCrashes   \* bound on the worker processes that die

Job == Item   \* here every queue item is a job

JobKind == {"deliverable", "calculation_book", "audit", "change_page"}

\* "stall":   a live worker may miss heartbeats for the whole claim timeout
\* "crash":   a worker process may die at any step
\* "timeout": _wait_for_job_completion may give up
\* "retry":   a user may ask for the same retry again
Disturbance == {"stall", "crash", "timeout", "retry"}

ASSUME JobAssumption ==
  /\ NoJob \notin Job
  /\ Kind \in [Job -> JobKind]
  /\ Disturbances \subseteq Disturbance
  /\ MaxCrashes \in Nat

VARIABLES
  job_json,     \* job_json[j]: the status that job.json of j holds on disk
  tombstones,   \* jobs whose summary was deleted for ever
  main,         \* main[w]: the main thread of worker w
  doc,          \* doc[w][j]: the document phase of j in worker w
  api           \* api[j]: the API request that is working on j

fileVars == <<job_json, tombstones>>
vars == <<last_id, queue_items, execution_controls, job_json, tombstones, main, doc, api>>

\* INTERRUPTED is FAILED with the worker_interrupted_before_completion mark.
Terminal == {"SUCCEEDED", "FAILED", "INTERRUPTED", "CANCELLED"}
JobStatus == {"QUEUED", "RUNNING"} \cup Terminal

\* "absent": no file.  "TORN": opened with mode "w" and not completely written.
Json == JobStatus \cup {"absent", "TORN"}

MainPc ==
  {"dead", "idle", "reconcile", "finalize", "reconcileLock", "reconcileWrite",
   "refresh", "acknowledge", "claim", "load", "begin", "prepare", "process",
   "stageWrite", "updateLock", "updateWrite", "boundary", "finishLock",
   "finishWrite", "finishRefresh", "check", "wait", "report", "complete"}

\* row, job: the queue row and the job in hand.  mem: the status of the Job
\* object in memory, or the status to complete the row with.  todo: interrupted
\* rows to reconcile.  late: inside _finish_owned_claim, after its rejection.
Main ==
  [pc : MainPc, row : 0 .. MaxRows, job : Job \cup {NoJob},
   mem : JobStatus \cup {"none", "done", "cancelled", "failed"},
   todo : SUBSET (1 .. MaxRows), late : BOOLEAN]

DocPc ==
  {"none", "queued", "process", "stageWrite", "finishLock", "finishWrite", "refresh"}
Doc == [pc : DocPc, mem : JobStatus \cup {"none"}]

ApiPc ==
  {"none", "created", "ready", "cancelRequest", "cancelLock", "cancelWrite",
   "cancelRefresh"}

TypeOK ==
  /\ TypeOKQ
  /\ job_json \in [Job -> Json]
  /\ tombstones \subseteq Job
  /\ main \in [Worker -> Main]
  /\ doc \in [Worker -> [Job -> Doc]]
  /\ api \in [Job -> ApiPc]

IdleMain ==
  [pc |-> "idle", row |-> 0, job |-> NoJob, mem |-> "none", todo |-> {},
   late |-> FALSE]
DeadMain == [IdleMain EXCEPT !.pc = "dead"]
NoDoc == [pc |-> "none", mem |-> "none"]

Init ==
  /\ InitQ
  /\ job_json = [j \in Job |-> "absent"]
  /\ tombstones = {}
  /\ main = [w \in Worker |-> IdleMain]
  /\ doc = [w \in Worker |-> [j \in Job |-> NoDoc]]
  /\ api = [j \in Job |-> "none"]

-------------------------------------------------------------------------------
(* job.json, its file lock and the summary that is derived from it.         *)

\* _load_job returns None for a missing or an unparsable file.
Readable(j) == job_json[j] \in JobStatus
HasStatus(j, S) == job_json[j] \in S

\* An executor has the file open: on Windows replace() is refused meanwhile.
OpenForWriting(j) ==
  \E w \in Worker :
    \/ main[w].job = j /\ main[w].pc = "stageWrite"
    \/ doc[w][j].pc = "stageWrite"

\* The holders of exclusive_file_lock on job j: between the read of the
\* execution control and the replacement of the file.
Locked(j) ==
  \/ \E w \in Worker :
       \/ main[w].job = j /\ main[w].pc \in {"reconcileWrite", "updateWrite", "finishWrite"}
       \/ doc[w][j].pc = "finishWrite"
  \/ api[j] = "cancelWrite"

\* Mistake: the save does not look at the control.
SaveUnguarded(j, status) == status

\* Mistake: the state of the control is copied into the job.
SaveControlState(j, status) ==
  IF execution_controls[j].state = "cancelled" THEN "cancelled" ELSE status

\* _persist_job_unlocked forces CANCELLED when the control is cancelled.
Guarded(j, status) ==
  IF execution_controls[j].state = "cancelled" THEN "CANCELLED" ELSE status

\* Mistake: the outcome that the database published is ignored.
FinishedAsExecuted(j, status) == status

\* The status finish_execution leaves: the outcome of the control decides.
FinishedStatus(j, status) ==
  IF ControlAfterFinish(execution_controls[j]).state = "cancelled"
  THEN "CANCELLED"
  ELSE status

\* Write the whole file; replace() must not meet an open file.
WriteJson(j, status) ==
  /\ ~OpenForWriting(j)
  /\ job_json' = [job_json EXCEPT ![j] = status]

\* open(job_file, "w"): the old content is gone before the new one is there.
TruncateJson(j) == job_json' = [job_json EXCEPT ![j] = "TORN"]

\* refresh_summary_index deletes the summary, and leaves a tombstone that
\* refuses every later one, when reload_job returns None.
RefreshSummary(j) ==
  tombstones' = IF Readable(j) THEN tombstones ELSE tombstones \cup {j}

At(w, pc) == main[w].pc = pc
Goto(w, pc) == main' = [main EXCEPT ![w].pc = pc]

-------------------------------------------------------------------------------
(* run_once: recovery of stale claims, then reconciliation of their jobs.   *)

\* recover_stale_claims, then the snapshot list_interrupted_claims takes.
RunOnce(w) ==
  /\ At(w, "idle")
  /\ RecoverStaleClaims
  /\ main' = [main EXCEPT ![w].pc = "reconcile",
                          ![w].todo = {r \in RowIds : AwaitsAcknowledgement(r)'}]
  /\ UNCHANGED <<fileVars, doc, api>>

\* The next interrupted row of the snapshot: a superseded one is acknowledged
\* as it is, one without readable metadata is left for a later poll.
ReconcileNext(w, r) ==
  LET j == queue_items[r].item IN
  /\ At(w, "reconcile")
  /\ r \in main[w].todo /\ \A q \in main[w].todo : r <= q
  /\ \/ /\ HasNewerQueueItem(r)
        /\ main' = [main EXCEPT ![w].pc = "acknowledge", ![w].row = r, ![w].job = j]
     \/ /\ ~HasNewerQueueItem(r)
        /\ Readable(j)
        /\ main' = [main EXCEPT ![w].pc = "finalize", ![w].row = r, ![w].job = j,
                                ![w].mem = job_json[j]]
     \/ /\ ~HasNewerQueueItem(r)
        /\ ~Readable(j)
        /\ main' = [main EXCEPT ![w].todo = @ \ {r}]
  /\ UNCHANGED <<queueVars, fileVars, doc, api>>

\* Mistake: the interrupted job is saved, its fence stays closed.
FinalizeFileOnly(w) ==
  /\ At(w, "finalize")
  /\ main' = IF main[w].mem = "INTERRUPTED"
             THEN [main EXCEPT ![w].pc = "refresh"]
             ELSE [main EXCEPT ![w].pc = "reconcileLock", ![w].mem = "INTERRUPTED"]
  /\ UNCHANGED <<queueVars, fileVars, doc, api>>

\* Mistake: the execution is ended, the job keeps its status.
FinalizeControlOnly(w) ==
  /\ At(w, "finalize")
  /\ FinishExecution(main[w].job)
  /\ main' = [main EXCEPT ![w].pc = "refresh"]
  /\ UNCHANGED <<fileVars, doc, api>>

\* _finalize_interrupted_item: end the execution for everybody, then mark the
\* job read before as interrupted unless it already is.
Finalize(w) ==
  LET j == main[w].job IN
  /\ At(w, "finalize")
  /\ FinishExecution(j)
  /\ main' = IF main[w].mem = "INTERRUPTED"
             THEN [main EXCEPT ![w].pc = "refresh"]
             ELSE [main EXCEPT ![w].pc = "reconcileLock", ![w].mem = "INTERRUPTED"]
  /\ UNCHANGED <<fileVars, doc, api>>

\* update_job under the job's file lock, for the reconciliation and for the
\* executor between its phases: read the control, then replace the file.
LockForUpdate(w, from, to) ==
  LET j == main[w].job IN
  /\ At(w, from)
  /\ ~Locked(j)
  /\ main' = [main EXCEPT ![w].pc = to, ![w].mem = Guarded(j, @)]
  /\ UNCHANGED <<queueVars, fileVars, doc, api>>

WriteAndUnlock(w, from, to) ==
  /\ At(w, from)
  /\ WriteJson(main[w].job, main[w].mem)
  /\ Goto(w, to)
  /\ UNCHANGED <<queueVars, tombstones, doc, api>>

RefreshAfter(w, from, to) ==
  /\ At(w, from)
  /\ RefreshSummary(main[w].job)
  /\ Goto(w, to)
  /\ UNCHANGED <<queueVars, job_json, doc, api>>

\* Mistake: the recovering worker passes its own identity.
AcknowledgeAsSelf(w) ==
  LET r == main[w].row IN
  /\ At(w, "acknowledge")
  /\ IF r \in main[w].todo /\ AwaitsAcknowledgement(r) /\ queue_items[r].claimed_by = w
     THEN AcknowledgeInterruptedClaim(r, w)
     ELSE UNCHANGED queueVars
  /\ main' = [main EXCEPT ![w] = [IdleMain EXCEPT !.pc = "reconcile",
                                                  !.todo = main[w].todo \ {r}]]
  /\ UNCHANGED <<fileVars, doc, api>>

\* Acknowledge with the owner read earlier; another worker may have done it.
Acknowledge(w) ==
  LET r == main[w].row IN
  /\ At(w, "acknowledge")
  /\ IF r \in main[w].todo /\ AwaitsAcknowledgement(r)
     THEN AcknowledgeInterruptedClaim(r, queue_items[r].claimed_by)
     ELSE UNCHANGED queueVars
  /\ main' = IF main[w].late
             THEN [main EXCEPT ![w] = IdleMain]
             ELSE [main EXCEPT ![w] = [IdleMain EXCEPT !.pc = "reconcile",
                                                       !.todo = main[w].todo \ {r}]]
  /\ UNCHANGED <<fileVars, doc, api>>

ReconcileDone(w) ==
  /\ At(w, "reconcile")
  /\ main[w].todo = {}
  /\ Goto(w, "claim")
  /\ UNCHANGED <<queueVars, fileVars, doc, api>>

-------------------------------------------------------------------------------
(* run_once: claim a row and run its job.                                   *)

Claim(w) ==
  /\ At(w, "claim")
  /\ \/ /\ QueuedRows = {}
        /\ main' = [main EXCEPT ![w] = IdleMain]
        /\ UNCHANGED queueVars
     \/ \E r \in RowIds :
          /\ ClaimNext(r, w)
          /\ main' = [main EXCEPT ![w].pc = "load", ![w].row = r,
                                  ![w].job = queue_items[r].item]
  /\ UNCHANGED <<fileVars, doc, api>>

\* _run_job: only a readable job in QUEUED goes on to begin_execution.
LoadJob(w) ==
  /\ At(w, "load")
  /\ main' = IF HasStatus(main[w].job, {"QUEUED"})
             THEN [main EXCEPT ![w].pc = "begin", ![w].mem = "QUEUED"]
             ELSE [main EXCEPT ![w].pc = "check"]
  /\ UNCHANGED <<queueVars, fileVars, doc, api>>

\* _submit_doc_job hands the Job object to the document thread.
SubmitDoc(w, j, status) ==
  doc' = [doc EXCEPT ![w][j] = [pc |-> "queued", mem |-> status]]

\* Mistake: the answer of begin_execution is not looked at.
BeginUnfenced(w) ==
  /\ At(w, "begin")
  /\ BeginExecution(main[w].job)
  /\ Goto(w, "prepare")
  /\ UNCHANGED <<fileVars, doc, api>>

\* The fence against duplicate entry and against cancelled work.
Begin(w) ==
  LET j == main[w].job IN
  /\ At(w, "begin")
  /\ BeginExecution(j)
  /\ Goto(w, IF BeginGranted(j) THEN "prepare" ELSE "check")
  /\ UNCHANGED <<fileVars, doc, api>>

\* Prepare the directories and the CAD slot, or fail.  A calculation book goes
\* to the document thread; the others look for a cancellation first.
Prepare(w) ==
  LET j == main[w].job IN
  /\ At(w, "prepare")
  /\ \/ /\ main' = [main EXCEPT ![w].pc = "finishLock", ![w].mem = "FAILED"]
        /\ UNCHANGED doc
     \/ /\ Kind[j] = "calculation_book"
        /\ SubmitDoc(w, j, "QUEUED")
        /\ Goto(w, "check")
     \/ /\ Kind[j] # "calculation_book"
        /\ Goto(w, IF CancelRequested(j) THEN "finishLock" ELSE "process")
        /\ UNCHANGED doc
  /\ UNCHANGED <<queueVars, fileVars, api>>

\* The processor in the main thread.  The audit and change-page executors only
\* change the Job object; PipelineExecutor rewrites job.json in place, at its
\* start, at every stage and again when a slot-bound stage fails.
Process(w) ==
  LET j == main[w].job IN
  /\ At(w, "process")
  /\ \/ /\ Kind[j] \in {"audit", "change_page"}
        /\ \E status \in {"SUCCEEDED", "FAILED"} :
             main' = [main EXCEPT
                        ![w].pc = IF Kind[j] = "audit" /\ status = "SUCCEEDED"
                                  THEN "updateLock" ELSE "finishLock",
                        ![w].mem = status]
        /\ UNCHANGED job_json
     \/ /\ Kind[j] = "deliverable"
        /\ main[w].mem = "RUNNING"
        /\ Goto(w, "updateLock")
        /\ UNCHANGED job_json
     \/ /\ Kind[j] = "deliverable"
        /\ \E status \in {"RUNNING", "FAILED"} :
             /\ status = "FAILED" => main[w].mem = "RUNNING"
             /\ main' = [main EXCEPT ![w].pc = "stageWrite", ![w].mem = status]
        /\ TruncateJson(j)
  /\ UNCHANGED <<queueVars, tombstones, doc, api>>

ProcessWritten(w) ==
  /\ At(w, "stageWrite")
  /\ job_json' = [job_json EXCEPT ![main[w].job] = main[w].mem]
  /\ Goto(w, IF main[w].mem = "RUNNING" THEN "process" ELSE "finishLock")
  /\ UNCHANGED <<queueVars, tombstones, doc, api>>

\* After the slot-bound phase: stop on a cancellation, hand a deliverable to
\* the document thread, or finish.
Boundary(w) ==
  LET j == main[w].job IN
  /\ At(w, "boundary")
  /\ \/ /\ Kind[j] = "deliverable" /\ ~CancelRequested(j)
        /\ SubmitDoc(w, j, main[w].mem)
        /\ Goto(w, "check")
     \/ /\ Kind[j] # "deliverable" \/ CancelRequested(j)
        /\ Goto(w, "finishLock")
        /\ UNCHANGED doc
  /\ UNCHANGED <<queueVars, fileVars, api>>

\* JobManager.finish_execution holds the file lock over both writes.
FinishJob(w) ==
  LET j == main[w].job IN
  /\ At(w, "finishLock")
  /\ ~Locked(j)
  /\ FinishExecution(j)
  /\ main' = [main EXCEPT ![w].pc = "finishWrite", ![w].mem = FinishedStatus(j, @)]
  /\ UNCHANGED <<fileVars, doc, api>>

-------------------------------------------------------------------------------
(* The document thread of a worker runs one deferred job at a time:        *)
(* doc_max_jobs is 1.                                                       *)

DocStart(w, j) ==
  /\ doc[w][j].pc = "queued"
  /\ \A k \in Job : doc[w][k].pc \in {"none", "queued"}
  /\ doc' = [doc EXCEPT ![w][j].pc =
               IF CancelRequested(j) THEN "finishLock" ELSE "process"]
  /\ UNCHANGED <<queueVars, fileVars, main, api>>

\* CalculationBookJobExecutor writes a temporary file and replaces job.json,
\* without the file lock.
DocCalculate(w, j) ==
  /\ doc[w][j].pc = "process"
  /\ Kind[j] = "calculation_book"
  /\ \E status \in {"RUNNING", "SUCCEEDED", "FAILED"} \ {doc[w][j].mem} :
       /\ status = "SUCCEEDED" => doc[w][j].mem = "RUNNING"
       /\ WriteJson(j, status)
       /\ doc' = [doc EXCEPT ![w][j] =
                    [pc |-> IF status = "RUNNING" THEN "process" ELSE "finishLock",
                     mem |-> status]]
  /\ UNCHANGED <<queueVars, tombstones, main, api>>

\* The post-slot stages of PipelineExecutor rewrite job.json in place.
DocDeliver(w, j) ==
  /\ doc[w][j].pc = "process"
  /\ Kind[j] = "deliverable"
  /\ \E status \in {"RUNNING", "SUCCEEDED", "FAILED"} :
       doc' = [doc EXCEPT ![w][j] = [pc |-> "stageWrite", mem |-> status]]
  /\ TruncateJson(j)
  /\ UNCHANGED <<queueVars, tombstones, main, api>>

DocDelivered(w, j) ==
  /\ doc[w][j].pc = "stageWrite"
  /\ job_json' = [job_json EXCEPT ![j] = doc[w][j].mem]
  /\ doc' = [doc EXCEPT ![w][j].pc =
               IF doc[w][j].mem = "RUNNING" THEN "process" ELSE "finishLock"]
  /\ UNCHANGED <<queueVars, tombstones, main, api>>

\* _latest_doc_phase_job: the object cached when the thread took up the job, be
\* it the executor's own or one that recovery had already marked, and otherwise
\* the file.
LatestDocStatus(w, j) ==
  {status \in JobStatus :
     \/ status = doc[w][j].mem
     \/ /\ status = "INTERRUPTED"
        /\ \E r \in RowIds : queue_items[r].item = j /\ queue_items[r].interrupted
     \/ status = job_json[j]}

DocFinish(w, j) ==
  /\ doc[w][j].pc = "finishLock"
  /\ ~Locked(j)
  /\ FinishExecution(j)
  /\ \E latest \in LatestDocStatus(w, j) :
       doc' = [doc EXCEPT ![w][j] = [pc |-> "finishWrite", mem |-> FinishedStatus(j, latest)]]
  /\ UNCHANGED <<fileVars, main, api>>

DocFinished(w, j) ==
  /\ doc[w][j].pc = "finishWrite"
  /\ WriteJson(j, doc[w][j].mem)
  /\ doc' = [doc EXCEPT ![w][j].pc = "refresh"]
  /\ UNCHANGED <<queueVars, tombstones, main, api>>

DocRefresh(w, j) ==
  /\ doc[w][j].pc = "refresh"
  /\ RefreshSummary(j)
  /\ doc' = [doc EXCEPT ![w][j] = NoDoc]
  /\ UNCHANGED <<queueVars, job_json, main, api>>

-------------------------------------------------------------------------------
(* run_once: wait for the job, then complete the claim.                     *)

Executing(j) == execution_controls[j].state = "running"

\* Mistake: only the file is asked whether the job is over.
CheckFileOnly(w) ==
  /\ At(w, "check")
  /\ Goto(w, IF HasStatus(main[w].job, {"QUEUED", "RUNNING"}) THEN "wait" ELSE "report")
  /\ UNCHANGED <<queueVars, fileVars, doc, api>>

\* run_once waits only when it could read the job.
Check(w) ==
  LET j == main[w].job IN
  /\ At(w, "check")
  /\ Goto(w, IF Readable(j) /\ (~HasStatus(j, Terminal) \/ Executing(j))
             THEN "wait" ELSE "report")
  /\ UNCHANGED <<queueVars, fileVars, doc, api>>

\* _wait_for_job_completion; a timeout fails the row.
Wait(w) ==
  LET j == main[w].job IN
  /\ At(w, "wait")
  /\ \/ /\ HasStatus(j, Terminal) /\ ~Executing(j)
        /\ Goto(w, "report")
     \/ /\ "timeout" \in Disturbances
        /\ main' = [main EXCEPT ![w].pc = "complete", ![w].mem = "failed"]
  /\ UNCHANGED <<queueVars, fileVars, doc, api>>

\* refresh_summary_index and the reload that decides the status of the row.
Report(w) ==
  LET j == main[w].job IN
  /\ At(w, "report")
  /\ RefreshSummary(j)
  /\ main' = [main EXCEPT ![w].pc = "complete",
                ![w].mem = IF HasStatus(j, {"CANCELLED"}) THEN "cancelled" ELSE "done"]
  /\ UNCHANGED <<queueVars, job_json, doc, api>>

CompleteOwned(w) ==
  /\ At(w, "complete")
  /\ CompleteClaim(main[w].row, w, main[w].mem)
  /\ main' = [main EXCEPT ![w] = IdleMain]
  /\ UNCHANGED <<fileVars, doc, api>>

\* Mistake: after another worker's acknowledgement the late one says nothing.
CompleteRejectedQuietly(w) ==
  /\ At(w, "complete")
  /\ ~OwnedClaim(main[w].row, w)
  /\ main' = [main EXCEPT ![w] = IdleMain]
  /\ UNCHANGED <<queueVars, fileVars, doc, api>>

\* complete_claim returned None.  An interrupted row without a newer one is
\* finalized again, and acknowledged if it still carries this worker.
CompleteRejected(w) ==
  LET r == main[w].row
      j == main[w].job
      mine == IF AwaitsAcknowledgement(r) THEN {r} ELSE {}
  IN
  /\ At(w, "complete")
  /\ ~OwnedClaim(r, w)
  /\ \/ /\ ~queue_items[r].interrupted
        /\ main' = [main EXCEPT ![w] = IdleMain]
     \/ /\ queue_items[r].interrupted
        /\ ~HasNewerQueueItem(r) /\ Readable(j)
        /\ main' = [main EXCEPT ![w].pc = "finalize", ![w].mem = job_json[j],
                                ![w].todo = mine, ![w].late = TRUE]
     \/ /\ queue_items[r].interrupted
        /\ HasNewerQueueItem(r) \/ ~Readable(j)
        /\ main' = [main EXCEPT ![w].pc = "acknowledge", ![w].mem = "none",
                                ![w].todo = mine, ![w].late = TRUE]
  /\ UNCHANGED <<queueVars, fileVars, doc, api>>

MainStep(w) ==
  \/ RunOnce(w)
  \/ \E r \in RowIds : ReconcileNext(w, r)
  \/ Finalize(w)
  \/ LockForUpdate(w, "reconcileLock", "reconcileWrite")
  \/ WriteAndUnlock(w, "reconcileWrite", "refresh")
  \/ RefreshAfter(w, "refresh", "acknowledge")
  \/ Acknowledge(w)
  \/ ReconcileDone(w)
  \/ Claim(w)
  \/ LoadJob(w)
  \/ Begin(w)
  \/ Prepare(w)
  \/ Process(w)
  \/ ProcessWritten(w)
  \/ LockForUpdate(w, "updateLock", "updateWrite")
  \/ WriteAndUnlock(w, "updateWrite", "boundary")
  \/ Boundary(w)
  \/ FinishJob(w)
  \/ WriteAndUnlock(w, "finishWrite", "finishRefresh")
  \/ RefreshAfter(w, "finishRefresh", "check")
  \/ Check(w)
  \/ Wait(w)
  \/ Report(w)
  \/ CompleteOwned(w)
  \/ CompleteRejected(w)

DocStep(w) ==
  \E j \in Job :
    \/ DocStart(w, j)
    \/ DocCalculate(w, j)
    \/ DocDeliver(w, j)
    \/ DocDelivered(w, j)
    \/ DocFinish(w, j)
    \/ DocFinished(w, j)
    \/ DocRefresh(w, j)

-------------------------------------------------------------------------------
(* The API process: creation, repeated enqueueing by retry, cancellation.   *)

CreateJob(j) ==
  /\ api[j] = "none"
  /\ job_json' = [job_json EXCEPT ![j] = "QUEUED"]
  /\ api' = [api EXCEPT ![j] = "created"]
  /\ UNCHANGED <<queueVars, tombstones, main, doc>>

EnqueueCreated(j) ==
  /\ api[j] = "created"
  /\ Enqueue(j)
  /\ api' = [api EXCEPT ![j] = "ready"]
  /\ UNCHANGED <<fileVars, main, doc>>

\* JobActionService.retry, asked again: it enqueues a retry job that it read as
\* QUEUED, at an earlier time when every job was, and it holds the lock of the
\* original job only.
EnqueueAgain(j) ==
  /\ "retry" \in Disturbances
  /\ api[j] \notin {"none", "created"}
  /\ Enqueue(j)
  /\ UNCHANGED <<fileVars, main, doc, api>>

\* cancel: the actions read from the file and the control allow it.
CancelCheck(j) ==
  /\ api[j] = "ready"
  /\ HasStatus(j, {"QUEUED", "RUNNING"})
  /\ ~(Executing(j) /\ CancelRequested(j))
  /\ api' = [api EXCEPT ![j] = "cancelRequest"]
  /\ UNCHANGED <<queueVars, fileVars, main, doc>>

CancelRequest(j) ==
  /\ api[j] = "cancelRequest"
  /\ RequestExecutionCancel(j)
  /\ api' = [api EXCEPT ![j] =
               CASE execution_controls'[j].state = "completed" -> "ready"
                 [] execution_controls'[j].state = "running"   -> "cancelRefresh"
                 [] OTHER                                      -> "cancelLock"]
  /\ UNCHANGED <<fileVars, main, doc>>

CancelLock(j) ==
  /\ api[j] = "cancelLock"
  /\ ~Locked(j)
  /\ api' = [api EXCEPT ![j] = "cancelWrite"]
  /\ UNCHANGED <<queueVars, fileVars, main, doc>>

CancelWrite(j) ==
  /\ api[j] = "cancelWrite"
  /\ WriteJson(j, "CANCELLED")
  /\ api' = [api EXCEPT ![j] = "cancelRefresh"]
  /\ UNCHANGED <<queueVars, tombstones, main, doc>>

CancelRefresh(j) ==
  /\ api[j] = "cancelRefresh"
  /\ RefreshSummary(j)
  /\ api' = [api EXCEPT ![j] = "ready"]
  /\ UNCHANGED <<queueVars, job_json, main, doc>>

\* A request that was accepted runs to its end; users decide the rest.
ApiStep(j) ==
  \/ EnqueueCreated(j)
  \/ CancelRequest(j)
  \/ CancelLock(j)
  \/ CancelWrite(j)
  \/ CancelRefresh(j)

UserStep(j) == CreateJob(j) \/ EnqueueAgain(j) \/ CancelCheck(j)

-------------------------------------------------------------------------------
(* Time and faults.                                                         *)

Dead(w) == At(w, "dead")

\* The heartbeat thread of a busy worker.
Heartbeat(w) ==
  /\ ~Dead(w)
  /\ main[w].job # NoJob
  /\ HeartbeatClaim(w, main[w].job)
  /\ UNCHANGED <<fileVars, main, doc, api>>

\* The claim of a dead worker expires; that of a live one only if it stalls.
Expire(r) ==
  /\ \/ "stall" \in Disturbances
     \/ \E w \in Worker : Dead(w) /\ OwnedClaim(r, w)
  /\ ExpireClaim(r)
  /\ UNCHANGED <<fileVars, main, doc, api>>

\* A process dies: its threads and its file locks vanish, its claim stays, and
\* a file it was rewriting stays torn.
Crash(w) ==
  /\ "crash" \in Disturbances
  /\ ~Dead(w)
  /\ Cardinality({v \in Worker : Dead(v)}) < MaxCrashes
  /\ main' = [main EXCEPT ![w] = DeadMain]
  /\ doc' = [doc EXCEPT ![w] = [j \in Job |-> NoDoc]]
  /\ UNCHANGED <<queueVars, fileVars, api>>

-------------------------------------------------------------------------------
Next ==
  \/ \E w \in Worker : MainStep(w) \/ DocStep(w) \/ Heartbeat(w) \/ Crash(w)
  \/ \E j \in Job : ApiStep(j) \/ UserStep(j)
  \/ \E r \in RowIds : Expire(r)

Spec == Init /\ [][Next]_vars

\* Live threads and accepted requests keep going, and the claim of a dead
\* worker gets older: run_forever polls, the executors terminate, time passes.
ExpireAbandoned ==
  \E r \in RowIds, w \in Worker :
    /\ Dead(w) /\ OwnedClaim(r, w) /\ ~Stale(r)
    /\ Expire(r)

Fairness ==
  /\ \A w \in Worker : WF_vars(MainStep(w)) /\ WF_vars(DocStep(w))
  /\ \A j \in Job : WF_vars(ApiStep(j))
  /\ WF_vars(ExpireAbandoned)

FairSpec == Spec /\ Fairness

-------------------------------------------------------------------------------
(* Properties.                                                              *)

ExecutionPc ==
  {"prepare", "process", "stageWrite", "updateLock", "updateWrite", "boundary",
   "finishLock", "finishWrite"}

\* The threads of w that are between begin_execution and the final job.json.
MainExecutes(w, j) == main[w].job = j /\ main[w].pc \in ExecutionPc
DocExecutes(w, j) == doc[w][j].pc # "none"
Executes(w, j) == MainExecutes(w, j) \/ DocExecutes(w, j)

\* The non-idempotent work of a job is never in two hands: not after a stale
\* claim was recovered and the job enqueued again, not when the old worker
\* wakes up late, and not in the two threads of one worker.
SingleExecution ==
  \A j \in Job, v, w \in Worker :
    /\ Executes(v, j) /\ Executes(w, j) => v = w
    /\ ~(MainExecutes(w, j) /\ DocExecutes(w, j))

\* Nobody starts a job whose cancellation was acknowledged, even if the row was
\* claimed and the job loaded before the cancellation.
NoStartAfterCancel ==
  [][\A j \in Job, w \in Worker :
       execution_controls[j].state = "cancelled" /\ Executes(w, j)' => Executes(w, j)
    ]_vars

\* A claim completed as done or cancelled means that the execution is over, the
\* document phase in the other thread included.  (A row that Enqueue inserts as
\* cancelled was never claimed.)
RowDoneMeansStopped ==
  \A r \in RowIds :
    /\ queue_items[r].status \in {"done", "cancelled"}
    /\ queue_items[r].claimed_by # NoWorker
    => ~Executing(queue_items[r].item)

\* A job the user saw cancelled stays cancelled: a late save of another thread
\* or process never overwrites it.
CancelledSticks ==
  [][\A j \in Job : HasStatus(j, {"CANCELLED"}) => HasStatus(j, {"CANCELLED"})']_vars

\* Nobody works on j any more and no row of j is open or awaits reconciliation.
Settled(j) ==
  /\ api[j] = "ready"
  /\ \A w \in Worker : main[w].job # j /\ ~DocExecutes(w, j)
  /\ \A r \in RowIds :
       queue_items[r].item = j => ~Unfinished(r) /\ ~AwaitsAcknowledgement(r)

\* When the dust has settled after cancellations, crashes and recoveries, the
\* fence is released and the job is terminal, so that the user can act on it.
SettledIsTerminal ==
  \A j \in Job : Settled(j) => ~Executing(j) /\ HasStatus(j, Terminal)

\* Then the database and the file also agree on whether the job was cancelled.
SettledAgrees ==
  \A j \in Job :
    Settled(j) =>
      (execution_controls[j].state = "cancelled" <=> HasStatus(j, {"CANCELLED"}))

\* r is the only claim on its job that was taken from a worker.
OnlyInterrupted(r) ==
  /\ queue_items[r].interrupted
  /\ \A q \in RowIds :
       queue_items[q].item = queue_items[r].item /\ queue_items[q].interrupted => q = r

\* A job whose last claim was interrupted ends as interrupted (or cancelled):
\* the late worker that comes back after the reconciliation, finishes and saves
\* its own outcome does not get the last word.  (With a second interrupted claim
\* it does: its row is superseded, so that it leaves the job as it saved it.)
InterruptionStands ==
  \A j \in Job, r \in RowIds :
    /\ Settled(j)
    /\ queue_items[r].item = j /\ OnlyInterrupted(r)
    /\ ~HasNewerQueueItem(r)
    => HasStatus(j, {"INTERRUPTED", "CANCELLED"})

\* Every accepted job comes to an end, as long as one worker survives.
EveryJobEnds ==
  \A j \in Job : api[j] = "created" ~> (HasStatus(j, Terminal) /\ ~Executing(j))

\* Acknowledging an interruption ends it for good, so the execution must have
\* been ended in the database first: no later poll will look at it again.
AcknowledgedWasReconciled ==
  [][\A r \in RowIds :
       AwaitsAcknowledgement(r) /\ ~AwaitsAcknowledgement(r)'
         => ~Executing(queue_items[r].item)
    ]_vars

\* Every interrupted claim is reconciled and acknowledged.
InterruptionsReconciled ==
  \A j \in Job :
    (\E r \in RowIds : queue_items[r].item = j /\ AwaitsAcknowledgement(r))
      ~> ~(\E r \in RowIds : queue_items[r].item = j /\ AwaitsAcknowledgement(r))

\* A cancellation that the database accepted is what the job ends with, for
\* good, although the executor runs on to its next safe boundary and although
\* recovery, the document thread and the cancelling request all save the job.
CancelIsHonoured ==
  \A j \in Job : CancelRequested(j) ~> []HasStatus(j, {"CANCELLED"})
===============================================================================
