---------------------------- MODULE GroupExecution ----------------------------
(***************************************************************************)
(* The execution of a task group by worker processes: the main thread of a *)
(* worker claims the group's queue row and runs _process_group, which runs *)
(* the two child jobs in the heavy executor and the document executor of   *)
(* the same process; the children have no queue rows.  The API cancels the *)
(* group and its children; the next worker recovers what a dead or stalled *)
(* one has left.  The queue is that of SQLiteQueue, group.json that of     *)
(* GroupStore.  A save of a job.json under its file lock is one step here; *)
(* JobExecution has the steps inside it and the executors' rewriting.      *)
(***************************************************************************)
EXTENDS SQLiteQueue, GroupStore, Sequences, FiniteSets

CONSTANTS
  DeliverableOf,  \* DeliverableOf[g]: the child in the role deliverable_main
  AuditOf,        \* AuditOf[g]: the child audit_check, or audit_replace
  Modes,          \* the kinds of groups submitted, see replacing below
  Slots,          \* CAD slots, and heavy threads, of a worker process
  Disturbances,   \* what goes wrong in this instance, see Disturbance
  MaxFaults       \* bound on the times that something goes wrong

Child == {DeliverableOf[g] : g \in Group} \cup {AuditOf[g] : g \in Group}
GroupOf(c) == CHOOSE g \in Group : c \in {DeliverableOf[g], AuditOf[g]}
IsDeliverable(c) == c = DeliverableOf[GroupOf(c)]

\* "crash":   a worker process dies
\* "stall":   a live worker misses heartbeats for the whole claim timeout
\* "timeout": _wait_for_job_completion gives up
Disturbance == {"crash", "stall", "timeout"}

ASSUME GroupExecutionAssumption ==
  /\ DeliverableOf \in [Group -> Nat \ {0}]
  /\ AuditOf \in [Group -> Nat \ {0}]
  /\ Item = Group \cup Child
  /\ Group \cap Child = {}
  /\ \A g, h \in Group :
       /\ DeliverableOf[g] # AuditOf[h]
       /\ g # h => DeliverableOf[g] # DeliverableOf[h] /\ AuditOf[g] # AuditOf[h]
  /\ Modes \subseteq BOOLEAN
  /\ Slots \in Nat \ {0}
  /\ Disturbances \subseteq Disturbance
  /\ MaxFaults \in Nat

VARIABLES
  job_json,   \* job_json[c]: the status in the job.json of child c
  main,       \* main[w]: the main thread of worker w
  run,        \* run[w][c]: child c in the executors of worker w
  slots,      \* slots[w]: idle slots in the CADSlotPool of worker w
  api,        \* api[g]: the cancel request for group g
  faults      \* how often something went wrong

fileVars == <<group_json, job_json>>
vars == <<last_id, queue_items, execution_controls, group_json, job_json, main,
          run, slots, api, faults>>

\* INTERRUPTED is FAILED with the worker_interrupted_before_completion mark.
Terminal == {"SUCCEEDED", "FAILED", "INTERRUPTED", "CANCELLED"}
Status == {"QUEUED", "RUNNING"} \cup Terminal

\* replacing: group_mode is replace_then_deliverable.
GroupValue == [status : Status, replacing : BOOLEAN]
Record == [version : Nat, value : GroupValue \cup {NoValue}]

MainPc ==
  {"dead", "idle", "recover", "mark", "recoverChild", "markChild", "acknowledge",
   "load", "begin", "start", "prepare", "shared", "children", "progress",
   "wait", "prepareNext", "nextSave", "next", "nextChild", "conclude", "finish", "save",
   "complete"}

\* rows: interrupted rows to reconcile.  mem: the TaskGroup object in hand.
\* todo: the children still to be treated by the loop the thread is in.
\* failed: a finished child had failed.  late: inside _finish_owned_claim.
\* raised: _process_group was left with an exception.
Main ==
  [pc : MainPc, row : 0 .. MaxRows, rows : SUBSET (1 .. MaxRows), mem : Record,
   todo : Seq(Child), failed : BOOLEAN, late : BOOLEAN, raised : BOOLEAN]

\* The phases of a child that hold a slot are those from process to release.
HoldingPc == {"process", "stages", "update", "boundary", "finish", "release"}
RunPc == {"none", "heavy", "begin", "acquire", "doc", "docRun", "docFinish"} \cup HoldingPc
Run == [pc : RunPc, mem : Status]

ApiPc == {"new", "ready", "request", "child", "childSave", "save", "answered"}
Api == [pc : ApiPc, mem : Record, todo : Seq(Child)]

TypeOK ==
  /\ TypeOKQ
  /\ group_json \in [Group -> Record]
  /\ job_json \in [Child -> Status]
  /\ main \in [Worker -> Main]
  /\ run \in [Worker -> [Child -> Run]]
  /\ slots \in [Worker -> 0 .. Slots]
  /\ api \in [Group -> Api]
  /\ faults \in 0 .. MaxFaults

Idle ==
  [pc |-> "idle", row |-> 0, rows |-> {}, mem |-> Missing, todo |-> <<>>,
   failed |-> FALSE, late |-> FALSE, raised |-> FALSE]
NotRunning == [pc |-> "none", mem |-> "QUEUED"]
NoRuns == [c \in Child |-> NotRunning]

\* The submission has created the children and the group, in this order, and
\* has yet to enqueue the group.
Init ==
  /\ InitQ
  /\ group_json \in
       [Group -> {[version |-> 1, value |-> [status |-> "QUEUED", replacing |-> b]] :
                    b \in Modes}]
  /\ job_json = [c \in Child |-> "QUEUED"]
  /\ main = [w \in Worker |-> Idle]
  /\ run = [w \in Worker |-> NoRuns]
  /\ slots = [w \in Worker |-> Slots]
  /\ api = [g \in Group |-> [pc |-> "new", mem |-> Missing, todo |-> <<>>]]
  /\ faults = 0

\* child_job_ids, in the order in which each kind of submission creates them.
Children(g) ==
  IF group_json[g].value.replacing
  THEN <<AuditOf[g], DeliverableOf[g]>>
  ELSE <<DeliverableOf[g], AuditOf[g]>>

Executing(i) == execution_controls[i].state = "running"
GroupStatus(g) == Saved(g).status

At(w, pc) == main[w].pc = pc
Goto(w, pc) == main' = [main EXCEPT ![w].pc = pc]
TheGroup(w) == queue_items[main[w].row].item

\* The status finish_execution leaves: the outcome of the control decides.
FinishedStatus(i, status) ==
  IF ControlAfterFinish(execution_controls[i]).state = "cancelled"
  THEN "CANCELLED"
  ELSE status

\* update_job: CANCELLED is forced when the control is cancelled.
UpdateJob(c, status) ==
  job_json' = [job_json EXCEPT ![c] =
                 IF execution_controls[c].state = "cancelled" THEN "CANCELLED" ELSE status]

\* update_group by worker w, with its object's status changed to status.
SaveGroup(w, status) ==
  UpdateGroup(TheGroup(w), main[w].mem, [main[w].mem.value EXCEPT !.status = status])

\* update_group raises: somebody saved the group since the object was read.
Conflict(w) == ~Current(TheGroup(w), main[w].mem)

-------------------------------------------------------------------------------
(* run_once: recovery of the groups whose worker died or stalled.           *)

\* recover_stale_claims, then the snapshot list_interrupted_claims takes.  A poll
\* that finds nothing to recover and nothing to claim changes nothing.
RunOnce(w) ==
  LET interrupted == {r \in RowIds : AwaitsAcknowledgement(r)'} IN
  /\ At(w, "idle")
  /\ RecoverStaleClaims
  /\ interrupted # {} \/ QueuedRows # {}
  /\ main' = [main EXCEPT ![w].pc = "recover", ![w].rows = interrupted]
  /\ UNCHANGED <<fileVars, run, slots, api, faults>>

\* _finalize_interrupted_item: load the group, end its execution, and mark it as
\* interrupted unless it already is; a cancellation makes it CANCELLED.
RecoverGroup(w, r) ==
  LET g == queue_items[r].item IN
  /\ At(w, "recover")
  /\ r \in main[w].rows /\ \A q \in main[w].rows : r <= q
  /\ FinishExecution(g)
  /\ main' = [main EXCEPT
                ![w].pc = IF GroupStatus(g) = "INTERRUPTED" THEN "recoverChild" ELSE "mark",
                ![w].row = r, ![w].rows = @ \ {r}, ![w].todo = Children(g),
                ![w].mem = [group_json[g] EXCEPT
                              !.value.status = FinishedStatus(g, "INTERRUPTED")]]
  /\ UNCHANGED <<fileVars, run, slots, api, faults>>

\* What the loop over the interrupted rows and a late completion go on with.
Reconciled(w) ==
  IF main[w].late THEN Idle ELSE [Idle EXCEPT !.pc = "recover", !.rows = main[w].rows]

MarkGroup(w) ==
  /\ At(w, "mark")
  /\ SaveGroup(w, main[w].mem.value.status)
  /\ Goto(w, "recoverChild")
  /\ UNCHANGED <<queueVars, job_json, run, slots, api, faults>>

\* The save raises: the row keeps waiting for a later poll.
MarkConflicts(w) ==
  /\ At(w, "mark")
  /\ Conflict(w)
  /\ main' = [main EXCEPT ![w] = Reconciled(w)]
  /\ UNCHANGED <<queueVars, fileVars, run, slots, api, faults>>

\* Mistake: the children of an interrupted group are left as they are.
ForgetChildren(w) ==
  /\ At(w, "recoverChild")
  /\ Goto(w, "acknowledge")
  /\ UNCHANGED <<queueVars, fileVars, run, slots, api, faults>>

\* The next child: end its execution when its file says that it is not over.
RecoverChild(w) ==
  LET c == Head(main[w].todo) IN
  /\ At(w, "recoverChild")
  /\ \/ /\ main[w].todo = <<>>
        /\ Goto(w, "acknowledge")
        /\ UNCHANGED queueVars
     \/ /\ main[w].todo # <<>>
        /\ job_json[c] \notin Terminal
        /\ FinishExecution(c)
        /\ Goto(w, "markChild")
     \/ /\ main[w].todo # <<>>
        /\ job_json[c] \in Terminal
        /\ main' = [main EXCEPT ![w].todo = Tail(@)]
        /\ UNCHANGED queueVars
  /\ UNCHANGED <<fileVars, run, slots, api, faults>>

MarkChild(w) ==
  /\ At(w, "markChild")
  /\ UpdateJob(Head(main[w].todo), "INTERRUPTED")
  /\ main' = [main EXCEPT ![w].pc = "recoverChild", ![w].todo = Tail(@)]
  /\ UNCHANGED <<queueVars, group_json, run, slots, api, faults>>

\* Acknowledge with the owner read earlier, or, in a late completion, with the
\* own identity; another worker may have done it.
Acknowledge(w) ==
  LET r == main[w].row IN
  /\ At(w, "acknowledge")
  /\ IF AwaitsAcknowledgement(r) /\ (main[w].late => queue_items[r].claimed_by = w)
     THEN AcknowledgeInterruptedClaim(r, queue_items[r].claimed_by)
     ELSE UNCHANGED queueVars
  /\ main' = [main EXCEPT ![w] = Reconciled(w)]
  /\ UNCHANGED <<fileVars, run, slots, api, faults>>

-------------------------------------------------------------------------------
(* _process_group in the main thread.                                       *)

\* claim_next, when the loop over the interrupted rows is done.
Claim(w) ==
  /\ At(w, "recover")
  /\ main[w].rows = {}
  /\ \/ /\ QueuedRows = {}
        /\ main' = [main EXCEPT ![w] = Idle]
        /\ UNCHANGED queueVars
     \/ \E r \in RowIds :
          /\ ClaimNext(r, w)
          /\ main' = [main EXCEPT ![w].pc = "load", ![w].row = r]
  /\ UNCHANGED <<fileVars, run, slots, api, faults>>

Load(w) ==
  LET g == TheGroup(w) IN
  /\ At(w, "load")
  /\ main' = IF GroupStatus(g) = "QUEUED"
             THEN [main EXCEPT ![w].pc = "begin", ![w].mem = group_json[g]]
             ELSE [main EXCEPT ![w].pc = "complete"]
  /\ UNCHANGED <<queueVars, fileVars, run, slots, api, faults>>

Begin(w) ==
  LET g == TheGroup(w) IN
  /\ At(w, "begin")
  /\ BeginExecution(g)
  /\ Goto(w, IF BeginGranted(g) THEN "start" ELSE "complete")
  /\ UNCHANGED <<fileVars, run, slots, api, faults>>

\* The except branch: the object in hand becomes FAILED.
Fail(w) ==
  main' = [main EXCEPT ![w].pc = "finish", ![w].mem.value.status = "FAILED"]

\* update_group at pc from: with the object as it is, or it raises.
SaveProgress(w, from, to) ==
  /\ At(w, from)
  /\ \/ /\ SaveGroup(w, "RUNNING")
        /\ main' = [main EXCEPT ![w].pc = to, ![w].mem = group_json'[TheGroup(w)],
                                ![w].todo = Children(TheGroup(w))]
     \/ /\ Conflict(w)
        /\ Fail(w)
        /\ UNCHANGED group_json
  /\ UNCHANGED <<queueVars, job_json, run, slots, api, faults>>

\* SharedPrepService.prepare, for hours or in vain, then a look for a
\* cancellation; a return leaves the object RUNNING.
Prepare(w, from, to) ==
  /\ At(w, from)
  /\ \/ Fail(w)
     \/ Goto(w, IF CancelRequested(TheGroup(w)) THEN "finish" ELSE to)
  /\ UNCHANGED <<queueVars, fileVars, run, slots, api, faults>>

\* update_job of each child, with the object that was loaded as QUEUED.
UpdateChildren(w) ==
  /\ At(w, "children")
  /\ UpdateJob(Head(main[w].todo), "QUEUED")
  /\ main' = [main EXCEPT ![w].todo = Tail(@),
                          ![w].pc = IF Len(main[w].todo) = 1 THEN "progress" ELSE @]
  /\ UNCHANGED <<queueVars, group_json, run, slots, api, faults>>

\* _enqueue_job: the heavy executor gets the children cs.
Submit(w, cs) ==
  run' = [run EXCEPT ![w] = [c \in Child |-> IF c \in cs THEN [NotRunning EXCEPT !.pc = "heavy"]
                                             ELSE run[w][c]]]

\* Mistake: both children are enqueued whatever the mode of the group is.
FirstBatchOfAll(g) == Children(g)

\* In a replacing group the deliverable comes after the replacement.
FirstBatch(g) ==
  IF group_json[g].value.replacing THEN <<AuditOf[g]>> ELSE Children(g)

\* The last save before the children, which are then enqueued and waited for.
StartChildren(w) ==
  LET g == TheGroup(w)
      batch == FirstBatch(g)
  IN
  /\ At(w, "progress")
  /\ \/ /\ SaveGroup(w, "RUNNING")
        /\ main' = [main EXCEPT ![w].pc = "wait", ![w].mem = group_json'[g],
                                ![w].todo = batch]
        /\ Submit(w, {batch[i] : i \in DOMAIN batch})
     \/ /\ Conflict(w)
        /\ Fail(w)
        /\ UNCHANGED <<group_json, run>>
  /\ UNCHANGED <<queueVars, job_json, slots, api, faults>>

\* Mistake: the last child that was waited for decides.
LastChildFailed(w, c) == job_json[c] \in {"FAILED", "INTERRUPTED"}

AnyChildFailed(w, c) == main[w].failed \/ job_json[c] \in {"FAILED", "INTERRUPTED"}

\* The wait for the replacement job is over: a deliverable that cannot be made
\* is failed by name, and otherwise prepared from the replaced drawing.
AfterReplacement(w, c) ==
  IF CancelRequested(TheGroup(w)) THEN "finish"
  ELSE IF job_json[c] = "SUCCEEDED" THEN "prepareNext" ELSE "nextChild"

\* _wait_for_job_completion of the next child.
WaitForChild(w) ==
  LET c == Head(main[w].todo)
      rest == Tail(main[w].todo)
      first == group_json[TheGroup(w)].value.replacing /\ ~IsDeliverable(c)
  IN
  /\ At(w, "wait")
  /\ job_json[c] \in Terminal /\ ~Executing(c)
  /\ main' = [main EXCEPT ![w].todo = rest, ![w].failed = AnyChildFailed(w, c),
                          ![w].pc = IF first THEN AfterReplacement(w, c)
                                    ELSE IF rest = <<>> THEN "conclude" ELSE "wait"]
  /\ UNCHANGED <<queueVars, fileVars, run, slots, api, faults>>

\* The TimeoutError of _wait_for_job_completion: the group fails, the child goes
\* on.
GiveUpWaiting(w) ==
  /\ At(w, "wait")
  /\ "timeout" \in Disturbances /\ faults < MaxFaults
  /\ faults' = faults + 1
  /\ Fail(w)
  /\ UNCHANGED <<queueVars, fileVars, run, slots, api>>

\* replace_job_failed: the deliverable is failed without having run.
FailDeliverable(w) ==
  /\ At(w, "nextChild")
  /\ UpdateJob(DeliverableOf[TheGroup(w)], "FAILED")
  /\ main' = [main EXCEPT ![w].pc = "conclude", ![w].failed = TRUE]
  /\ UNCHANGED <<queueVars, group_json, run, slots, api, faults>>

\* After the group's workload is saved: update, enqueue, wait.
StartDeliverable(w) ==
  LET c == DeliverableOf[TheGroup(w)] IN
  /\ At(w, "next")
  /\ UpdateJob(c, "QUEUED")
  /\ Submit(w, {c})
  /\ main' = [main EXCEPT ![w].pc = "wait", ![w].todo = <<c>>]
  /\ UNCHANGED <<queueVars, group_json, slots, api, faults>>

\* The children are over: a cancellation, or the outcome of the children.
Conclude(w) ==
  LET status == IF CancelRequested(TheGroup(w)) THEN "RUNNING"
                ELSE IF main[w].failed THEN "FAILED" ELSE "SUCCEEDED"
  IN
  /\ At(w, "conclude")
  /\ main' = [main EXCEPT ![w].pc = "finish", ![w].mem.value.status = status]
  /\ UNCHANGED <<queueVars, fileVars, run, slots, api, faults>>

\* Mistake: the outcome is saved, the fence stays closed.
SaveWithoutFinishing(w) ==
  /\ At(w, "finish")
  /\ Goto(w, "save")
  /\ UNCHANGED <<queueVars, fileVars, run, slots, api, faults>>

\* finally: end the execution, then save.
Finish(w) ==
  LET g == TheGroup(w) IN
  /\ At(w, "finish")
  /\ FinishExecution(g)
  /\ main' = [main EXCEPT ![w].pc = "save",
                          ![w].mem.value.status = FinishedStatus(g, @)]
  /\ UNCHANGED <<fileVars, run, slots, api, faults>>

\* A conflict in the finally block leaves _process_group with an exception.
SaveOutcome(w) ==
  /\ At(w, "save")
  /\ \/ /\ SaveGroup(w, main[w].mem.value.status)
        /\ Goto(w, "complete")
     \/ /\ Conflict(w)
        /\ main' = [main EXCEPT ![w].pc = "complete", ![w].raised = TRUE]
        /\ UNCHANGED group_json
  /\ UNCHANGED <<queueVars, job_json, run, slots, api, faults>>

\* The status of the row: that of an exception, or according to the file.
RowOutcome(w) ==
  IF main[w].raised THEN "failed"
  ELSE IF GroupStatus(TheGroup(w)) = "CANCELLED" THEN "cancelled" ELSE "done"

\* complete_claim, or its rejection: an interruption is then finalized again.
Complete(w) ==
  LET r == main[w].row IN
  /\ At(w, "complete")
  /\ \/ /\ CompleteClaim(r, w, RowOutcome(w))
        /\ main' = [main EXCEPT ![w] = Idle]
     \/ /\ ~OwnedClaim(r, w)
        /\ main' = [main EXCEPT ![w] =
             IF queue_items[r].interrupted
             THEN [Idle EXCEPT !.pc = "recover", !.rows = {r}, !.late = TRUE]
             ELSE Idle]
        /\ UNCHANGED queueVars
  /\ UNCHANGED <<fileVars, run, slots, api, faults>>

MainStep(w) ==
  \/ RunOnce(w)
  \/ \E r \in RowIds : RecoverGroup(w, r)
  \/ MarkGroup(w)
  \/ MarkConflicts(w)
  \/ RecoverChild(w)
  \/ MarkChild(w)
  \/ Acknowledge(w)
  \/ Claim(w)
  \/ Load(w)
  \/ Begin(w)
  \/ SaveProgress(w, "start", "prepare")
  \/ Prepare(w, "prepare", "shared")
  \/ SaveProgress(w, "shared", "children")
  \/ UpdateChildren(w)
  \/ StartChildren(w)
  \/ WaitForChild(w)
  \/ Prepare(w, "prepareNext", "nextSave")
  \/ SaveProgress(w, "nextSave", "next")
  \/ StartDeliverable(w)
  \/ FailDeliverable(w)
  \/ Conclude(w)
  \/ Finish(w)
  \/ SaveOutcome(w)
  \/ Complete(w)

-------------------------------------------------------------------------------
(* _run_job in the heavy executor, _run_doc_job in the document executor.   *)

RunTo(w, c, pc) == run' = [run EXCEPT ![w][c].pc = pc]

HeavyThreads(w) == {c \in Child : run[w][c].pc \in {"begin", "acquire"} \cup HoldingPc}

\* A free thread takes up the job; only one that is QUEUED goes on.
LoadChild(w, c) ==
  /\ run[w][c].pc = "heavy"
  /\ Cardinality(HeavyThreads(w)) < Slots
  /\ RunTo(w, c, IF job_json[c] = "QUEUED" THEN "begin" ELSE "none")
  /\ UNCHANGED <<queueVars, fileVars, main, slots, api, faults>>

BeginChild(w, c) ==
  /\ run[w][c].pc = "begin"
  /\ BeginExecution(c)
  /\ RunTo(w, c, IF BeginGranted(c) THEN "acquire" ELSE "none")
  /\ UNCHANGED <<fileVars, main, slots, api, faults>>

\* CADSlotPool.acquire, then a look for a cancellation.
AcquireSlot(w, c) ==
  /\ run[w][c].pc = "acquire"
  /\ slots[w] > 0
  /\ slots' = [slots EXCEPT ![w] = @ - 1]
  /\ RunTo(w, c, IF CancelRequested(c) THEN "finish" ELSE "process")
  /\ UNCHANGED <<queueVars, fileVars, main, api, faults>>

\* The processor: it fails in preparation, a deliverable saves that it runs,
\* an audit ends in memory.
Process(w, c) ==
  /\ run[w][c].pc = "process"
  /\ \/ /\ run' = [run EXCEPT ![w][c] = [pc |-> "finish", mem |-> "FAILED"]]
        /\ UNCHANGED job_json
     \/ /\ IsDeliverable(c)
        /\ run' = [run EXCEPT ![w][c] = [pc |-> "stages", mem |-> "RUNNING"]]
        /\ job_json' = [job_json EXCEPT ![c] = "RUNNING"]
     \/ /\ ~IsDeliverable(c)
        /\ run' = [run EXCEPT ![w][c] = [pc |-> "update", mem |-> "SUCCEEDED"]]
        /\ UNCHANGED job_json
  /\ UNCHANGED <<queueVars, group_json, main, slots, api, faults>>

\* The slot-bound stages of PipelineExecutor, which saves a failure itself.
SlotBoundStages(w, c) ==
  /\ run[w][c].pc = "stages"
  /\ \/ /\ RunTo(w, c, "update")
        /\ UNCHANGED job_json
     \/ /\ run' = [run EXCEPT ![w][c] = [pc |-> "finish", mem |-> "FAILED"]]
        /\ job_json' = [job_json EXCEPT ![c] = "FAILED"]
  /\ UNCHANGED <<queueVars, group_json, main, slots, api, faults>>

\* update_job forces the object in hand to CANCELLED, too.
UpdateAfterStages(w, c) ==
  /\ run[w][c].pc = "update"
  /\ UpdateJob(c, run[w][c].mem)
  /\ run' = [run EXCEPT ![w][c] = [pc |-> "boundary", mem |-> job_json'[c]]]
  /\ UNCHANGED <<queueVars, group_json, main, slots, api, faults>>

\* Mistake: the document phase keeps the slot that it does not need.
HandOverWithSlot(w, c) ==
  /\ run[w][c].pc = "boundary"
  /\ RunTo(w, c, IF IsDeliverable(c) /\ ~CancelRequested(c) THEN "doc" ELSE "finish")
  /\ UNCHANGED <<queueVars, fileVars, main, slots, api, faults>>

\* Mistake: the slot is given back at the boundary and again at the end.
HandOverAndRelease(w, c) ==
  /\ run[w][c].pc = "boundary"
  /\ slots' = [slots EXCEPT ![w] = @ + 1]
  /\ RunTo(w, c, IF IsDeliverable(c) /\ ~CancelRequested(c) THEN "doc" ELSE "finish")
  /\ UNCHANGED <<queueVars, fileVars, main, api, faults>>

\* The safe boundary: stop on a cancellation; a deliverable gives its slot back
\* and goes to the document executor.
HandOver(w, c) ==
  /\ run[w][c].pc = "boundary"
  /\ \/ /\ IsDeliverable(c) /\ ~CancelRequested(c)
        /\ slots' = [slots EXCEPT ![w] = @ + 1]
        /\ RunTo(w, c, "doc")
     \/ /\ ~IsDeliverable(c) \/ CancelRequested(c)
        /\ RunTo(w, c, "finish")
        /\ UNCHANGED slots
  /\ UNCHANGED <<queueVars, fileVars, main, api, faults>>

\* JobManager.finish_execution: the outcome and the file, under the file lock.
FinishJob(c, status) ==
  /\ FinishExecution(c)
  /\ job_json' = [job_json EXCEPT ![c] = FinishedStatus(c, status)]

FinishChild(w, c) ==
  /\ run[w][c].pc = "finish"
  /\ FinishJob(c, run[w][c].mem)
  /\ RunTo(w, c, "release")
  /\ UNCHANGED <<group_json, main, slots, api, faults>>

ReleaseSlot(w, c) ==
  /\ run[w][c].pc = "release"
  /\ slots' = [slots EXCEPT ![w] = @ + 1]
  /\ RunTo(w, c, "none")
  /\ UNCHANGED <<queueVars, fileVars, main, api, faults>>

\* The document executor has one thread.
StartDocuments(w, c) ==
  /\ run[w][c].pc = "doc"
  /\ \A d \in Child : run[w][d].pc \notin {"docRun", "docFinish"}
  /\ RunTo(w, c, IF CancelRequested(c) THEN "docFinish" ELSE "docRun")
  /\ UNCHANGED <<queueVars, fileVars, main, slots, api, faults>>

\* The post-slot stages; the executor saves the outcome itself.
MakeDocuments(w, c) ==
  /\ run[w][c].pc = "docRun"
  /\ \E status \in {"SUCCEEDED", "FAILED"} :
       /\ job_json' = [job_json EXCEPT ![c] = status]
       /\ run' = [run EXCEPT ![w][c] = [pc |-> "docFinish", mem |-> status]]
  /\ UNCHANGED <<queueVars, group_json, main, slots, api, faults>>

\* _latest_doc_phase_job: a terminal object in the cache, or the file.
FinishDocuments(w, c) ==
  /\ run[w][c].pc = "docFinish"
  /\ \E latest \in {run[w][c].mem, job_json[c]} : FinishJob(c, latest)
  /\ run' = [run EXCEPT ![w][c] = NotRunning]
  /\ UNCHANGED <<group_json, main, slots, api, faults>>

ChildStep(w, c) ==
  \/ LoadChild(w, c)
  \/ BeginChild(w, c)
  \/ AcquireSlot(w, c)
  \/ Process(w, c)
  \/ SlotBoundStages(w, c)
  \/ UpdateAfterStages(w, c)
  \/ HandOver(w, c)
  \/ FinishChild(w, c)
  \/ ReleaseSlot(w, c)
  \/ StartDocuments(w, c)
  \/ MakeDocuments(w, c)
  \/ FinishDocuments(w, c)

-------------------------------------------------------------------------------
(* The API process: submission, and JobActionService.cancel of a group.     *)

ApiTo(g, pc) == api' = [api EXCEPT ![g].pc = pc]

EnqueueGroup(g) ==
  /\ api[g].pc = "new"
  /\ Enqueue(g)
  /\ ApiTo(g, "ready")
  /\ UNCHANGED <<fileVars, main, run, slots, faults>>

\* The actions computed from the file and the control allow it.
CancelCheck(g) ==
  /\ api[g].pc = "ready"
  /\ GroupStatus(g) \in {"QUEUED", "RUNNING"}
  /\ ~(Executing(g) /\ CancelRequested(g))
  /\ api' = [api EXCEPT ![g].pc = "request", ![g].mem = group_json[g]]
  /\ UNCHANGED <<queueVars, fileVars, main, run, slots, faults>>

\* The group first, so that its worker starts nothing new meanwhile.  The file
\* of a group that is running is left to its worker.
CancelRequest(g) ==
  /\ api[g].pc = "request"
  /\ RequestExecutionCancel(g)
  /\ api' = [api EXCEPT ![g].pc = IF execution_controls'[g].state = "completed"
                                  THEN "ready" ELSE "child",
                        ![g].mem = IF execution_controls'[g].state = "cancelled"
                                   THEN @ ELSE Missing,
                        ![g].todo = Children(g)]
  /\ UNCHANGED <<fileVars, main, run, slots, faults>>

\* Mistake: a child that has not started is thought to need no cancellation.
RunningChild(c) == job_json[c] = "RUNNING"

LiveChild(c) == job_json[c] \in {"QUEUED", "RUNNING"}

\* _cancel_child for every child that is not over; one that never began is
\* cancelled on the spot.
CancelChild(g) ==
  LET c == Head(api[g].todo) IN
  /\ api[g].pc = "child"
  /\ \/ /\ api[g].todo = <<>>
        /\ ApiTo(g, "save")
        /\ UNCHANGED queueVars
     \/ /\ api[g].todo # <<>>
        /\ LiveChild(c)
        /\ RequestExecutionCancel(c)
        /\ IF execution_controls'[c].state = "cancelled"
           THEN ApiTo(g, "childSave")
           ELSE api' = [api EXCEPT ![g].todo = Tail(@)]
     \/ /\ api[g].todo # <<>>
        /\ ~LiveChild(c)
        /\ api' = [api EXCEPT ![g].todo = Tail(@)]
        /\ UNCHANGED queueVars
  /\ UNCHANGED <<fileVars, main, run, slots, faults>>

SaveCancelledChild(g) ==
  /\ api[g].pc = "childSave"
  /\ UpdateJob(Head(api[g].todo), "CANCELLED")
  /\ api' = [api EXCEPT ![g].pc = "child", ![g].todo = Tail(@)]
  /\ UNCHANGED <<queueVars, group_json, main, run, slots, faults>>

\* Mistake: the file of the group is always left to its worker.
AnswerWithoutSave(g) ==
  /\ api[g].pc = "save"
  /\ ApiTo(g, "answered")
  /\ UNCHANGED <<queueVars, fileVars, main, run, slots, faults>>

\* A group that never began is cancelled in its file; a conflict is reported to
\* the user, although the request took effect.
AnswerCancel(g) ==
  LET rec == api[g].mem IN
  /\ api[g].pc = "save"
  /\ IF rec # Missing /\ Current(g, rec)
     THEN UpdateGroup(g, rec, [rec.value EXCEPT !.status = "CANCELLED"])
     ELSE UNCHANGED group_json
  /\ ApiTo(g, "answered")
  /\ UNCHANGED <<queueVars, job_json, main, run, slots, faults>>

ApiStep(g) ==
  \/ EnqueueGroup(g)
  \/ CancelRequest(g)
  \/ CancelChild(g)
  \/ SaveCancelledChild(g)
  \/ AnswerCancel(g)

-------------------------------------------------------------------------------
(* Time and faults.                                                         *)

Dead(w) == At(w, "dead")

\* The claim of a dead worker expires, that of a live one when it stalls.  (The
\* heartbeats that come in time make no difference and are left out.)
Expire(r) ==
  /\ ~Stale(r)
  /\ \/ /\ \E w \in Worker : Dead(w) /\ OwnedClaim(r, w)
        /\ UNCHANGED faults
     \/ /\ "stall" \in Disturbances /\ faults < MaxFaults
        /\ faults' = faults + 1
  /\ ExpireClaim(r)
  /\ UNCHANGED <<fileVars, main, run, slots, api>>

\* A process dies with all its threads; its claim stays.
Crash(w) ==
  /\ "crash" \in Disturbances /\ faults < MaxFaults
  /\ ~Dead(w)
  /\ faults' = faults + 1
  /\ main' = [main EXCEPT ![w] = [Idle EXCEPT !.pc = "dead"]]
  /\ run' = [run EXCEPT ![w] = NoRuns]
  /\ slots' = [slots EXCEPT ![w] = Slots]
  /\ UNCHANGED <<queueVars, fileVars, api>>

-------------------------------------------------------------------------------
Next ==
  \/ \E w \in Worker : MainStep(w) \/ GiveUpWaiting(w) \/ Crash(w)
  \/ \E w \in Worker, c \in Child : ChildStep(w, c)
  \/ \E g \in Group : ApiStep(g) \/ CancelCheck(g)
  \/ \E r \in RowIds : Expire(r)

Spec == Init /\ [][Next]_vars

\* run_forever polls, the executors' threads and accepted requests go on, and
\* the claim of a dead worker gets older.
Fairness ==
  /\ \A w \in Worker : WF_vars(MainStep(w))
  /\ \A w \in Worker : WF_vars(\E c \in Child : ChildStep(w, c))
  /\ WF_vars(\E g \in Group : ApiStep(g))
  /\ WF_vars(\E r \in RowIds, w \in Worker : Dead(w) /\ OwnedClaim(r, w) /\ Expire(r))

FairSpec == Spec /\ Fairness

-------------------------------------------------------------------------------
(* Properties.                                                              *)

\* No CAD slot is lost or handed out twice by the hand-over to the document
\* thread, a failure, a cancellation or a refused start, and so a heavy thread
\* never waits for its slot (and cannot run into acquire's timeout).
SlotsConserved ==
  \A w \in Worker :
    /\ slots[w] + Cardinality({c \in Child : run[w][c].pc \in HoldingPc}) = Slots
    /\ \A c \in Child : run[w][c].pc = "acquire" => slots[w] > 0

\* The deliverable of a replacing group is never made from a drawing that has
\* not been replaced: its execution begins after the replacement's success.
DeliveredAfterReplacement ==
  [][\A g \in Group :
       LET c == DeliverableOf[g] IN
       /\ Saved(g).replacing
       /\ ~Executing(c) /\ Executing(c)'
       => job_json[AuditOf[g]] = "SUCCEEDED"
    ]_vars

\* A group is reported as SUCCEEDED only with both its children SUCCEEDED, also
\* when a cancellation or a recovery reaches the children while it concludes.
SuccessIsComplete ==
  \A g \in Group :
    GroupStatus(g) = "SUCCEEDED" =>
      \A c \in {DeliverableOf[g], AuditOf[g]} : job_json[c] = "SUCCEEDED"

\* The claim on g was taken from a worker that may still be alive.
Recovered(g) == \E r \in RowIds : queue_items[r].item = g /\ queue_items[r].interrupted

\* Once a cancel request is answered no child of the group begins any more,
\* even if a thread had it loaded as QUEUED before.  (Not so after a recovery
\* from a stall: it marks children that never began as interrupted, the request
\* skips them, and the stalled worker may still begin them.)
NoChildAfterCancel ==
  [][\A g \in Group :
       api[g].pc = "answered" /\ ~Recovered(g) =>
         \A c \in {DeliverableOf[g], AuditOf[g]} : ~Executing(c) => ~Executing(c)'
    ]_vars

\* The interruption or the cancellation of a group stands: the late worker's
\* saves, its failures included, do not replace it.
StoppedStays ==
  [][\A g \in Group, status \in {"INTERRUPTED", "CANCELLED"} :
       GroupStatus(g) = status => GroupStatus(g)' = status]_vars

\* Nobody works on g any more and its row is closed and reconciled.
Settled(g) ==
  /\ api[g].pc \in {"ready", "answered"}
  /\ \A w \in Worker :
       /\ main[w].row # 0 => TheGroup(w) # g
       /\ \A c \in Child : GroupOf(c) = g => run[w][c].pc = "none"
  /\ \A r \in RowIds :
       queue_items[r].item = g => ~Unfinished(r) /\ ~AwaitsAcknowledgement(r)

\* The fence of c is closed for an execution that its file does not show as
\* over.  A worker that dies between the save of a child's outcome and its
\* finish_execution leaves the fence closed for ever: recovery asks the file.
LeftRunning(c) == Executing(c) /\ job_json[c] \notin {"SUCCEEDED", "FAILED"}

\* The file of g is terminal, and a cancellation in the database and in the file
\* agree (a group that was interrupted before it began may still be cancelled,
\* its file then stays as it is).
StatusAgrees(g) ==
  /\ GroupStatus(g) \in Terminal
  /\ GroupStatus(g) = "CANCELLED" => execution_controls[g].state = "cancelled"
  /\ execution_controls[g].state = "cancelled"
       => GroupStatus(g) \in {"CANCELLED", "INTERRUPTED"}

\* A settled group has come to its end in the file, and neither its fence nor
\* that of a child is left closed.
NobodyLeftBehind ==
  \A g \in Group :
    Settled(g) =>
      /\ StatusAgrees(g)
      /\ ~Executing(g)
      /\ \A c \in {DeliverableOf[g], AuditOf[g]} : ~LeftRunning(c)

\* Every enqueued group comes to its end, and so do the children it started.
GroupEnds ==
  \A g \in Group :
    api[g].pc = "ready" ~>
      /\ GroupStatus(g) \in Terminal
      /\ ~Executing(g)
      /\ \A c \in {DeliverableOf[g], AuditOf[g]} : ~LeftRunning(c)

\* A group whose cancellation the database accepted ends as CANCELLED, or as
\* INTERRUPTED when its worker had died before it began, and never with the
\* outcome of its children.
CancelIsHonoured ==
  \A g \in Group :
    CancelRequested(g) ~> [](GroupStatus(g) \in {"CANCELLED", "INTERRUPTED"})
===============================================================================
