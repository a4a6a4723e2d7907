------------------------------ MODULE TaskGroups ------------------------------
(***************************************************************************)
(* Task groups after their execution: submission with its conflict guards, *)
(* approval, archiving, settlement, and the removal of the group that a    *)
(* new archive replaces.  Everything runs in one API process: a thread per *)
(* request, the ArchiveRetryWorker, the TaskGroupReconciliationWorker and, *)
(* after a restart, the summary backfill.  The threads share group.json    *)
(* (GroupStore), the summaries (SummaryIndex), the archive directory and   *)
(* the job directories; a step is one read, one save, one transaction or   *)
(* one directory operation.                                                *)
(*                                                                         *)
(* All groups of an instance have the same album identity, so they compete *)
(* for one archive directory.                                              *)
(***************************************************************************)
EXTENDS SummaryIndex, FiniteSets

CONSTANTS
  Nodes,         \* approval nodes of the workflow
  Requests,      \* bound on the HTTP requests that change a group
  Archiver, Reconciler, Backfill,
  Beginnings,    \* the workflow states the groups may start from
  Disturbances,  \* what goes wrong in this instance, see Disturbance
  MaxFaults,     \* bound on the times that something goes wrong
  MaxVersion     \* bound on the state_version at which archiving is retried

Request == 1 .. Requests
Thread == Request \cup {Archiver, Reconciler, Backfill}

\* "crash":       the API process dies and is started again
\* "publication": a publication raises (SQLite is busy beyond its timeout)
\* "archive":     copying the artifacts or settling the workload raises
\* "deletion":    deleting a predecessor raises half way
\* "lapse":       a live thread holds its cleanup claim beyond the TTL
\* "timeout":     waiting for the cleanup operation lock gives up
Disturbance == {"crash", "publication", "archive", "deletion", "lapse", "timeout"}

NoGroup == 0
NoThread == 0

\* submitted, archiving and cancelled are never assigned by the program.
WorkflowStatus ==
  {"draft", "in_review", "three_review_approved", "archived", "archive_failed"}
ActiveConflictStatuses == {"in_review", "three_review_approved", "archive_failed"}

\* approvals: how many nodes are APPROVED; node approvals + 1 is the CURRENT one
\* while the workflow is in review.  claim: the replacement cleanup claim, named
\* by the state_version it was saved with; 0 when there is none.
GroupValue ==
  [status : {"RUNNING", "SUCCEEDED", "FAILED"}, workflow : WorkflowStatus,
   approvals : 0 .. Nodes, archive : {"none", "succeeded", "failed"},
   settled : BOOLEAN, replaced : Group \cup {NoGroup}, pending_delete : BOOLEAN,
   publication_pending : BOOLEAN, claim : Nat]

Record == [version : Nat, value : GroupValue \cup {NoValue}]

ASSUME TaskAssumption ==
  /\ NoValue \notin GroupValue
  /\ Nodes \in Nat \ {0}
  /\ Requests \in Nat
  /\ MaxFaults \in Nat
  /\ MaxVersion \in Nat
  /\ {Archiver, Reconciler, Backfill} \cap Nat = {}
  /\ Cardinality({Archiver, Reconciler, Backfill}) = 3
  /\ Disturbances \subseteq Disturbance
  /\ Beginnings \subseteq [Group -> {"draft", "in_review", "replacing", "archived"}]
  /\ \A b \in Beginnings, g, h \in Group :
       b[g] = "archived" /\ b[h] = "archived" => g = h
  /\ \A b \in Beginnings, g \in Group :
       b[g] = "replacing" => \E h \in Group : b[h] = "archived"

VARIABLES
  thread,        \* thread[t]: where thread t is and what it has in memory
  archive_dir,   \* the archive target: whether it exists, whose files it holds
  artifacts,     \* groups whose job directories exist
  receipts,      \* groups whose deletion is recorded
  op_lock,       \* op_lock[g]: the thread that may delete the records of g
  lapsed,        \* lapsed[g]: claims of g up to this one are older than the TTL
  faults         \* how often something went wrong

diskVars == <<archive_dir, artifacts, receipts>>
vars == <<group_json, summaries, tombstones, thread, archive_dir, artifacts,
          receipts, op_lock, lapsed, faults>>

Pc ==
  {"new", "done", "idle", "restart", "inspect", "save", "publish", "upsert",
   "clear", "retain", "archive", "copy", "cleanup", "lock", "unclaim", "persist",
   "delSummary", "delJobs", "delGroup", "receipt", "failed", "completed"}

\* What a thread is doing: a request, or a pass over a snapshot of all groups.
Task == {"none", "submit", "approve", "edit", "archive", "publish", "cleanup", "backfill"}

\* mem: the TaskGroup object in hand.  read: what the publisher reloaded.
\* token: the cleanup claim taken.  then: what follows a complete write.
\* victim: the group being deleted.  snap: the objects of load_all_groups still
\* to be treated.
ThreadState ==
  [pc : Pc, task : Task, group : Group \cup {NoGroup}, mem : Record, read : Record, token : Nat,
   then : {"end", "cleanup", "reject"}, victim : Group \cup {NoGroup},
   snap : [Group -> Record]]

TypeOK ==
  /\ group_json \in [Group -> Record]
  /\ summaries \in [Group -> Record]
  /\ tombstones \subseteq Group
  /\ thread \in [Thread -> ThreadState]
  /\ archive_dir \in [exists : BOOLEAN, files : SUBSET Group]
  /\ artifacts \subseteq Group
  /\ receipts \subseteq Group
  /\ op_lock \in [Group -> Thread \cup {NoThread}]
  /\ lapsed \in [Group -> Nat]
  /\ faults \in 0 .. MaxFaults

Nothing == [g \in Group |-> Missing]

Parked(pc) ==
  [pc |-> pc, task |-> "none", group |-> NoGroup, mem |-> Missing, read |-> Missing, token |-> 0,
   then |-> "end", victim |-> NoGroup, snap |-> Nothing]

Draft ==
  [status |-> "SUCCEEDED", workflow |-> "draft", approvals |-> 0,
   archive |-> "none", settled |-> FALSE, replaced |-> NoGroup,
   pending_delete |-> FALSE, publication_pending |-> FALSE, claim |-> 0]

IsNewest(g, S) == \A h \in S : h <= g

\* The group of S with the highest number; NoGroup when S is empty.
NewestOf(S) ==
  IF S = {} THEN NoGroup
  ELSE CHOOSE g \in S : (\E h \in S : IsNewest(h, S)) => IsNewest(g, S)

\* A group that has come as far as w without any conflict: in review it waits
\* for its last approval; "replacing" will be archived in the place of group p.
Begun(w, p) ==
  LET reviewed == [Draft EXCEPT !.status = "RUNNING", !.workflow = "in_review",
                                !.approvals = Nodes - 1]
  IN
  CASE w = "draft" -> Draft
    [] w = "in_review" -> reviewed
    [] w = "replacing" -> [reviewed EXCEPT !.replaced = p, !.pending_delete = TRUE]
    [] w = "archived" ->
         [Draft EXCEPT !.workflow = w, !.approvals = Nodes,
                       !.archive = "succeeded", !.settled = TRUE]

Init ==
  /\ \E b \in Beginnings :
       /\ group_json =
            [g \in Group |->
               [version |-> 1,
                value |-> Begun(b[g], NewestOf({h \in Group : b[h] = "archived"}))]]
       /\ archive_dir = [exists |-> \E g \in Group : b[g] = "archived",
                         files |-> {g \in Group : b[g] = "archived"}]
  /\ summaries = group_json
  /\ tombstones = {}
  /\ thread = [t \in Thread |-> Parked(IF t \in Request THEN "new" ELSE "idle")]
  /\ artifacts = Group
  /\ receipts = {}
  /\ op_lock = [g \in Group |-> NoThread]
  /\ lapsed = [g \in Group |-> 0]
  /\ faults = 0

-------------------------------------------------------------------------------
(* Threads.                                                                 *)

At(t, pc) == thread[t].pc = pc
Mem(t) == thread[t].mem
Subject(t) == thread[t].group
Victim(t) == thread[t].victim

\* Thread t enters a state and keeps the locks it holds.
Enter(t, state) ==
  /\ thread' = [thread EXCEPT ![t] = state]
  /\ UNCHANGED op_lock

Goto(t, pc) == Enter(t, [thread[t] EXCEPT !.pc = pc])
GotoWith(t, pc, rec) == Enter(t, [thread[t] EXCEPT !.pc = pc, !.mem = rec])

\* Where a pass starts with each group of its snapshot.
FirstPc ==
  [edit |-> "save", archive |-> "archive", publish |-> "publish",
   cleanup |-> "cleanup", backfill |-> "upsert"]

\* A pass treats its snapshot in the order of load_all_groups, newest first.
NextOf(state, resting) ==
  LET left == {g \in Group : state.snap[g] # Missing}
      g == NewestOf(left)
  IN IF left = {} THEN Parked(resting)
     ELSE [Parked(FirstPc[state.task]) EXCEPT
             !.task = state.task, !.group = g, !.mem = state.snap[g],
             !.read = IF state.task = "backfill" THEN state.snap[g] ELSE Missing,
             !.snap = [state.snap EXCEPT ![g] = Missing]]

Resting(t) == IF t \in Request THEN "done" ELSE "idle"

Unlocked(t) == [g \in Group |-> IF op_lock[g] = t THEN NoThread ELSE op_lock[g]]

\* Thread t is through with its group; leaving a with statement frees its lock.
Finish(t) ==
  /\ thread' = [thread EXCEPT ![t] = NextOf(thread[t], Resting(t))]
  /\ op_lock' = Unlocked(t)

\* An exception ends a request; a background pass logs it and goes on.
Raise(t) ==
  IF t \in Request
  THEN /\ thread' = [thread EXCEPT ![t] = Parked("done")]
       /\ op_lock' = Unlocked(t)
  ELSE Finish(t)

\* Something of this kind goes wrong.
Fault(kind) ==
  /\ kind \in Disturbances
  /\ faults < MaxFaults
  /\ faults' = faults + 1

-------------------------------------------------------------------------------
(* TaskGroupStateWriter: save with the mark, publish, save without it.      *)

Marked(value) == [value EXCEPT !.publication_pending = TRUE]
Unmarked(value) == [value EXCEPT !.publication_pending = FALSE]

\* update_group of the object in hand; a conflict raises.
SaveAs(t, value, pc) ==
  \/ /\ UpdateGroup(Subject(t), Mem(t), value)
     /\ GotoWith(t, pc, Bumped(Mem(t), value))
  \/ /\ ~Current(Subject(t), Mem(t))
     /\ Raise(t)
     /\ UNCHANGED group_json

SaveGroup(t) ==
  /\ At(t, "save")
  /\ SaveAs(t, Marked(Mem(t).value), "publish")
  /\ UNCHANGED <<summaries, tombstones, diskVars, lapsed, faults>>

\* refresh_summary_index reads the group again ...
ReloadForSummary(t) ==
  /\ At(t, "publish")
  /\ Enter(t, [thread[t] EXCEPT !.pc = "upsert", !.read = group_json[Subject(t)]])
  /\ UNCHANGED <<storeVars, diskVars, lapsed, faults>>

\* ... and publishes what it read, or the deletion of what is not there.  The
\* backfill of a restart only publishes.
PublishSummary(t) ==
  /\ At(t, "upsert")
  /\ IF thread[t].read = Missing
     THEN DeleteSummary(Subject(t))
     ELSE UpsertSummary(Subject(t), thread[t].read)
  /\ IF thread[t].task = "backfill"
     THEN Finish(t)
     ELSE Enter(t, [thread[t] EXCEPT !.pc = "clear", !.read = Missing])
  /\ UNCHANGED <<group_json, diskVars, lapsed, faults>>

\* A conflict leaves the mark of the newer version to its own writer.
ClearMark(t) ==
  /\ At(t, "clear")
  /\ \/ /\ UpdateGroup(Subject(t), Mem(t), Unmarked(Mem(t).value))
        /\ IF thread[t].then = "cleanup"
           THEN Enter(t, [thread[t] EXCEPT
                            !.pc = "cleanup", !.then = "end",
                            !.mem = Bumped(Mem(t), Unmarked(Mem(t).value))])
           ELSE Finish(t)
     \/ /\ ~Current(Subject(t), Mem(t))
        /\ Raise(t)
        /\ UNCHANGED group_json
  /\ UNCHANGED <<summaries, tombstones, diskVars, lapsed, faults>>

PublicationFails(t) ==
  /\ At(t, "publish")
  /\ Fault("publication")
  /\ Goto(t, "retain")
  /\ UNCHANGED <<storeVars, diskVars, lapsed>>

\* The publication error is saved if that is still possible, and raised.
RetainMark(t) ==
  /\ At(t, "retain")
  /\ \/ UpdateGroup(Subject(t), Mem(t), Marked(Mem(t).value))
     \/ ~Current(Subject(t), Mem(t)) /\ UNCHANGED group_json
  /\ Raise(t)
  /\ UNCHANGED <<summaries, tombstones, diskVars, lapsed, faults>>

-------------------------------------------------------------------------------
(* TaskGroupArchiveCoordinator.complete.                                    *)

ArchiveFailed(value) ==
  [value EXCEPT !.archive = "failed", !.workflow = "archive_failed", !.status = "FAILED"]

ArchiveSucceeded(value) ==
  [value EXCEPT !.archive = "succeeded", !.workflow = "archived"]

Settled(value) == [value EXCEPT !.settled = TRUE, !.status = "SUCCEEDED"]

WriteThen(t, value, then) ==
  Enter(t, [thread[t] EXCEPT !.pc = "save", !.mem.value = value, !.then = then])

\* Everything is written, and the cleanup follows the complete write.
WriteCompleted(t, value) == WriteThen(t, Settled(value), "cleanup")
WriteFailed(t) == WriteThen(t, ArchiveFailed(Mem(t).value), "end")

\* The artifacts are checked before the old archive is removed.
Archive(t) ==
  /\ At(t, "archive")
  /\ \/ /\ Mem(t).value.archive = "succeeded"
        /\ WriteCompleted(t, Mem(t).value)
        /\ UNCHANGED archive_dir
     \/ /\ Mem(t).value.archive # "succeeded"
        /\ Subject(t) \in artifacts
        /\ archive_dir' = [exists |-> TRUE, files |-> {}]
        /\ Goto(t, "copy")
     \/ /\ Mem(t).value.archive # "succeeded"
        /\ Subject(t) \notin artifacts
        /\ WriteFailed(t)
        /\ UNCHANGED archive_dir
  /\ UNCHANGED <<storeVars, artifacts, receipts, lapsed, faults>>

\* Mistake: the cleanup follows the copy, and the write comes after it.
CopyThenCleanUp(t) ==
  /\ At(t, "copy")
  /\ Subject(t) \in artifacts
  /\ archive_dir' = [archive_dir EXCEPT !.files = @ \cup {Subject(t)}]
  /\ Enter(t, [thread[t] EXCEPT !.pc = "cleanup",
                                !.mem.value = Settled(ArchiveSucceeded(@))])
  /\ UNCHANGED <<storeVars, artifacts, receipts, lapsed, faults>>

CopyFiles(t) ==
  /\ At(t, "copy")
  /\ \/ /\ Subject(t) \in artifacts
        /\ archive_dir' = [archive_dir EXCEPT !.files = @ \cup {Subject(t)}]
        /\ WriteCompleted(t, ArchiveSucceeded(Mem(t).value))
     \/ /\ Subject(t) \notin artifacts
        /\ WriteFailed(t)
        /\ UNCHANGED archive_dir
  /\ UNCHANGED <<storeVars, artifacts, receipts, lapsed, faults>>

ArchiveFails(t) ==
  /\ At(t, "copy") \/ (At(t, "archive") /\ Mem(t).value.archive # "succeeded")
  /\ Fault("archive")
  /\ WriteFailed(t)
  /\ UNCHANGED <<storeVars, diskVars, lapsed>>

\* The copy is kept; only the settlement is retried.
SettlementFails(t) ==
  /\ At(t, "copy")
  /\ Subject(t) \in artifacts
  /\ Fault("archive")
  /\ archive_dir' = [archive_dir EXCEPT !.files = @ \cup {Subject(t)}]
  /\ WriteThen(t, [ArchiveSucceeded(Mem(t).value) EXCEPT !.status = "FAILED"], "end")
  /\ UNCHANGED <<storeVars, artifacts, receipts, lapsed>>

-------------------------------------------------------------------------------
(* retry_pending_replacement_cleanup: a claim on the successor in its        *)
(* group.json, then the operation lock of the predecessor.                   *)

CleanupReady(value) ==
  /\ value.archive = "succeeded"
  /\ value.workflow = "archived"
  /\ value.status = "SUCCEEDED"
  /\ value.settled
  /\ ~value.publication_pending

\* Mistake: a claim is kept out of the way however old it is.
ClaimWithoutTTL(g, value) == value.claim > 0

ActiveClaim(g, value) == value.claim > lapsed[g]

ClaimableCleanup(g, value) ==
  /\ value.pending_delete
  /\ CleanupReady(value)
  /\ ~ActiveClaim(g, value)

ClaimCleanup(t) ==
  LET g == Subject(t)
      claimed == [Mem(t).value EXCEPT !.claim = Mem(t).version + 1]
  IN
  /\ At(t, "cleanup")
  /\ \/ /\ ClaimableCleanup(g, Mem(t).value)
        /\ UpdateGroup(g, Mem(t), claimed)
        /\ Enter(t, [thread[t] EXCEPT !.pc = "lock", !.token = claimed.claim,
                                      !.mem = Bumped(Mem(t), claimed)])
     \/ /\ ClaimableCleanup(g, Mem(t).value) => ~Current(g, Mem(t))
        /\ Finish(t)
        /\ UNCHANGED group_json
  /\ UNCHANGED <<summaries, tombstones, diskVars, lapsed, faults>>

LockTimeout(t) ==
  /\ At(t, "lock")
  /\ op_lock[Mem(t).value.replaced] # NoThread
  /\ Fault("timeout")
  /\ Goto(t, "unclaim")
  /\ UNCHANGED <<storeVars, diskVars, lapsed>>

OwnClaim(t, rec) == rec # Missing /\ rec.value.claim = thread[t].token

Released(t, value) ==
  [value EXCEPT !.claim = IF @ = thread[t].token THEN 0 ELSE @]

\* _release_persisted_cleanup_claim: the claim as it is on disk by now.
ReloadClaim(t) ==
  LET rec == group_json[Subject(t)] IN
  /\ At(t, "unclaim")
  /\ IF OwnClaim(t, rec)
     THEN GotoWith(t, "persist", [rec EXCEPT !.value = Released(t, rec.value)])
     ELSE Finish(t)
  /\ UNCHANGED <<storeVars, diskVars, lapsed, faults>>

PersistRelease(t) ==
  /\ At(t, "persist")
  /\ \/ UpdateGroup(Subject(t), Mem(t), Mem(t).value)
     \/ ~Current(Subject(t), Mem(t)) /\ UNCHANGED group_json
  /\ Finish(t)
  /\ UNCHANGED <<summaries, tombstones, diskVars, lapsed, faults>>

\* Under the operation lock everything is checked again on the state on disk.
\* A lock that would be given back at once is not taken here.
TakeOperationLock(t) ==
  LET p == Mem(t).value.replaced
      rec == group_json[Subject(t)]
      due == rec.value.pending_delete /\ CleanupReady(rec.value)
  IN
  /\ At(t, "lock")
  /\ op_lock[p] = NoThread
  /\ \/ /\ ~OwnClaim(t, rec)
        /\ Finish(t)
     \/ /\ OwnClaim(t, rec)
        /\ ~due
        /\ GotoWith(t, "persist", [rec EXCEPT !.value = Released(t, rec.value)])
     \/ /\ OwnClaim(t, rec)
        /\ due
        /\ op_lock' = [op_lock EXCEPT ![p] = t]
        /\ thread' = [thread EXCEPT
                        ![t].pc = IF p \in receipts THEN "completed" ELSE "delSummary",
                        ![t].victim = IF p \in receipts THEN NoGroup ELSE p]
  /\ UNCHANGED <<storeVars, diskVars, lapsed, faults>>

RecordDeletion(t) ==
  /\ At(t, "receipt")
  /\ receipts' = receipts \cup {Mem(t).value.replaced}
  /\ Goto(t, "completed")
  /\ UNCHANGED <<storeVars, archive_dir, artifacts, lapsed, faults>>

\* Mistake: another owner's claim is cleared together with the own one.
ReloadAndClearClaims(t, edit) ==
  LET rec == group_json[Subject(t)]
      next == [rec EXCEPT !.value = [edit EXCEPT !.claim = 0]]
  IN IF rec = Missing THEN Raise(t) ELSE GotoWith(t, "save", next)

\* Continue with the state on disk, after edit and without the own claim.
ReloadAndWrite(t, edit) ==
  LET rec == group_json[Subject(t)]
      next == [rec EXCEPT !.value = Released(t, edit)]
  IN IF rec = Missing THEN Raise(t) ELSE GotoWith(t, "save", next)

\* Mistake: a failed deletion is reported and not tried again.
GiveUpCleanup(t) ==
  /\ At(t, "failed")
  /\ ReloadAndWrite(t, [group_json[Subject(t)].value EXCEPT !.pending_delete = FALSE])
  /\ UNCHANGED <<storeVars, diskVars, lapsed, faults>>

ReportCleanupFailure(t) ==
  /\ At(t, "failed")
  /\ ReloadAndWrite(t, group_json[Subject(t)].value)
  /\ UNCHANGED <<storeVars, diskVars, lapsed, faults>>

CompleteCleanup(t) ==
  /\ At(t, "completed")
  /\ ReloadAndWrite(t, [group_json[Subject(t)].value EXCEPT !.pending_delete = FALSE])
  /\ UNCHANGED <<storeVars, diskVars, lapsed, faults>>

\* Time: the TTL of the claim on g passes.
LapseClaim(g) ==
  LET claim == group_json[g].value.claim IN
  /\ Exists(g)
  /\ claim > lapsed[g]
  /\ IF \E t \in Thread : Subject(t) = g /\ thread[t].token = claim
     THEN Fault("lapse")
     ELSE UNCHANGED faults
  /\ lapsed' = [lapsed EXCEPT ![g] = claim]
  /\ UNCHANGED <<storeVars, thread, diskVars, op_lock>>

-------------------------------------------------------------------------------
(* ArchiveOverwriteService.delete_group_records: summary, jobs, group.       *)

DeleteVictimSummary(t) ==
  /\ At(t, "delSummary")
  /\ DeleteSummary(Victim(t))
  /\ Goto(t, "delJobs")
  /\ UNCHANGED <<group_json, diskVars, lapsed, faults>>

DeleteVictimJobs(t) ==
  /\ At(t, "delJobs")
  /\ artifacts' = artifacts \ {Victim(t)}
  /\ Goto(t, "delGroup")
  /\ UNCHANGED <<storeVars, archive_dir, receipts, lapsed, faults>>

DeleteVictim(t) ==
  /\ At(t, "delGroup")
  /\ DeleteGroup(Victim(t))
  /\ IF thread[t].then = "reject"
     THEN Raise(t)
     ELSE Enter(t, [thread[t] EXCEPT
                      !.pc = IF thread[t].task = "submit" THEN "save" ELSE "receipt",
                      !.victim = NoGroup])
  /\ UNCHANGED <<summaries, tombstones, diskVars, lapsed, faults>>

DeletionFails(t) ==
  /\ thread[t].pc \in {"delSummary", "delJobs", "delGroup", "receipt"}
  /\ Fault("deletion")
  /\ IF thread[t].task = "submit"
     THEN Raise(t)
     ELSE Enter(t, [thread[t] EXCEPT !.pc = "failed", !.victim = NoGroup])
  /\ UNCHANGED <<storeVars, diskVars, lapsed>>

-------------------------------------------------------------------------------
(* Requests.                                                                *)

\* Requests are interchangeable, so they are made in the order of their numbers.
MayStart(t) == At(t, "new") /\ \A u \in Request : u < t => ~At(u, "new")

StartRequest(t, task, g, pc, rec) ==
  /\ MayStart(t)
  /\ Enter(t, [Parked(pc) EXCEPT !.task = task, !.group = g, !.mem = rec])

\* TaskGroupSubmissionReadinessPolicy
ReadyToSubmit(g) ==
  /\ Exists(g)
  /\ Saved(g).workflow = "draft"
  /\ Saved(g).status = "SUCCEEDED"
  /\ g \in artifacts

Submit(t, g) ==
  /\ ReadyToSubmit(g)
  /\ StartRequest(t, "submit", g, "inspect", group_json[g])
  /\ UNCHANGED <<storeVars, diskVars, lapsed, faults>>

\* TaskGroupSubmitGuards.inspect: the identity of a group is read from its jobs.
Rivals(g) == {h \in Group \ {g} : Exists(h) /\ h \in artifacts}
ArchivedRivals(g) ==
  {h \in Rivals(g) : Saved(h).workflow = "archived" \/ Saved(h).archive = "succeeded"}
RivalsInProgress(g) ==
  {h \in Rivals(g) \ ArchivedRivals(g) : Saved(h).workflow \in ActiveConflictStatuses}

\* WorkflowService.start and mark_running, for a group that replaces p.
Started(value, p) ==
  [value EXCEPT !.workflow = "in_review", !.status = "RUNNING", !.approvals = 0,
                !.replaced = p, !.pending_delete = p # NoGroup]

\* The in-progress rival is deleted before the archive conflict is judged.
GuardSubmission(t, overwrite, cancel) ==
  LET g == Subject(t)
      blocked == archive_dir.exists /\ ~overwrite
      p == IF archive_dir.exists THEN NewestOf(ArchivedRivals(g)) ELSE NoGroup
      started == [Mem(t) EXCEPT !.value = Started(@, p)]
  IN
  /\ At(t, "inspect")
  /\ \/ /\ g \in artifacts
        /\ RivalsInProgress(g) = {}
        /\ ~blocked
        /\ GotoWith(t, "save", started)
     \/ /\ g \in artifacts
        /\ RivalsInProgress(g) # {}
        /\ cancel
        /\ Enter(t, [thread[t] EXCEPT
                       !.pc = "delSummary", !.victim = NewestOf(RivalsInProgress(g)),
                       !.mem = started, !.then = IF blocked THEN "reject" ELSE "end"])
     \/ /\ g \notin artifacts \/ (IF RivalsInProgress(g) = {} THEN blocked ELSE ~cancel)
        /\ Raise(t)
  /\ UNCHANGED <<storeVars, diskVars, lapsed, faults>>

\* Mistake: the archive of an approved group may be approved once more.
ApproveAgain(t, g) ==
  LET value == [Saved(g) EXCEPT !.approvals = @ + 1]
      rec == [group_json[g] EXCEPT !.value = value]
  IN
  /\ Exists(g)
  /\ Saved(g).workflow # "draft"
  /\ StartRequest(t, "approve", g, "save", rec)
  /\ UNCHANGED <<storeVars, diskVars, lapsed, faults>>

\* WorkflowService.approve; the last approval archives before it is saved.
Approve(t, g) ==
  LET value == [Saved(g) EXCEPT !.approvals = @ + 1]
      last == value.approvals = Nodes
      rec == [group_json[g] EXCEPT
                !.value = IF last
                          THEN [value EXCEPT !.workflow = "three_review_approved"]
                          ELSE value]
  IN
  /\ Exists(g)
  /\ Saved(g).workflow = "in_review"
  /\ StartRequest(t, "approve", g, IF last THEN "archive" ELSE "save", rec)
  /\ UNCHANGED <<storeVars, diskVars, lapsed, faults>>

SnapshotOf(S) == [g \in Group |-> IF g \in S THEN group_json[g] ELSE Missing]

\* A pass over the groups of S, as load_all_groups returns them now.
StartPass(t, task, S) ==
  /\ S # {}
  /\ Enter(t, NextOf([thread[t] EXCEPT !.task = task, !.snap = SnapshotOf(S)], "idle"))
  /\ UNCHANGED <<storeVars, diskVars, lapsed, faults>>

\* rebind_account_references and repair_current_node: every group of S mentions
\* the account and is written again.
EditAccounts(t, S) ==
  /\ MayStart(t)
  /\ \A g \in S : Exists(g)
  /\ StartPass(t, "edit", S)

-------------------------------------------------------------------------------
(* The background threads.                                                  *)

\* Mistake: an archive that was copied counts as done.
NeedsArchiving(value) == value.archive = "failed"

NeedsArchiveReconciliation(value) ==
  \/ value.archive = "failed"
  \/ /\ value.archive = "succeeded"
     /\ value.workflow = "archived"
     /\ ~value.settled

\* A group whose artifacts are gone would be retried for ever: MaxVersion.
ScanArchives ==
  /\ At(Archiver, "idle")
  /\ StartPass(Archiver, "archive",
       {g \in Group : /\ Exists(g)
                      /\ NeedsArchiveReconciliation(Saved(g))
                      /\ group_json[g].version < MaxVersion})

\* Mistake: only successful groups are published again.
ScanPublicationsOfSucceeded ==
  /\ At(Reconciler, "idle")
  /\ StartPass(Reconciler, "publish",
       {g \in Group : /\ Exists(g)
                      /\ Saved(g).publication_pending
                      /\ Saved(g).status = "SUCCEEDED"})

\* The two halves of run_once; each looks at all groups anew.
ScanPublications ==
  /\ At(Reconciler, "idle")
  /\ StartPass(Reconciler, "publish",
       {g \in Group : Exists(g) /\ Saved(g).publication_pending})

ScanCleanups ==
  /\ At(Reconciler, "idle")
  /\ StartPass(Reconciler, "cleanup",
       {g \in Group : Exists(g) /\ Saved(g).pending_delete /\ CleanupReady(Saved(g))})

\* The API process dies; flock is released; a new process starts its threads.
Crash ==
  /\ Fault("crash")
  /\ thread' = [t \in Thread |->
                  IF t \in Request
                  THEN IF At(t, "new") THEN thread[t] ELSE Parked("done")
                  ELSE Parked(IF t = Backfill THEN "restart" ELSE "idle")]
  /\ op_lock' = [g \in Group |-> NoThread]
  /\ UNCHANGED <<storeVars, diskVars, lapsed>>

\* _backfill_summary_index of the new process
ScanBackfill ==
  /\ At(Backfill, "restart")
  /\ StartPass(Backfill, "backfill", {g \in Group : Exists(g)})

-------------------------------------------------------------------------------
ThreadStep(t) ==
  \/ SaveGroup(t)
  \/ ReloadForSummary(t)
  \/ PublishSummary(t)
  \/ ClearMark(t)
  \/ RetainMark(t)
  \/ Archive(t)
  \/ CopyFiles(t)
  \/ ClaimCleanup(t)
  \/ TakeOperationLock(t)
  \/ ReloadClaim(t)
  \/ PersistRelease(t)
  \/ RecordDeletion(t)
  \/ ReportCleanupFailure(t)
  \/ CompleteCleanup(t)
  \/ DeleteVictimSummary(t)
  \/ DeleteVictimJobs(t)
  \/ DeleteVictim(t)
  \/ \E overwrite, cancel \in BOOLEAN : GuardSubmission(t, overwrite, cancel)

FaultStep(t) ==
  \/ PublicationFails(t)
  \/ ArchiveFails(t)
  \/ SettlementFails(t)
  \/ LockTimeout(t)
  \/ DeletionFails(t)

RequestArrives(t) ==
  \/ \E g \in Group : Submit(t, g) \/ Approve(t, g)
  \/ \E S \in SUBSET Group : EditAccounts(t, S)

Next ==
  \/ \E t \in Thread : ThreadStep(t) \/ FaultStep(t)
  \/ \E t \in Request : RequestArrives(t)
  \/ ScanArchives
  \/ ScanPublications
  \/ ScanCleanups
  \/ ScanBackfill
  \/ Crash
  \/ \E g \in Group : LapseClaim(g)

\* Threads run, the workers wake up again and again, and a claim whose owner is
\* gone lapses.  Nothing makes a user send a request.
Fairness ==
  /\ \A t \in Thread : WF_vars(ThreadStep(t))
  /\ WF_vars(ScanArchives)
  /\ SF_vars(ScanPublications)
  /\ SF_vars(ScanCleanups)
  /\ WF_vars(ScanBackfill)
  /\ \A g \in Group : WF_vars(LapseClaim(g))

Spec == Init /\ [][Next]_vars
FairSpec == Spec /\ Fairness

-------------------------------------------------------------------------------
(* Properties.                                                              *)

\* What the summary of a record shows: everything but the hidden metadata.
Visible(rec) == [rec.value EXCEPT !.claim = 0, !.publication_pending = FALSE]

\* A group without the publication mark is shown as it is on disk, whatever
\* publications of other threads, of the backfill or of a dead process crossed
\* the write; otherwise nobody would ever publish it again.
UnmarkedIsPublished ==
  \A g \in Group :
    Exists(g) /\ ~Saved(g).publication_pending /\ g \notin tombstones
    => Visible(summaries[g]) = Visible(group_json[g])

WorkflowRank ==
  [draft |-> 0, in_review |-> 1, three_review_approved |-> 2, archive_failed |-> 2,
   archived |-> 3]

\* No save of one thread undoes what another thread saved in between: approvals,
\* the archive, the settlement, the finished cleanup of a predecessor.
NoProgressLost ==
  [][\A g \in Group :
       LET old == Saved(g)
           new == group_json'[g].value
       IN Exists(g) /\ group_json'[g] # Missing =>
            /\ old.approvals <= new.approvals
            /\ WorkflowRank[old.workflow] <= WorkflowRank[new.workflow]
            /\ old.archive = "succeeded" => new.archive = "succeeded"
            /\ old.settled => new.settled
            /\ old.replaced # NoGroup =>
                 /\ new.replaced = old.replaced
                 /\ new.pending_delete => old.pending_delete]_vars

\* The records of a replaced group are only touched once its successor is
\* archived and settled on disk and shown like that in the list, unless the
\* successor is on its own way out: a submission that found it in review deletes
\* it, although it was archived in the meantime.
SuccessorComesFirst ==
  \A t \in Thread :
    LET g == Subject(t) IN
    /\ Victim(t) # NoGroup
    /\ thread[t].task # "submit"
    /\ g \notin tombstones
    => /\ Exists(g)
       /\ Saved(g).replaced = Victim(t)
       /\ Saved(g).workflow = "archived"
       /\ Saved(g).settled
       /\ summaries[g].value.workflow = "archived"
       /\ summaries[g].value.settled

\* A finished cleanup left nothing of the predecessor, and nothing comes back.
CleanupIsComplete ==
  \A g \in Group :
    LET p == Saved(g).replaced IN
    Exists(g) /\ p # NoGroup /\ ~Saved(g).pending_delete
    => ~Exists(p) /\ p \in tombstones /\ p \notin artifacts

\* As long as a cleanup claim has not lapsed, only its owner removes it.
ClaimIsHonoured ==
  [][\A g \in Group :
       LET claim == Saved(g).claim IN
       /\ Exists(g) /\ ActiveClaim(g, Saved(g))
       /\ group_json'[g] # Missing
       /\ group_json'[g].value.claim # claim
       => \E t \in Thread : /\ Subject(t) = g
                            /\ thread[t].token = claim
                            /\ thread'[t] # thread[t]]_vars

\* The archive directory holds the files of a group that is archived, until
\* another group is archived in its place.
ArchivedFilesArePresent ==
  \A g \in Group :
    /\ Exists(g)
    /\ Saved(g).workflow = "archived"
    /\ Saved(g).status = "SUCCEEDED"
    /\ \A h \in Group : Exists(h) => Saved(h).replaced # g
    /\ \A t \in Thread : ~At(t, "copy")
    => g \in archive_dir.files

\* The group files, the summaries and the tombstones behave like a task board.
Board == INSTANCE TaskBoard
           WITH Value <- GroupValue, saved <- group_json, published <- summaries,
                withdrawn <- tombstones

ImplementsTaskBoard == Board!BoardSpec

\* A publication that failed or lost its thread is made up for.
PublicationConverges ==
  \A g \in Group :
    (Exists(g) /\ Saved(g).publication_pending)
      ~> (~Exists(g) \/ ~Saved(g).publication_pending)

\* An archived group gets rid of the group it replaces, although the cleanup may
\* fail half way, lose its claim or die with its process.
CleanupConverges ==
  \A g \in Group :
    (Exists(g) /\ Saved(g).workflow = "archived" /\ Saved(g).pending_delete)
      ~> (~Exists(g) \/ ~Saved(g).pending_delete)

\* A failed archive or settlement is made up for while the artifacts exist.
ArchiveConverges ==
  \A g \in Group :
    (Exists(g) /\ Saved(g).archive # "none" /\ ~Saved(g).settled)
      ~> (~Exists(g) \/ g \notin artifacts \/ Saved(g).settled)
===============================================================================
