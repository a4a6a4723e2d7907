-------------------------- MODULE JobExecutionProofs --------------------------
(***************************************************************************)
(* Standalone jobs for any jobs, any workers, any number of rows and any   *)
(* disturbances: the processes use the store as SpecQ allows, so that the  *)
(* theorems about the store hold of the system, and the fence keeps every  *)
(* execution in one hand and every cancelled job from being started.  Then *)
(* what is saved: every cancelled file is backed by the database and stays *)
(* cancelled, and a job that nobody works on any more is terminal, with    *)
(* its fence released.  Some of that needs that no worker dies, and some   *)
(* that no live worker loses its claim: each theorem names its hypotheses. *)
(***************************************************************************)
EXTENDS JobExecution, SQLiteQueueProofs, WellFoundedInduction

\* Where the main thread has no job in hand.
FreePc == {"dead", "idle", "reconcile", "claim"}

\* Where it is going to write the status in mem to job.json.
StatusPc ==
  {"reconcileLock", "reconcileWrite", "begin"} \cup ExecutionPc

MainSound(m) ==
  /\ m \in Main
  /\ m.todo \subseteq RowIds
  /\ m.pc \notin FreePc => m.job \in Job /\ m.row \in RowIds
  /\ m.pc \in StatusPc => m.mem \in JobStatus
  /\ m.pc = "complete" => m.mem \in {"done", "cancelled", "failed"}

DocSound(d) == d \in Doc /\ (d.pc # "none" => d.mem \in JobStatus)

FileTypes ==
  /\ job_json \in [Job -> Json]
  /\ tombstones \subseteq Job
  /\ api \in [Job -> ApiPc]

ThreadTypes ==
  /\ main \in [Worker -> Main]
  /\ doc \in [Worker -> [Job -> Doc]]
  /\ \A w \in Worker : MainSound(main[w])
  /\ \A w \in Worker, j \in Job : DocSound(doc[w][j])

\* The part of the inductive invariant that makes every step a step of SpecQ.
CallInv == RowInv /\ ControlInv /\ FileTypes /\ ThreadTypes

-------------------------------------------------------------------------------
(* What a step of the main thread of w does.                                *)

MainChanged(w) ==
  /\ main' = [main EXCEPT ![w] = main'[w]]
  /\ MainSound(main'[w])
  /\ main'[w].pc \in ExecutionPc =>
       \/ main[w].pc \in ExecutionPc /\ main'[w].job = main[w].job
       \/ BeginGranted(main'[w].job) /\ BeginExecution(main'[w].job)

\* The document thread gets the job only as the main thread lets go of it.
DocHanded(w) ==
  \/ doc' = doc
  \/ /\ main[w].pc \in ExecutionPc
     /\ main'[w].pc \notin ExecutionPc
     /\ \E status \in JobStatus :
          doc' = [doc EXCEPT ![w][main[w].job] = [pc |-> "queued", mem |-> status]]

MainMoves(w) ==
  /\ [NextQ]_queueVars
  /\ last_id' = last_id
  /\ FileTypes'
  /\ MainChanged(w)
  /\ DocHanded(w)

\* A step that gives the main thread the record m.
LEMMA MainRecord ==
  ASSUME CallInv, NEW w \in Worker, NEW m, MainSound(m),
         last_id' = last_id,
         main' = [main EXCEPT ![w] = m],
         m.pc \in ExecutionPc =>
           \/ main[w].pc \in ExecutionPc /\ m.job = main[w].job
           \/ BeginGranted(m.job) /\ BeginExecution(m.job)
  PROVE  MainChanged(w)
BY DEF CallInv, ThreadTypes, MainChanged

\* What the invariant says of the record of the main thread.
LEMMA MainFields ==
  ASSUME CallInv, NEW w \in Worker
  PROVE  /\ main[w] \in Main /\ MainSound(main[w])
         /\ main[w].todo \subseteq RowIds
         /\ main[w].pc \in MainPc
         /\ RowIds \subseteq 1 .. MaxRows
         /\ main[w].pc \notin FreePc =>
              main[w].job \in Job /\ main[w].row \in RowIds
         /\ main[w].pc \in StatusPc => main[w].mem \in JobStatus
BY QueueAssumption DEF CallInv, ThreadTypes, MainSound, Main, RowInv, RowTypes, RowIds

\* The main thread only moves on.
LEMMA GotoChanges ==
  ASSUME CallInv, NEW w \in Worker, NEW pc \in MainPc, Goto(w, pc),
         last_id' = last_id,
         pc \notin FreePc => main[w].pc \notin FreePc,
         pc \in StatusPc => main[w].pc \in StatusPc,
         pc # "complete",
         pc \in ExecutionPc =>
           \/ main[w].pc \in ExecutionPc
           \/ BeginGranted(main[w].job) /\ BeginExecution(main[w].job)
  PROVE  MainChanged(w)
<1> DEFINE m == [main[w] EXCEPT !.pc = pc]
<1>1. main' = [main EXCEPT ![w] = m]
  BY DEF Goto
<1>2. MainSound(m) /\ m.pc = pc /\ m.job = main[w].job
  BY MainFields DEF Main, MainSound
<1>3. QED
  BY <1>1, <1>2, MainRecord

\* The main thread moves on with another status in mem.
LEMMA StatusChanges ==
  ASSUME CallInv, NEW w \in Worker, NEW pc \in MainPc,
         NEW mem \in JobStatus \cup {"none", "done", "cancelled", "failed"},
         main' = [main EXCEPT ![w].pc = pc, ![w].mem = mem],
         last_id' = last_id,
         main[w].pc \notin FreePc,
         pc \in StatusPc => mem \in JobStatus,
         pc = "complete" => mem \in {"done", "cancelled", "failed"},
         pc \in ExecutionPc => main[w].pc \in ExecutionPc
  PROVE  MainChanged(w)
<1> DEFINE m == [main[w] EXCEPT !.pc = pc, !.mem = mem]
<1>1. main' = [main EXCEPT ![w] = m]
  BY DEF CallInv, ThreadTypes
<1>2. MainSound(m) /\ m.pc = pc /\ m.job = main[w].job
  BY MainFields DEF Main, MainSound
<1>3. QED
  BY <1>1, <1>2, MainRecord

\* The record of a thread with nothing in hand has the right type.
LEMMA IdleIsMain == IdleMain \in Main
BY QueueAssumption DEF IdleMain, Main, MainPc

\* The main thread has nothing in hand any more.
LEMMA IdleChanges ==
  ASSUME CallInv, NEW w \in Worker, NEW pc \in {"idle", "dead", "reconcile"},
         NEW todo, todo \subseteq RowIds,
         last_id' = last_id,
         main' = [main EXCEPT ![w] = [IdleMain EXCEPT !.pc = pc, !.todo = todo]]
  PROVE  MainChanged(w)
<1> DEFINE m == [IdleMain EXCEPT !.pc = pc, !.todo = todo]
<1>1. todo \in SUBSET (1 .. MaxRows) /\ pc \in MainPc
  BY MainFields DEF MainPc
<1>2. m \in Main /\ m.pc = pc /\ m.todo = todo
  BY <1>1, IdleIsMain DEF Main
<1>3. MainSound(m) /\ m.pc = pc
  BY <1>2 DEF MainSound, FreePc, StatusPc, ExecutionPc
<1>4. QED
  BY <1>3, MainRecord DEF ExecutionPc

\* The main thread ends a poll.
LEMMA IdleRecord ==
  ASSUME CallInv, NEW w \in Worker, last_id' = last_id,
         main' = [main EXCEPT ![w] = IdleMain]
  PROVE  MainChanged(w)
<1>1. IdleMain.pc = "idle" /\ IdleMain.todo = {}
  BY DEF IdleMain
<1>2. MainSound(IdleMain)
  BY <1>1, IdleIsMain DEF MainSound, FreePc, StatusPc, ExecutionPc
<1>3. QED
  BY <1>1, <1>2, MainRecord DEF ExecutionPc

\* recover_stale_claims and the snapshot of the rows to reconcile.
LEMMA RunOnceMoves ==
  ASSUME CallInv, NEW w \in Worker, RunOnce(w)
  PROVE  MainMoves(w)
<1> DEFINE interrupted == {r \in RowIds : AwaitsAcknowledgement(r)'}
           m == [main[w] EXCEPT !.pc = "reconcile", !.todo = interrupted]
<1>1. last_id' = last_id /\ RowIds' = RowIds
  BY DEF RunOnce, RecoverStaleClaims, RowIds
<1>2. main' = [main EXCEPT ![w] = m]
  BY <1>1 DEF RunOnce, CallInv, ThreadTypes
<1>3. interrupted \subseteq RowIds
  OBVIOUS
<1> HIDE DEF interrupted
<1>4. MainSound(m)
  BY <1>3, MainFields DEF Main, MainPc, MainSound, FreePc, StatusPc, ExecutionPc
<1>5. MainChanged(w)
  BY <1>1, <1>2, <1>4, MainRecord DEF MainPc, ExecutionPc, Main, MainSound
<1>6. QED
  BY <1>1, <1>5 DEF RunOnce, MainMoves, FileTypes, fileVars, CallInv, DocHanded, NextQ
\* The recovery pass is over.
LEMMA ReconcileDoneMoves ==
  ASSUME CallInv, NEW w \in Worker,
         ReconcileDone(w)
  PROVE  MainMoves(w)
<1>1. last_id' = last_id /\ [NextQ]_queueVars
  BY MainFields DEF ReconcileDone, At, NextQ, queueVars, FreePc, Job
<1>2. MainChanged(w)
  BY <1>1, MainFields, GotoChanges
  DEF ReconcileDone, At, Goto, MainPc, FreePc, StatusPc, ExecutionPc, JobStatus,
      Terminal
<1>3. FileTypes'
  BY MainFields
  DEF CallInv, FileTypes, fileVars, ReconcileDone, At, FreePc, StatusPc,
      ExecutionPc, Json
<1>4. DocHanded(w)
  BY MainFields DEF ReconcileDone, At, DocHanded
<1>5. QED
  BY <1>1, <1>2, <1>3, <1>4 DEF MainMoves

\* _finalize_interrupted_item ends the execution.
LEMMA FinalizeMoves ==
  ASSUME CallInv, NEW w \in Worker,
         Finalize(w)
  PROVE  MainMoves(w)
<1>1. last_id' = last_id /\ [NextQ]_queueVars
  BY MainFields DEF Finalize, FinishExecution, At, NextQ, queueVars, FreePc, Job
<1>2. MainChanged(w)
  <2>1. CASE main[w].mem = "INTERRUPTED"
    BY <1>1, <2>1, MainFields, GotoChanges
    DEF Finalize, At, Goto, MainPc, FreePc, StatusPc, ExecutionPc
  <2>2. CASE main[w].mem # "INTERRUPTED"
    <3>1. main' = [main EXCEPT ![w].pc = "reconcileLock", ![w].mem = "INTERRUPTED"]
      BY <2>2 DEF Finalize
    <3>2. main[w].pc \notin FreePc
      BY DEF Finalize, At, FreePc
    <3>3. QED
      BY <1>1, <3>1, <3>2, StatusChanges
      DEF MainPc, StatusPc, ExecutionPc, JobStatus, Terminal
  <2>3. QED
    BY <2>1, <2>2
<1>3. FileTypes'
  BY MainFields
  DEF CallInv, FileTypes, fileVars, Finalize, FinishExecution, At, FreePc, StatusPc,
      ExecutionPc, Json
<1>4. DocHanded(w)
  BY MainFields DEF Finalize, FinishExecution, At, DocHanded
<1>5. QED
  BY <1>1, <1>2, <1>3, <1>4 DEF MainMoves

\* _run_job reads the job it was given.
LEMMA LoadJobMoves ==
  ASSUME CallInv, NEW w \in Worker,
         LoadJob(w)
  PROVE  MainMoves(w)
<1>1. last_id' = last_id /\ [NextQ]_queueVars
  BY MainFields DEF LoadJob, At, NextQ, queueVars, FreePc, Job
<1>2. MainChanged(w)
  BY <1>1, MainFields, GotoChanges, StatusChanges
  DEF LoadJob, At, Goto, MainPc, FreePc, StatusPc, ExecutionPc, JobStatus, Terminal
<1>3. FileTypes'
  BY MainFields
  DEF CallInv, FileTypes, fileVars, LoadJob, At, FreePc, StatusPc, ExecutionPc, Json
<1>4. DocHanded(w)
  BY MainFields DEF LoadJob, At, DocHanded
<1>5. QED
  BY <1>1, <1>2, <1>3, <1>4 DEF MainMoves

\* begin_execution is the only way into an execution.
LEMMA BeginMoves ==
  ASSUME CallInv, NEW w \in Worker, Begin(w)
  PROVE  MainMoves(w)
<1>1. last_id' = last_id /\ [NextQ]_queueVars
  <2>1. main[w].job \in Item /\ BeginExecution(main[w].job)
    BY MainFields DEF Begin, At, FreePc, Job
  <2>2. QED
    BY <2>1 DEF NextQ, BeginExecution
<1>2. MainChanged(w)
  BY <1>1, MainFields, GotoChanges
  DEF Begin, At, Goto, MainPc, FreePc, StatusPc, ExecutionPc, JobStatus, Terminal
<1>3. FileTypes'
  BY MainFields
  DEF CallInv, FileTypes, fileVars, Begin, At, FreePc, StatusPc, ExecutionPc, Json
<1>4. DocHanded(w)
  BY MainFields DEF Begin, At, DocHanded
<1>5. QED
  BY <1>1, <1>2, <1>3, <1>4 DEF MainMoves

\* A calculation book goes from the main to the document thread.
LEMMA PrepareMoves ==
  ASSUME CallInv, NEW w \in Worker,
         Prepare(w)
  PROVE  MainMoves(w)
<1>1. last_id' = last_id /\ [NextQ]_queueVars
  BY MainFields DEF Prepare, At, NextQ, queueVars, FreePc, Job
<1>2. MainChanged(w)
  BY <1>1, MainFields, GotoChanges, StatusChanges
  DEF Prepare, At, Goto, MainPc, FreePc, StatusPc, ExecutionPc, JobStatus, Terminal
<1>3. FileTypes'
  BY MainFields
  DEF CallInv, FileTypes, fileVars, Prepare, At, FreePc, StatusPc, ExecutionPc, Json
<1>4. DocHanded(w)
  <2>1. CASE SubmitDoc(w, main[w].job, "QUEUED") /\ Goto(w, "check")
    <3>1. main'[w].pc = "check" /\ main[w].pc = "prepare"
      BY <2>1 DEF Prepare, At, Goto, CallInv, ThreadTypes, Main
    <3>2. QED
      BY <2>1, <3>1 DEF SubmitDoc, DocHanded, ExecutionPc, JobStatus
  <2>2. QED
    BY <2>1 DEF Prepare, DocHanded
<1>5. QED
  BY <1>1, <1>2, <1>3, <1>4 DEF MainMoves

\* The processor writes statuses of jobs only.
LEMMA ProcessMoves ==
  ASSUME CallInv, NEW w \in Worker,
         Process(w)
  PROVE  MainMoves(w)
<1>1. last_id' = last_id /\ [NextQ]_queueVars
  BY MainFields DEF Process, TruncateJson, At, NextQ, queueVars, FreePc, Job
<1>2. MainChanged(w)
  <2>1. CASE Goto(w, "updateLock")
    BY <1>1, <2>1, MainFields, GotoChanges
    DEF Process, At, MainPc, FreePc, StatusPc, ExecutionPc
  <2>2. CASE \E pc \in {"updateLock", "finishLock", "stageWrite"},
                status \in JobStatus :
               main' = [main EXCEPT ![w].pc = pc, ![w].mem = status]
    BY <1>1, <2>2, MainFields, StatusChanges
    DEF Process, At, MainPc, FreePc, StatusPc, ExecutionPc
  <2>3. QED
    BY <2>1, <2>2 DEF Process, JobStatus, Terminal
<1>3. FileTypes'
  BY MainFields
  DEF CallInv, FileTypes, fileVars, Process, TruncateJson, At, FreePc, StatusPc,
      ExecutionPc, Json
<1>4. DocHanded(w)
  BY MainFields DEF Process, TruncateJson, At, DocHanded
<1>5. QED
  BY <1>1, <1>2, <1>3, <1>4 DEF MainMoves

\* An in-place write is completed.
LEMMA ProcessWrittenMoves ==
  ASSUME CallInv, NEW w \in Worker,
         ProcessWritten(w)
  PROVE  MainMoves(w)
<1>1. last_id' = last_id /\ [NextQ]_queueVars
  BY MainFields DEF ProcessWritten, At, NextQ, queueVars, FreePc, Job
<1>2. MainChanged(w)
  BY <1>1, MainFields, GotoChanges
  DEF ProcessWritten, At, Goto, MainPc, FreePc, StatusPc, ExecutionPc, JobStatus,
      Terminal
<1>3. FileTypes'
  BY MainFields
  DEF CallInv, FileTypes, fileVars, ProcessWritten, At, FreePc, StatusPc,
      ExecutionPc, Json
<1>4. DocHanded(w)
  BY MainFields DEF ProcessWritten, At, DocHanded
<1>5. QED
  BY <1>1, <1>2, <1>3, <1>4 DEF MainMoves

\* A deliverable goes from the main to the document thread.
LEMMA BoundaryMoves ==
  ASSUME CallInv, NEW w \in Worker,
         Boundary(w)
  PROVE  MainMoves(w)
<1>1. last_id' = last_id /\ [NextQ]_queueVars
  BY MainFields DEF Boundary, At, NextQ, queueVars, FreePc, Job
<1>2. MainChanged(w)
  BY <1>1, MainFields, GotoChanges
  DEF Boundary, At, Goto, MainPc, FreePc, StatusPc, ExecutionPc, JobStatus, Terminal
<1>3. FileTypes'
  BY MainFields
  DEF CallInv, FileTypes, fileVars, Boundary, At, FreePc, StatusPc, ExecutionPc,
      Json
<1>4. DocHanded(w)
  <2>1. CASE SubmitDoc(w, main[w].job, main[w].mem) /\ Goto(w, "check")
    <3>1. main'[w].pc = "check" /\ main[w].pc = "boundary" /\ main[w].mem \in JobStatus
      BY <2>1, MainFields
      DEF Boundary, At, Goto, CallInv, ThreadTypes, Main, StatusPc, ExecutionPc
    <3>2. QED
      BY <2>1, <3>1 DEF SubmitDoc, DocHanded, ExecutionPc
  <2>2. QED
    BY <2>1 DEF Boundary, DocHanded
<1>5. QED
  BY <1>1, <1>2, <1>3, <1>4 DEF MainMoves

\* finish_execution keeps a job status in hand.
LEMMA FinishJobMoves ==
  ASSUME CallInv, NEW w \in Worker,
         FinishJob(w)
  PROVE  MainMoves(w)
<1>1. last_id' = last_id /\ [NextQ]_queueVars
  BY MainFields
  DEF FinishJob, FinishExecution, FinishedStatus, At, NextQ, queueVars, FreePc, Job
<1>2. MainChanged(w)
  BY <1>1, MainFields, StatusChanges
  DEF FinishJob, FinishExecution, FinishedStatus, At, Goto, MainPc, FreePc,
      StatusPc, ExecutionPc, JobStatus, Terminal
<1>3. FileTypes'
  BY MainFields
  DEF CallInv, FileTypes, fileVars, FinishJob, FinishExecution, FinishedStatus, At,
      FreePc, StatusPc, ExecutionPc, Json
<1>4. DocHanded(w)
  BY MainFields DEF FinishJob, FinishExecution, FinishedStatus, At, DocHanded
<1>5. QED
  BY <1>1, <1>2, <1>3, <1>4 DEF MainMoves

\* run_once looks whether it has to wait.
LEMMA CheckMoves ==
  ASSUME CallInv, NEW w \in Worker,
         Check(w)
  PROVE  MainMoves(w)
<1>1. last_id' = last_id /\ [NextQ]_queueVars
  BY MainFields DEF Check, At, NextQ, queueVars, FreePc, Job
<1>2. MainChanged(w)
  BY <1>1, MainFields, GotoChanges
  DEF Check, At, Goto, MainPc, FreePc, StatusPc, ExecutionPc, JobStatus, Terminal
<1>3. FileTypes'
  BY MainFields
  DEF CallInv, FileTypes, fileVars, Check, At, FreePc, StatusPc, ExecutionPc, Json
<1>4. DocHanded(w)
  BY MainFields DEF Check, At, DocHanded
<1>5. QED
  BY <1>1, <1>2, <1>3, <1>4 DEF MainMoves

\* run_once stops waiting.
LEMMA WaitMoves ==
  ASSUME CallInv, NEW w \in Worker,
         Wait(w)
  PROVE  MainMoves(w)
<1>1. last_id' = last_id /\ [NextQ]_queueVars
  BY MainFields DEF Wait, At, NextQ, queueVars, FreePc, Job
<1>2. MainChanged(w)
  BY <1>1, MainFields, GotoChanges, StatusChanges
  DEF Wait, At, Goto, MainPc, FreePc, StatusPc, ExecutionPc, JobStatus, Terminal
<1>3. FileTypes'
  BY MainFields
  DEF CallInv, FileTypes, fileVars, Wait, At, FreePc, StatusPc, ExecutionPc, Json
<1>4. DocHanded(w)
  BY MainFields DEF Wait, At, DocHanded
<1>5. QED
  BY <1>1, <1>2, <1>3, <1>4 DEF MainMoves

\* run_once chooses the status of the row.
LEMMA ReportMoves ==
  ASSUME CallInv, NEW w \in Worker,
         Report(w)
  PROVE  MainMoves(w)
<1>1. last_id' = last_id /\ [NextQ]_queueVars
  BY MainFields DEF Report, RefreshSummary, At, NextQ, queueVars, FreePc, Job
<1>2. MainChanged(w)
  BY <1>1, MainFields, StatusChanges
  DEF Report, RefreshSummary, At, Goto, MainPc, FreePc, StatusPc, ExecutionPc,
      JobStatus, Terminal
<1>3. FileTypes'
  BY MainFields
  DEF CallInv, FileTypes, fileVars, Report, RefreshSummary, At, FreePc, StatusPc,
      ExecutionPc, Json
<1>4. DocHanded(w)
  BY MainFields DEF Report, RefreshSummary, At, DocHanded
<1>5. QED
  BY <1>1, <1>2, <1>3, <1>4 DEF MainMoves

\* update_job takes the file lock.
LEMMA LockMoves ==
  ASSUME CallInv, NEW w \in Worker,
         NEW from, NEW to, LockForUpdate(w, from, to),
         <<from, to>> \in {<<"reconcileLock", "reconcileWrite">>,
                          <<"updateLock", "updateWrite">>}
  PROVE  MainMoves(w)
<1>1. last_id' = last_id /\ [NextQ]_queueVars
  BY MainFields DEF LockForUpdate, Guarded, At, NextQ, queueVars, FreePc, Job
<1>2. MainChanged(w)
  <2>1. Guarded(main[w].job, main[w].mem) \in JobStatus
    BY MainFields
    DEF LockForUpdate, At, Guarded, StatusPc, ExecutionPc, JobStatus, Terminal
  <2>2. QED
    BY <1>1, <2>1, MainFields, StatusChanges
    DEF LockForUpdate, At, MainPc, FreePc, StatusPc, ExecutionPc
<1>3. FileTypes'
  BY MainFields
  DEF CallInv, FileTypes, fileVars, LockForUpdate, Guarded, At, FreePc, StatusPc,
      ExecutionPc, Json
<1>4. DocHanded(w)
  BY MainFields DEF LockForUpdate, Guarded, At, DocHanded
<1>5. QED
  BY <1>1, <1>2, <1>3, <1>4 DEF MainMoves

\* A whole job.json replaces the old one.
LEMMA WriteMoves ==
  ASSUME CallInv, NEW w \in Worker,
         NEW from, NEW to, WriteAndUnlock(w, from, to),
         <<from, to>> \in {<<"reconcileWrite", "refresh">>,
                          <<"updateWrite", "boundary">>,
                          <<"finishWrite", "finishRefresh">>}
  PROVE  MainMoves(w)
<1>1. last_id' = last_id /\ [NextQ]_queueVars
  BY MainFields DEF WriteAndUnlock, WriteJson, At, NextQ, queueVars, FreePc, Job
<1>2. MainChanged(w)
  BY <1>1, MainFields, GotoChanges
  DEF WriteAndUnlock, WriteJson, At, Goto, MainPc, FreePc, StatusPc, ExecutionPc,
      JobStatus, Terminal
<1>3. FileTypes'
  BY MainFields
  DEF CallInv, FileTypes, fileVars, WriteAndUnlock, WriteJson, At, FreePc, StatusPc,
      ExecutionPc, Json
<1>4. DocHanded(w)
  BY MainFields DEF WriteAndUnlock, WriteJson, At, DocHanded
<1>5. QED
  BY <1>1, <1>2, <1>3, <1>4 DEF MainMoves

\* refresh_summary_index touches the summary only.
LEMMA RefreshMoves ==
  ASSUME CallInv, NEW w \in Worker,
         NEW from, NEW to, RefreshAfter(w, from, to),
         <<from, to>> \in {<<"refresh", "acknowledge">>, <<"finishRefresh", "check">>}
  PROVE  MainMoves(w)
<1>1. last_id' = last_id /\ [NextQ]_queueVars
  BY MainFields DEF RefreshAfter, RefreshSummary, At, NextQ, queueVars, FreePc, Job
<1>2. MainChanged(w)
  BY <1>1, MainFields, GotoChanges
  DEF RefreshAfter, RefreshSummary, At, Goto, MainPc, FreePc, StatusPc, ExecutionPc,
      JobStatus, Terminal
<1>3. FileTypes'
  BY MainFields
  DEF CallInv, FileTypes, fileVars, RefreshAfter, RefreshSummary, At, FreePc,
      StatusPc, ExecutionPc, Json
<1>4. DocHanded(w)
  BY MainFields DEF RefreshAfter, RefreshSummary, At, DocHanded
<1>5. QED
  BY <1>1, <1>2, <1>3, <1>4 DEF MainMoves

\* The next interrupted row is one of the table.
LEMMA ReconcileNextMoves ==
  ASSUME CallInv, NEW w \in Worker, NEW r \in RowIds, ReconcileNext(w, r)
  PROVE  MainMoves(w)
<1> DEFINE j == queue_items[r].item
           skipped == [main[w] EXCEPT !.todo = @ \ {r}]
           superseded == [main[w] EXCEPT !.pc = "acknowledge", !.row = r, !.job = j]
           reconciled == [superseded EXCEPT !.pc = "finalize", !.mem = job_json[j]]
<1>1. last_id' = last_id /\ UNCHANGED queueVars
  BY DEF ReconcileNext, queueVars
<1>2. j \in Job /\ r \in 0 .. MaxRows
  BY MainFields DEF CallInv, RowInv, RowTypes, Row, Job
<1>3. main[w].pc = "reconcile"
  BY DEF ReconcileNext, At
<1>4. MainSound(skipped) /\ skipped.pc = "reconcile"
  BY MainFields, <1>3 DEF Main, MainSound, FreePc, StatusPc, ExecutionPc
<1>5. MainSound(superseded) /\ superseded.pc = "acknowledge"
  BY MainFields, <1>2 DEF Main, MainPc, MainSound, FreePc, StatusPc, ExecutionPc
<1>6. ASSUME Readable(j)
      PROVE  MainSound(reconciled) /\ reconciled.pc = "finalize"
  BY MainFields, <1>2, <1>6
  DEF Main, MainPc, MainSound, FreePc, StatusPc, ExecutionPc, Readable
<1>7. \/ main' = [main EXCEPT ![w] = skipped]
      \/ main' = [main EXCEPT ![w] = superseded]
      \/ Readable(j) /\ main' = [main EXCEPT ![w] = reconciled]
  BY DEF ReconcileNext, CallInv, ThreadTypes
<1> HIDE DEF skipped, superseded, reconciled
<1>8. MainChanged(w)
  BY <1>1, <1>4, <1>5, <1>6, <1>7, MainRecord DEF ExecutionPc
<1>9. QED
  BY <1>1, <1>8 DEF ReconcileNext, MainMoves, FileTypes, fileVars, CallInv, DocHanded

\* claim_next hands out a row of the table, or none.
LEMMA ClaimMoves ==
  ASSUME CallInv, NEW w \in Worker, Claim(w)
  PROVE  MainMoves(w)
<1>1. last_id' = last_id /\ [NextQ]_queueVars
  BY DEF Claim, ClaimNext, NextQ, queueVars
<1>2. MainChanged(w)
  <2>1. CASE main' = [main EXCEPT ![w] = IdleMain]
    BY <1>1, <2>1, IdleRecord
  <2>2. ASSUME NEW r \in RowIds,
               main' = [main EXCEPT ![w].pc = "load", ![w].row = r,
                                    ![w].job = queue_items[r].item]
        PROVE  MainChanged(w)
    <3> DEFINE m == [main[w] EXCEPT !.pc = "load", !.row = r,
                                   !.job = queue_items[r].item]
    <3>1. main' = [main EXCEPT ![w] = m]
      BY <2>2 DEF CallInv, ThreadTypes
    <3>2. queue_items[r].item \in Job /\ r \in 0 .. MaxRows
      BY MainFields DEF CallInv, RowInv, RowTypes, Row, Job
    <3>3. MainSound(m) /\ m.pc = "load"
      BY MainFields, <3>2 DEF Main, MainPc, MainSound, FreePc, StatusPc, ExecutionPc
    <3>4. QED
      BY <1>1, <3>1, <3>3, MainRecord DEF ExecutionPc
  <2>3. QED
    BY <2>1, <2>2 DEF Claim
<1>3. QED
  BY <1>1, <1>2 DEF Claim, MainMoves, FileTypes, fileVars, CallInv, DocHanded

\* A claim is completed with one of the three final statuses.
LEMMA CompleteOwnedMoves ==
  ASSUME CallInv, NEW w \in Worker, CompleteOwned(w)
  PROVE  MainMoves(w)
<1>1. last_id' = last_id /\ [NextQ]_queueVars
  <2>1. main[w].row \in RowIds /\ main[w].mem \in {"done", "failed", "cancelled"}
    BY MainFields DEF CompleteOwned, At, FreePc, MainSound
  <2>2. CompleteClaim(main[w].row, w, main[w].mem)
    BY DEF CompleteOwned
  <2>3. QED
    BY <2>1, <2>2 DEF NextQ, CompleteClaim
<1>2. MainChanged(w)
  BY <1>1, IdleRecord DEF CompleteOwned
<1>3. QED
  BY <1>1, <1>2 DEF CompleteOwned, MainMoves, FileTypes, fileVars, CallInv, DocHanded

\* The acknowledged row is one of the table and has an owner.
LEMMA AcknowledgeMoves ==
  ASSUME CallInv, NEW w \in Worker, Acknowledge(w)
  PROVE  MainMoves(w)
<1> DEFINE r == main[w].row
<1>1. last_id' = last_id /\ [NextQ]_queueVars
  <2>1. CASE UNCHANGED queueVars
    BY <2>1 DEF queueVars
  <2>2. CASE /\ AwaitsAcknowledgement(r)
             /\ AcknowledgeInterruptedClaim(r, queue_items[r].claimed_by)
    <3>1. r \in RowIds
      BY MainFields DEF Acknowledge, At, FreePc
    <3>2. queue_items[r].claimed_by \in Worker
      BY <2>2, <3>1 DEF CallInv, RowInv, RowTypes, Row, AwaitsAcknowledgement
    <3>3. QED
      BY <2>2, <3>1, <3>2 DEF NextQ, AcknowledgeInterruptedClaim
  <2>3. QED
    BY <2>1, <2>2 DEF Acknowledge
<1>2. MainChanged(w)
  <2>1. CASE main[w].late
    BY <1>1, <2>1, IdleRecord DEF Acknowledge
  <2>2. CASE ~main[w].late
    <3>1. main[w].todo \ {r} \subseteq RowIds
      BY MainFields
    <3>2. main' = [main EXCEPT ![w] = [IdleMain EXCEPT !.pc = "reconcile",
                                                      !.todo = main[w].todo \ {r}]]
      BY <2>2 DEF Acknowledge
    <3>3. QED
      BY <1>1, <3>1, <3>2, IdleChanges
  <2>3. QED
    BY <2>1, <2>2
<1>3. QED
  BY <1>1, <1>2 DEF Acknowledge, MainMoves, FileTypes, fileVars, CallInv, DocHanded

\* A late worker goes back to the interrupted row.
LEMMA CompleteRejectedMoves ==
  ASSUME CallInv, NEW w \in Worker, CompleteRejected(w)
  PROVE  MainMoves(w)
<1> DEFINE r == main[w].row
           j == main[w].job
           mine == IF AwaitsAcknowledgement(r) THEN {r} ELSE {}
           reconciled == [main[w] EXCEPT !.pc = "finalize", !.mem = job_json[j],
                                        !.todo = mine, !.late = TRUE]
           superseded == [main[w] EXCEPT !.pc = "acknowledge", !.mem = "none",
                                        !.todo = mine, !.late = TRUE]
<1>1. last_id' = last_id /\ UNCHANGED queueVars
  BY DEF CompleteRejected, queueVars
<1>2. j \in Job /\ r \in RowIds
  BY MainFields DEF CompleteRejected, At, FreePc
<1>3. mine \subseteq RowIds
  BY <1>2
<1>4. \/ main' = [main EXCEPT ![w] = IdleMain]
      \/ main' = [main EXCEPT ![w] = superseded]
      \/ Readable(j) /\ main' = [main EXCEPT ![w] = reconciled]
  BY DEF CompleteRejected, CallInv, ThreadTypes
<1> HIDE DEF mine
<1>5. MainSound(superseded) /\ superseded.pc = "acknowledge"
  BY MainFields, <1>2, <1>3
  DEF Main, MainPc, MainSound, FreePc, StatusPc, ExecutionPc
<1>6. ASSUME Readable(j)
      PROVE  MainSound(reconciled) /\ reconciled.pc = "finalize"
  BY MainFields, <1>2, <1>3, <1>6
  DEF Main, MainPc, MainSound, FreePc, StatusPc, ExecutionPc, Readable
<1> HIDE DEF superseded, reconciled
<1>7. MainChanged(w)
  BY <1>1, <1>4, <1>5, <1>6, MainRecord, IdleRecord DEF ExecutionPc
<1>8. QED
  BY <1>1, <1>7
  DEF CompleteRejected, MainMoves, FileTypes, fileVars, CallInv, DocHanded

\* Every step of a main thread.
LEMMA MainStepMoves ==
  ASSUME CallInv, NEW w \in Worker, MainStep(w)
  PROVE  MainMoves(w)
BY RunOnceMoves, ReconcileNextMoves, FinalizeMoves, LockMoves, WriteMoves, RefreshMoves,
   AcknowledgeMoves, ReconcileDoneMoves, ClaimMoves, LoadJobMoves, BeginMoves,
   PrepareMoves, ProcessMoves, ProcessWrittenMoves, BoundaryMoves, FinishJobMoves,
   CheckMoves, WaitMoves, ReportMoves, CompleteOwnedMoves, CompleteRejectedMoves
DEF MainStep

-------------------------------------------------------------------------------
(* What a step of the document thread of w, of the API or of the           *)
(* environment does.                                                        *)

\* The thread goes on with a job that it has.
DocMoves(w) ==
  /\ [NextQ]_queueVars
  /\ last_id' = last_id
  /\ FileTypes'
  /\ main' = main
  /\ \E j \in Job, d \in Doc :
       /\ doc[w][j].pc # "none"
       /\ DocSound(d)
       /\ doc' = [doc EXCEPT ![w][j] = d]

\* No thread of a worker is involved.
QuietMoves ==
  /\ [NextQ]_queueVars
  /\ FileTypes'
  /\ UNCHANGED <<main, doc>>

\* Every step of a document thread.
LEMMA DocStepMoves ==
  ASSUME CallInv, NEW w \in Worker, DocStep(w)
  PROVE  DocMoves(w)
<1> PICK j \in Job : \/ DocStart(w, j) \/ DocCalculate(w, j) \/ DocDeliver(w, j)
                     \/ DocDelivered(w, j) \/ DocFinish(w, j) \/ DocFinished(w, j)
                     \/ DocRefresh(w, j)
  BY DEF DocStep
<1> DEFINE d == doc[w][j]
           at(pc) == [d EXCEPT !.pc = pc]
           with(pc, status) == [pc |-> pc, mem |-> status]
<1>1. d \in Doc /\ DocSound(d) /\ doc \in [Worker -> [Job -> Doc]]
  BY DEF CallInv, ThreadTypes
<1>2. \A pc \in DocPc : at(pc) \in Doc /\ (d.pc # "none" => DocSound(at(pc)))
  BY <1>1 DEF Doc, DocSound
<1>3. \A pc \in DocPc, status \in JobStatus :
        with(pc, status) \in Doc /\ DocSound(with(pc, status))
  BY DEF Doc, DocSound
<1>4. NoDoc \in Doc /\ DocSound(NoDoc)
  BY DEF NoDoc, Doc, DocPc, DocSound
<1> HIDE DEF at, with
<1>5. CASE DocStart(w, j)
  <2>1. \E pc \in DocPc : doc' = [doc EXCEPT ![w][j] = at(pc)]
    BY <1>5 DEF DocStart, DocPc, at
  <2>2. QED
    BY <1>2, <1>5, <2>1
    DEF DocStart, DocMoves, CallInv, FileTypes, fileVars, queueVars
<1>6. CASE DocCalculate(w, j)
  <2>1. \E pc \in DocPc, status \in JobStatus :
          /\ doc' = [doc EXCEPT ![w][j] = with(pc, status)]
          /\ WriteJson(j, status)
    BY <1>1, <1>6 DEF DocCalculate, DocPc, Doc, with, JobStatus, Terminal
  <2>2. QED
    BY <1>3, <1>6, <2>1
    DEF DocCalculate, DocMoves, CallInv, FileTypes, WriteJson, Json, queueVars
<1>7. CASE DocDeliver(w, j)
  <2>1. \E pc \in DocPc, status \in JobStatus :
          doc' = [doc EXCEPT ![w][j] = with(pc, status)]
    BY <1>7 DEF DocDeliver, DocPc, with, JobStatus, Terminal
  <2>2. QED
    BY <1>3, <1>7, <2>1
    DEF DocDeliver, DocMoves, CallInv, FileTypes, TruncateJson, Json, queueVars
<1>8. CASE DocDelivered(w, j)
  <2>1. \E pc \in DocPc : doc' = [doc EXCEPT ![w][j] = at(pc)]
    BY <1>8 DEF DocDelivered, DocPc, at
  <2>2. QED
    BY <1>1, <1>2, <1>8, <2>1
    DEF DocDelivered, DocMoves, CallInv, FileTypes, DocSound, Json, queueVars
<1>9. CASE DocFinish(w, j)
  <2>1. LatestDocStatus(w, j) \subseteq JobStatus
    BY DEF LatestDocStatus
  <2>2. \E status \in JobStatus :
          doc' = [doc EXCEPT ![w][j] = with("finishWrite", status)]
    BY <1>9, <2>1 DEF DocFinish, FinishedStatus, with, JobStatus, Terminal
  <2>3. [NextQ]_queueVars /\ last_id' = last_id
    BY <1>9 DEF DocFinish, FinishExecution, NextQ, Job
  <2>4. QED
    BY <1>3, <1>9, <2>2, <2>3
    DEF DocFinish, DocMoves, CallInv, FileTypes, fileVars, DocPc
<1>10. CASE DocFinished(w, j)
  <2>1. doc' = [doc EXCEPT ![w][j] = at("refresh")]
    BY <1>10 DEF DocFinished, at
  <2>2. QED
    BY <1>1, <1>2, <1>10, <2>1
    DEF DocFinished, DocMoves, CallInv, FileTypes, DocSound, DocPc, WriteJson, Json,
        queueVars
<1>11. CASE DocRefresh(w, j)
  BY <1>4, <1>11
  DEF DocRefresh, DocMoves, CallInv, FileTypes, RefreshSummary, queueVars
<1>12. QED
  BY <1>5, <1>6, <1>7, <1>8, <1>9, <1>10, <1>11

\* Every step of an API request.
LEMMA ApiMoves ==
  ASSUME CallInv, NEW j \in Job, ApiStep(j) \/ UserStep(j)
  PROVE  QuietMoves
<1>1. j \in Item
  BY DEF Job
<1>2. CASE \/ CreateJob(j) \/ CancelCheck(j)
           \/ CancelLock(j) \/ CancelWrite(j) \/ CancelRefresh(j)
  BY <1>2
  DEF CreateJob, CancelCheck, CancelLock, CancelWrite, CancelRefresh, QuietMoves,
              CallInv, FileTypes, fileVars, Json, JobStatus, Terminal, ApiPc, WriteJson,
              RefreshSummary
<1>3. CASE EnqueueCreated(j) \/ EnqueueAgain(j)
  BY <1>1, <1>3
  DEF EnqueueCreated, EnqueueAgain, QuietMoves, NextQ, CallInv, FileTypes,
                    fileVars, ApiPc
<1>4. CASE CancelRequest(j)
  <2>1. \E pc \in ApiPc : api' = [api EXCEPT ![j] = pc]
    BY <1>4 DEF CancelRequest, ApiPc
  <2>2. [NextQ]_queueVars
    BY <1>1, <1>4 DEF CancelRequest, NextQ
  <2>3. QED
    BY <1>4, <2>1, <2>2 DEF CancelRequest, QuietMoves, CallInv, FileTypes, fileVars
<1>5. QED
  BY <1>2, <1>3, <1>4 DEF ApiStep, UserStep

\* The heartbeat thread calls the store only.
LEMMA HeartbeatMoves ==
  ASSUME CallInv, NEW w \in Worker, Heartbeat(w)
  PROVE  QuietMoves
<1>1. main[w].job \in Item
  BY DEF Heartbeat, CallInv, ThreadTypes, Main, Job
<1>2. QED
  BY <1>1 DEF Heartbeat, QuietMoves, NextQ, CallInv, FileTypes, fileVars

\* Time passes.
LEMMA ExpireMoves ==
  ASSUME CallInv, NEW r \in RowIds, Expire(r)
  PROVE  QuietMoves
BY DEF Expire, QuietMoves, NextQ, CallInv, FileTypes, fileVars

\* Every step is of one of four kinds.
LEMMA NextMoves ==
  ASSUME CallInv, [Next]_vars
  PROVE  \/ \E w \in Worker : MainMoves(w) \/ DocMoves(w) \/ Crash(w)
         \/ QuietMoves
<1>1. CASE UNCHANGED vars
  BY <1>1 DEF vars, QuietMoves, queueVars, CallInv, FileTypes
<1>2. QED
  BY <1>1, MainStepMoves, DocStepMoves, ApiMoves, HeartbeatMoves, ExpireMoves DEF Next

-------------------------------------------------------------------------------
(* The calls of the processes are calls that the store allows.              *)

\* Every step keeps the types and is a step that the store allows.
LEMMA CallInvStep ==
  ASSUME CallInv, [Next]_vars
  PROVE  CallInv' /\ [NextQ]_queueVars
<1>1. [NextQ]_queueVars /\ FileTypes'
  <2>1. ASSUME NEW w \in Worker, Crash(w)
        PROVE  [NextQ]_queueVars /\ FileTypes'
    BY <2>1 DEF Crash, fileVars, FileTypes, CallInv
  <2>2. QED
    BY <2>1, NextMoves DEF MainMoves, DocMoves, QuietMoves
<1>2. RowInv' /\ ControlInv'
  BY <1>1, NextRows, RowInvStep, NextIsControlStep, ControlInvStep DEF CallInv, RowInv
<1>3. RowIds \subseteq RowIds'
  <2>1. last_id \in Nat /\ last_id' \in Nat /\ last_id <= last_id'
    BY <1>1, <1>2, NextRows, QueueAssumption
    DEF CallInv, RowInv, RowTypes, RowInserted, Insert, RowsUpdated
  <2>2. QED
    BY <2>1 DEF RowIds
<1>4. \A m : MainSound(m) => MainSound(m)'
  BY <1>3 DEF MainSound
<1>5. CASE QuietMoves
  BY <1>1, <1>2, <1>4, <1>5 DEF CallInv, ThreadTypes, QuietMoves
<1>6. ASSUME NEW w \in Worker, MainMoves(w)
      PROVE  ThreadTypes'
  <2>1. main' \in [Worker -> Main] /\ \A v \in Worker : MainSound(main[v])'
    BY <1>4, <1>6 DEF CallInv, ThreadTypes, MainMoves, MainChanged, MainSound
  <2>2. /\ doc' \in [Worker -> [Job -> Doc]]
        /\ \A v \in Worker, j \in Job : DocSound(doc'[v][j])
    <3>1. CASE doc' = doc
      BY <3>1 DEF CallInv, ThreadTypes
    <3>2. ASSUME NEW status \in JobStatus, main[w].pc \in ExecutionPc,
                 doc' = [doc EXCEPT ![w][main[w].job] =
                           [pc |-> "queued", mem |-> status]]
          PROVE  /\ doc' \in [Worker -> [Job -> Doc]]
                 /\ \A v \in Worker, j \in Job : DocSound(doc'[v][j])
      <4>1. [pc |-> "queued", mem |-> status] \in Doc
            /\ DocSound([pc |-> "queued", mem |-> status])
        BY DEF Doc, DocPc, DocSound
      <4>2. QED
        BY <3>2, <4>1 DEF CallInv, ThreadTypes
    <3>3. QED
      BY <1>6, <3>1, <3>2 DEF MainMoves, DocHanded
  <2>3. QED
    BY <2>1, <2>2 DEF ThreadTypes, DocSound
<1>7. ASSUME NEW w \in Worker, DocMoves(w)
      PROVE  ThreadTypes'
  BY <1>4, <1>7 DEF CallInv, ThreadTypes, DocMoves, DocSound
<1>8. ASSUME NEW w \in Worker, Crash(w)
      PROVE  ThreadTypes'
  <2>1. MainSound(DeadMain)
    <3>1. DeadMain \in Main
      BY IdleIsMain DEF DeadMain, Main, MainPc
    <3>2. QED
      BY <3>1 DEF DeadMain, IdleMain, MainSound, FreePc, StatusPc, ExecutionPc
  <2>2. NoDoc \in Doc /\ DocSound(NoDoc)
    BY DEF NoDoc, Doc, DocPc, DocSound
  <2>3. main' \in [Worker -> Main] /\ \A v \in Worker : MainSound(main[v])'
    BY <1>4, <1>8, <2>1 DEF Crash, CallInv, ThreadTypes, MainSound
  <2>4. /\ doc' \in [Worker -> [Job -> Doc]]
        /\ \A v \in Worker, j \in Job : DocSound(doc'[v][j])
    BY <1>8, <2>2 DEF Crash, CallInv, ThreadTypes
  <2>5. QED
    BY <2>3, <2>4 DEF ThreadTypes, DocSound
<1>9. QED
  BY <1>1, <1>2, <1>5, <1>6, <1>7, <1>8, NextMoves DEF CallInv

\* The initial state is sound.
LEMMA CallInvInit ==
  ASSUME Init
  PROVE  CallInv
<1>1. RowInv /\ ControlInv
  BY RowInvInit, ControlInvInit DEF Init
<1>2. FileTypes
  BY DEF Init, FileTypes, Json, ApiPc
<1>3. MainSound(IdleMain)
  BY IdleIsMain DEF IdleMain, MainSound, FreePc, StatusPc, ExecutionPc
<1>4. NoDoc \in Doc /\ DocSound(NoDoc)
  BY DEF NoDoc, Doc, DocPc, DocSound
<1>5. ThreadTypes
  BY <1>3, <1>4 DEF Init, ThreadTypes, MainSound
<1>6. QED
  BY <1>1, <1>2, <1>5 DEF CallInv

\* The types, and the facts about the rows and threads on which the calls rest.
THEOREM CallsSound == Spec => []CallInv
<1>1. CallInv /\ [Next]_vars => CallInv'
  BY CallInvStep
<1>2. QED
  BY CallInvInit, <1>1, PTL DEF Spec

\* Type correctness of the whole system.
THEOREM Types == Spec => []TypeOK
<1>1. CallInv => TypeOK
  BY 
  DEF CallInv, RowInv, RowTypes, ControlInv, FileTypes, ThreadTypes, TypeOK, TypeOKQ
<1>2. QED
  BY <1>1, CallsSound, PTL

\* The workers and the API use the store as SpecQ allows.
THEOREM JobsUseTheStore == Spec => SpecQ
<1>1. Init => InitQ
  BY DEF Init
<1>2. CallInv /\ [Next]_vars => [NextQ]_queueVars
  BY CallInvStep
<1>3. QED
  BY <1>1, <1>2, CallsSound, PTL DEF Spec, SpecQ

\* So the promises of the store hold of the jobs that the workers run.
THEOREM JobsKeepTheLifecycle ==
  Spec => []UniqueUnfinished /\ []OutcomeMatchesFlag /\ ImplementsLifecycle
BY JobsUseTheStore, UnfinishedRowsUnique, OutcomeAgrees, StoreImplementsLifecycle, PTL

-------------------------------------------------------------------------------
(* The fence.                                                               *)

\* An execution stands behind a control row, and in one hand.  Without the
\* first part the second is not inductive: begin_execution grants a job without
\* a control row, so nobody may be executing such a job.
FenceInv ==
  /\ \A j \in Job, w \in Worker : Executes(w, j) => ~BeginGranted(j)
  /\ SingleExecution

\* How executions may change hands in a step: only begin_execution starts one,
\* one worker starts at a time, and the two threads of a worker do not share.
ExecutionMoves ==
  \A j \in Job :
    /\ \A w \in Worker :
         Executes(w, j)' => \/ Executes(w, j)
                            \/ BeginGranted(j) /\ BeginExecution(j)
    /\ \A v, w \in Worker :
         Executes(v, j)' /\ Executes(w, j)' /\ v # w => Executes(v, j) \/ Executes(w, j)
    /\ \A w \in Worker :
         (MainExecutes(w, j) /\ DocExecutes(w, j))' =>
           \/ MainExecutes(w, j) /\ DocExecutes(w, j)
           \/ BeginGranted(j) /\ Executes(w, j)

\* Every step moves executions in that way only.
LEMMA ExecutionStep ==
  ASSUME CallInv, [Next]_vars
  PROVE  ExecutionMoves
<1>1. CASE QuietMoves
  BY <1>1 DEF QuietMoves, ExecutionMoves, Executes, MainExecutes, DocExecutes
<1>2. ASSUME NEW w \in Worker, Crash(w)
      PROVE  ExecutionMoves
  <2>1. \A v \in Worker, j \in Job : /\ MainExecutes(v, j)' => MainExecutes(v, j)
                                     /\ DocExecutes(v, j)' => DocExecutes(v, j)
    BY <1>2
    DEF Crash, DeadMain, IdleMain, NoDoc, MainExecutes, DocExecutes, ExecutionPc,
                CallInv, ThreadTypes
  <2>2. QED
    BY <2>1 DEF ExecutionMoves, Executes
<1>3. ASSUME NEW w \in Worker, DocMoves(w)
      PROVE  ExecutionMoves
  <2>1. \A v \in Worker, j \in Job : /\ MainExecutes(v, j)' = MainExecutes(v, j)
                                     /\ DocExecutes(v, j)' => DocExecutes(v, j)
    BY <1>3 DEF DocMoves, MainExecutes, DocExecutes, CallInv, ThreadTypes
  <2>2. QED
    BY <2>1 DEF ExecutionMoves, Executes
<1>4. ASSUME NEW w \in Worker, MainMoves(w)
      PROVE  ExecutionMoves
  <2>1. \A v \in Worker, j \in Job :
          v # w => /\ MainExecutes(v, j)' = MainExecutes(v, j)
                   /\ DocExecutes(v, j)' = DocExecutes(v, j)
    BY <1>4 DEF MainMoves, MainChanged, DocHanded, MainExecutes, DocExecutes,
                CallInv, ThreadTypes
  <2>2. \A j \in Job :
          MainExecutes(w, j)' => \/ MainExecutes(w, j)
                                 \/ BeginGranted(j) /\ BeginExecution(j)
    BY <1>4 DEF MainMoves, MainChanged, MainExecutes
  <2>3. \A j \in Job :
          DocExecutes(w, j)' => \/ DocExecutes(w, j)
                                \/ MainExecutes(w, j) /\ ~MainExecutes(w, j)'
    BY <1>4 DEF MainMoves, DocHanded, MainExecutes, DocExecutes, CallInv, ThreadTypes
  <2>4. QED
    BY <2>1, <2>2, <2>3 DEF ExecutionMoves, Executes
<1>5. QED
  BY <1>1, <1>2, <1>3, <1>4, NextMoves

\* A control row is never deleted.
LEMMA ControlStays ==
  ASSUME CallInv, [Next]_vars, NEW j \in Job, ~BeginGranted(j)
  PROVE  ~BeginGranted(j)'
<1>1. ControlStep
  BY CallInvStep, NextIsControlStep
<1>2. QED
  BY <1>1
  DEF CallInv, ControlInv, Control, ControlState, ControlStep, BeginGranted, Job,
              ControlAfterCancel, ControlAfterFinish

\* Every step keeps executions behind the fence.
LEMMA FenceInvStep ==
  ASSUME CallInv, FenceInv, [Next]_vars
  PROVE  FenceInv'
<1>1. ExecutionMoves
  BY ExecutionStep
<1>2. \A j \in Job : ~BeginGranted(j) \/ BeginExecution(j) => ~BeginGranted(j)'
  <2>1. ASSUME NEW j \in Job, BeginExecution(j), BeginGranted(j)
        PROVE  ~BeginGranted(j)'
    BY <2>1 DEF BeginExecution, BeginGranted, CallInv, ControlInv, Control, Job
  <2>2. QED
    BY <2>1, ControlStays
<1>3. \A j \in Job, w \in Worker : Executes(w, j)' => ~BeginGranted(j)'
  BY <1>1, <1>2 DEF FenceInv, ExecutionMoves
<1>4. SingleExecution'
  <2> SUFFICES ASSUME NEW j \in Job, NEW v \in Worker, NEW w \in Worker
               PROVE  /\ Executes(v, j)' /\ Executes(w, j)' => v = w
                      /\ ~(MainExecutes(w, j) /\ DocExecutes(w, j))'
    BY DEF SingleExecution
  <2>1. ASSUME Executes(v, j)', Executes(w, j)', v # w
        PROVE  FALSE
    <3>1. Executes(v, j) \/ Executes(w, j)
      BY <1>1, <2>1 DEF ExecutionMoves
    <3>2. Executes(v, j) /\ Executes(w, j)
      BY <1>1, <2>1, <3>1 DEF ExecutionMoves, FenceInv
    <3>3. QED
      BY <2>1, <3>2 DEF FenceInv, SingleExecution
  <2>2. ~(MainExecutes(w, j) /\ DocExecutes(w, j))'
    BY <1>1 DEF ExecutionMoves, FenceInv, SingleExecution
  <2>3. QED
    BY <2>1, <2>2
<1>5. QED
  BY <1>3, <1>4 DEF FenceInv

\* Every execution is behind the fence.
THEOREM FenceSound == Spec => []FenceInv
<1>1. Init => FenceInv
  BY DEF Init, IdleMain, NoDoc, FenceInv, SingleExecution, Executes, MainExecutes,
         DocExecutes, ExecutionPc
<1>2. CallInv /\ FenceInv /\ [Next]_vars => FenceInv'
  BY FenceInvStep
<1>3. QED
  BY <1>1, <1>2, CallsSound, PTL DEF Spec

\* Whatever is enqueued again, recovered, delayed or restarted, a job is in one
\* hand.
THEOREM ExecutedByOne == Spec => []SingleExecution
<1>1. FenceInv => SingleExecution
  BY DEF FenceInv
<1>2. QED
  BY <1>1, FenceSound, PTL

\* No worker starts a job whose cancellation the database has accepted as final.
THEOREM CancelledIsNotStarted == Spec => NoStartAfterCancel
<1>1. ASSUME CallInv, [Next]_vars
      PROVE  [\A j \in Job, w \in Worker :
                execution_controls[j].state = "cancelled" /\ Executes(w, j)' => Executes(w, j)
             ]_vars
  BY <1>1, ExecutionStep DEF ExecutionMoves, BeginGranted
<1>2. QED
  BY <1>1, CallsSound, PTL DEF Spec, NoStartAfterCancel

-------------------------------------------------------------------------------
(* Steps by what they do to the job in hand.                                *)

Quiet == UNCHANGED <<last_id, queue_items, execution_controls, job_json, doc>>
StoreOnly == UNCHANGED <<job_json, doc>>
Wrote(j, status) ==
  /\ job_json' = [job_json EXCEPT ![j] = status]
  /\ UNCHANGED <<last_id, queue_items, execution_controls>>
Keeps(m, n) == n.row = m.row /\ n.job = m.job /\ n.todo = m.todo

\* Between the jobs: m and n are the records of w before and after the step.
TurnBetweenJobs(w, m, n) ==
  \/ /\ m.pc = "idle" /\ n.pc = "reconcile"
     /\ n.job = m.job /\ n.mem = m.mem
     /\ n.todo = {r \in RowIds : AwaitsAcknowledgement(r)'}
     /\ RecoverStaleClaims /\ StoreOnly
  \/ /\ m.pc = "reconcile" /\ n.row \in m.todo
     /\ n.job = queue_items[n.row].item /\ n.todo = m.todo
     /\ \/ n.pc = "acknowledge" /\ n.mem = m.mem /\ HasNewerQueueItem(n.row)
        \/ n.pc = "finalize" /\ n.mem = job_json[n.job] /\ Readable(n.job)
     /\ Quiet
  \/ /\ m.pc \in {"reconcile", "claim"} /\ n.pc \in {"idle", "reconcile", "claim"}
     /\ n.job = NoJob \/ n.job = m.job
     /\ n.mem = "none" \/ n.mem = m.mem
     /\ n.todo \subseteq m.todo
     /\ Quiet
  \/ /\ m.pc = "acknowledge" /\ n.pc \in {"idle", "reconcile"}
     /\ n.job = NoJob /\ n.mem = "none" /\ n.todo \subseteq m.todo
     /\ \/ AcknowledgeInterruptedClaim(m.row, queue_items[m.row].claimed_by) /\ StoreOnly
        \/ Quiet
  \/ /\ m.pc = "claim" /\ n.pc = "load"
     /\ n.job = queue_items[n.row].item /\ n.mem = m.mem /\ n.todo = m.todo
     /\ n.row \in RowIds /\ ClaimNext(n.row, w) /\ StoreOnly
  \/ /\ m.pc = "complete"
     /\ n.job = NoJob /\ n.mem = "none" /\ n.pc = "idle" /\ n.todo = {}
     /\ \/ CompleteClaim(m.row, w, m.mem) /\ StoreOnly
        \/ ~OwnedClaim(m.row, w) /\ ~queue_items[m.row].interrupted /\ Quiet
  \/ /\ m.pc = "complete" /\ n.row = m.row /\ n.job = m.job
     /\ n.todo \subseteq {m.row} /\ queue_items[m.row].interrupted
     /\ \/ n.pc = "finalize" /\ n.mem = job_json[m.job] /\ Readable(m.job)
        \/ /\ n.pc = "acknowledge" /\ n.mem = "none"
           /\ HasNewerQueueItem(m.row) \/ ~Readable(m.job)
     /\ Quiet

\* With a job in hand, without any effect on files, tables and documents.
QuietTurn(m, n) ==
  LET j == m.job IN
  \/ /\ <<m.pc, n.pc>> \in {<<"refresh", "acknowledge">>, <<"finishRefresh", "check">>,
                            <<"prepare", "process">>, <<"check", "wait">>}
     /\ n.mem = m.mem
  \/ /\ m.pc = "load"
     /\ \/ n.pc = "begin" /\ n.mem = "QUEUED" /\ HasStatus(j, {"QUEUED"})
        \/ n.pc = "check" /\ n.mem = m.mem /\ ~HasStatus(j, {"QUEUED"})
  \/ m.pc = "begin" /\ n.pc = "check" /\ n.mem = m.mem /\ ~BeginGranted(j)
  \/ m.pc = "prepare" /\ n.pc = "finishLock" /\ n.mem = "FAILED"
  \/ /\ m.pc \in {"prepare", "boundary"} /\ n.pc = "finishLock" /\ n.mem = m.mem
     /\ CancelRequested(j) \/ (m.pc = "boundary" /\ Kind[j] # "deliverable")
  \/ /\ m.pc = "process" /\ n.pc \in {"updateLock", "finishLock"}
     /\ Kind[j] # "deliverable" /\ n.mem \in {"SUCCEEDED", "FAILED"}
  \/ m.pc = "process" /\ n.pc = "updateLock" /\ n.mem = m.mem /\ Kind[j] = "deliverable"
  \/ /\ m.pc \in {"reconcileLock", "updateLock"}
     /\ n.pc = IF m.pc = "updateLock" THEN "updateWrite" ELSE "reconcileWrite"
     /\ ~Locked(j) /\ n.mem = Guarded(j, m.mem)
  \/ /\ m.pc \in {"check", "wait"} /\ n.pc = "report" /\ n.mem = m.mem
     /\ ~Readable(j) \/ (HasStatus(j, Terminal) /\ ~Executing(j))
  \/ m.pc = "wait" /\ n.pc = "complete" /\ n.mem = "failed"
  \/ /\ m.pc = "report" /\ n.pc = "complete"
     /\ n.mem = IF HasStatus(j, {"CANCELLED"}) THEN "cancelled" ELSE "done"

\* With a job in hand, and an effect on it.
WorkTurn(w, m, n) ==
  LET j == m.job IN
  \/ /\ m.pc = "finalize" /\ FinishExecution(j) /\ StoreOnly
     /\ IF m.mem = "INTERRUPTED"
        THEN n.pc = "refresh" /\ n.mem = m.mem
        ELSE n.pc = "reconcileLock" /\ n.mem = "INTERRUPTED"
  \/ /\ m.pc = "begin" /\ n.pc = "prepare" /\ n.mem = m.mem
     /\ BeginGranted(j) /\ BeginExecution(j) /\ StoreOnly
  \/ /\ <<m.pc, n.pc>> \in {<<"reconcileWrite", "refresh">>, <<"updateWrite", "boundary">>,
                            <<"finishWrite", "finishRefresh">>}
     /\ n.mem = m.mem /\ Wrote(j, m.mem) /\ doc' = doc
  \/ /\ m.pc = "process" /\ n.pc = "stageWrite" /\ Kind[j] = "deliverable"
     /\ n.mem \in {"RUNNING", "FAILED"} /\ Wrote(j, "TORN") /\ doc' = doc
  \/ /\ m.pc = "stageWrite" /\ n.mem = m.mem /\ Wrote(j, m.mem) /\ doc' = doc
     /\ n.pc = IF m.mem = "RUNNING" THEN "process" ELSE "finishLock"
  \/ /\ m.pc = "finishLock" /\ n.pc = "finishWrite" /\ ~Locked(j)
     /\ n.mem = FinishedStatus(j, m.mem) /\ FinishExecution(j) /\ StoreOnly
  \/ /\ m.pc \in {"prepare", "boundary"} /\ n.pc = "check" /\ n.mem = m.mem
     /\ Kind[j] \in {"calculation_book", "deliverable"}
     /\ \E status \in JobStatus :
          /\ status \in {"QUEUED", m.mem}
          /\ doc' = [doc EXCEPT ![w][j] = [pc |-> "queued", mem |-> status]]
     /\ UNCHANGED <<last_id, queue_items, execution_controls, job_json>>

MainTurn(w, m, n) ==
  \/ TurnBetweenJobs(w, m, n)
  \/ m.pc \notin FreePc /\ Keeps(m, n) /\ QuietTurn(m, n) /\ Quiet
  \/ m.pc \notin FreePc /\ Keeps(m, n) /\ WorkTurn(w, m, n)

\* Every step of a main thread is one of these turns.
LEMMA MainTurns ==
  ASSUME CallInv, NEW w \in Worker, MainStep(w)
  PROVE  /\ MainTurn(w, main[w], main'[w])
         /\ \A v \in Worker : v # w => main'[v] = main[v]
         /\ api' = api
<1> DEFINE m == main[w]
<1>0. m \in Main /\ MainSound(m) /\ main \in [Worker -> Main]
  BY MainFields DEF CallInv, ThreadTypes
<1> USE DEF At
<1>1. CASE RunOnce(w)
  BY <1>0, <1>1 DEF RunOnce, MainTurn, TurnBetweenJobs, Main, StoreOnly, fileVars
<1>2. ASSUME NEW r \in RowIds, ReconcileNext(w, r)
      PROVE  /\ MainTurn(w, main[w], main'[w])
             /\ \A v \in Worker : v # w => main'[v] = main[v]
             /\ api' = api
  BY <1>0, <1>2 DEF ReconcileNext, MainTurn, TurnBetweenJobs, Main, Quiet, fileVars, queueVars
<1>3. CASE Finalize(w)
  BY <1>0, <1>3 DEF Finalize, Goto, MainTurn, WorkTurn, Keeps, Main, StoreOnly, fileVars, FreePc
<1>4. CASE LockForUpdate(w, "reconcileLock", "reconcileWrite") \/ LockForUpdate(w, "updateLock", "updateWrite")
  BY <1>0, <1>4 DEF LockForUpdate, MainTurn, QuietTurn, Keeps, Main, Quiet, fileVars, queueVars, FreePc
<1>5. CASE \/ WriteAndUnlock(w, "reconcileWrite", "refresh")
           \/ WriteAndUnlock(w, "updateWrite", "boundary")
           \/ WriteAndUnlock(w, "finishWrite", "finishRefresh")
  BY <1>0, <1>5 DEF WriteAndUnlock, WriteJson, Goto, MainTurn, WorkTurn, Wrote, Keeps, Main, queueVars, FreePc
<1>6. CASE RefreshAfter(w, "refresh", "acknowledge") \/ RefreshAfter(w, "finishRefresh", "check")
  BY <1>0, <1>6 DEF RefreshAfter, RefreshSummary, Goto, MainTurn, QuietTurn, Keeps, Main, Quiet, queueVars, FreePc
<1>7. CASE Acknowledge(w)
  BY <1>0, <1>7 DEF Acknowledge, IdleMain, MainTurn, TurnBetweenJobs, Main, Quiet, StoreOnly, queueVars, fileVars
<1>8. CASE ReconcileDone(w)
  BY <1>0, <1>8 DEF ReconcileDone, Goto, MainTurn, TurnBetweenJobs, Main, Quiet, queueVars, fileVars
<1>9. CASE Claim(w)
  <2>1. CASE main' = [main EXCEPT ![w] = IdleMain] /\ UNCHANGED queueVars
    BY <1>0, <1>9, <2>1
    DEF Claim, IdleMain, MainTurn, TurnBetweenJobs, Main, Quiet, queueVars, fileVars
  <2>2. ASSUME NEW r \in RowIds, ClaimNext(r, w),
               main' = [main EXCEPT ![w].pc = "load", ![w].row = r,
                                    ![w].job = queue_items[r].item]
        PROVE  /\ TurnBetweenJobs(w, main[w], main'[w])
               /\ \A v \in Worker : v # w => main'[v] = main[v]
    <3>1. /\ main'[w].pc = "load" /\ main'[w].row = r
          /\ main'[w].job = queue_items[r].item
          /\ main'[w].mem = main[w].mem /\ main'[w].todo = main[w].todo
          /\ \A v \in Worker : v # w => main'[v] = main[v]
      BY <1>0, <2>2 DEF Main
    <3>2. StoreOnly /\ main[w].pc = "claim"
      BY <1>9 DEF Claim, StoreOnly, fileVars
    <3> HIDE DEF m
    <3> QED BY <2>2, <3>1, <3>2 DEF TurnBetweenJobs
  <2> QED BY <1>9, <2>1, <2>2 DEF Claim, MainTurn
<1>10. CASE LoadJob(w)
  BY <1>0, <1>10 DEF LoadJob, MainTurn, QuietTurn, Keeps, Main, Quiet, queueVars, fileVars, FreePc
<1>11. CASE Begin(w)
  BY <1>0, <1>11 DEF Begin, BeginExecution, Goto, MainTurn, QuietTurn, WorkTurn, Keeps, Main, Quiet, StoreOnly, queueVars, fileVars, FreePc
<1>12. CASE Prepare(w)
  BY <1>0, <1>12 DEF Prepare, SubmitDoc, Goto, MainTurn, QuietTurn, WorkTurn, Keeps, Main, Quiet, StoreOnly, queueVars, fileVars, FreePc, JobStatus, Terminal
<1>13. CASE Process(w)
  BY <1>0, <1>13 DEF Process, TruncateJson, Goto, MainTurn, QuietTurn, WorkTurn, Wrote, Keeps, Main, Quiet, queueVars, fileVars, FreePc
<1>14. CASE ProcessWritten(w)
  BY <1>0, <1>14 DEF ProcessWritten, Goto, MainTurn, WorkTurn, Wrote, Keeps, Main, queueVars, fileVars, FreePc
<1>15. CASE Boundary(w)
  BY <1>0, <1>15 DEF Boundary, SubmitDoc, Goto, MainTurn, QuietTurn, WorkTurn, Keeps, Main, Quiet, queueVars, fileVars, FreePc, MainSound, StatusPc, ExecutionPc
<1>16. CASE FinishJob(w)
  BY <1>0, <1>16 DEF FinishJob, MainTurn, WorkTurn, Keeps, Main, StoreOnly, fileVars, FreePc
<1>17. CASE Check(w) \/ Wait(w) \/ Report(w)
  BY <1>0, <1>17 DEF Check, Wait, Report, RefreshSummary, Goto, MainTurn, QuietTurn, Keeps, Main, Quiet, queueVars, fileVars, FreePc
<1>18. CASE CompleteOwned(w)
  BY <1>0, <1>18 DEF CompleteOwned, IdleMain, MainTurn, TurnBetweenJobs, StoreOnly, fileVars
<1>19. CASE CompleteRejected(w)
  BY <1>0, <1>19 DEF CompleteRejected, IdleMain, MainTurn, TurnBetweenJobs, Main, Quiet, queueVars, fileVars
<1> QED
  BY <1>1, <1>2, <1>3, <1>4, <1>5, <1>6, <1>7, <1>8, <1>9, <1>10, <1>11, <1>12, <1>13,
     <1>14, <1>15, <1>16, <1>17, <1>18, <1>19 DEF MainStep

\* The document thread: d and e are the records of j in w before and after.
DocTurn(w, j, d, e) ==
  \/ /\ d.pc = "queued" /\ e.mem = d.mem
     /\ IF CancelRequested(j) THEN e.pc = "finishLock" ELSE e.pc = "process"
     /\ UNCHANGED <<last_id, queue_items, execution_controls, job_json>>
  \/ /\ d.pc = "process" /\ Kind[j] = "calculation_book"
     /\ e.mem \in {"RUNNING", "SUCCEEDED", "FAILED"} /\ Wrote(j, e.mem)
     /\ e.pc = IF e.mem = "RUNNING" THEN "process" ELSE "finishLock"
  \/ /\ d.pc = "process" /\ e.pc = "stageWrite" /\ Kind[j] = "deliverable"
     /\ e.mem \in {"RUNNING", "SUCCEEDED", "FAILED"} /\ Wrote(j, "TORN")
  \/ /\ d.pc = "stageWrite" /\ e.mem = d.mem /\ Wrote(j, d.mem)
     /\ e.pc = IF d.mem = "RUNNING" THEN "process" ELSE "finishLock"
  \/ /\ d.pc = "finishLock" /\ e.pc = "finishWrite" /\ ~Locked(j)
     /\ \E latest \in LatestDocStatus(w, j) : e.mem = FinishedStatus(j, latest)
     /\ FinishExecution(j) /\ job_json' = job_json
  \/ d.pc = "finishWrite" /\ e.pc = "refresh" /\ e.mem = d.mem /\ Wrote(j, d.mem)
  \/ /\ d.pc = "refresh" /\ e.pc = "none" /\ e.mem = "none"
     /\ UNCHANGED <<last_id, queue_items, execution_controls, job_json>>

\* So is every step of a document thread.
LEMMA DocTurns ==
  ASSUME CallInv, NEW w \in Worker, DocStep(w)
  PROVE  \E j \in Job :
           /\ DocTurn(w, j, doc[w][j], doc'[w][j])
           /\ \A v \in Worker, k \in Job : v # w \/ k # j => doc'[v][k] = doc[v][k]
           /\ UNCHANGED <<main, api>>
<1>1. PICK j \in Job : \/ DocStart(w, j) \/ DocCalculate(w, j) \/ DocDeliver(w, j)
                       \/ DocDelivered(w, j) \/ DocFinish(w, j) \/ DocFinished(w, j)
                       \/ DocRefresh(w, j)
  BY DEF DocStep
<1>2. doc \in [Worker -> [Job -> Doc]] /\ doc[w][j] \in Doc
  BY DEF CallInv, ThreadTypes
<1>3. CASE DocStart(w, j)
  BY <1>2, <1>3 DEF DocStart, DocTurn, Doc, queueVars, fileVars
<1>4. CASE DocCalculate(w, j)
  <2>1. PICK status \in {"RUNNING", "SUCCEEDED", "FAILED"} :
          /\ WriteJson(j, status)
          /\ doc' = [doc EXCEPT ![w][j] =
                      [pc |-> IF status = "RUNNING" THEN "process" ELSE "finishLock",
                       mem |-> status]]
    BY <1>4 DEF DocCalculate
  <2>2. /\ doc'[w][j].mem = status
        /\ doc'[w][j].pc = IF status = "RUNNING" THEN "process" ELSE "finishLock"
        /\ \A v \in Worker, k \in Job : v # w \/ k # j => doc'[v][k] = doc[v][k]
    BY <1>2, <2>1
  <2>3. /\ doc[w][j].pc = "process" /\ Kind[j] = "calculation_book"
        /\ Wrote(j, status) /\ UNCHANGED <<main, api>>
    BY <1>4, <2>1 DEF DocCalculate, WriteJson, Wrote, queueVars
  <2> QED BY <2>2, <2>3 DEF DocTurn
<1>5. CASE DocDeliver(w, j)
  <2>1. PICK status \in {"RUNNING", "SUCCEEDED", "FAILED"} :
          doc' = [doc EXCEPT ![w][j] = [pc |-> "stageWrite", mem |-> status]]
    BY <1>5 DEF DocDeliver
  <2>2. /\ doc'[w][j].mem = status /\ doc'[w][j].pc = "stageWrite"
        /\ \A v \in Worker, k \in Job : v # w \/ k # j => doc'[v][k] = doc[v][k]
    BY <1>2, <2>1
  <2>3. /\ doc[w][j].pc = "process" /\ Kind[j] = "deliverable"
        /\ Wrote(j, "TORN") /\ UNCHANGED <<main, api>>
    BY <1>5 DEF DocDeliver, TruncateJson, Wrote, queueVars
  <2> QED BY <2>2, <2>3 DEF DocTurn
<1>6. CASE DocDelivered(w, j)
  <2>2. /\ doc'[w][j].mem = doc[w][j].mem
        /\ doc'[w][j].pc = IF doc[w][j].mem = "RUNNING" THEN "process" ELSE "finishLock"
        /\ \A v \in Worker, k \in Job : v # w \/ k # j => doc'[v][k] = doc[v][k]
    BY <1>2, <1>6 DEF DocDelivered, Doc
  <2>3. /\ doc[w][j].pc = "stageWrite"
        /\ Wrote(j, doc[w][j].mem) /\ UNCHANGED <<main, api>>
    BY <1>6 DEF DocDelivered, Wrote, queueVars
  <2> QED BY <2>2, <2>3 DEF DocTurn
<1>7. CASE DocFinish(w, j)
  BY <1>2, <1>7 DEF DocFinish, DocTurn, Doc, fileVars
<1>8. CASE DocFinished(w, j)
  BY <1>2, <1>8 DEF DocFinished, WriteJson, DocTurn, Wrote, Doc, queueVars
<1>9. CASE DocRefresh(w, j)
  BY <1>2, <1>9 DEF DocRefresh, NoDoc, RefreshSummary, DocTurn, Doc, queueVars
<1> QED BY <1>1, <1>3, <1>4, <1>5, <1>6, <1>7, <1>8, <1>9

\* The request for j: a and b are its places before and after.
BeforePc == {"none", "created"}
ApiTurn(j, a, b) ==
  \/ a = "none" /\ b = "created" /\ Wrote(j, "QUEUED")
  \/ /\ (a = "created" /\ b = "ready") \/ (a \notin BeforePc /\ b = a)
     /\ Enqueue(j) /\ job_json' = job_json
  \/ /\ \/ a = "ready" /\ b = "cancelRequest"
        \/ a = "cancelLock" /\ b = "cancelWrite" /\ ~Locked(j)
        \/ a = "cancelRefresh" /\ b = "ready"
     /\ UNCHANGED <<last_id, queue_items, execution_controls, job_json>>
  \/ /\ a = "cancelRequest" /\ RequestExecutionCancel(j) /\ job_json' = job_json
     /\ \/ b = "ready" /\ execution_controls'[j].state = "completed"
        \/ b = "cancelRefresh" /\ execution_controls'[j].state = "running"
        \/ b = "cancelLock" /\ execution_controls'[j].state \notin {"completed", "running"}
  \/ a = "cancelWrite" /\ b = "cancelRefresh" /\ Wrote(j, "CANCELLED")

\* So is every step of a request of the API.
LEMMA ApiTurns ==
  ASSUME CallInv, NEW j \in Job, ApiStep(j) \/ UserStep(j)
  PROVE  /\ ApiTurn(j, api[j], api'[j])
         /\ \A k \in Job : k # j => api'[k] = api[k]
         /\ UNCHANGED <<main, doc>>
<1>1. api \in [Job -> ApiPc]
  BY DEF CallInv, FileTypes
<1>2. CASE CreateJob(j) \/ CancelCheck(j) \/ CancelLock(j) \/ CancelWrite(j) \/ CancelRefresh(j)
  BY <1>1, <1>2 DEF CreateJob, CancelCheck, CancelLock, CancelWrite, CancelRefresh,
     WriteJson, RefreshSummary, ApiTurn, Wrote, queueVars, fileVars
<1>3. CASE EnqueueCreated(j) \/ EnqueueAgain(j)
  BY <1>1, <1>3 DEF EnqueueCreated, EnqueueAgain, ApiTurn, BeforePc, fileVars
<1>4. CASE CancelRequest(j)
  BY <1>1, <1>4 DEF CancelRequest, ApiTurn, fileVars
<1> QED BY <1>2, <1>3, <1>4 DEF ApiStep, UserStep

\* What no step takes back.
RowsKept ==
  \A r \in RowIds :
    /\ r \in RowIds'
    /\ queue_items'[r].item = queue_items[r].item
    /\ queue_items[r].interrupted => queue_items'[r].interrupted
Ended(j) == execution_controls[j].state \in {"completed", "cancelled"}
ControlKept(j) ==
  /\ CancelRequested(j) => CancelRequested(j)'
  /\ ~BeginGranted(j) => ~BeginGranted(j)'
  /\ Ended(j) => execution_controls'[j].state = execution_controls[j].state

\* No step takes back a request to cancel, or begins an execution that has ended.
LEMMA ControlsKept ==
  ASSUME CallInv, [Next]_vars, NEW j \in Job
  PROVE  ControlKept(j)
<1>1. ControlStep
  BY CallInvStep, NextIsControlStep
<1>2. /\ execution_controls \in [Item -> Control] /\ j \in Item
      /\ ControlSound(execution_controls[j])
  BY DEF CallInv, ControlInv, Job
<1>3. CASE UNCHANGED execution_controls
  BY <1>3 DEF ControlKept, CancelRequested, BeginGranted, Ended
<1>4. ASSUME NEW i \in Item, execution_controls[i].state = "absent",
             execution_controls' = [execution_controls EXCEPT ![i].state = "running"]
      PROVE  ControlKept(j)
  BY <1>2, <1>4 DEF ControlKept, CancelRequested, BeginGranted, Ended, Control
<1>5. ASSUME NEW i \in Item,
             execution_controls' =
               [execution_controls EXCEPT ![i] = ControlAfterCancel(execution_controls[i])]
      PROVE  ControlKept(j)
  BY <1>2, <1>5 DEF ControlKept, CancelRequested, BeginGranted, Ended, Control,
                    ControlState, ControlAfterCancel, ControlSound
<1>6. ASSUME NEW i \in Item,
             execution_controls' =
               [execution_controls EXCEPT ![i] = ControlAfterFinish(execution_controls[i])]
      PROVE  ControlKept(j)
  BY <1>2, <1>6 DEF ControlKept, CancelRequested, BeginGranted, Ended, Control,
                    ControlState, ControlAfterFinish, ControlSound
<1> QED BY <1>1, <1>3, <1>4, <1>5, <1>6 DEF ControlStep

\* No step removes a row, gives it to another job or forgets an interruption.
LEMMA RowsStay ==
  ASSUME CallInv, [Next]_vars
  PROVE  RowsKept
<1>1. RowTypes /\ [NextQ]_queueVars
  BY CallInvStep DEF CallInv, RowInv
<1>2. RowInserted \/ RowsUpdated
  BY <1>1, NextRows
<1>3. CASE RowInserted
  <2>1. PICK i \in Item, status \in RowStatus : Insert(i, status)
    BY <1>3 DEF RowInserted, RowStatus
  <2>2. RowIds' = RowIds \cup {last_id + 1} /\ last_id + 1 \notin RowIds
    BY <1>1, <2>1, InsertedRow
  <2>3. \A r \in RowIds : queue_items'[r] = queue_items[r]
    BY <2>1, <2>2 DEF Insert, RowIds
  <2> QED BY <2>2, <2>3 DEF RowsKept
<1>4. CASE RowsUpdated
  <2>1. RowIds' = RowIds
    BY <1>4 DEF RowsUpdated, RowIds
  <2>2. \A r \in RowIds : queue_items[r].interrupted => queue_items'[r].interrupted
    <3>1. \A r \in RowIds : ~Unfinished(r) /\ queue_items[r].interrupted
                              => queue_items'[r].interrupted
      BY <1>1, <1>4 DEF RowsUpdated, RowTypes, Row
    <3>2. \A r \in RowIds : Unfinished(r) /\ queue_items[r].interrupted
                              => queue_items'[r].interrupted
      <4>1. \A r \in RowIds : queue_items[r] \in Row
        BY <1>1 DEF RowTypes
      <4>2. ASSUME NEW r \in RowIds, Unfinished(r), queue_items[r].interrupted,
                   ~queue_items'[r].interrupted
            PROVE  FALSE
        <5>1. queue_items'[r] # queue_items[r]
          BY <4>2
        <5>2. ASSUME NEW i \in Item, RequestExecutionCancel(i)
              PROVE  FALSE
          BY <4>1, <4>2, <5>1, <5>2 DEF RequestExecutionCancel, RowsCancelled, Row
        <5>3. ASSUME NEW i \in Item, Enqueue(i)
              PROVE  FALSE
          BY <1>1, <1>4, <5>1, <5>3, QueueAssumption
          DEF Enqueue, Insert, RowsUpdated, RowTypes
        <5>4. ASSUME NEW i \in Item, NEW w \in Worker, HeartbeatClaim(w, i)
              PROVE  FALSE
          BY <4>1, <4>2, <5>1, <5>4 DEF HeartbeatClaim, Row
        <5>5. ASSUME NEW q \in RowIds, NEW w \in Worker,
                     \/ ClaimNext(q, w)
                     \/ AcknowledgeInterruptedClaim(q, w)
                     \/ \E status \in {"done", "failed", "cancelled"} :
                          CompleteClaim(q, w, status)
                     \/ ExpireClaim(q)
              PROVE  FALSE
          BY <1>1, <4>1, <4>2, <5>1, <5>5
          DEF ClaimNext, AcknowledgeInterruptedClaim, CompleteClaim, ExpireClaim, Row,
              RowTypes
        <5>6. CASE RecoverStaleClaims
          BY <4>1, <4>2, <5>1, <5>6 DEF RecoverStaleClaims, Row
        <5>7. ASSUME NEW q \in RowIds, ExpireClaim(q)
              PROVE  FALSE
          BY <1>1, <4>1, <4>2, <5>1, <5>7 DEF ExpireClaim, Row, RowTypes
        <5> QED
          BY <1>1, <5>1, <5>2, <5>3, <5>4, <5>5, <5>6, <5>7
          DEF NextQ, queueVars, BeginExecution, FinishExecution
      <4> QED BY <4>2
    <3> QED BY <3>1, <3>2
  <2> QED BY <1>4, <2>1, <2>2 DEF RowsKept, RowsUpdated
<1> QED BY <1>2, <1>3, <1>4

-------------------------------------------------------------------------------
(* Every step, by who takes it.                                             *)

MainGoes(w) ==
  /\ MainTurn(w, main[w], main'[w])
  /\ \A v \in Worker : v # w => main'[v] = main[v]
  /\ api' = api
DocGoes(w, j) ==
  /\ DocTurn(w, j, doc[w][j], doc'[w][j])
  /\ \A v \in Worker, k \in Job : v # w \/ k # j => doc'[v][k] = doc[v][k]
  /\ UNCHANGED <<main, api>>
ApiGoes(j) ==
  /\ ApiTurn(j, api[j], api'[j])
  /\ \A k \in Job : k # j => api'[k] = api[k]
  /\ UNCHANGED <<main, doc>>
SameRow(r) ==
  /\ queue_items'[r].item = queue_items[r].item
  /\ queue_items'[r].status = queue_items[r].status
  /\ queue_items'[r].claimed_by = queue_items[r].claimed_by
  /\ queue_items'[r].interrupted = queue_items[r].interrupted
TimeGoes ==
  /\ UNCHANGED <<last_id, execution_controls, job_json, main, doc, api>>
  /\ \A r \in RowIds : SameRow(r)
Dies(w) ==
  /\ main'[w] = DeadMain /\ \A j \in Job : doc'[w][j] = NoDoc
  /\ \A v \in Worker : v # w => main'[v] = main[v] /\ doc'[v] = doc[v]
  /\ UNCHANGED <<last_id, queue_items, execution_controls, job_json, api>>

SomebodyGoes ==
  \/ \E w \in Worker : MainGoes(w)
  \/ \E w \in Worker, j \in Job : DocGoes(w, j)
  \/ \E j \in Job : ApiGoes(j)
  \/ TimeGoes
  \/ \E w \in Worker : Dies(w)

\* A step that starts from a sound state, and what every such step respects.
Step ==
  /\ CallInv /\ CallInv' /\ FenceInv /\ FenceInv'
  /\ RowsKept
  /\ \A j \in Job : ControlKept(j)
  /\ SomebodyGoes

\* Every step from a sound state is taken by one of these.
LEMMA StepKinds ==
  ASSUME CallInv, FenceInv, [Next]_vars
  PROVE  Step
<1>1. CallInv' /\ FenceInv'
  BY CallInvStep, FenceInvStep
<1>2. RowsKept /\ \A j \in Job : ControlKept(j)
  BY RowsStay, ControlsKept
<1>3. \A r \in RowIds : queue_items[r] \in Row
  BY DEF CallInv, RowInv, RowTypes
<1>4. RowTypes
  BY DEF CallInv, RowInv
<1>5. ASSUME UNCHANGED vars
      PROVE  SomebodyGoes
  <2>1. TimeGoes
    BY <1>5 DEF vars, TimeGoes, SameRow
  <2> QED BY <2>1 DEF SomebodyGoes
<1>6. ASSUME NEW w \in Worker, MainStep(w)
      PROVE  SomebodyGoes
  BY <1>6, MainTurns DEF SomebodyGoes, MainGoes
<1>7. ASSUME NEW w \in Worker, DocStep(w)
      PROVE  SomebodyGoes
  BY <1>7, DocTurns DEF SomebodyGoes, DocGoes
<1>8. ASSUME NEW j \in Job, ApiStep(j) \/ UserStep(j)
      PROVE  SomebodyGoes
  BY <1>8, ApiTurns DEF SomebodyGoes, ApiGoes
<1>9. ASSUME NEW w \in Worker, Heartbeat(w)
      PROVE  SomebodyGoes
  <2>1. \A r \in RowIds : SameRow(r)
    BY <1>3, <1>9 DEF Heartbeat, HeartbeatClaim, SameRow, Row
  <2> QED BY <1>9, <2>1 DEF Heartbeat, HeartbeatClaim, fileVars, SomebodyGoes, TimeGoes
<1>10. ASSUME NEW r \in RowIds, Expire(r)
       PROVE  SomebodyGoes
  <2>1. \A q \in RowIds : SameRow(q)
    BY <1>3, <1>4, <1>10 DEF Expire, ExpireClaim, SameRow, Row, RowTypes
  <2> QED BY <1>10, <2>1 DEF Expire, ExpireClaim, fileVars, SomebodyGoes, TimeGoes
<1>11. ASSUME NEW w \in Worker, Crash(w)
       PROVE  SomebodyGoes
  BY <1>11 DEF Crash, CallInv, ThreadTypes, SomebodyGoes, Dies, queueVars, fileVars
<1> QED
  BY <1>1, <1>2, <1>5, <1>6, <1>7, <1>8, <1>9, <1>10, <1>11 DEF Next, Step

\* What a step of the main thread w does to the files, the fence and the rows.
LEMMA MainEffects ==
  ASSUME CallInv, NEW w \in Worker, MainGoes(w)
  PROVE  /\ last_id' = last_id
         /\ \/ execution_controls' = execution_controls
            \/ /\ main[w].pc \notin FreePc
               /\ BeginExecution(main[w].job) \/ FinishExecution(main[w].job)
         /\ \/ job_json' = job_json
            \/ /\ main[w].pc \in ExecutionPc \cup {"reconcileWrite"}
               /\ Wrote(main[w].job, main[w].mem)
            \/ main[w].pc = "process" /\ Wrote(main[w].job, "TORN")
BY DEF MainGoes, MainTurn, TurnBetweenJobs, QuietTurn, WorkTurn, Quiet, StoreOnly, Wrote,
       RecoverStaleClaims, AcknowledgeInterruptedClaim, ClaimNext, CompleteClaim,
       BeginExecution, FinishExecution, FreePc, ExecutionPc

\* What it does to the documents: it hands the job over.
LEMMA MainDocs ==
  ASSUME CallInv, NEW w \in Worker, MainGoes(w)
  PROVE  \/ doc' = doc
         \/ /\ main[w].pc \in {"prepare", "boundary"} /\ main'[w].pc = "check"
            /\ main'[w].job = main[w].job
            /\ main[w].job \in Job
            /\ Kind[main[w].job] \in {"calculation_book", "deliverable"}
            /\ UNCHANGED <<last_id, queue_items, execution_controls, job_json>>
            /\ doc'[w][main[w].job].pc = "queued"
            /\ doc'[w][main[w].job].mem \in {"QUEUED", main[w].mem}
            /\ \A v \in Worker, k \in Job :
                 v # w \/ k # main[w].job => doc'[v][k] = doc[v][k]
<1>1. CASE /\ main[w].pc \in {"prepare", "boundary"} /\ main'[w].pc = "check"
           /\ Keeps(main[w], main'[w])
           /\ Kind[main[w].job] \in {"calculation_book", "deliverable"}
           /\ UNCHANGED <<last_id, queue_items, execution_controls, job_json>>
           /\ \E status \in JobStatus :
                /\ status \in {"QUEUED", main[w].mem}
                /\ doc' = [doc EXCEPT ![w][main[w].job] = [pc |-> "queued", mem |-> status]]
  <2>1. main[w].job \in Job
    BY <1>1, MainFields DEF FreePc
  <2>2. PICK status \in {"QUEUED", main[w].mem} :
          doc' = [doc EXCEPT ![w][main[w].job] = [pc |-> "queued", mem |-> status]]
    BY <1>1
  <2>3. doc \in [Worker -> [Job -> Doc]]
    BY DEF CallInv, ThreadTypes
  <2>4. /\ doc'[w][main[w].job].pc = "queued" /\ doc'[w][main[w].job].mem = status
        /\ \A v \in Worker, k \in Job :
             v # w \/ k # main[w].job => doc'[v][k] = doc[v][k]
    BY <2>1, <2>2, <2>3
  <2> QED BY <1>1, <2>1, <2>2, <2>4 DEF Keeps
<1> QED
  BY <1>1 DEF MainGoes, MainTurn, TurnBetweenJobs, QuietTurn, WorkTurn, Quiet, StoreOnly

\* What a step of a document thread changes outside its own record.
LEMMA DocEffects ==
  ASSUME CallInv, NEW w \in Worker, NEW j \in Job, DocGoes(w, j)
  PROVE  /\ UNCHANGED <<last_id, queue_items>>
         /\ execution_controls' = execution_controls \/ FinishExecution(j)
         /\ DocExecutes(w, j)
         /\ \/ job_json' = job_json
            \/ Wrote(j, "TORN")
            \/ Wrote(j, doc'[w][j].mem) /\ doc'[w][j].pc # "none"
BY DEF DocGoes, DocTurn, Wrote, FinishExecution, DocExecutes

-------------------------------------------------------------------------------
(* What the threads remember of the rows, and when a job exists.            *)

RecoveryPc == {"finalize", "reconcileLock", "reconcileWrite", "refresh"}
ThreadBook(w) ==
  /\ main[w].pc \notin FreePc => queue_items[main[w].row].item = main[w].job
  /\ main[w].pc \in FreePc => main[w].job = NoJob /\ main[w].mem = "none"
  /\ \A r \in main[w].todo : queue_items[r].interrupted
  /\ main[w].pc \in RecoveryPc => queue_items[main[w].row].interrupted
ThreadBooks == \A w \in Worker : ThreadBook(w)

\* Each step keeps the threads' books.
LEMMA ThreadBookStep ==
  ASSUME Step, ThreadBooks
  PROVE  ThreadBooks'
<1>1. \A w \in Worker : /\ main[w].todo \subseteq RowIds
                        /\ main[w].pc \notin FreePc => main[w].row \in RowIds
  BY MainFields DEF Step
<1>2. \A w \in Worker : main'[w] = main[w] => ThreadBook(w)'
  BY <1>1 DEF ThreadBooks, ThreadBook, Step, RowsKept, FreePc, RecoveryPc
<1>3. ASSUME NEW w \in Worker, Dies(w)
      PROVE  ThreadBook(w)'
  BY <1>3 DEF Dies, DeadMain, IdleMain, ThreadBook, FreePc, RecoveryPc
<1>4. ASSUME NEW w \in Worker, MainGoes(w)
      PROVE  ThreadBook(w)'
  <2>1. ThreadBook(w) /\ RowsKept /\ RowTypes'
    BY DEF ThreadBooks, Step, CallInv, RowInv
  <2>2. CASE TurnBetweenJobs(w, main[w], main'[w])
    <3>1. main'[w].pc \in FreePc => main'[w].job = NoJob /\ main'[w].mem = "none"
      BY <2>1, <2>2 DEF TurnBetweenJobs, ThreadBook, FreePc
    <3>2. main'[w].pc \notin FreePc => queue_items'[main'[w].row].item = main'[w].job
      BY <1>1, <2>1, <2>2 DEF TurnBetweenJobs, ThreadBook, FreePc, RowsKept
    <3>3. \A r \in main'[w].todo : queue_items'[r].interrupted
      <4>1. CASE main'[w].todo = {r \in RowIds : AwaitsAcknowledgement(r)'}
        BY <4>1 DEF AwaitsAcknowledgement
      <4>2. CASE main'[w].todo \subseteq main[w].todo
        BY <1>1, <2>1, <4>2 DEF ThreadBook, RowsKept
      <4>3. CASE main'[w].todo \subseteq {main[w].row} /\ queue_items[main[w].row].interrupted
                 /\ main[w].pc \notin FreePc
        BY <1>1, <2>1, <4>3 DEF RowsKept
      <4> QED BY <2>2, <4>1, <4>2, <4>3 DEF TurnBetweenJobs, FreePc
    <3>4. main'[w].pc \in RecoveryPc => queue_items'[main'[w].row].interrupted
      BY <1>1, <2>1, <2>2 DEF TurnBetweenJobs, ThreadBook, FreePc, RecoveryPc, RowsKept
    <3> QED BY <3>1, <3>2, <3>3, <3>4 DEF ThreadBook
  <2>3. CASE /\ main[w].pc \notin FreePc /\ Keeps(main[w], main'[w])
             /\ main'[w].pc \notin FreePc
             /\ main'[w].pc \in RecoveryPc => main[w].pc \in RecoveryPc
    BY <1>1, <2>1, <2>3 DEF ThreadBook, Keeps, RowsKept
  <2>4. QuietTurn(main[w], main'[w]) \/ WorkTurn(w, main[w], main'[w]) =>
             /\ main'[w].pc \notin FreePc
             /\ main'[w].pc \in RecoveryPc => main[w].pc \in RecoveryPc
    BY DEF QuietTurn, WorkTurn, FreePc, RecoveryPc
  <2> QED BY <1>4, <2>2, <2>3, <2>4 DEF MainGoes, MainTurn
<1> QED
  BY <1>2, <1>3, <1>4 DEF Step, SomebodyGoes, MainGoes, DocGoes, ApiGoes, TimeGoes, Dies, ThreadBooks

\* The job exists before its rows, and its rows before anybody works on it.
ApiBook ==
  /\ \A j \in Job : job_json[j] = "absent" <=> api[j] = "none"
  /\ \A r \in RowIds : api[queue_items[r].item] \notin BeforePc
  /\ \A j \in Job : api[j] \notin BeforePc => \E r \in RowIds : queue_items[r].item = j
  /\ \A j \in Job : api[j] \in BeforePc => BeginGranted(j)

\* The jobs in hand.
LEMMA InHand ==
  ASSUME Step, ThreadBooks, ApiBook, NEW w \in Worker, NEW j \in Job,
         (main[w].pc \notin FreePc /\ main[w].job = j) \/ DocExecutes(w, j)
  PROVE  api[j] \notin BeforePc
<1>1. CASE main[w].pc \notin FreePc /\ main[w].job = j
  BY <1>1, MainFields DEF ThreadBooks, ThreadBook, ApiBook, Step
<1>2. CASE DocExecutes(w, j)
  BY <1>2 DEF Step, FenceInv, Executes, ApiBook
<1> QED BY <1>1, <1>2

\* Each step keeps the API's book.
LEMMA ApiBookStep ==
  ASSUME Step, ThreadBooks, ApiBook
  PROVE  ApiBook'
<1>1. /\ job_json \in [Job -> Json] /\ job_json' \in [Job -> Json]
      /\ api \in [Job -> ApiPc] /\ api' \in [Job -> ApiPc]
      /\ execution_controls \in [Job -> Control]
      /\ RowTypes /\ RowTypes'
      /\ last_id \in Nat
  BY QueueAssumption DEF Step, CallInv, FileTypes, ControlInv, RowInv, RowTypes, Job
<1>2. \A j \in Job : (\E r \in RowIds : queue_items[r].item = j) =>
                     (\E r \in RowIds : queue_items[r].item = j)'
  BY DEF Step, RowsKept
\* A step that leaves the requests alone and touches jobs in hand only.
<1>3. ASSUME UNCHANGED <<last_id, api>>, NEW j \in Job, api[j] \notin BeforePc,
             \A k \in Job : k # j => execution_controls'[k] = execution_controls[k],
             \A k \in Job : k # j => job_json'[k] = job_json[k],
             job_json'[j] # "absent" \/ job_json'[j] = job_json[j]
      PROVE  ApiBook'
  <2>1. RowIds' = RowIds
    BY <1>3 DEF RowIds
  <2> QED BY <1>1, <1>2, <1>3, <2>1 DEF ApiBook, BeforePc, BeginGranted, Step, RowsKept
<1>4. ASSUME UNCHANGED <<last_id, api, execution_controls, job_json>>
      PROVE  ApiBook'
  <2>1. RowIds' = RowIds
    BY <1>4 DEF RowIds
  <2> QED BY <1>2, <1>4, <2>1 DEF ApiBook, BeginGranted, Step, RowsKept
<1>5. ASSUME NEW w \in Worker, MainGoes(w)
      PROVE  ApiBook'
  <2>1. CASE main[w].pc \in FreePc
    <3>1. UNCHANGED <<last_id, api, execution_controls, job_json>>
      BY <1>5, <2>1, MainEffects DEF Step, FreePc, ExecutionPc, MainGoes
    <3> QED BY <3>1, <1>4
  <2>2. CASE main[w].pc \notin FreePc
    <3>1. main[w].job \in Job /\ api[main[w].job] \notin BeforePc
      BY <2>2, MainFields, InHand DEF Step
    <3>2. main[w].pc \in ExecutionPc \cup {"reconcileWrite"} => main[w].mem # "absent"
      BY MainFields DEF Step, StatusPc, JobStatus, Terminal
    <3>3. \A k \in Job : k # main[w].job => execution_controls'[k] = execution_controls[k]
      BY <1>1, <1>5, MainEffects DEF Step, BeginExecution, FinishExecution
    <3>4. /\ \A k \in Job : k # main[w].job => job_json'[k] = job_json[k]
          /\ job_json'[main[w].job] # "absent"  \/ job_json'[main[w].job] = job_json[main[w].job]
      BY <1>1, <1>5, <3>1, <3>2, MainEffects DEF Step, Wrote
    <3> QED BY <1>3, <1>5, <3>1, <3>3, <3>4, MainEffects DEF Step, MainGoes
  <2> QED BY <2>1, <2>2
<1>6. ASSUME NEW w \in Worker, NEW j \in Job, DocGoes(w, j)
      PROVE  ApiBook'
  <2>1. api[j] \notin BeforePc
    BY <1>6, DocEffects, InHand DEF Step
  <2>2. doc'[w][j].pc # "none" => doc'[w][j].mem # "absent"
    BY DEF Step, CallInv, ThreadTypes, DocSound, JobStatus, Terminal
  <2>3. \A k \in Job : k # j => execution_controls'[k] = execution_controls[k]
    BY <1>1, <1>6, DocEffects DEF Step, FinishExecution
  <2>4. /\ \A k \in Job : k # j => job_json'[k] = job_json[k]
        /\ job_json'[j] # "absent"  \/ job_json'[j] = job_json[j]
    BY <1>1, <1>6, <2>2, DocEffects DEF Step, Wrote
  <2> QED BY <1>3, <1>6, <2>1, <2>3, <2>4, DocEffects DEF Step, DocGoes
<1>7. ASSUME NEW j \in Job, ApiGoes(j)
      PROVE  ApiBook'
  <2> DEFINE a == api[j]
             b == api'[j]
  <2>1. \A k \in Job : k # j => api'[k] = api[k]
    BY <1>7 DEF ApiGoes
  <2>2. CASE a = "none" /\ b = "created" /\ Wrote(j, "QUEUED")
    <3>1. RowIds' = RowIds
      BY <2>2 DEF RowIds, Wrote
    <3>2. /\ job_json' = [job_json EXCEPT ![j] = "QUEUED"]
          /\ UNCHANGED <<last_id, queue_items, execution_controls>>
      BY <2>2 DEF Wrote
    <3>3. \A k \in Job : job_json'[k] = "absent" <=> api'[k] = "none"
      BY <1>1, <2>1, <2>2, <3>2 DEF ApiBook
    <3>4. \A k \in Job : (api'[k] \in BeforePc) = (api[k] \in BeforePc)
      BY <2>1, <2>2 DEF BeforePc
    <3>5. \A r \in RowIds : queue_items[r].item \in Job
      BY <1>1 DEF RowTypes, Row, Job
    <3> QED BY <3>1, <3>2, <3>3, <3>4, <3>5 DEF ApiBook, BeginGranted
  <2>3. CASE \/ b \notin BeforePc /\ a \notin BeforePc /\ UNCHANGED <<last_id, job_json>>
                /\ \A k \in Job : k # j => execution_controls'[k] = execution_controls[k]
             \/ a = "cancelWrite" /\ b = "cancelRefresh" /\ Wrote(j, "CANCELLED")
    <3>1. RowIds' = RowIds
      BY <2>3 DEF RowIds, Wrote
    <3>2. /\ last_id' = last_id
          /\ \A k \in Job : k # j => execution_controls'[k] = execution_controls[k]
      BY <2>3 DEF Wrote
    <3>3. \A k \in Job : job_json'[k] = "absent" <=> api'[k] = "none"
      BY <1>1, <2>1, <2>3 DEF ApiBook, BeforePc, Wrote
    <3>4. (\A k \in Job : (api'[k] \in BeforePc) = (api[k] \in BeforePc)) /\ api[j] \notin BeforePc
      BY <2>1, <2>3 DEF BeforePc
    <3>5. \A r \in RowIds : queue_items[r].item \in Job /\ queue_items'[r].item = queue_items[r].item
      BY <1>1 DEF RowTypes, Row, Job, Step, RowsKept
    <3>6. \A k \in Job : api[k] \in BeforePc => BeginGranted(k)'
      BY <3>2, <3>4 DEF ApiBook, BeginGranted
    <3> QED BY <1>2, <3>1, <3>3, <3>4, <3>5, <3>6 DEF ApiBook
  <2>4. CASE /\ b \notin BeforePc /\ a # "none" /\ Enqueue(j) /\ job_json' = job_json
    <3>1. (\E r \in RowIds : queue_items[r].item = j)'
      <4>1. CASE HasUnfinished(j) /\ UNCHANGED <<last_id, queue_items>>
        BY <4>1 DEF HasUnfinished, RowIds
      <4>2. ASSUME NEW status \in RowStatus, Insert(j, status)
            PROVE  (\E r \in RowIds : queue_items[r].item = j)'
        <5>1. last_id + 1 \in RowIds' /\ queue_items'[last_id + 1].item = j
          BY <1>1, <4>2 DEF Insert, NewRow, RowIds
        <5> QED BY <5>1
      <4> QED BY <2>4, <4>1, <4>2 DEF Enqueue, RowStatus
    <3>2. \A r \in RowIds' : queue_items'[r].item = j \/ (r \in RowIds /\ queue_items'[r].item = queue_items[r].item)
      <4>1. CASE UNCHANGED <<last_id, queue_items>>
        BY <4>1 DEF RowIds
      <4>2. ASSUME NEW status \in RowStatus, Insert(j, status)
            PROVE  \A r \in RowIds' : queue_items'[r].item = j \/ (r \in RowIds /\ queue_items'[r].item = queue_items[r].item)
        BY <1>1, <4>2 DEF Insert, NewRow, RowIds
      <4> QED BY <2>4, <4>1, <4>2 DEF Enqueue, RowStatus
    <3>3. execution_controls' = execution_controls /\ job_json' = job_json
      BY <2>4 DEF Enqueue
    <3>4. \A r \in RowIds : queue_items[r].item \in Job
      BY <1>1 DEF RowTypes, Row, Job
    <3>5. \A r \in RowIds' : api'[queue_items'[r].item] \notin BeforePc
      BY <2>1, <2>4, <3>2, <3>4 DEF ApiBook
    <3>6. \A k \in Job : api'[k] \notin BeforePc => (\E r \in RowIds : queue_items[r].item = k)'
      BY <1>2, <2>1, <3>1 DEF ApiBook
    <3>7. \A k \in Job : /\ job_json'[k] = "absent" <=> api'[k] = "none"
                         /\ api'[k] \in BeforePc => BeginGranted(k)'
      BY <2>1, <2>4, <3>3 DEF ApiBook, BeforePc, BeginGranted
    <3> QED BY <3>5, <3>6, <3>7 DEF ApiBook
  <2>5. \/ a = "none" /\ b = "created" /\ Wrote(j, "QUEUED")
        \/ /\ b \notin BeforePc /\ a \notin BeforePc /\ UNCHANGED <<last_id, job_json>>
           /\ \A k \in Job : k # j => execution_controls'[k] = execution_controls[k]
        \/ a = "cancelWrite" /\ b = "cancelRefresh" /\ Wrote(j, "CANCELLED")
        \/ b \notin BeforePc /\ a # "none" /\ Enqueue(j) /\ job_json' = job_json
    BY <1>1, <1>7 DEF ApiGoes, ApiTurn, BeforePc, RequestExecutionCancel
  <2> HIDE DEF a, b
  <2> QED BY <2>2, <2>3, <2>4, <2>5
<1> QED
  BY <1>4, <1>5, <1>6, <1>7 DEF Step, SomebodyGoes, TimeGoes, Dies

-------------------------------------------------------------------------------
(* What a thread is going to write.                                         *)

MainMem(w) ==
  LET m == main[w] IN
  /\ m.pc = "finalize" => m.mem \in JobStatus
  /\ m.pc = "reconcileLock" => m.mem = "INTERRUPTED"
  /\ m.pc = "reconcileWrite" => m.mem \in {"INTERRUPTED", "CANCELLED"}
  /\ m.pc = "stageWrite" => m.mem \in {"RUNNING", "FAILED"} /\ Kind[m.job] = "deliverable"
  /\ m.pc \in {"updateLock", "updateWrite", "boundary"} =>
       m.mem \in Terminal \/ Kind[m.job] = "deliverable"
  /\ m.pc = "finishLock" => m.mem \in Terminal \/ CancelRequested(m.job)
  /\ m.pc = "finishWrite" => m.mem \in Terminal
DocMem(w, j) ==
  LET d == doc[w][j] IN
  /\ d.pc = "stageWrite" =>
       d.mem \in {"RUNNING", "SUCCEEDED", "FAILED"} /\ Kind[j] = "deliverable"
  /\ d.pc = "finishLock" =>
       CancelRequested(j) \/ (d.mem \in Terminal /\ HasStatus(j, Terminal))
  /\ d.pc = "finishWrite" => d.mem \in Terminal

MainMems == \A w \in Worker : MainMem(w)
DocMems == \A w \in Worker, j \in Job : DocMem(w, j)

\* The outcome of an execution that was begun is decided by the request.
LEMMA FinishedBy ==
  ASSUME CallInv, NEW j \in Job, ~BeginGranted(j), NEW status
  PROVE  FinishedStatus(j, status) = IF CancelRequested(j) THEN "CANCELLED" ELSE status
BY DEF CallInv, ControlInv, Control, Job, BeginGranted, FinishedStatus, ControlAfterFinish,
       CancelRequested

\* Each step keeps what a main thread has in memory in accord with the tables.
LEMMA MainMemStep ==
  ASSUME Step, ThreadBooks, MainMems
  PROVE  MainMems'
<1>1. \A w \in Worker : /\ main[w].pc \notin FreePc => main[w].job \in Job
                        /\ main[w].pc \in StatusPc => main[w].mem \in JobStatus
                        /\ main'[w] \in Main
  BY MainFields DEF Step, CallInv, ThreadTypes
<1>2. \A j \in Job : CancelRequested(j) => CancelRequested(j)'
  BY DEF Step, ControlKept
<1>3. \A w \in Worker : main'[w] = main[w] => MainMem(w)'
  BY <1>1, <1>2 DEF MainMems, MainMem, FreePc
<1>4. ASSUME NEW w \in Worker, Dies(w)
      PROVE  MainMem(w)'
  BY <1>4 DEF Dies, DeadMain, IdleMain, MainMem
<1>5. ASSUME NEW w \in Worker, MainGoes(w)
      PROVE  MainMem(w)'
  <2>1. MainMem(w)
    BY DEF MainMems
  <2>2. CASE TurnBetweenJobs(w, main[w], main'[w])
    BY <2>2 DEF TurnBetweenJobs, MainMem, Readable
  <2>3. CASE Keeps(main[w], main'[w]) /\ QuietTurn(main[w], main'[w]) /\ main[w].pc \notin FreePc
    BY <1>1, <1>2, <2>1, <2>3 DEF QuietTurn, Keeps, MainMem, Guarded, Terminal
  <2>4. CASE Keeps(main[w], main'[w]) /\ WorkTurn(w, main[w], main'[w]) /\ main[w].pc \notin FreePc
    <3>1. CASE main[w].pc = "finishLock"
      <4>1. MainExecutes(w, main[w].job) /\ main[w].job \in Job
        BY <1>1, <2>4, <3>1 DEF MainExecutes, ExecutionPc
      <4>2. ~BeginGranted(main[w].job)
        BY <4>1 DEF Step, FenceInv, Executes
      <4>3. FinishedStatus(main[w].job, main[w].mem) \in Terminal
        BY <2>1, <3>1, <4>1, <4>2, FinishedBy DEF MainMem, Step, Terminal
      <4> QED BY <2>4, <3>1, <4>3 DEF WorkTurn, MainMem
    <3>2. CASE main[w].pc # "finishLock"
      BY <1>1, <1>2, <2>1, <2>4, <3>2
      DEF WorkTurn, Keeps, MainMem, Terminal, StatusPc, ExecutionPc, JobStatus
    <3> QED BY <3>1, <3>2
  <2> QED BY <1>5, <2>2, <2>3, <2>4 DEF MainGoes, MainTurn
<1> QED
  BY <1>3, <1>4, <1>5
  DEF Step, SomebodyGoes, MainGoes, DocGoes, ApiGoes, TimeGoes, Dies, MainMems

\* Who may write a status that is not terminal to the file of a job.
LEMMA OpenWrites ==
  ASSUME Step, ThreadBooks, ApiBook, MainMems, DocMems, NEW j \in Job,
         HasStatus(j, Terminal), ~HasStatus(j, Terminal)'
  PROVE  \E w \in Worker :
           \/ /\ MainExecutes(w, j) /\ main[w].pc # "finishWrite"
              /\ MainGoes(w) /\ job_json' # job_json
           \/ /\ DocExecutes(w, j) /\ doc[w][j].pc \in {"process", "stageWrite"}
              /\ DocGoes(w, j) /\ job_json' # job_json
<1>1. job_json \in [Job -> Json] /\ job_json'[j] # job_json[j]
  BY DEF Step, CallInv, FileTypes, HasStatus
<1>2. ASSUME NEW w \in Worker, MainGoes(w)
      PROVE  MainExecutes(w, j) /\ main[w].pc # "finishWrite" /\ MainGoes(w) /\ job_json' # job_json
  <2>1. main[w].job = j /\ main[w].pc \in ExecutionPc \cup {"reconcileWrite"}
    BY <1>1, <1>2, MainEffects DEF Step, Wrote, ExecutionPc
  <2>2. main[w].pc \notin {"reconcileWrite", "finishWrite"}
    <3>1. SUFFICES ASSUME main[w].pc \in {"reconcileWrite", "finishWrite"}
                   PROVE  FALSE
      OBVIOUS
    <3>2. job_json'[j] = main[w].mem
      BY <1>1, <1>2, <2>1, <3>1, MainEffects DEF Step, Wrote
    <3>3. main[w].mem \in Terminal
      BY <3>1 DEF MainMems, MainMem, Terminal
    <3> QED BY <3>2, <3>3 DEF HasStatus
  <2> QED BY <1>1, <1>2, <2>1, <2>2 DEF MainExecutes
<1>3. ASSUME NEW w \in Worker, NEW k \in Job, DocGoes(w, k)
      PROVE  /\ DocExecutes(w, j) /\ doc[w][j].pc \in {"process", "stageWrite"}
             /\ DocGoes(w, j) /\ job_json' # job_json
  <2>1. k = j
    BY <1>1, <1>3, DocEffects DEF Step, Wrote
  <2>2. doc[w][j].pc # "finishWrite"
    <3>1. SUFFICES ASSUME doc[w][j].pc = "finishWrite"
                   PROVE  FALSE
      OBVIOUS
    <3>2. job_json'[j] = doc[w][j].mem
      BY <1>1, <1>3, <2>1, <3>1 DEF DocGoes, DocTurn, Wrote
    <3>3. doc[w][j].mem \in Terminal
      BY <3>1 DEF DocMems, DocMem
    <3> QED BY <3>2, <3>3 DEF HasStatus
  <2>3. doc[w][j].pc \in {"process", "stageWrite", "finishWrite"}
    BY <1>1, <1>3, <2>1 DEF DocGoes, DocTurn
  <2> QED BY <1>1, <1>3, <2>1, <2>2, <2>3, DocEffects DEF Step
<1>4. ASSUME NEW k \in Job, ApiGoes(k)
      PROVE  FALSE
  <2>1. CASE api[k] = "none" /\ Wrote(k, "QUEUED")
    <3>1. job_json[k] = "absent"
      BY <2>1 DEF ApiBook
    <3> QED BY <1>1, <2>1, <3>1 DEF Wrote, HasStatus, Terminal
  <2>2. CASE Wrote(k, "CANCELLED")
    BY <1>1, <2>2 DEF Wrote, HasStatus, Terminal
  <2> QED BY <1>1, <1>4, <2>1, <2>2 DEF ApiGoes, ApiTurn
<1> QED
  BY <1>1, <1>2, <1>3, <1>4 DEF Step, SomebodyGoes, TimeGoes, Dies

\* So it does for the document threads.
LEMMA DocMemStep ==
  ASSUME Step, ThreadBooks, ApiBook, MainMems, DocMems
  PROVE  DocMems'
<1> SUFFICES ASSUME NEW w \in Worker, NEW j \in Job
             PROVE  DocMem(w, j)'
  BY DEF DocMems
<1>1. /\ CancelRequested(j) => CancelRequested(j)'
      /\ DocMem(w, j)
      /\ doc'[w][j] \in Doc /\ doc[w][j] \in Doc
      /\ job_json \in [Job -> Json]
  BY DEF Step, ControlKept, DocMems, CallInv, ThreadTypes, FileTypes
<1>2. CASE doc'[w][j] = doc[w][j]
  <2>1. CASE doc[w][j].pc = "finishLock" /\ HasStatus(j, Terminal) /\ ~HasStatus(j, Terminal)'
    <3>1. Executes(w, j)
      BY <2>1 DEF Executes, DocExecutes
    <3>2. PICK v \in Worker :
            \/ MainExecutes(v, j)
            \/ DocExecutes(v, j) /\ doc[v][j].pc \in {"process", "stageWrite"}
      BY <2>1, OpenWrites
    <3> QED BY <2>1, <3>1, <3>2 DEF Step, FenceInv, SingleExecution, Executes, DocExecutes
  <2> QED BY <1>1, <1>2, <2>1 DEF DocMem
<1>3. CASE doc'[w][j] # doc[w][j]
  <2>1. ASSUME MainGoes(w)
        PROVE  doc'[w][j].pc = "queued"
    BY <1>3, <2>1, MainDocs DEF Step
  <2>2. ASSUME DocGoes(w, j)
        PROVE  DocMem(w, j)'
    <3>1. CASE doc[w][j].pc = "queued"
      BY <1>1, <2>2, <3>1 DEF DocGoes, DocTurn, DocMem
    <3>2. CASE doc[w][j].pc \in {"process", "stageWrite"}
      BY <1>1, <2>2, <3>2 DEF DocGoes, DocTurn, DocMem, Wrote, HasStatus, Terminal
    <3>3. CASE doc[w][j].pc = "finishLock"
      <4>1. ~BeginGranted(j)
        BY <3>3 DEF Step, FenceInv, Executes, DocExecutes
      <4>2. PICK latest \in LatestDocStatus(w, j) : doc'[w][j].mem = FinishedStatus(j, latest)
        BY <2>2, <3>3 DEF DocGoes, DocTurn
      <4>3. CancelRequested(j) \/ latest \in Terminal
        BY <1>1, <3>3, <4>2 DEF LatestDocStatus, DocMem, HasStatus, Terminal
      <4>4. doc'[w][j].mem \in Terminal
        BY <4>1, <4>2, <4>3, FinishedBy DEF Step, Terminal
      <4> QED BY <2>2, <3>3, <4>4 DEF DocGoes, DocTurn, DocMem
    <3> QED BY <2>2, <3>1, <3>2, <3>3 DEF DocGoes, DocTurn, DocMem
  <2>3. Dies(w) => doc'[w][j].pc = "none"
    BY DEF Dies, NoDoc
  <2>4. \/ MainGoes(w) \/ DocGoes(w, j) \/ Dies(w)
    <3>1. ASSUME NEW v \in Worker, MainGoes(v)
          PROVE  v = w
      BY <1>3, <3>1, MainDocs DEF Step
    <3>2. ASSUME NEW v \in Worker, NEW k \in Job, DocGoes(v, k)
          PROVE  v = w /\ k = j
      BY <1>3, <3>2 DEF DocGoes
    <3> QED BY <1>3, <3>1, <3>2 DEF Step, SomebodyGoes, ApiGoes, TimeGoes, Dies
  <2> QED BY <2>1, <2>2, <2>3, <2>4 DEF DocMem
<1> QED BY <1>2, <1>3

-------------------------------------------------------------------------------
(* The file lock of a job has one holder.                                   *)

MainHolds(w, j) ==
  main[w].job = j /\ main[w].pc \in {"reconcileWrite", "updateWrite", "finishWrite"}
DocHolds(w, j) == doc[w][j].pc = "finishWrite"
Holds(w, j) == MainHolds(w, j) \/ DocHolds(w, j)

LockInv ==
  \A j \in Job :
    /\ \A v, w \in Worker : Holds(v, j) /\ Holds(w, j) => v = w
    /\ \A w \in Worker : ~(MainHolds(w, j) /\ DocHolds(w, j))
    /\ api[j] = "cancelWrite" => \A w \in Worker : ~Holds(w, j)

\* Nobody holds a free lock.
LEMMA LockedIs ==
  ASSUME NEW j \in Job, ~Locked(j)
  PROVE  api[j] # "cancelWrite" /\ \A w \in Worker : ~Holds(w, j)
BY DEF Locked, Holds, MainHolds, DocHolds

\* The main thread gets the lock only when it is free.
LEMMA MainTakesLock ==
  ASSUME CallInv, NEW w \in Worker, MainGoes(w), NEW j \in Job, MainHolds(w, j)'
  PROVE  /\ ~Locked(j)
         /\ main[w].job = j /\ main'[w].row = main[w].row /\ UNCHANGED <<doc, job_json>>
         /\ \/ /\ main[w].pc \in {"reconcileLock", "updateLock"} /\ Quiet
               /\ main'[w].pc # "finishWrite"
               /\ main'[w].mem = Guarded(j, main[w].mem)
            \/ /\ main[w].pc = "finishLock" /\ main'[w].pc = "finishWrite"
               /\ FinishExecution(j)
               /\ main'[w].mem = FinishedStatus(j, main[w].mem)
BY DEF MainGoes, MainTurn, TurnBetweenJobs, QuietTurn, WorkTurn, Keeps, MainHolds, Quiet,
       StoreOnly

\* Each step keeps the file lock in one hand.
LEMMA LockInvStep ==
  ASSUME Step, LockInv
  PROVE  LockInv'
<1> SUFFICES ASSUME NEW j \in Job
             PROVE  /\ \A v, w \in Worker : Holds(v, j)' /\ Holds(w, j)' => v = w
                    /\ \A w \in Worker : ~(MainHolds(w, j) /\ DocHolds(w, j))'
                    /\ api'[j] = "cancelWrite" => \A w \in Worker : ~Holds(w, j)'
  BY DEF LockInv
<1>1. CASE /\ \A w \in Worker : /\ MainHolds(w, j)' => MainHolds(w, j)
                                /\ DocHolds(w, j)' => DocHolds(w, j)
           /\ api'[j] = "cancelWrite" => api[j] = "cancelWrite"
  BY <1>1 DEF LockInv, Holds
<1>2. ASSUME NEW w \in Worker, MainGoes(w), MainHolds(w, j)'
      PROVE  /\ \A v \in Worker : v # w => ~Holds(v, j)'
             /\ ~DocHolds(w, j)'
             /\ api'[j] # "cancelWrite"
  <2>1. ~Locked(j) /\ doc' = doc
    BY <1>2, MainTakesLock DEF Step
  <2> QED BY <1>2, <2>1, LockedIs DEF MainGoes, Holds, MainHolds, DocHolds
<1>3. ASSUME NEW w \in Worker, DocGoes(w, j), DocHolds(w, j)'
      PROVE  /\ \A v \in Worker : v # w => ~Holds(v, j)'
             /\ ~MainHolds(w, j)'
             /\ api'[j] # "cancelWrite"
  <2>1. ~Locked(j)
    BY <1>3 DEF DocGoes, DocTurn, DocHolds
  <2> QED BY <1>3, <2>1, LockedIs DEF DocGoes, Holds, MainHolds, DocHolds
<1>4. ASSUME ApiGoes(j), api'[j] = "cancelWrite", api[j] # "cancelWrite"
      PROVE  \A w \in Worker : ~Holds(w, j)'
  <2>1. ~Locked(j)
    BY <1>4 DEF ApiGoes, ApiTurn
  <2> QED BY <1>4, <2>1, LockedIs DEF ApiGoes, Holds, MainHolds, DocHolds
<1>5. ASSUME NEW w \in Worker, MainGoes(w), ~MainHolds(w, j)'
      PROVE  /\ \A v \in Worker : /\ MainHolds(v, j)' => MainHolds(v, j)
                                  /\ DocHolds(v, j)' => DocHolds(v, j)
             /\ api'[j] = "cancelWrite" => api[j] = "cancelWrite"
  BY <1>5, MainDocs DEF Step, MainGoes, MainHolds, DocHolds
<1>6. ASSUME NEW w \in Worker, NEW k \in Job, DocGoes(w, k), k # j \/ ~DocHolds(w, j)'
      PROVE  /\ \A v \in Worker : /\ MainHolds(v, j)' => MainHolds(v, j)
                                  /\ DocHolds(v, j)' => DocHolds(v, j)
             /\ api'[j] = "cancelWrite" => api[j] = "cancelWrite"
  BY <1>6 DEF DocGoes, MainHolds, DocHolds
<1>7. ASSUME NEW k \in Job, ApiGoes(k), k # j \/ api'[j] # "cancelWrite" \/ api[j] = "cancelWrite"
      PROVE  /\ \A v \in Worker : /\ MainHolds(v, j)' => MainHolds(v, j)
                                  /\ DocHolds(v, j)' => DocHolds(v, j)
             /\ api'[j] = "cancelWrite" => api[j] = "cancelWrite"
  BY <1>7 DEF ApiGoes, MainHolds, DocHolds
<1>8. ASSUME TimeGoes \/ \E w \in Worker : Dies(w)
      PROVE  /\ \A v \in Worker : /\ MainHolds(v, j)' => MainHolds(v, j)
                                  /\ DocHolds(v, j)' => DocHolds(v, j)
             /\ api'[j] = "cancelWrite" => api[j] = "cancelWrite"
  <2>1. CASE TimeGoes
    BY <2>1 DEF TimeGoes, MainHolds, DocHolds
  <2>2. ASSUME NEW w \in Worker, Dies(w), NEW v \in Worker
        PROVE  /\ MainHolds(v, j)' => MainHolds(v, j)
               /\ DocHolds(v, j)' => DocHolds(v, j)
               /\ api' = api
    BY <2>2 DEF Dies, DeadMain, IdleMain, NoDoc, MainHolds, DocHolds
  <2> QED BY <1>8, <2>1, <2>2
<1>9. ASSUME NEW w \in Worker, MainGoes(w), MainHolds(w, j)'
      PROVE  /\ \A v, u \in Worker : Holds(v, j)' /\ Holds(u, j)' => v = u
             /\ \A u \in Worker : ~(MainHolds(u, j) /\ DocHolds(u, j))'
             /\ api'[j] = "cancelWrite" => \A u \in Worker : ~Holds(u, j)'
  BY <1>2, <1>9 DEF Holds
<1>10. ASSUME NEW w \in Worker, DocGoes(w, j), DocHolds(w, j)'
      PROVE  /\ \A v, u \in Worker : Holds(v, j)' /\ Holds(u, j)' => v = u
             /\ \A u \in Worker : ~(MainHolds(u, j) /\ DocHolds(u, j))'
             /\ api'[j] = "cancelWrite" => \A u \in Worker : ~Holds(u, j)'
  BY <1>3, <1>10 DEF Holds
<1>11. ASSUME ApiGoes(j), api'[j] = "cancelWrite", api[j] # "cancelWrite"
      PROVE  /\ \A v, u \in Worker : Holds(v, j)' /\ Holds(u, j)' => v = u
             /\ \A u \in Worker : ~(MainHolds(u, j) /\ DocHolds(u, j))'
             /\ api'[j] = "cancelWrite" => \A u \in Worker : ~Holds(u, j)'
  BY <1>4, <1>11 DEF Holds
<1> QED
  BY <1>1, <1>5, <1>6, <1>7, <1>8, <1>9, <1>10, <1>11 DEF Step, SomebodyGoes

-------------------------------------------------------------------------------
(* Cancelled in a file, in a thread or in a request is cancelled for good.  *)

IsCancelled(j) == execution_controls[j].state = "cancelled"

CancelSaid(j) ==
  /\ job_json[j] = "CANCELLED" => IsCancelled(j)
  /\ api[j] \in {"cancelLock", "cancelWrite"} => IsCancelled(j)
  /\ \A w \in Worker :
       /\ main[w].job = j /\ main[w].mem = "CANCELLED" => IsCancelled(j)
       /\ doc[w][j].mem = "CANCELLED" => IsCancelled(j)

\* finish_execution ends an execution as the request wants it.
LEMMA FinishedAs ==
  ASSUME CallInv, NEW j \in Job, ~BeginGranted(j), FinishExecution(j), NEW status
  PROVE  /\ Ended(j)'
         /\ FinishedStatus(j, status) = IF IsCancelled(j)' THEN "CANCELLED" ELSE status
<1>1. /\ execution_controls \in [Item -> Control] /\ j \in Item
      /\ execution_controls' =
           [execution_controls EXCEPT ![j] = ControlAfterFinish(execution_controls[j])]
  BY DEF CallInv, ControlInv, Job, FinishExecution
<1>2. execution_controls'[j] = ControlAfterFinish(execution_controls[j])
  BY <1>1
<1>3. ControlAfterFinish(execution_controls[j]).state \in {"completed", "cancelled"}
  BY <1>1 DEF Control, BeginGranted, ControlAfterFinish
<1> QED
  BY <1>2, <1>3 DEF Ended, IsCancelled, FinishedStatus

\* Each step keeps a cancelled file backed by the fence.
LEMMA CancelSaidStep ==
  ASSUME Step, ThreadBooks, MainMems, NEW j \in Job, CancelSaid(j)
  PROVE  CancelSaid(j)'
<1>1. IsCancelled(j) => IsCancelled(j)'
  BY DEF Step, ControlKept, IsCancelled, Ended
<1>2. /\ job_json \in [Job -> Json] /\ api \in [Job -> ApiPc]
      /\ \A w \in Worker : main[w].pc \notin FreePc => main[w].job \in Job
      /\ CallInv
  BY MainFields DEF Step, CallInv, FileTypes
<1>3. ASSUME NEW w \in Worker, MainGoes(w)
      PROVE  CancelSaid(j)'
  <2>1. job_json'[j] = "CANCELLED" => IsCancelled(j)
    BY <1>2, <1>3, MainEffects DEF Wrote, CancelSaid
  <2>2. main'[w].job = j /\ main'[w].mem = "CANCELLED" => IsCancelled(j)'
    <3> SUFFICES ASSUME main'[w].job = j, main'[w].mem = "CANCELLED"
                 PROVE  IsCancelled(j)'
      OBVIOUS
    <3>1. CASE TurnBetweenJobs(w, main[w], main'[w])
      <4>1. main'[w].mem \in {"none", main[w].mem, job_json[j]}
        BY <3>1 DEF TurnBetweenJobs
      <4>2. main'[w].mem = main[w].mem => main'[w].job = main[w].job \/ main[w].mem = "none"
        BY <3>1 DEF TurnBetweenJobs, ThreadBooks, ThreadBook, FreePc
      <4> QED BY <1>1, <4>1, <4>2 DEF CancelSaid
    <3>2. CASE Keeps(main[w], main'[w]) /\ QuietTurn(main[w], main'[w]) /\ Quiet
      BY <1>1, <3>2 DEF QuietTurn, Keeps, Guarded, CancelSaid, IsCancelled
    <3>3. CASE /\ main[w].pc \notin FreePc
               /\ Keeps(main[w], main'[w]) /\ WorkTurn(w, main[w], main'[w])
      <4>1. CASE main[w].pc = "finishLock"
        <5>1. main[w].job = j /\ ~BeginGranted(j)
          BY <3>3, <4>1 DEF Keeps, Step, FenceInv, Executes, MainExecutes, ExecutionPc
        <5>2. FinishExecution(j) /\ main'[w].mem = FinishedStatus(j, main[w].mem)
          BY <3>3, <4>1, <5>1 DEF WorkTurn
        <5>3. IsCancelled(j)' \/ main'[w].mem = main[w].mem
          BY <1>2, <5>1, <5>2, FinishedAs
        <5> QED BY <1>1, <5>1, <5>3 DEF CancelSaid
      <4>2. CASE main[w].pc # "finishLock"
        BY <1>1, <3>3, <4>2 DEF WorkTurn, Keeps, CancelSaid
      <4> QED BY <4>1, <4>2
    <3> QED BY <1>3, <3>1, <3>2, <3>3 DEF MainGoes, MainTurn
  <2>3. \A v \in Worker : doc'[v][j].mem = "CANCELLED" => IsCancelled(j)
    BY <1>2, <1>3, MainDocs DEF CancelSaid
  <2> QED BY <1>1, <1>3, <2>1, <2>2, <2>3 DEF MainGoes, CancelSaid
<1>4. ASSUME NEW w \in Worker, NEW k \in Job, DocGoes(w, k)
      PROVE  CancelSaid(j)'
  <2>1. job_json'[j] = "CANCELLED" => IsCancelled(j)
    BY <1>2, <1>4 DEF DocGoes, DocTurn, Wrote, FinishExecution, CancelSaid
  <2>2. doc'[w][j].mem = "CANCELLED" => IsCancelled(j)'
    <3>1. CASE k # j
      BY <1>1, <1>4, <3>1 DEF DocGoes, CancelSaid
    <3>2. CASE k = j /\ doc[w][j].pc = "finishLock"
      <4>1. ~BeginGranted(j) /\ FinishExecution(j)
        BY <1>4, <3>2 DEF Step, FenceInv, Executes, DocExecutes, DocGoes, DocTurn
      <4>2. PICK latest \in LatestDocStatus(w, j) : doc'[w][j].mem = FinishedStatus(j, latest)
        BY <1>4, <3>2 DEF DocGoes, DocTurn
      <4>3. IsCancelled(j)' \/ doc'[w][j].mem = latest
        BY <1>2, <4>1, <4>2, FinishedAs
      <4>4. latest = "CANCELLED" => IsCancelled(j)
        BY DEF LatestDocStatus, CancelSaid
      <4> QED BY <1>1, <4>3, <4>4
    <3>3. CASE k = j /\ doc[w][j].pc # "finishLock"
      BY <1>1, <1>4, <3>3 DEF DocGoes, DocTurn, CancelSaid
    <3> QED BY <3>1, <3>2, <3>3
  <2>3. \A v \in Worker : v # w => doc'[v][j] = doc[v][j]
    BY <1>4 DEF DocGoes
  <2> QED BY <1>1, <1>4, <2>1, <2>2, <2>3 DEF DocGoes, CancelSaid
<1>5. ASSUME NEW k \in Job, ApiGoes(k)
      PROVE  CancelSaid(j)'
  <2>1. job_json'[j] = "CANCELLED" => IsCancelled(j)
    BY <1>2, <1>5 DEF ApiGoes, ApiTurn, Wrote, CancelSaid
  <2>2. api'[j] \in {"cancelLock", "cancelWrite"} => IsCancelled(j)'
    <3>1. CASE k # j
      BY <1>1, <1>5, <3>1 DEF ApiGoes, CancelSaid
    <3>2. ASSUME k = j, api[j] = "cancelRequest", api'[j] \in {"cancelLock", "cancelWrite"}
          PROVE  IsCancelled(j)'
      <4>1. execution_controls'[j].state \in ControlState
        BY DEF Step, CallInv, ControlInv, Control, Job
      <4>2. execution_controls'[j].state # "absent"
        <5>1. execution_controls \in [Item -> Control] /\ j \in Item
          BY DEF Step, CallInv, ControlInv, Job
        <5>2. execution_controls' = [execution_controls EXCEPT ![j] = ControlAfterCancel(execution_controls[j])]
          BY <1>5, <3>2 DEF ApiGoes, ApiTurn, BeforePc, RequestExecutionCancel
        <5> QED BY <5>1, <5>2 DEF Control, ControlAfterCancel
      <4> QED BY <1>5, <3>2, <4>1, <4>2 DEF ApiGoes, ApiTurn, ControlState, IsCancelled
    <3>3. CASE k = j /\ api[j] # "cancelRequest"
      BY <1>1, <1>5, <3>3 DEF ApiGoes, ApiTurn, CancelSaid
    <3> QED BY <3>1, <3>2, <3>3
  <2> QED BY <1>1, <1>5, <2>1, <2>2 DEF ApiGoes, CancelSaid
<1>6. CASE TimeGoes
  BY <1>1, <1>6 DEF TimeGoes, CancelSaid
<1>7. ASSUME NEW w \in Worker, Dies(w)
      PROVE  CancelSaid(j)'
  BY <1>1, <1>7 DEF Dies, DeadMain, IdleMain, NoDoc, CancelSaid
<1> QED
  BY <1>3, <1>4, <1>5, <1>6, <1>7 DEF Step, SomebodyGoes

\* Whoever holds the lock of a job writes what the fence says, and after a
\* cancellation nothing else.
HeldCancel(j) ==
  \A w \in Worker :
    /\ MainHolds(w, j) /\ main[w].pc = "finishWrite" =>
         Ended(j) /\ (IsCancelled(j) => main[w].mem = "CANCELLED")
    /\ DocHolds(w, j) => Ended(j) /\ (IsCancelled(j) => doc[w][j].mem = "CANCELLED")
    /\ MainHolds(w, j) /\ job_json[j] = "CANCELLED" => main[w].mem = "CANCELLED"

\* Who writes CANCELLED is the holder of the lock.
LEMMA CancelWriters ==
  ASSUME Step, MainMems, DocMems, NEW j \in Job,
         job_json'[j] = "CANCELLED", job_json[j] # "CANCELLED"
  PROVE  \/ \E w \in Worker : MainHolds(w, j) /\ MainGoes(w)
         \/ \E w \in Worker : DocHolds(w, j) /\ DocGoes(w, j)
         \/ api[j] = "cancelWrite" /\ ApiGoes(j)
<1>1. job_json \in [Job -> Json] /\ CallInv
  BY DEF Step, CallInv, FileTypes
<1>2. ASSUME NEW w \in Worker, MainGoes(w)
      PROVE  MainHolds(w, j)
  BY <1>1, <1>2 DEF MainGoes, MainTurn, TurnBetweenJobs, QuietTurn, WorkTurn, Quiet, StoreOnly,
     Wrote, MainMems, MainMem, MainHolds
<1>3. ASSUME NEW w \in Worker, NEW k \in Job, DocGoes(w, k)
      PROVE  DocHolds(w, j) /\ DocGoes(w, j)
  BY <1>1, <1>3 DEF DocGoes, DocTurn, Wrote, DocMems, DocMem, DocHolds
<1>4. ASSUME NEW k \in Job, ApiGoes(k)
      PROVE  api[j] = "cancelWrite" /\ ApiGoes(j)
  BY <1>1, <1>4 DEF ApiGoes, ApiTurn, Wrote
<1> QED
  BY <1>1, <1>2, <1>3, <1>4 DEF Step, SomebodyGoes, TimeGoes, Dies

\* Each step keeps what the lock holder is going to write from hiding a cancellation.
LEMMA HeldCancelStep ==
  ASSUME Step, ThreadBooks, MainMems, DocMems, LockInv, NEW j \in Job,
         CancelSaid(j), CancelSaid(j)', HeldCancel(j)
  PROVE  HeldCancel(j)'
<1>1. Ended(j) => Ended(j)' /\ (IsCancelled(j)' <=> IsCancelled(j))
  BY DEF Step, ControlKept, Ended, IsCancelled
<1>2. CallInv
  BY DEF Step
<1>4. ASSUME NEW w \in Worker
      PROVE  /\ MainHolds(w, j)' /\ main'[w].pc = "finishWrite" =>
                  Ended(j)' /\ (IsCancelled(j)' => main'[w].mem = "CANCELLED")
             /\ MainHolds(w, j)' /\ job_json'[j] = "CANCELLED" => main'[w].mem = "CANCELLED"
  <2>1. CASE MainGoes(w) /\ MainHolds(w, j)'
    <3>1. CASE main[w].pc \in {"reconcileLock", "updateLock"}
      BY <1>2, <2>1, <3>1, MainTakesLock DEF Guarded, CancelSaid, IsCancelled
    <3>2. CASE main[w].pc = "finishLock"
      <4>1. main[w].job = j /\ ~BeginGranted(j)
        BY <1>2, <2>1, <3>2, MainTakesLock
        DEF Step, FenceInv, Executes, MainExecutes, ExecutionPc
      <4>2. FinishExecution(j) /\ main'[w].mem = FinishedStatus(j, main[w].mem)
        BY <1>2, <2>1, <3>2, MainTakesLock
      <4>3. Ended(j)' /\ (IsCancelled(j)' => main'[w].mem = "CANCELLED")
        BY <1>2, <4>1, <4>2, FinishedAs
      <4>4. job_json'[j] = "CANCELLED" => IsCancelled(j)'
        BY DEF CancelSaid
      <4> QED BY <4>3, <4>4
    <3> QED BY <1>2, <2>1, <3>1, <3>2, MainTakesLock
  <2>2. CASE main'[w] = main[w] /\ MainHolds(w, j)
    <3>1. job_json'[j] = "CANCELLED" => job_json[j] = "CANCELLED"
      <4>1. SUFFICES ASSUME job_json'[j] = "CANCELLED", job_json[j] # "CANCELLED"
                     PROVE  FALSE
        OBVIOUS
      <4>2. ASSUME NEW v \in Worker, MainHolds(v, j), MainGoes(v)
            PROVE  FALSE
        <5>1. w = v
          BY <2>2, <4>2 DEF LockInv, Holds
        <5>2. main'[v].pc # main[v].pc
          BY <4>2 DEF MainGoes, MainTurn, TurnBetweenJobs, QuietTurn, WorkTurn, MainHolds
        <5> QED BY <2>2, <5>1, <5>2
      <4>3. ASSUME NEW v \in Worker, DocHolds(v, j)
            PROVE  FALSE
        BY <2>2, <4>3 DEF LockInv, Holds
      <4>4. api[j] # "cancelWrite"
        BY <2>2 DEF LockInv, Holds
      <4> QED BY <4>1, <4>2, <4>3, <4>4, CancelWriters
    <3> QED BY <1>1, <2>2, <3>1 DEF HeldCancel
  <2>3. CASE ~MainHolds(w, j)'
    BY <2>3
  <2>4. MainGoes(w) \/ ~MainHolds(w, j)' \/ (main'[w] = main[w] /\ MainHolds(w, j))
    BY DEF Step, SomebodyGoes, MainGoes, DocGoes, ApiGoes, TimeGoes, Dies, DeadMain, IdleMain, MainHolds
  <2> QED BY <2>1, <2>2, <2>3, <2>4
<1>5. ASSUME NEW w \in Worker, DocHolds(w, j)'
      PROVE  Ended(j)' /\ (IsCancelled(j)' => doc'[w][j].mem = "CANCELLED")
  <2>1. CASE doc'[w][j] = doc[w][j]
    BY <1>1, <1>5, <2>1 DEF HeldCancel, DocHolds
  <2>2. CASE DocGoes(w, j) /\ doc[w][j].pc = "finishLock"
    <3>1. ~BeginGranted(j) /\ FinishExecution(j)
      BY <2>2 DEF Step, FenceInv, Executes, DocExecutes, DocGoes, DocTurn
    <3>2. PICK latest \in LatestDocStatus(w, j) : doc'[w][j].mem = FinishedStatus(j, latest)
      BY <2>2 DEF DocGoes, DocTurn
    <3> QED BY <1>2, <3>1, <3>2, FinishedAs
  <2>3. \/ doc'[w][j] = doc[w][j]
        \/ DocGoes(w, j) /\ doc[w][j].pc = "finishLock"
    <3>1. ASSUME NEW v \in Worker, MainGoes(v)
          PROVE  doc'[w][j] = doc[w][j]
      BY <1>2, <1>5, <3>1, MainDocs DEF DocHolds
    <3>2. ASSUME NEW v \in Worker, NEW k \in Job, DocGoes(v, k), v # w \/ k # j
          PROVE  doc'[w][j] = doc[w][j]
      BY <3>2 DEF DocGoes
    <3>3. ASSUME DocGoes(w, j)
          PROVE  doc[w][j].pc = "finishLock"
      BY <1>5, <3>3 DEF DocGoes, DocTurn, DocHolds
    <3>4. ASSUME NEW v \in Worker, Dies(v)
          PROVE  doc'[w][j] = doc[w][j]
      BY <1>5, <3>4 DEF Dies, NoDoc, DocHolds
    <3> QED BY <3>1, <3>2, <3>3, <3>4 DEF Step, SomebodyGoes, ApiGoes, TimeGoes
  <2> QED BY <2>1, <2>2, <2>3
<1> QED BY <1>4, <1>5 DEF HeldCancel

-------------------------------------------------------------------------------
(* An execution goes on only while the fence is closed, unless its claim    *)
(* was recovered.                                                           *)

Recovered(j) == \E r \in RowIds : queue_items[r].item = j /\ queue_items[r].interrupted

\* w has yet to call finish_execution for j.
Unended(w, j) ==
  \/ MainExecutes(w, j) /\ main[w].pc # "finishWrite"
  \/ doc[w][j].pc \in {"queued", "process", "stageWrite", "finishLock"}

UnendedRuns == \A j \in Job, w \in Worker : Unended(w, j) => Executing(j) \/ Recovered(j)

\* Who ends an execution: recovery, or the one who executes.
LEMMA Enders ==
  ASSUME Step, ThreadBooks, NEW j \in Job, Executing(j), ~Executing(j)'
  PROVE  \/ Recovered(j)
         \/ \E w \in Worker : /\ MainExecutes(w, j) /\ MainGoes(w)
                              /\ main[w].pc = "finishLock" /\ main'[w].pc = "finishWrite"
         \/ \E w \in Worker : /\ DocExecutes(w, j) /\ DocGoes(w, j)
                              /\ doc[w][j].pc = "finishLock" /\ doc'[w][j].pc = "finishWrite"
<1>1. execution_controls \in [Item -> Control] /\ j \in Item /\ CallInv
  BY DEF Step, CallInv, ControlInv, Job
<1>2. execution_controls'[j] # execution_controls[j]
  BY DEF Executing
<1>3. ASSUME NEW w \in Worker, MainGoes(w)
      PROVE  \/ Recovered(j)
             \/ /\ MainExecutes(w, j)
                /\ main[w].pc = "finishLock" /\ main'[w].pc = "finishWrite"
  <2>1. main[w].job = j /\ FinishExecution(j) /\ main[w].pc \notin FreePc
    BY <1>1, <1>2, <1>3, MainEffects DEF BeginExecution, BeginGranted, FinishExecution, Executing
  <2>2. \/ main[w].pc = "finalize"
        \/ main[w].pc = "finishLock" /\ main'[w].pc = "finishWrite"
        \/ execution_controls' = execution_controls \/ BeginGranted(j)
    BY <1>3, <2>1 DEF MainGoes, MainTurn, TurnBetweenJobs, QuietTurn, WorkTurn, Quiet,
       StoreOnly, Wrote, FreePc, AcknowledgeInterruptedClaim, CompleteClaim
  <2>3. CASE main[w].pc = "finalize"
    BY <2>1, <2>3, MainFields, <1>1
    DEF ThreadBooks, ThreadBook, RecoveryPc, FreePc, Recovered
  <2> QED BY <1>2, <2>1, <2>2, <2>3 DEF MainExecutes, ExecutionPc, BeginGranted, Executing
<1>4. ASSUME NEW w \in Worker, NEW k \in Job, DocGoes(w, k)
      PROVE  /\ DocExecutes(w, j) /\ DocGoes(w, j)
             /\ doc[w][j].pc = "finishLock" /\ doc'[w][j].pc = "finishWrite"
  <2>1. k = j
    BY <1>1, <1>2, <1>4, DocEffects DEF FinishExecution
  <2> QED BY <1>2, <1>4, <2>1 DEF DocGoes, DocTurn, Wrote, DocExecutes
<1>5. ASSUME NEW k \in Job, ApiGoes(k)
      PROVE  FALSE
  <2>1. RequestExecutionCancel(k)
    BY <1>2, <1>5 DEF ApiGoes, ApiTurn, Wrote, Enqueue
  <2>2. execution_controls' = [execution_controls EXCEPT ![k] = ControlAfterCancel(execution_controls[k])]
    BY <2>1 DEF RequestExecutionCancel
  <2> QED BY <1>1, <1>2, <2>2 DEF ControlAfterCancel, Executing, Control
<1> QED
  BY <1>2, <1>3, <1>4, <1>5 DEF Step, SomebodyGoes, TimeGoes, Dies

\* Who begins one.
LEMMA Unendeds ==
  ASSUME Step, NEW j \in Job, NEW w \in Worker, Unended(w, j)'
  PROVE  Unended(w, j) \/ Executing(j)'
<1>1. CallInv /\ execution_controls \in [Item -> Control] /\ j \in Item
  BY DEF Step, CallInv, ControlInv, Job
<1>2. ASSUME NEW v \in Worker, MainGoes(v)
      PROVE  Unended(w, j) \/ Executing(j)'
  <2>1. CASE (doc[w][j].pc # "queued" /\ doc'[w][j].pc = "queued") \/ doc'[w][j] = doc[w][j]
    <3>1. CASE doc'[w][j] = doc[w][j] /\ v # w
      BY <1>2, <3>1 DEF MainGoes, Unended, MainExecutes
    <3>2. CASE doc'[w][j] = doc[w][j] /\ v = w
      <4>1. CASE MainExecutes(w, j)' /\ main'[w].pc # "finishWrite" /\ ~Unended(w, j)
        <5>1. BeginExecution(j) /\ BeginGranted(j)
          BY <1>2, <3>2, <4>1 DEF MainGoes, MainTurn, TurnBetweenJobs, QuietTurn, WorkTurn,
             Keeps, Unended, MainExecutes, ExecutionPc, FreePc
        <5> QED BY <1>1, <5>1 DEF BeginExecution, Executing, Control
      <4> QED BY <3>2, <4>1 DEF Unended
    <3>3. CASE doc'[w][j] # doc[w][j]
      BY <1>1, <1>2, <3>3, MainDocs DEF Unended, MainExecutes, ExecutionPc
    <3> QED BY <3>1, <3>2, <3>3
  <2>2. CASE doc[w][j].pc = "queued"
    BY <2>2 DEF Unended
  <2> QED BY <1>1, <1>2, <2>1, <2>2, MainDocs
<1>3. ASSUME NEW v \in Worker, NEW k \in Job, DocGoes(v, k)
      PROVE  Unended(w, j)
  <2>1. CASE v = w /\ k = j
    BY <1>3, <2>1 DEF DocGoes, DocTurn, Unended, MainExecutes
  <2>2. CASE v # w \/ k # j
    BY <1>3, <2>2 DEF DocGoes, Unended, MainExecutes
  <2> QED BY <2>1, <2>2
<1>4. CASE TimeGoes \/ \E k \in Job : ApiGoes(k)
  BY <1>4 DEF TimeGoes, ApiGoes, Unended, MainExecutes
<1>5. ASSUME NEW v \in Worker, Dies(v)
      PROVE  Unended(w, j)
  BY <1>5 DEF Dies, DeadMain, IdleMain, NoDoc, Unended, MainExecutes, ExecutionPc
<1> QED
  BY <1>2, <1>3, <1>4, <1>5 DEF Step, SomebodyGoes

\* A recovered job stays recovered.
LEMMA RecoveredStays ==
  ASSUME Step, NEW j \in Job, Recovered(j)
  PROVE  Recovered(j)'
BY DEF Step, RowsKept, Recovered

\* Each step keeps unfinished executions behind a closed fence.
LEMMA UnendedRunsStep ==
  ASSUME Step, ThreadBooks, UnendedRuns
  PROVE  UnendedRuns'
<1> SUFFICES ASSUME NEW j \in Job, NEW w \in Worker, Unended(w, j)', ~Recovered(j)',
                    ~Executing(j)'
             PROVE  FALSE
  BY DEF UnendedRuns
<1>1. Unended(w, j) /\ Executing(j) /\ ~Recovered(j)
  BY Unendeds, RecoveredStays DEF UnendedRuns
<1>2. Executes(w, j)
  BY <1>1 DEF Unended, Executes, DocExecutes
<1>3. \/ \E v \in Worker : /\ MainExecutes(v, j) /\ MainGoes(v)
                           /\ main[v].pc = "finishLock" /\ main'[v].pc = "finishWrite"
      \/ \E v \in Worker : /\ DocExecutes(v, j) /\ DocGoes(v, j)
                           /\ doc[v][j].pc = "finishLock" /\ doc'[v][j].pc = "finishWrite"
  BY <1>1, Enders
<1>4. ASSUME NEW v \in Worker, MainExecutes(v, j), MainGoes(v),
             main[v].pc = "finishLock", main'[v].pc = "finishWrite"
      PROVE  FALSE
  <2>1. v = w /\ ~DocExecutes(w, j)
    BY <1>2, <1>4 DEF Step, FenceInv, SingleExecution, Executes
  <2>2. doc' = doc
    BY <1>4, MainDocs DEF Step
  <2> QED BY <1>4, <2>1, <2>2 DEF Unended, DocExecutes
<1>5. ASSUME NEW v \in Worker, DocExecutes(v, j), DocGoes(v, j),
             doc[v][j].pc = "finishLock", doc'[v][j].pc = "finishWrite"
      PROVE  FALSE
  <2>1. v = w /\ ~MainExecutes(w, j)
    BY <1>2, <1>5 DEF Step, FenceInv, SingleExecution, Executes
  <2> QED BY <1>5, <2>1 DEF DocGoes, Unended, MainExecutes
<1> QED BY <1>3, <1>4, <1>5

-------------------------------------------------------------------------------
(* A cancelled job stays cancelled.                                         *)

\* Nobody but an executor at work writes over a cancelled job.
LEMMA CancelledOverwritten ==
  ASSUME Step, ThreadBooks, ApiBook, MainMems, DocMems, NEW j \in Job,
         CancelSaid(j), HeldCancel(j),
         HasStatus(j, {"CANCELLED"}), ~HasStatus(j, {"CANCELLED"})'
  PROVE  /\ \E w \in Worker : Unended(w, j)
         /\ Kind[j] \in {"calculation_book", "deliverable"}
<1>1. /\ job_json \in [Job -> Json] /\ CallInv
      /\ job_json[j] = "CANCELLED" /\ job_json'[j] # "CANCELLED"
      /\ IsCancelled(j)
  BY DEF Step, CallInv, FileTypes, HasStatus, CancelSaid
<1>2. ASSUME NEW w \in Worker, MainGoes(w)
      PROVE  Unended(w, j) /\ Kind[j] = "deliverable"
  <2>1. /\ main[w].job = j
        /\ \/ MainHolds(w, j) /\ Wrote(j, main[w].mem)
           \/ main[w].pc = "process" /\ Kind[j] = "deliverable"
           \/ main[w].pc = "stageWrite"
    BY <1>1, <1>2 DEF MainGoes, MainTurn, TurnBetweenJobs, QuietTurn, WorkTurn,
       Quiet, StoreOnly, Wrote, MainHolds
  <2>2. CASE MainHolds(w, j) /\ Wrote(j, main[w].mem)
    BY <1>1, <2>2 DEF HeldCancel, Wrote
  <2>3. CASE main[w].pc \in {"process", "stageWrite"} /\ Kind[j] = "deliverable"
    BY <2>1, <2>3 DEF Unended, MainExecutes, ExecutionPc
  <2> QED BY <2>1, <2>2, <2>3 DEF MainMems, MainMem
<1>3. ASSUME NEW w \in Worker, NEW k \in Job, DocGoes(w, k)
      PROVE  Unended(w, j) /\ Kind[j] \in {"calculation_book", "deliverable"}
  <2>1. /\ k = j
        /\ \/ DocHolds(w, j) /\ Wrote(j, doc[w][j].mem)
           \/ doc[w][j].pc = "process" /\ Kind[j] \in {"calculation_book", "deliverable"}
           \/ doc[w][j].pc = "stageWrite"
    BY <1>1, <1>3 DEF DocGoes, DocTurn, Wrote, DocHolds
  <2>2. CASE DocHolds(w, j) /\ Wrote(j, doc[w][j].mem)
    BY <1>1, <2>2 DEF HeldCancel, Wrote
  <2>3. CASE /\ doc[w][j].pc \in {"process", "stageWrite"}
             /\ Kind[j] \in {"calculation_book", "deliverable"}
    BY <2>3 DEF Unended
  <2> QED BY <2>1, <2>2, <2>3 DEF DocMems, DocMem
<1>4. ASSUME NEW k \in Job, ApiGoes(k)
      PROVE  FALSE
  BY <1>1, <1>4 DEF ApiGoes, ApiTurn, Wrote, ApiBook
<1> QED
  BY <1>1, <1>2, <1>3, <1>4 DEF Step, SomebodyGoes, TimeGoes, Dies

\* The inductive invariant of the files.
SavedInv ==
  /\ ThreadBooks /\ ApiBook /\ MainMems /\ DocMems /\ LockInv /\ UnendedRuns
  /\ \A j \in Job : CancelSaid(j) /\ HeldCancel(j)

\* That is an executor that runs on after its claim was recovered.
LEMMA CancelledStays ==
  ASSUME Step, SavedInv, NEW j \in Job,
         Kind[j] \in {"audit", "change_page"} \/ ~Recovered(j),
         HasStatus(j, {"CANCELLED"})
  PROVE  HasStatus(j, {"CANCELLED"})'
<1>1. CancelSaid(j) /\ HeldCancel(j)
  BY DEF SavedInv
<1>2. ~Executing(j)
  BY <1>1 DEF CancelSaid, HasStatus, IsCancelled, Executing
<1> QED BY <1>1, <1>2, CancelledOverwritten DEF SavedInv, UnendedRuns

\* The inductive step.
LEMMA SavedInvStep ==
  ASSUME Step, SavedInv
  PROVE  SavedInv'
<1>1. ThreadBooks' /\ ApiBook' /\ MainMems' /\ DocMems' /\ LockInv' /\ UnendedRuns'
  BY ThreadBookStep, ApiBookStep, MainMemStep, DocMemStep, LockInvStep, UnendedRunsStep
  DEF SavedInv
<1>2. \A j \in Job : CancelSaid(j)'
  BY CancelSaidStep DEF SavedInv
<1>3. \A j \in Job : HeldCancel(j)'
  BY <1>2, HeldCancelStep DEF SavedInv
<1> QED BY <1>1, <1>2, <1>3 DEF SavedInv

\* The initial state.
LEMMA SavedInvInit ==
  ASSUME Init
  PROVE  SavedInv
<1>1. /\ RowIds = {}
      /\ \A j \in Job : job_json[j] = "absent" /\ api[j] = "none"
      /\ \A j \in Job : execution_controls[j].state = "absent"
      /\ \A w \in Worker : main[w].pc = "idle" /\ main[w].job = NoJob
                           /\ main[w].mem = "none" /\ main[w].todo = {}
      /\ \A w \in Worker, j \in Job : doc[w][j].pc = "none" /\ doc[w][j].mem = "none"
  BY DEF Init, InitQ, RowIds, IdleMain, NoDoc, Job
<1>2. ThreadBooks /\ ApiBook
  BY <1>1 DEF ThreadBooks, ThreadBook, ApiBook, FreePc, RecoveryPc, BeforePc, BeginGranted
<1>3. MainMems /\ DocMems
  BY <1>1 DEF MainMems, MainMem, DocMems, DocMem
<1>4. LockInv /\ UnendedRuns
  BY <1>1 DEF LockInv, Holds, MainHolds, DocHolds, UnendedRuns, Unended, MainExecutes, ExecutionPc
<1>5. \A j \in Job : CancelSaid(j) /\ HeldCancel(j)
  BY <1>1 DEF CancelSaid, HeldCancel, MainHolds, DocHolds
<1> QED BY <1>2, <1>3, <1>4, <1>5 DEF SavedInv

\* What the files, the threads and the tables know of each other.
THEOREM SavedSound == Spec => []SavedInv
<1>1. CallInv /\ FenceInv /\ SavedInv /\ [Next]_vars => SavedInv'
  BY StepKinds, SavedInvStep
<1> QED
  BY SavedInvInit, <1>1, CallsSound, FenceSound, PTL DEF Spec

\* A cancelled job stays cancelled unless one of its claims was recovered and its
\* own executor writes the file without the lock.
THEOREM CancelledSticksUnlessRecovered ==
  Spec => [][\A j \in Job :
               Kind[j] \in {"audit", "change_page"} \/ ~Recovered(j)
                 => (HasStatus(j, {"CANCELLED"}) => HasStatus(j, {"CANCELLED"})')
            ]_vars
<1>1. ASSUME CallInv, FenceInv, SavedInv, [Next]_vars
      PROVE  \A j \in Job :
               Kind[j] \in {"audit", "change_page"} \/ ~Recovered(j)
                 => (HasStatus(j, {"CANCELLED"}) => HasStatus(j, {"CANCELLED"})')
  BY <1>1, StepKinds, CancelledStays DEF SavedInv
<1> QED
  BY <1>1, CallsSound, FenceSound, SavedSound, PTL DEF Spec

-------------------------------------------------------------------------------
(* A job that was begun, reported or reconciled comes to an end, as long as *)
(* nobody dies.                                                             *)

NobodyDied == \A w \in Worker : ~Dead(w)

\* w has called finish_execution for j and has yet to write the outcome.
Finishing(w, j) ==
  (main[w].job = j /\ main[w].pc = "finishWrite") \/ doc[w][j].pc = "finishWrite"
Closing(j) ==
  \/ \E w \in Worker : Unended(w, j) \/ Finishing(w, j)
  \/ api[j] \in {"cancelLock", "cancelWrite"}
Marking(w, j) == main[w].job = j /\ main[w].pc \in {"reconcileLock", "reconcileWrite"}
\* The file says that j is over, or somebody is going to write that it is.
Concluded(j) ==
  \/ HasStatus(j, Terminal)
  \/ Closing(j)
  \/ \E w \in Worker : Marking(w, j)

\* Executors go on until they have called finish_execution.
LEMMA UnendedStays ==
  ASSUME Step, NobodyDied', NEW j \in Job, NEW w \in Worker, Unended(w, j)
  PROVE  \/ Unended(w, j)'
         \/ Finishing(w, j)' /\ Ended(j)' /\ (MainGoes(w) \/ DocGoes(w, j))
<1>1. CallInv
  BY DEF Step
<1>2. ASSUME NEW v \in Worker, MainGoes(v)
      PROVE  Unended(w, j)' \/ (Finishing(w, j)' /\ Ended(j)' /\ MainGoes(w))
  <2>1. CASE doc[w][j].pc \in {"queued", "process", "stageWrite", "finishLock"}
    <3>1. doc'[w][j].pc \in {"queued", "process", "stageWrite", "finishLock"}
      BY <1>1, <1>2, <2>1, MainDocs
    <3> QED BY <3>1 DEF Unended
  <2>2. CASE MainExecutes(w, j) /\ main[w].pc # "finishWrite" /\ v # w
    BY <1>2, <2>2 DEF MainGoes, Unended, MainExecutes
  <2>3. CASE MainExecutes(w, j) /\ main[w].pc # "finishWrite" /\ v = w
    <3>1. CASE main[w].pc = "finishLock"
      <4>1. ~BeginGranted(j)
        BY <2>3 DEF Step, FenceInv, Executes
      <4>2. /\ main'[w].pc = "finishWrite" /\ main'[w].job = j /\ FinishExecution(j)
        BY <1>2, <2>3, <3>1
        DEF MainGoes, MainTurn, TurnBetweenJobs, QuietTurn, WorkTurn, Keeps, MainExecutes
      <4> QED BY <1>1, <1>2, <2>3, <4>1, <4>2, FinishedAs DEF Finishing
    <3>2. CASE main[w].pc # "finishLock"
      <4>1. \/ main'[w].pc \in ExecutionPc \ {"finishWrite"} /\ main'[w].job = j
            \/ main'[w].pc = "check"
        BY <1>2, <2>3, <3>2
        DEF MainGoes, MainTurn, TurnBetweenJobs, QuietTurn, WorkTurn, Keeps, MainExecutes,
            ExecutionPc
      <4>2. CASE main'[w].pc = "check"
        <5>1. doc'[w][j].pc = "queued"
          <6>1. main[w].pc \in {"prepare", "boundary"} /\ main[w].job = j
            BY <1>2, <2>3, <3>2, <4>2
            DEF MainGoes, MainTurn, TurnBetweenJobs, QuietTurn, WorkTurn, MainExecutes,
                ExecutionPc
          <6>2. PICK status : doc' = [doc EXCEPT ![w][j] = [pc |-> "queued", mem |-> status]]
            BY <1>2, <2>3, <4>2, <6>1
            DEF MainGoes, MainTurn, TurnBetweenJobs, QuietTurn, WorkTurn
          <6> QED BY <1>1, <6>2 DEF CallInv, ThreadTypes
        <5> QED BY <5>1 DEF Unended
      <4> QED BY <4>1, <4>2 DEF Unended, MainExecutes
    <3> QED BY <3>1, <3>2
  <2> QED BY <2>1, <2>2, <2>3 DEF Unended
<1>3. ASSUME NEW v \in Worker, NEW k \in Job, DocGoes(v, k)
      PROVE  Unended(w, j)' \/ (Finishing(w, j)' /\ Ended(j)' /\ DocGoes(w, j))
  <2>1. CASE MainExecutes(w, j) /\ main[w].pc # "finishWrite"
    BY <1>3, <2>1 DEF DocGoes, Unended, MainExecutes
  <2>2. CASE doc[w][j].pc \in {"queued", "process", "stageWrite", "finishLock"} /\ (v # w \/ k # j)
    BY <1>3, <2>2 DEF DocGoes, Unended
  <2>3. CASE doc[w][j].pc \in {"queued", "process", "stageWrite"} /\ v = w /\ k = j
    BY <1>3, <2>3 DEF DocGoes, DocTurn, Unended
  <2>4. CASE doc[w][j].pc = "finishLock" /\ v = w /\ k = j
    <3>1. ~BeginGranted(j)
      BY <2>4 DEF Step, FenceInv, Executes, DocExecutes
    <3>2. doc'[w][j].pc = "finishWrite" /\ FinishExecution(j)
      BY <1>3, <2>4 DEF DocGoes, DocTurn
    <3> QED BY <1>1, <1>3, <2>4, <3>1, <3>2, FinishedAs DEF Finishing
  <2> QED BY <2>1, <2>2, <2>3, <2>4 DEF Unended
<1>4. CASE TimeGoes \/ \E k \in Job : ApiGoes(k)
  BY <1>4 DEF TimeGoes, ApiGoes, Unended, MainExecutes
<1>5. ASSUME NEW v \in Worker, Dies(v)
      PROVE  FALSE
  BY <1>5 DEF Dies, DeadMain, IdleMain, NobodyDied, Dead, At
<1> QED
  BY <1>2, <1>3, <1>4, <1>5 DEF Step, SomebodyGoes

\* The outcome that finish_execution settled is what gets written.
LEMMA FinishingEnds ==
  ASSUME Step, NobodyDied', SavedInv, NEW j \in Job, NEW w \in Worker, Finishing(w, j)
  PROVE  \/ Finishing(w, j)'
         \/ HasStatus(j, Terminal)' /\ (IsCancelled(j) => HasStatus(j, {"CANCELLED"})')
<1>1. CallInv /\ job_json \in [Job -> Json] /\ HeldCancel(j)
  BY DEF Step, CallInv, FileTypes, SavedInv
<1>2. CASE main[w].job = j /\ main[w].pc = "finishWrite"
  <2>1. CASE MainGoes(w)
    <3>1. Wrote(j, main[w].mem)
      BY <1>2, <2>1 DEF MainGoes, MainTurn, TurnBetweenJobs, QuietTurn, WorkTurn
    <3>2. main[w].mem \in Terminal /\ (IsCancelled(j) => main[w].mem = "CANCELLED")
      BY <1>1, <1>2 DEF SavedInv, MainMems, MainMem, HeldCancel, MainHolds
    <3> QED BY <1>1, <3>1, <3>2 DEF Wrote, HasStatus
  <2>2. main'[w] = main[w] \/ MainGoes(w)
    BY DEF Step, SomebodyGoes, MainGoes, DocGoes, ApiGoes, TimeGoes, Dies, DeadMain, IdleMain,
           NobodyDied, Dead, At
  <2> QED BY <1>2, <2>1, <2>2 DEF Finishing
<1>3. CASE doc[w][j].pc = "finishWrite"
  <2>1. CASE DocGoes(w, j)
    <3>1. Wrote(j, doc[w][j].mem)
      BY <1>3, <2>1 DEF DocGoes, DocTurn
    <3>2. doc[w][j].mem \in Terminal /\ (IsCancelled(j) => doc[w][j].mem = "CANCELLED")
      BY <1>1, <1>3 DEF SavedInv, DocMems, DocMem, HeldCancel, DocHolds
    <3> QED BY <1>1, <3>1, <3>2 DEF Wrote, HasStatus
  <2>2. ASSUME NEW v \in Worker, MainGoes(v)
        PROVE  Finishing(w, j)'
    <3>1. doc'[w][j] = doc[w][j] \/ (v = w /\ MainExecutes(w, j))
      BY <1>1, <2>2, MainDocs DEF MainExecutes, ExecutionPc
    <3>2. ~MainExecutes(w, j)
      BY <1>3 DEF Step, FenceInv, SingleExecution, DocExecutes
    <3> QED BY <1>3, <3>1, <3>2 DEF Finishing
  <2>3. ASSUME NEW v \in Worker, NEW k \in Job, DocGoes(v, k), v # w \/ k # j
        PROVE  Finishing(w, j)'
    BY <1>3, <2>3 DEF DocGoes, Finishing
  <2>4. CASE TimeGoes \/ \E k \in Job : ApiGoes(k)
    BY <1>3, <2>4 DEF TimeGoes, ApiGoes, Finishing
  <2>5. ASSUME NEW v \in Worker, Dies(v)
        PROVE  FALSE
    BY <2>5 DEF Dies, DeadMain, IdleMain, NobodyDied, Dead, At
  <2> QED BY <2>1, <2>2, <2>3, <2>4, <2>5 DEF Step, SomebodyGoes
<1> QED BY <1>2, <1>3 DEF Finishing

\* A job that is over in its file is over for good, or somebody executes it.
LEMMA TerminalStays ==
  ASSUME Step, NobodyDied', SavedInv, NEW j \in Job, HasStatus(j, Terminal)
  PROVE  HasStatus(j, Terminal)' \/ \E w \in Worker : Unended(w, j)'
<1>1. SUFFICES ASSUME ~HasStatus(j, Terminal)'
               PROVE  \E w \in Worker : Unended(w, j)'
  OBVIOUS
<1>2. PICK w \in Worker :
           \/ /\ MainExecutes(w, j) /\ main[w].pc # "finishWrite"
              /\ MainGoes(w) /\ job_json' # job_json
           \/ /\ DocExecutes(w, j) /\ doc[w][j].pc \in {"process", "stageWrite"}
              /\ DocGoes(w, j) /\ job_json' # job_json
  BY <1>1, OpenWrites DEF SavedInv
<1>3. Unended(w, j)
  BY <1>2 DEF Unended
<1>4. ~Finishing(w, j)'
  <2>1. CASE MainExecutes(w, j) /\ main[w].pc # "finishWrite" /\ MainGoes(w) /\ job_json' # job_json
    <3>1. main'[w].pc # "finishWrite"
      BY <2>1 DEF MainGoes, MainTurn, TurnBetweenJobs, QuietTurn, WorkTurn, Quiet, StoreOnly
    <3>2. ~DocExecutes(w, j)
      BY <2>1 DEF Step, FenceInv, SingleExecution
    <3>3. doc'[w][j].pc # "finishWrite"
      BY <2>1, <3>2, MainDocs DEF Step, DocExecutes
    <3> QED BY <3>1, <3>3 DEF Finishing
  <2>2. CASE /\ DocExecutes(w, j) /\ doc[w][j].pc \in {"process", "stageWrite"} /\ DocGoes(w, j)
    <3>1. doc'[w][j].pc # "finishWrite" /\ main' = main
      BY <2>2 DEF DocGoes, DocTurn
    <3>2. ~MainExecutes(w, j)
      BY <2>2 DEF Step, FenceInv, SingleExecution
    <3> QED BY <3>1, <3>2 DEF Finishing, MainExecutes, ExecutionPc
  <2> QED BY <1>2, <2>1, <2>2
<1> QED BY <1>3, <1>4, UnendedStays

\* The cancelling request writes what it promised.
LEMMA CancellingEnds ==
  ASSUME Step, NEW j \in Job, api[j] \in {"cancelLock", "cancelWrite"}
  PROVE  api'[j] \in {"cancelLock", "cancelWrite"} \/ HasStatus(j, {"CANCELLED"})'
<1>1. job_json \in [Job -> Json]
  BY DEF Step, CallInv, FileTypes
<1>2. ASSUME NEW k \in Job, ApiGoes(k)
      PROVE  api'[j] \in {"cancelLock", "cancelWrite"} \/ HasStatus(j, {"CANCELLED"})'
  BY <1>1, <1>2 DEF ApiGoes, ApiTurn, Wrote, HasStatus
<1> QED BY <1>2 DEF Step, SomebodyGoes, MainGoes, DocGoes, TimeGoes, Dies

\* Whoever is concluding a job goes on until it is concluded.
LEMMA ClosingStays ==
  ASSUME Step, NobodyDied', SavedInv, NEW j \in Job, Closing(j)
  PROVE  \/ Closing(j)'
         \/ HasStatus(j, Terminal)' /\ (IsCancelled(j) => HasStatus(j, {"CANCELLED"})')
<1>1. CASE \E w \in Worker : Unended(w, j)
  BY <1>1, UnendedStays DEF Closing
<1>2. CASE \E w \in Worker : Finishing(w, j)
  BY <1>2, FinishingEnds DEF Closing
<1>3. CASE api[j] \in {"cancelLock", "cancelWrite"}
  BY <1>3, CancellingEnds DEF Closing, HasStatus, Terminal
<1> QED BY <1>1, <1>2, <1>3 DEF Closing

\* Whoever is marking a job as interrupted goes on until it is marked.
LEMMA MarkingStays ==
  ASSUME Step, NobodyDied', SavedInv, NEW j \in Job, NEW w \in Worker, Marking(w, j)
  PROVE  Marking(w, j)' \/ HasStatus(j, Terminal)'
<1>1. job_json \in [Job -> Json] /\ CallInv
  BY DEF Step, CallInv, FileTypes
<1>2. CASE MainGoes(w)
  <2>1. CASE main[w].pc = "reconcileLock"
    BY <1>2, <2>1 DEF Marking, MainGoes, MainTurn, TurnBetweenJobs, QuietTurn, WorkTurn, Keeps
  <2>2. CASE main[w].pc = "reconcileWrite"
    <3>1. Wrote(j, main[w].mem)
      BY <1>2, <2>2 DEF Marking, MainGoes, MainTurn, TurnBetweenJobs, QuietTurn, WorkTurn
    <3>2. main[w].mem \in Terminal
      BY <2>2 DEF SavedInv, MainMems, MainMem, Terminal
    <3> QED BY <1>1, <3>1, <3>2 DEF Wrote, HasStatus
  <2> QED BY <2>1, <2>2 DEF Marking
<1>3. main'[w] = main[w] \/ MainGoes(w)
  BY DEF Step, SomebodyGoes, MainGoes, DocGoes, ApiGoes, TimeGoes, Dies, DeadMain, IdleMain,
         NobodyDied, Dead, At
<1> QED BY <1>2, <1>3 DEF Marking

\* Concluded is concluded.
LEMMA ConcludedStays ==
  ASSUME Step, NobodyDied', SavedInv, NEW j \in Job, Concluded(j)
  PROVE  Concluded(j)'
<1>1. CASE HasStatus(j, Terminal)
  BY <1>1, TerminalStays DEF Concluded, Closing
<1>2. CASE Closing(j)
  BY <1>2, ClosingStays DEF Concluded
<1>3. CASE \E w \in Worker : Marking(w, j)
  BY <1>3, MarkingStays DEF Concluded
<1> QED BY <1>1, <1>2, <1>3 DEF Concluded

-------------------------------------------------------------------------------
(* What a step does to one row of the queue.                                *)

StatusOnly(r, status) ==
  /\ queue_items'[r].item = queue_items[r].item
  /\ queue_items'[r].claimed_by = queue_items[r].claimed_by
  /\ queue_items'[r].interrupted = queue_items[r].interrupted
  /\ queue_items'[r].status = status

RowClaimed(r, w) ==
  /\ main[w].pc = "claim" /\ main'[w].pc = "load" /\ main'[w].row = r
  /\ queue_items[r].status = "queued" /\ queue_items'[r].status = "claimed"
  /\ queue_items'[r].claimed_by = w
  /\ queue_items'[r].item = queue_items[r].item
  /\ queue_items'[r].interrupted = queue_items[r].interrupted
RowRecovered(r) ==
  /\ queue_items[r].status = "claimed" /\ queue_items[r].expired
  /\ queue_items'[r].status = "failed" /\ queue_items'[r].interrupted
  /\ queue_items'[r].item = queue_items[r].item
  /\ queue_items'[r].claimed_by = queue_items[r].claimed_by
RowAcknowledged(r, w) ==
  /\ main[w].pc = "acknowledge" /\ main[w].row = r /\ AwaitsAcknowledgement(r)
  /\ queue_items'[r].claimed_by = NoWorker
  /\ queue_items'[r].item = queue_items[r].item
  /\ queue_items'[r].status = queue_items[r].status
  /\ queue_items'[r].interrupted = queue_items[r].interrupted
RowCompleted(r, w) ==
  /\ main[w].pc = "complete" /\ main'[w].pc = "idle"
  /\ main[w].row = r /\ OwnedClaim(r, w)
  /\ StatusOnly(r, main[w].mem)
RowCancelled(r) ==
  /\ Unfinished(r) /\ StatusOnly(r, "cancelled")
  /\ IsCancelled(queue_items[r].item)' /\ CancelRequested(queue_items[r].item)'

RowMove(r) ==
  \/ SameRow(r)
  \/ \E w \in Worker : MainGoes(w) /\ (RowClaimed(r, w) \/ RowAcknowledged(r, w) \/ RowCompleted(r, w))
  \/ RowRecovered(r)
  \/ RowCancelled(r)

\* What a step may do to a row.
LEMMA RowMoves ==
  ASSUME Step, NEW r \in RowIds
  PROVE  RowMove(r)
<1>1. /\ RowTypes /\ queue_items[r] \in Row /\ CallInv
      /\ queue_items[r].item \in Job
      /\ execution_controls \in [Item -> Control]
      /\ ControlInv'
  BY DEF Step, CallInv, RowInv, RowTypes, Row, Job, ControlInv
<1>2. CASE queue_items' = queue_items
  BY <1>2 DEF RowMove, SameRow
<1>3. ASSUME NEW w \in Worker, MainGoes(w)
      PROVE  RowMove(r)
  <2>1. CASE RecoverStaleClaims
    BY <1>1, <2>1 DEF RecoverStaleClaims, Stale, Row, RowMove, SameRow, RowRecovered
  <2>2. ASSUME AcknowledgeInterruptedClaim(main[w].row, queue_items[main[w].row].claimed_by),
               main[w].pc = "acknowledge"
        PROVE  RowMove(r)
    <3>1. main[w].row \in RowIds
      BY <1>1, <2>2, MainFields DEF FreePc
    <3>2. CASE main[w].row = r
      BY <1>1, <1>3, <2>2, <3>2
      DEF AcknowledgeInterruptedClaim, Row, RowTypes, RowMove, RowAcknowledged
    <3>3. CASE main[w].row # r
      BY <1>1, <2>2, <3>3 DEF AcknowledgeInterruptedClaim, RowTypes, RowMove, SameRow
    <3> QED BY <3>2, <3>3
  <2>3. ASSUME NEW q \in RowIds, ClaimNext(q, w), main[w].pc = "claim", main'[w].pc = "load",
               main'[w].row = q
        PROVE  RowMove(r)
    <3>1. CASE q = r
      BY <1>1, <1>3, <2>3, <3>1
      DEF ClaimNext, Claimable, QueuedRows, Row, RowTypes, RowMove, RowClaimed
    <3>2. CASE q # r
      BY <1>1, <2>3, <3>2 DEF ClaimNext, RowTypes, RowMove, SameRow
    <3> QED BY <3>1, <3>2
  <2>4. ASSUME CompleteClaim(main[w].row, w, main[w].mem), main[w].pc = "complete",
               main'[w].pc = "idle"
        PROVE  RowMove(r)
    <3>1. CASE main[w].row = r
      BY <1>1, <1>3, <2>4, <3>1
      DEF CompleteClaim, Row, RowTypes, RowMove, RowCompleted, StatusOnly
    <3>2. CASE main[w].row # r
      BY <1>1, <2>4, <3>2 DEF CompleteClaim, RowTypes, RowMove, SameRow
    <3> QED BY <3>1, <3>2
  <2> QED
    BY <1>2, <1>3, <2>1, <2>2, <2>3, <2>4
    DEF MainGoes, MainTurn, TurnBetweenJobs, WorkTurn, Quiet, StoreOnly, Wrote,
        BeginExecution, FinishExecution
<1>4. ASSUME NEW j \in Job, ApiGoes(j)
      PROVE  RowMove(r)
  <2>1. CASE Enqueue(j)
    <3>1. queue_items'[r] = queue_items[r]
      BY <1>1, <2>1 DEF Enqueue, Insert, RowIds, RowTypes
    <3> QED BY <3>1 DEF RowMove, SameRow
  <2>2. CASE RequestExecutionCancel(j)
    <3>1. CASE queue_items'[r] = queue_items[r]
      BY <3>1 DEF RowMove, SameRow
    <3>2. CASE queue_items'[r] # queue_items[r]
      <4>1. /\ queue_items[r].item = j /\ Unfinished(r)
            /\ queue_items'[r] = [queue_items[r] EXCEPT !.status = "cancelled"]
            /\ ControlAfterCancel(execution_controls[j]).state = "cancelled"
        BY <1>1, <2>2, <3>2 DEF RequestExecutionCancel, RowsCancelled
      <4>2. execution_controls'[j] = ControlAfterCancel(execution_controls[j])
        BY <1>1, <2>2 DEF RequestExecutionCancel, Job
      <4>3. IsCancelled(j)' /\ CancelRequested(j)'
        BY <1>1, <4>1, <4>2 DEF IsCancelled, CancelRequested, ControlInv, ControlSound, Job
      <4> QED BY <1>1, <4>1, <4>3 DEF RowMove, RowCancelled, StatusOnly, Row
    <3> QED BY <3>1, <3>2
  <2> QED BY <1>2, <1>4, <2>1, <2>2 DEF ApiGoes, ApiTurn, Wrote
<1>5. CASE TimeGoes
  BY <1>5 DEF TimeGoes, RowMove
<1> QED
  BY <1>1, <1>2, <1>3, <1>4, <1>5, DocEffects DEF Step, SomebodyGoes, Dies

\* What a new row is.
LEMMA NewRows ==
  ASSUME Step, NEW r \in RowIds', r \notin RowIds
  PROVE  /\ \A q \in RowIds : q < r
         /\ queue_items'[r].claimed_by = NoWorker /\ ~queue_items'[r].interrupted
         /\ \/ /\ queue_items'[r].status = "queued"
               /\ \A q \in RowIds : queue_items[q].item = queue_items'[r].item => ~Unfinished(q)
            \/ queue_items'[r].status = "cancelled" /\ CancelRequested(queue_items'[r].item)
         /\ UNCHANGED <<execution_controls, job_json, main, doc>>
<1>1. RowTypes /\ last_id \in Nat /\ CallInv
  BY QueueAssumption DEF Step, CallInv, RowInv, RowTypes
<1>2. last_id' # last_id
  BY DEF RowIds
<1>3. PICK j \in Job : ApiGoes(j)
  BY <1>1, <1>2, MainEffects, DocEffects DEF Step, SomebodyGoes, TimeGoes, Dies
<1>4. Enqueue(j) /\ UNCHANGED <<job_json, main, doc>>
  BY <1>2, <1>3 DEF ApiGoes, ApiTurn, RequestExecutionCancel, Wrote
<1>5. execution_controls' = execution_controls
  BY <1>4 DEF Enqueue
<1>6. ASSUME NEW status \in {"queued", "cancelled"}, Insert(j, status)
      PROVE  /\ \A q \in RowIds : q < r
             /\ queue_items'[r] = NewRow(j, status)
  BY <1>1, <1>6 DEF Insert, RowIds
<1>7. CASE CancelRequested(j) /\ Insert(j, "cancelled")
  BY <1>4, <1>5, <1>6, <1>7 DEF NewRow
<1>8. CASE ~HasUnfinished(j) /\ Insert(j, "queued")
  BY <1>4, <1>5, <1>6, <1>8 DEF NewRow, HasUnfinished
<1> QED BY <1>2, <1>4, <1>7, <1>8 DEF Enqueue

-------------------------------------------------------------------------------
(* The fence, the reports and the rows of a concluded job.                  *)

ReportPc == {"finishRefresh", "check", "wait", "report", "complete"}
MarkedPc == {"reconcileLock", "reconcileWrite", "refresh", "acknowledge"}

FenceConcluded(j) ==
  /\ Executing(j) => \E w \in Worker : Unended(w, j)
  /\ ~BeginGranted(j) => Concluded(j)
  /\ BeginGranted(j) => job_json[j] \in {"absent", "QUEUED"} \cup Terminal
  /\ IsCancelled(j) => HasStatus(j, {"CANCELLED"}) \/ Closing(j)
Reported(w) ==
  /\ main[w].pc \in ReportPc => Concluded(main[w].job)
  /\ main[w].pc \in MarkedPc => Concluded(main[w].job) \/ HasNewerQueueItem(main[w].row)
  /\ main[w].pc = "finalize" /\ main[w].mem = "INTERRUPTED" => Concluded(main[w].job)
RowConcluded(r) ==
  \/ Unfinished(r)
  \/ AwaitsAcknowledgement(r)
  \/ HasNewerQueueItem(r)
  \/ Concluded(queue_items[r].item)
ClaimOwned(r) == queue_items[r].status = "claimed" => queue_items[r].claimed_by \in Worker

ConcludeInv ==
  /\ \A j \in Job : FenceConcluded(j)
  /\ \A w \in Worker : Reported(w)
  /\ \A r \in RowIds : RowConcluded(r) /\ ClaimOwned(r)

\* The fence of a job closes as somebody begins it or as it is cancelled before.
LEMMA FenceCloses ==
  ASSUME Step, NEW j \in Job, BeginGranted(j), ~BeginGranted(j)'
  PROVE  \/ Executing(j)' /\ \E w \in Worker : Unended(w, j)'
         \/ ~Executing(j)' /\ Closing(j)'
<1>1. execution_controls \in [Item -> Control] /\ j \in Item /\ CallInv
  BY DEF Step, CallInv, ControlInv, Job
<1>2. execution_controls'[j] # execution_controls[j]
  BY DEF BeginGranted
<1>3. ASSUME NEW w \in Worker, MainGoes(w)
      PROVE  Executing(j)' /\ Unended(w, j)'
  <2>1. main[w].job = j /\ BeginExecution(j) /\ main[w].pc \notin FreePc
    BY <1>1, <1>2, <1>3, MainEffects
    DEF BeginExecution, FinishExecution, ControlAfterFinish, BeginGranted
  <2>2. execution_controls' # execution_controls /\ ~FinishExecution(j)
    BY <1>1, <1>2 DEF FinishExecution, ControlAfterFinish, BeginGranted
  <2>3. main'[w].pc = "prepare" /\ main'[w].job = j
    BY <1>3, <2>1, <2>2 DEF MainGoes, MainTurn, TurnBetweenJobs, QuietTurn, WorkTurn, Keeps,
       Quiet, StoreOnly, Wrote, AcknowledgeInterruptedClaim, CompleteClaim, FreePc
  <2>4. Executing(j)'
    BY <1>1, <2>1 DEF BeginExecution, BeginGranted, Executing, Control
  <2> QED BY <2>3, <2>4 DEF Unended, MainExecutes, ExecutionPc
<1>4. ASSUME NEW w \in Worker, NEW k \in Job, DocGoes(w, k)
      PROVE  FALSE
  <2>1. k = j /\ FinishExecution(j)
    BY <1>1, <1>2, <1>4, DocEffects DEF FinishExecution
  <2> QED BY <1>1, <1>2, <2>1 DEF FinishExecution, ControlAfterFinish, BeginGranted
<1>5. ASSUME NEW k \in Job, ApiGoes(k)
      PROVE  ~Executing(j)' /\ Closing(j)'
  <2>1. RequestExecutionCancel(k)
    BY <1>2, <1>5 DEF ApiGoes, ApiTurn, Wrote, Enqueue
  <2>2. k = j
    BY <1>1, <1>2, <2>1 DEF RequestExecutionCancel
  <2>3. execution_controls'[j].state = "cancelled"
    BY <1>1, <2>1, <2>2 DEF RequestExecutionCancel, ControlAfterCancel, BeginGranted
  <2>4. ~Enqueue(j) /\ execution_controls' # execution_controls
    BY <1>2 DEF Enqueue
  <2>5. api'[j] = "cancelLock"
    BY <1>5, <2>2, <2>3, <2>4 DEF ApiGoes, ApiTurn, Wrote
  <2> QED BY <2>3, <2>5 DEF Executing, Closing
<1> QED
  BY <1>2, <1>3, <1>4, <1>5 DEF Step, SomebodyGoes, TimeGoes, Dies

\* Each step keeps the job of a released fence concluded.
LEMMA FenceConcludedStep ==
  ASSUME Step, NobodyDied', SavedInv, NEW j \in Job, FenceConcluded(j)
  PROVE  FenceConcluded(j)'
<1>1. /\ execution_controls[j] \in Control /\ execution_controls'[j] \in Control
      /\ job_json \in [Job -> Json] /\ CallInv /\ ControlKept(j)
      /\ CancelSaid(j) /\ HeldCancel(j)
  BY DEF Step, CallInv, ControlInv, FileTypes, Job, SavedInv
<1>2. Executing(j)' => \E w \in Worker : Unended(w, j)'
  <2>1. CASE BeginGranted(j)
    BY <2>1, FenceCloses DEF BeginGranted, Executing
  <2>2. CASE Executing(j)
    BY <2>2, UnendedStays DEF FenceConcluded, Ended, Executing
  <2>3. CASE Ended(j)
    BY <1>1, <2>3 DEF ControlKept, Ended, Executing
  <2> QED BY <1>1, <2>1, <2>2, <2>3 DEF Control, ControlState, BeginGranted, Executing, Ended
<1>3. ~BeginGranted(j)' => Concluded(j)'
  BY FenceCloses, ConcludedStays DEF FenceConcluded, Concluded, Closing
<1>4. BeginGranted(j)' => job_json'[j] \in {"absent", "QUEUED"} \cup Terminal
  <2> SUFFICES ASSUME BeginGranted(j)', job_json'[j] # job_json[j]
               PROVE  job_json'[j] \in {"absent", "QUEUED"} \cup Terminal
    BY <1>1 DEF FenceConcluded, ControlKept
  <2>1. \A w \in Worker : ~Executes(w, j)
    BY <1>1 DEF Step, FenceInv, ControlKept
  <2>2. ASSUME NEW w \in Worker, MainGoes(w)
        PROVE  job_json'[j] \in Terminal
    <3>1. main[w].job = j /\ ~MainExecutes(w, j)
      BY <1>1, <2>1, <2>2, MainEffects DEF Wrote, Executes
    <3>2. main[w].pc = "reconcileWrite" /\ job_json'[j] = main[w].mem
      BY <1>1, <2>2, <3>1, MainEffects DEF Wrote, MainExecutes, ExecutionPc
    <3> QED BY <3>2 DEF SavedInv, MainMems, MainMem, Terminal
  <2>3. ASSUME NEW w \in Worker, NEW k \in Job, DocGoes(w, k)
        PROVE  FALSE
    BY <1>1, <2>1, <2>3, DocEffects DEF Wrote, Executes
  <2>4. ASSUME NEW k \in Job, ApiGoes(k)
        PROVE  job_json'[j] \in {"absent", "QUEUED"} \cup Terminal
    BY <1>1, <2>4 DEF ApiGoes, ApiTurn, Wrote, Terminal
  <2> QED BY <2>2, <2>3, <2>4 DEF Step, SomebodyGoes, TimeGoes, Dies
<1>5. IsCancelled(j)' => HasStatus(j, {"CANCELLED"})' \/ Closing(j)'
  <2> SUFFICES ASSUME IsCancelled(j)'
               PROVE  HasStatus(j, {"CANCELLED"})' \/ Closing(j)'
    OBVIOUS
  <2>1. CASE BeginGranted(j)
    BY <2>1, FenceCloses DEF BeginGranted, IsCancelled, Executing
  <2>2. CASE Executing(j)
    BY <2>2, UnendedStays DEF FenceConcluded, Closing
  <2>3. CASE IsCancelled(j)
    <3>1. CASE Closing(j)
      BY <2>3, <3>1, ClosingStays
    <3>2. CASE HasStatus(j, {"CANCELLED"}) /\ ~HasStatus(j, {"CANCELLED"})'
      BY <1>1, <3>2, CancelledOverwritten, UnendedStays DEF SavedInv, Closing
    <3> QED BY <2>3, <3>1, <3>2 DEF FenceConcluded
  <2> QED
    BY <1>1, <2>1, <2>2, <2>3
    DEF Control, ControlState, BeginGranted, Executing, IsCancelled, ControlKept, Ended
<1> QED BY <1>2, <1>3, <1>4, <1>5 DEF FenceConcluded

\* A superseded row stays superseded.
LEMMA NewerStays ==
  ASSUME Step, NEW r \in RowIds, HasNewerQueueItem(r)
  PROVE  HasNewerQueueItem(r)'
BY DEF Step, RowsKept, HasNewerQueueItem

\* Each step keeps a reported job concluded.
LEMMA ReportedStep ==
  ASSUME Step, NobodyDied', SavedInv, ConcludeInv, NEW w \in Worker
  PROVE  Reported(w)'
<1>1. /\ main[w] \in Main /\ main'[w] \in Main
      /\ main[w].pc \notin FreePc => main[w].job \in Job /\ main[w].row \in RowIds
      /\ main[w].todo \subseteq RowIds
      /\ RowTypes /\ job_json \in [Job -> Json]
      /\ Reported(w) /\ ThreadBook(w)
  BY MainFields
  DEF Step, CallInv, ThreadTypes, RowInv, FileTypes, ConcludeInv, SavedInv, ThreadBooks
<1>2. CASE main'[w] = main[w]
  BY <1>1, <1>2, ConcludedStays, NewerStays DEF Reported, ReportPc, MarkedPc, FreePc
<1>3. CASE MainGoes(w)
  <2>0. PICK j, n : j = main[w].job /\ n = main'[w]
    OBVIOUS
  <2>1. main[w].pc \in ExecutionPc => Concluded(j)
    <3>1. main[w].pc \in ExecutionPc => MainExecutes(w, j) /\ j \in Job
      BY <2>0, <1>1 DEF MainExecutes, ExecutionPc, FreePc
    <3> QED BY <3>1 DEF Step, FenceInv, Executes, ConcludeInv, FenceConcluded
  <2>2. n.pc \in ReportPc => Concluded(n.job) /\ n.job \in Job
    <3>1. CASE main[w].pc = "load" /\ n.pc \in ReportPc
      <4>1. ~HasStatus(j, {"QUEUED"}) /\ n.job = j /\ j \in Job
        BY <2>0, <1>1, <1>3, <3>1
        DEF MainGoes, MainTurn, TurnBetweenJobs, QuietTurn, WorkTurn, Keeps, ReportPc, FreePc
      <4>2. job_json[j] # "absent"
        BY <2>0, <3>1, <4>1, InHand DEF SavedInv, ApiBook, FreePc, BeforePc
      <4>3. FenceConcluded(j)
        BY <4>1 DEF ConcludeInv
      <4> QED BY <4>1, <4>2, <4>3 DEF FenceConcluded, HasStatus, Concluded
    <3>2. CASE main[w].pc = "begin" /\ n.pc \in ReportPc
      <4>1. ~BeginGranted(j) /\ n.job = j /\ j \in Job
        BY <2>0, <1>1, <1>3, <3>2
        DEF MainGoes, MainTurn, TurnBetweenJobs, QuietTurn, WorkTurn, Keeps, ReportPc, FreePc
      <4> QED BY <4>1 DEF ConcludeInv, FenceConcluded
    <3>3. CASE main[w].pc \notin {"load", "begin"} /\ n.pc \in ReportPc
      <4>1. n.job = j /\ main[w].pc \in ExecutionPc \cup ReportPc
        BY <2>0, <1>3, <3>3
        DEF MainGoes, MainTurn, TurnBetweenJobs, QuietTurn, WorkTurn, Keeps, ReportPc, ExecutionPc
      <4> QED BY <2>0, <1>1, <2>1, <4>1 DEF Reported, ExecutionPc, ReportPc, FreePc
    <3> QED BY <3>1, <3>2, <3>3
  <2>3. n.pc \in MarkedPc =>
          \/ Concluded(n.job) /\ n.job \in Job
          \/ HasNewerQueueItem(n.row) /\ n.row \in RowIds
          \/ Marking(w, n.job)'
    <3>1. CASE TurnBetweenJobs(w, main[w], n) /\ n.pc \in MarkedPc
      BY <2>0, <1>1, <3>1 DEF TurnBetweenJobs, Reported, ReportPc, MarkedPc, FreePc
    <3>2. CASE /\ Keeps(main[w], n) /\ main[w].pc \notin FreePc /\ n.pc \in MarkedPc
               /\ QuietTurn(main[w], n) \/ WorkTurn(w, main[w], n)
      <4>1. \/ main[w].pc \in MarkedPc
            \/ main[w].pc = "finalize" /\ main[w].mem = "INTERRUPTED"
            \/ n.pc = "reconcileLock"
        BY <3>2 DEF QuietTurn, WorkTurn, MarkedPc
      <4> QED BY <1>1, <2>0, <3>2, <4>1 DEF Keeps, Reported, MarkedPc, FreePc, Marking
    <3> QED BY <2>0, <1>3, <3>1, <3>2 DEF MainGoes, MainTurn
  <2>4. n.pc = "finalize" /\ n.mem = "INTERRUPTED" => Concluded(n.job) /\ n.job \in Job
    <3>1. n.pc = "finalize" => n.mem = job_json[n.job] /\ n.job \in Job
      BY <2>0, <1>1, <1>3
      DEF MainGoes, MainTurn, TurnBetweenJobs, QuietTurn, WorkTurn, Keeps, Readable, RowTypes, Row, Job, FreePc
    <3> QED BY <3>1 DEF Concluded, HasStatus, Terminal
  <2>5. n.pc \in ReportPc => Concluded(n.job)'
    BY <2>2, ConcludedStays
  <2>6. n.pc \in MarkedPc => Concluded(n.job)' \/ HasNewerQueueItem(n.row)'
    BY <2>3, ConcludedStays, NewerStays DEF Concluded
  <2>7. n.pc = "finalize" /\ n.mem = "INTERRUPTED" => Concluded(n.job)'
    BY <2>4, ConcludedStays
  <2> QED BY <2>0, <2>5, <2>6, <2>7 DEF Reported
<1>4. MainGoes(w) \/ main'[w] = main[w]
  BY DEF Step, SomebodyGoes, MainGoes, DocGoes, ApiGoes, TimeGoes, Dies, DeadMain, IdleMain,
         NobodyDied, Dead, At
<1> QED BY <1>2, <1>3, <1>4

\* Each step keeps the job of a closed row concluded.
LEMMA RowConcludedStep ==
  ASSUME Step, NobodyDied', SavedInv, ConcludeInv, NEW r \in RowIds'
  PROVE  RowConcluded(r)' /\ ClaimOwned(r)'
<1>1. /\ \A j \in Job : Concluded(j) => Concluded(j)'
      /\ RowTypes' /\ RowTypes /\ CallInv /\ CallInv'
      /\ \A j \in Job : CancelRequested(j)' => ~BeginGranted(j)'
      /\ \A j \in Job : FenceConcluded(j)'
  BY ConcludedStays, FenceConcludedStep
  DEF Step, CallInv, RowInv, ControlInv, ControlSound, ConcludeInv, Job, CancelRequested,
      BeginGranted
<1>2. queue_items'[r].item \in Job
  BY <1>1 DEF RowTypes, Row, Job
<1>3. CASE r \notin RowIds
  <2>1. \/ queue_items'[r].status = "queued"
        \/ queue_items'[r].status = "cancelled" /\ CancelRequested(queue_items[r].item)'
    BY <1>3, NewRows DEF CancelRequested
  <2> QED BY <1>1, <1>2, <2>1 DEF RowConcluded, ClaimOwned, Unfinished, FenceConcluded
<1>4. CASE r \in RowIds
  <2>1. /\ queue_items'[r].item = queue_items[r].item
        /\ HasNewerQueueItem(r) => HasNewerQueueItem(r)'
        /\ RowConcluded(r) /\ ClaimOwned(r)
    BY <1>4, NewerStays DEF Step, RowsKept, ConcludeInv
  <2>2. CASE SameRow(r)
    BY <1>1, <1>2, <2>1, <2>2
    DEF SameRow, RowConcluded, ClaimOwned, Unfinished, AwaitsAcknowledgement
  <2>3. ASSUME NEW w \in Worker, RowClaimed(r, w)
        PROVE  RowConcluded(r)' /\ ClaimOwned(r)'
    BY <2>3 DEF RowClaimed, RowConcluded, ClaimOwned, Unfinished
  <2>4. ASSUME NEW w \in Worker, RowAcknowledged(r, w)
        PROVE  RowConcluded(r)' /\ ClaimOwned(r)'
    <3>1. Concluded(main[w].job) \/ HasNewerQueueItem(r)
      BY <2>4 DEF RowAcknowledged, ConcludeInv, Reported, MarkedPc
    <3>2. main[w].job = queue_items[r].item
      BY <2>4 DEF RowAcknowledged, SavedInv, ThreadBooks, ThreadBook, FreePc
    <3> QED BY <1>1, <1>2, <2>1, <2>4, <3>1, <3>2
            DEF RowAcknowledged, AwaitsAcknowledgement, RowConcluded, ClaimOwned
  <2>5. ASSUME NEW w \in Worker, RowCompleted(r, w)
        PROVE  RowConcluded(r)' /\ ClaimOwned(r)'
    <3>1. Concluded(main[w].job) /\ main[w].mem \in {"done", "cancelled", "failed"}
      BY <1>1, <2>5, MainFields
      DEF RowCompleted, ConcludeInv, Reported, ReportPc, MainSound
    <3>2. main[w].job = queue_items[r].item
      BY <2>5 DEF RowCompleted, SavedInv, ThreadBooks, ThreadBook, FreePc
    <3> QED BY <1>1, <1>2, <2>1, <2>5, <3>1, <3>2
            DEF RowCompleted, StatusOnly, RowConcluded, ClaimOwned
  <2>6. CASE RowRecovered(r)
    BY <2>1, <2>6, QueueAssumption
    DEF RowRecovered, ClaimOwned, RowConcluded, AwaitsAcknowledgement
  <2>7. CASE RowCancelled(r)
    BY <1>1, <1>2, <2>1, <2>7
    DEF RowCancelled, StatusOnly, RowConcluded, ClaimOwned, FenceConcluded
  <2> QED BY <1>4, <2>2, <2>3, <2>4, <2>5, <2>6, <2>7, RowMoves DEF RowMove
<1> QED BY <1>3, <1>4

\* A worker process that died stays dead.
LEMMA DeadStays ==
  ASSUME Step, NEW w \in Worker, Dead(w)
  PROVE  Dead(w)'
<1>1. ~MainGoes(w)
  BY DEF Dead, At, MainGoes, MainTurn, TurnBetweenJobs, FreePc
<1>2. main'[w] = main[w] \/ main'[w] = DeadMain
  BY <1>1 DEF Step, SomebodyGoes, MainGoes, DocGoes, ApiGoes, TimeGoes, Dies
<1> QED BY <1>2 DEF Dead, At, DeadMain, IdleMain

AliveInv == NobodyDied => ConcludeInv

\* The inductive step.
LEMMA AliveInvStep ==
  ASSUME Step, SavedInv, AliveInv
  PROVE  AliveInv'
<1> SUFFICES ASSUME NobodyDied'
             PROVE  ConcludeInv'
  BY DEF AliveInv
<1>1. ConcludeInv
  BY DeadStays DEF NobodyDied, AliveInv
<1>2. /\ \A j \in Job : FenceConcluded(j)'
      /\ \A w \in Worker : Reported(w)'
      /\ \A r \in RowIds' : RowConcluded(r)' /\ ClaimOwned(r)'
  BY <1>1, FenceConcludedStep, ReportedStep, RowConcludedStep DEF ConcludeInv
<1> QED BY <1>2 DEF ConcludeInv

\* The initial state.
LEMMA AliveInvInit ==
  ASSUME Init
  PROVE  ConcludeInv
<1>1. /\ RowIds = {}
      /\ \A j \in Job : job_json[j] = "absent" /\ execution_controls[j].state = "absent"
      /\ \A w \in Worker : main[w].pc = "idle"
  BY DEF Init, InitQ, RowIds, IdleMain, Job
<1> QED BY <1>1 DEF ConcludeInv, FenceConcluded, Reported, ReportPc, MarkedPc, BeginGranted,
           Executing, IsCancelled

\* As long as no worker process dies, whatever was begun, reported or reconciled
\* is over or is going to be.
THEOREM AliveSound == Spec => []AliveInv
<1>1. Init => AliveInv
  BY AliveInvInit DEF AliveInv
<1>2. CallInv /\ FenceInv /\ SavedInv /\ AliveInv /\ [Next]_vars => AliveInv'
  BY StepKinds, AliveInvStep
<1> QED
  BY <1>1, <1>2, CallsSound, FenceSound, SavedSound, PTL DEF Spec

-------------------------------------------------------------------------------
(* When the dust has settled.                                               *)

\* The greatest of finitely many numbers.
LEMMA Greatest ==
  ASSUME NEW n \in Nat, NEW S, S \subseteq 1 .. n, S # {}
  PROVE  \E r \in S : \A q \in S : q <= r
<1> DEFINE T == {n - r : r \in S}
<1>1. \A r \in S : r \in Nat /\ r <= n
  OBVIOUS
<1>2. T \subseteq Nat /\ T # {}
  <2>1. \A y \in T : y \in Nat
    BY <1>1
  <2>2. PICK r : r \in S
    OBVIOUS
  <2>3. n - r \in T
    BY <2>2
  <2> QED BY <2>1, <2>3
<1>3. PICK x \in T : \A y \in T : ~(<<y, x>> \in OpToRel(<, Nat))
  <2> HIDE DEF T
  <2> QED BY <1>2, NatLessThanWellFounded, WFMin, Zenon
<1>4. \A y \in T : x <= y
  <2> SUFFICES ASSUME NEW y \in T
               PROVE  x <= y
    OBVIOUS
  <2>1. x \in Nat /\ y \in Nat
    BY <1>2
  <2>2. ~(y < x)
    BY <1>3, <2>1 DEF OpToRel
  <2> QED BY <2>1, <2>2
<1>5. PICK r \in S : x = n - r
  OBVIOUS
<1>6. \A q \in S : q <= r
  BY <1>1, <1>4, <1>5
<1> QED BY <1>6

\* A job with a row has a newest one.
LEMMA NewestRow ==
  ASSUME RowTypes, NEW j, \E r \in RowIds : queue_items[r].item = j
  PROVE  \E r \in RowIds : queue_items[r].item = j /\ ~HasNewerQueueItem(r)
<1> DEFINE S == {r \in RowIds : queue_items[r].item = j}
<1>1. last_id \in Nat /\ S \subseteq 1 .. last_id /\ S # {}
  BY QueueAssumption DEF RowTypes, RowIds
<1>2. PICK r \in S : \A q \in S : q <= r
  <2> HIDE DEF S
  <2> QED BY <1>1, Greatest
<1>3. ~HasNewerQueueItem(r)
  <2>1. \A q \in RowIds : q \in Nat /\ r \in Nat
    BY <1>1 DEF RowIds
  <2> QED BY <1>2, <2>1 DEF HasNewerQueueItem
<1> QED BY <1>2, <1>3

\* Nobody concludes a settled job any more.
LEMMA SettledIsConcluded ==
  ASSUME CallInv, SavedInv, ConcludeInv, NEW j \in Job, Settled(j)
  PROVE  ~Closing(j) /\ HasStatus(j, Terminal) /\ FenceConcluded(j)
<1>1. ~Closing(j) /\ \A w \in Worker : ~Marking(w, j)
  BY DEF Settled, Closing, Unended, Finishing, Marking, MainExecutes, DocExecutes
<1>2. \E r \in RowIds : queue_items[r].item = j
  BY DEF Settled, SavedInv, ApiBook, BeforePc
<1>3. PICK r \in RowIds : queue_items[r].item = j /\ ~HasNewerQueueItem(r)
  BY <1>2, NewestRow DEF CallInv, RowInv
<1>4. Concluded(j)
  BY <1>3 DEF ConcludeInv, RowConcluded, Settled
<1> QED BY <1>1, <1>4 DEF Concluded, ConcludeInv

\* As long as nobody dies, a settled job is terminal and its fence is released,
\* whatever was cancelled, enqueued again, timed out or recovered.
THEOREM SettledIsTerminalWhileAlive == Spec => [](NobodyDied => SettledIsTerminal)
<1>1. CallInv /\ SavedInv /\ AliveInv => (NobodyDied => SettledIsTerminal)
  BY SettledIsConcluded DEF AliveInv, SettledIsTerminal, FenceConcluded, Closing
<1> QED
  BY <1>1, CallsSound, SavedSound, AliveSound, PTL

\* Then the database and the file agree on whether the job was cancelled.
THEOREM SettledAgreesWhileAlive == Spec => [](NobodyDied => SettledAgrees)
<1>1. ASSUME CallInv, SavedInv, AliveInv, NobodyDied, NEW j \in Job, Settled(j)
      PROVE  execution_controls[j].state = "cancelled" <=> HasStatus(j, {"CANCELLED"})
  BY <1>1, SettledIsConcluded
  DEF AliveInv, FenceConcluded, IsCancelled, SavedInv, CancelSaid, HasStatus
<1>2. CallInv /\ SavedInv /\ AliveInv => (NobodyDied => SettledAgrees)
  BY <1>1 DEF SettledAgrees
<1> QED
  BY <1>2, CallsSound, SavedSound, AliveSound, PTL

-------------------------------------------------------------------------------
(* Which row a worker holds, and which rows of a job follow each other.     *)

ClaimPc == {"load", "begin"} \cup ExecutionPc \cup ReportPc

\* The row of the claim that w works on: still its own, or taken from it.
HoldsRow(w) ==
  LET q == queue_items[main[w].row] IN
  \/ q.status \in {"claimed", "cancelled"} /\ q.claimed_by = w
  \/ q.interrupted

\* A claim is in the hands of its owner, unless the owner died.
ClaimKept(r) ==
  queue_items[r].status = "claimed" =>
    \E w \in Worker : /\ queue_items[r].claimed_by = w
                      /\ Dead(w) \/ (main[w].pc \in ClaimPc /\ main[w].row = r)

\* A row after an unfinished one of its job, or after one that was cancelled in
\* the hands of a worker, was born cancelled.
Follows(q, r) ==
  /\ q < r /\ queue_items[q].item = queue_items[r].item
  /\ \/ Unfinished(q)
     \/ queue_items[q].status = "cancelled" /\ queue_items[q].claimed_by # NoWorker
  => queue_items[r].status = "cancelled" /\ queue_items[r].claimed_by = NoWorker

HoldInv ==
  /\ \A w \in Worker :
       /\ main[w].pc \in ClaimPc => HoldsRow(w)
       /\ main[w].pc = "complete" /\ main[w].mem = "cancelled" => CancelRequested(main[w].job)
  /\ \A r \in RowIds :
       /\ ClaimKept(r)
       /\ queue_items[r].interrupted => queue_items[r].status = "failed"
       /\ queue_items[r].status = "cancelled" => CancelRequested(queue_items[r].item)
  /\ \A q, r \in RowIds : Follows(q, r)

\* A worker enters a claim by claiming a row.
LEMMA IntoClaim ==
  ASSUME Step, NEW w \in Worker, main'[w].pc \in ClaimPc
  PROVE  \/ main[w].pc \in ClaimPc /\ main'[w].row = main[w].row /\ main'[w].job = main[w].job
         \/ /\ main'[w].row \in RowIds
            /\ main'[w].pc = "load"
            /\ queue_items'[main'[w].row].claimed_by = w
            /\ queue_items'[main'[w].row].status = "claimed"
<1>1. CASE main'[w] = main[w]
  BY <1>1
<1>2. CASE MainGoes(w)
  <2>1. CASE main[w].pc = "claim" /\ main'[w].pc = "load" /\ main'[w].row \in RowIds
             /\ ClaimNext(main'[w].row, w)
    BY <2>1 DEF Step, CallInv, RowInv, RowTypes, ClaimNext, Row
  <2>2. CASE TurnBetweenJobs(w, main[w], main'[w])
    BY <2>1, <2>2 DEF TurnBetweenJobs, ClaimPc, ExecutionPc, ReportPc
  <2>3. CASE /\ Keeps(main[w], main'[w])
             /\ QuietTurn(main[w], main'[w]) \/ WorkTurn(w, main[w], main'[w])
    BY <2>3 DEF QuietTurn, WorkTurn, Keeps, ClaimPc, ExecutionPc, ReportPc
  <2> QED BY <1>2, <2>2, <2>3 DEF MainGoes, MainTurn
<1>3. CASE Dies(w)
  BY <1>3 DEF Dies, DeadMain, IdleMain, ClaimPc, ExecutionPc, ReportPc
<1> QED
  BY <1>1, <1>2, <1>3 DEF Step, SomebodyGoes, MainGoes, DocGoes, ApiGoes, TimeGoes, Dies

\* It leaves the claim by completing it, or when it is not its own any more.
LEMMA OutOfClaim ==
  ASSUME Step, NEW w \in Worker, main[w].pc \in ClaimPc
  PROVE  \/ main'[w].pc \in ClaimPc /\ main'[w].row = main[w].row
         \/ Dead(w)'
         \/ /\ main[w].pc = "complete" /\ MainGoes(w)
            /\ \/ CompleteClaim(main[w].row, w, main[w].mem)
               \/ /\ ~OwnedClaim(main[w].row, w) \/ queue_items[main[w].row].interrupted
                  /\ queue_items' = queue_items
<1>1. CASE main'[w] = main[w]
  BY <1>1
<1>2. CASE MainGoes(w)
  <2>2. CASE TurnBetweenJobs(w, main[w], main'[w])
    BY <1>2, <2>2 DEF TurnBetweenJobs, ClaimPc, ExecutionPc, ReportPc, Quiet
  <2>3. CASE /\ Keeps(main[w], main'[w])
             /\ QuietTurn(main[w], main'[w]) \/ WorkTurn(w, main[w], main'[w])
    BY <2>3 DEF QuietTurn, WorkTurn, Keeps, ClaimPc, ExecutionPc, ReportPc
  <2> QED BY <1>2, <2>2, <2>3 DEF MainGoes, MainTurn
<1>3. CASE Dies(w)
  BY <1>3 DEF Dies, DeadMain, IdleMain, Dead, At
<1> QED
  BY <1>1, <1>2, <1>3 DEF Step, SomebodyGoes, MainGoes, DocGoes, ApiGoes, TimeGoes, Dies

\* Each step keeps a worker's hold on its row.
LEMMA HoldsRowStep ==
  ASSUME Step, SavedInv, HoldInv, NEW w \in Worker, main'[w].pc \in ClaimPc
  PROVE  HoldsRow(w)'
<1>1. CASE main'[w].pc = "load" /\ queue_items'[main'[w].row].claimed_by = w
           /\ queue_items'[main'[w].row].status = "claimed"
  BY <1>1 DEF HoldsRow
<1>2. CASE main[w].pc \in ClaimPc /\ main'[w].row = main[w].row
  <2> DEFINE r == main[w].row
  <2>1. r \in RowIds /\ r \in RowIds' /\ HoldsRow(w)
    BY <1>2, MainFields DEF Step, RowsKept, HoldInv, ClaimPc, FreePc, ExecutionPc, ReportPc
  <2>2. CASE queue_items[r].interrupted
    BY <1>2, <2>1, <2>2 DEF Step, RowsKept, HoldsRow
  <2>3. CASE queue_items[r].status \in {"claimed", "cancelled"} /\ queue_items[r].claimed_by = w
             /\ ~queue_items[r].interrupted
    <3>1. CASE SameRow(r) \/ RowRecovered(r) \/ RowCancelled(r)
      BY <1>2, <2>3, <3>1 DEF SameRow, RowRecovered, RowCancelled, StatusOnly, HoldsRow
    <3>2. ASSUME NEW v \in Worker, RowClaimed(r, v) \/ RowAcknowledged(r, v)
          PROVE  FALSE
      BY <2>3, <3>2 DEF RowClaimed, RowAcknowledged, AwaitsAcknowledgement
    <3>3. ASSUME NEW v \in Worker, RowCompleted(r, v)
          PROVE  FALSE
      BY <1>2, <2>3, <3>3 DEF RowCompleted, OwnedClaim, ClaimPc, ExecutionPc, ReportPc
    <3> QED BY <2>1, <3>1, <3>2, <3>3, RowMoves DEF RowMove
  <2> QED BY <2>1, <2>2, <2>3 DEF HoldsRow
<1> QED BY <1>1, <1>2, IntoClaim

\* A row is closed as cancelled only after a request to cancel.
LEMMA CancelledCloses ==
  ASSUME Step, SavedInv, HoldInv, NEW w \in Worker,
         main'[w].pc = "complete", main'[w].mem = "cancelled"
  PROVE  CancelRequested(main[w].job)'
<1>1. /\ CallInv /\ \A j \in Job : ControlKept(j)
      /\ \A j \in Job : IsCancelled(j) => CancelRequested(j)
      /\ main[w].pc \notin FreePc => main[w].job \in Job
  BY MainFields
  DEF Step, CallInv, ControlInv, ControlSound, IsCancelled, CancelRequested, Job
<1>2. CASE main'[w] = main[w]
  BY <1>1, <1>2 DEF HoldInv, ControlKept, CancelRequested, FreePc
<1>3. CASE MainGoes(w)
  <2>1. /\ main[w].pc = "report" /\ main'[w].job = main[w].job
        /\ HasStatus(main[w].job, {"CANCELLED"})
    BY <1>3 DEF MainGoes, MainTurn, TurnBetweenJobs, QuietTurn, WorkTurn, Keeps
  <2>2. IsCancelled(main[w].job)
    BY <1>1, <2>1 DEF SavedInv, CancelSaid, HasStatus, FreePc
  <2> QED BY <1>1, <2>1, <2>2 DEF ControlKept, CancelRequested, FreePc
<1>4. CASE Dies(w)
  BY <1>4 DEF Dies, DeadMain, IdleMain
<1> QED
  BY <1>2, <1>3, <1>4 DEF Step, SomebodyGoes, MainGoes, DocGoes, ApiGoes, TimeGoes, Dies

\* Each step keeps the claims in the hands of their owners.
LEMMA ClaimKeptStep ==
  ASSUME Step, HoldInv, NEW r \in RowIds'
  PROVE  ClaimKept(r)'
<1>1. CASE r \notin RowIds
  BY <1>1, NewRows DEF ClaimKept
<1>2. ASSUME NEW w \in Worker, r \in RowIds, RowClaimed(r, w)
      PROVE  ClaimKept(r)'
  <2>1. main'[w].row = r /\ main'[w].pc \in ClaimPc
    BY <1>2 DEF RowClaimed, ClaimPc
  <2> QED BY <1>2, <2>1 DEF RowClaimed, ClaimKept
<1>3. CASE r \in RowIds /\ SameRow(r) /\ queue_items'[r].status = "claimed"
  <2>1. PICK w \in Worker : /\ queue_items[r].claimed_by = w
                            /\ Dead(w) \/ (main[w].pc \in ClaimPc /\ main[w].row = r)
    BY <1>3 DEF SameRow, HoldInv, ClaimKept
  <2>2. OwnedClaim(r, w) /\ ~queue_items[r].interrupted
    BY <1>3, <2>1 DEF SameRow, OwnedClaim, HoldInv
  <2>3. CASE Dead(w)
    BY <1>3, <2>1, <2>3, DeadStays DEF SameRow, ClaimKept
  <2>4. CASE main[w].pc \in ClaimPc /\ main[w].row = r
    <3>1. ~CompleteClaim(r, w, main[w].mem) \/ main[w].pc # "complete"
      <4>1. queue_items[r] \in Row /\ RowTypes
        BY <1>3 DEF Step, CallInv, RowInv, RowTypes
      <4>2. main[w].pc = "complete" => main[w].mem # "claimed"
        BY MainFields DEF Step, MainSound
      <4> QED BY <1>3, <4>1, <4>2 DEF SameRow, CompleteClaim, Row, RowTypes
    <3>2. Dead(w)' \/ (main'[w].pc \in ClaimPc /\ main'[w].row = r)
      BY <2>2, <2>4, <3>1, OutOfClaim
    <3> QED BY <1>3, <2>1, <3>2 DEF SameRow, ClaimKept
  <2> QED BY <2>1, <2>3, <2>4
<1>4. ASSUME NEW w \in Worker, r \in RowIds, RowAcknowledged(r, w) \/ RowCompleted(r, w)
      PROVE  ClaimKept(r)'
  <2>1. main[w].pc = "complete" => main[w].mem # "claimed"
    BY MainFields DEF Step, MainSound
  <2> QED BY <1>4, <2>1 DEF RowAcknowledged, AwaitsAcknowledgement, RowCompleted, StatusOnly, ClaimKept
<1>5. CASE r \in RowIds /\ (RowRecovered(r) \/ RowCancelled(r))
  BY <1>5 DEF RowRecovered, RowCancelled, StatusOnly, ClaimKept
<1> QED
  BY <1>1, <1>2, <1>3, <1>4, <1>5, RowMoves DEF RowMove, ClaimKept

\* Each step keeps interrupted rows failed and cancelled rows asked for.
LEMMA ClosedRowStep ==
  ASSUME Step, SavedInv, HoldInv, NEW r \in RowIds'
  PROVE  /\ queue_items'[r].interrupted => queue_items'[r].status = "failed"
         /\ queue_items'[r].status = "cancelled" => CancelRequested(queue_items[r].item)'
<1>1. /\ \A j \in Job : ControlKept(j)
      /\ RowTypes /\ RowTypes'
  BY DEF Step, CallInv, RowInv
<1>2. CASE r \notin RowIds
  BY <1>2, NewRows DEF CancelRequested
<1>3. CASE r \in RowIds
  <2>1. /\ queue_items[r].interrupted => queue_items[r].status = "failed"
        /\ queue_items[r].status = "cancelled" => CancelRequested(queue_items[r].item)'
        /\ queue_items[r].item \in Job
    BY <1>1, <1>3 DEF Step, RowsKept, HoldInv, ControlKept, RowTypes, Row, Job, CancelRequested
  <2>2. CASE SameRow(r)
    BY <2>1, <2>2 DEF SameRow, CancelRequested
  <2>3. ASSUME NEW w \in Worker, RowClaimed(r, w) \/ RowAcknowledged(r, w)
        PROVE  /\ queue_items'[r].interrupted => queue_items'[r].status = "failed"
               /\ queue_items'[r].status = "cancelled" => CancelRequested(queue_items[r].item)'
    BY <2>1, <2>3 DEF RowClaimed, RowAcknowledged, AwaitsAcknowledgement
  <2>4. ASSUME NEW w \in Worker, RowCompleted(r, w)
        PROVE  /\ queue_items'[r].interrupted => queue_items'[r].status = "failed"
               /\ queue_items'[r].status = "cancelled" => CancelRequested(queue_items[r].item)'
    <3>1. main[w].job = queue_items[r].item
      BY <2>4 DEF RowCompleted, SavedInv, ThreadBooks, ThreadBook, FreePc
    <3>2. main[w].mem = "cancelled" => CancelRequested(main[w].job)
      BY <2>4 DEF RowCompleted, HoldInv
    <3> QED BY <1>1, <2>1, <2>4, <3>1, <3>2
            DEF RowCompleted, StatusOnly, OwnedClaim, ControlKept, CancelRequested
  <2>5. CASE RowRecovered(r) \/ RowCancelled(r)
    BY <2>1, <2>5 DEF RowRecovered, RowCancelled, StatusOnly, Unfinished, CancelRequested
  <2> QED BY <1>3, <2>2, <2>3, <2>4, <2>5, RowMoves DEF RowMove
<1> QED BY <1>2, <1>3

\* A row is inserted as queued only when nobody asked to cancel its job.
LEMMA QueuedUnasked ==
  ASSUME Step, NEW r \in RowIds', r \notin RowIds, queue_items'[r].status = "queued"
  PROVE  ~CancelRequested(queue_items'[r].item)
<1>1. RowTypes /\ last_id \in Nat /\ CallInv
  BY QueueAssumption DEF Step, CallInv, RowInv, RowTypes
<1>2. last_id' # last_id
  BY DEF RowIds
<1>3. PICK j \in Job : Enqueue(j)
  BY <1>1, <1>2, MainEffects, DocEffects
  DEF Step, SomebodyGoes, ApiGoes, ApiTurn, RequestExecutionCancel, Wrote, TimeGoes, Dies
<1>4. ASSUME NEW status \in {"queued", "cancelled"}, Insert(j, status)
      PROVE  queue_items'[r] = NewRow(j, status)
  BY <1>1, <1>4 DEF Insert, RowIds
<1> QED BY <1>2, <1>3, <1>4 DEF Enqueue, NewRow

\* At most one row is new.
LEMMA OneNewRow ==
  ASSUME Step, NEW q \in RowIds', NEW r \in RowIds', q < r
  PROVE  q \in RowIds
<1>1. last_id \in Nat /\ last_id' \in Nat /\ CallInv
  BY QueueAssumption DEF Step, CallInv, RowInv, RowTypes
<1>2. last_id' = last_id \/ last_id' = last_id + 1
  BY <1>1, MainEffects, DocEffects
  DEF Step, SomebodyGoes, ApiGoes, ApiTurn, Enqueue, Insert, RequestExecutionCancel, Wrote,
      TimeGoes, Dies
<1> QED BY <1>1, <1>2 DEF RowIds

\* Each step keeps the rows of a job in their order.
LEMMA FollowsStep ==
  ASSUME Step, SavedInv, HoldInv, NEW q \in RowIds', NEW r \in RowIds'
  PROVE  Follows(q, r)'
<1> SUFFICES ASSUME q < r, queue_items'[q].item = queue_items'[r].item,
                    \/ Unfinished(q)'
                    \/ queue_items'[q].status = "cancelled" /\ queue_items'[q].claimed_by # NoWorker
             PROVE  queue_items'[r].status = "cancelled" /\ queue_items'[r].claimed_by = NoWorker
  BY DEF Follows
<1>1. q \in RowIds /\ RowMove(q) /\ RowTypes
  BY OneNewRow, RowMoves DEF Step, CallInv, RowInv
<1>2. \/ Unfinished(q)
      \/ queue_items[q].status = "cancelled" /\ queue_items[q].claimed_by # NoWorker
  BY <1>1 DEF RowMove, SameRow, RowClaimed, RowAcknowledged, AwaitsAcknowledgement,
     RowCompleted, OwnedClaim, RowRecovered, RowCancelled, StatusOnly, Unfinished
<1>3. queue_items'[q].item = queue_items[q].item /\ queue_items[q].item \in Job
  BY <1>1 DEF Step, RowsKept, RowTypes, Row, Job
<1>4. CASE r \notin RowIds
  <2>1. /\ queue_items'[r].claimed_by = NoWorker
        /\ \/ \A p \in RowIds : queue_items[p].item = queue_items'[r].item => ~Unfinished(p)
           \/ queue_items'[r].status = "cancelled"
        /\ execution_controls' = execution_controls
        /\ queue_items'[r].status \in {"queued", "cancelled"}
    BY <1>4, NewRows
  <2>2. CASE queue_items'[r].status = "queued"
    <3>1. queue_items[q].status = "cancelled" /\ ~CancelRequested(queue_items[q].item)
      BY <1>1, <1>2, <1>3, <1>4, <2>1, <2>2, QueuedUnasked
    <3> QED BY <1>1, <3>1 DEF HoldInv
  <2> QED BY <2>1, <2>2
<1>5. CASE r \in RowIds
  <2>1. queue_items[r].status = "cancelled" /\ queue_items[r].claimed_by = NoWorker
    BY <1>1, <1>2, <1>3, <1>5 DEF Step, RowsKept, HoldInv, Follows
  <2> QED BY <1>5, <2>1, RowMoves, QueueAssumption
          DEF RowMove, SameRow, RowClaimed, RowAcknowledged, AwaitsAcknowledgement,
              RowCompleted, OwnedClaim, RowRecovered, RowCancelled, StatusOnly, Unfinished
<1> QED BY <1>4, <1>5

\* Each step keeps who holds which row.
LEMMA HoldInvStep ==
  ASSUME Step, SavedInv, HoldInv
  PROVE  HoldInv'
<1>1. \A w \in Worker : main'[w].pc \in ClaimPc => HoldsRow(w)'
  BY HoldsRowStep
<1>2. \A w \in Worker : main'[w].pc = "complete" /\ main'[w].mem = "cancelled"
                          => CancelRequested(main[w].job)'
  BY CancelledCloses
<1>3. \A r \in RowIds' :
        /\ ClaimKept(r)'
        /\ queue_items'[r].interrupted => queue_items'[r].status = "failed"
        /\ queue_items'[r].status = "cancelled" => CancelRequested(queue_items[r].item)'
  BY ClaimKeptStep, ClosedRowStep
<1>4. \A q, r \in RowIds' : Follows(q, r)'
  BY FollowsStep
<1> QED BY <1>1, <1>2, <1>3, <1>4 DEF HoldInv, CancelRequested

\* The initial state.
LEMMA HoldInvInit ==
  ASSUME Init
  PROVE  HoldInv
<1>1. RowIds = {} /\ \A w \in Worker : main[w].pc = "idle"
  BY DEF Init, InitQ, RowIds, IdleMain
<1> QED BY <1>1 DEF HoldInv, ClaimPc, ExecutionPc, ReportPc

\* Who holds which row, whatever happens.
THEOREM HoldSound == Spec => []HoldInv
<1>1. CallInv /\ FenceInv /\ SavedInv /\ HoldInv /\ [Next]_vars => HoldInv'
  BY StepKinds, HoldInvStep
<1> QED
  BY HoldInvInit, <1>1, CallsSound, FenceSound, SavedSound, PTL DEF Spec

-------------------------------------------------------------------------------
(* What depends on the kind of a job.                                       *)

\* The executors of these kinds run in the main thread and never write the file.
MainOnly == {"audit", "change_page"}

KindInv ==
  \A j \in Job :
    /\ Kind[j] # "deliverable" => job_json[j] # "TORN"
    /\ Kind[j] \in MainOnly => \A w \in Worker : ~DocExecutes(w, j)

\* Only an executor of deliverables leaves a file open.
LEMMA NeverTorn ==
  ASSUME Step, KindInv, SavedInv, NEW j \in Job, Kind[j] # "deliverable"
  PROVE  job_json'[j] # "TORN"
<1>1. job_json[j] # "TORN" /\ job_json \in [Job -> Json] /\ CallInv /\ "TORN" \notin JobStatus
  BY DEF KindInv, Step, CallInv, FileTypes, JobStatus, Terminal
<1>2. ASSUME NEW w \in Worker, MainGoes(w)
      PROVE  job_json'[j] # "TORN"
  <2>1. CASE job_json' = job_json \/ main[w].job # j
    BY <1>1, <1>2, <2>1, MainEffects DEF Wrote
  <2>2. CASE main[w].job = j /\ main[w].pc \in ExecutionPc \cup {"reconcileWrite"}
             /\ Wrote(j, main[w].mem)
    <3>1. main[w].mem \in JobStatus
      BY <1>1, <2>2, MainFields DEF StatusPc
    <3> QED BY <1>1, <2>2, <3>1 DEF Wrote
  <2>3. CASE main[w].job = j /\ main[w].pc = "process" /\ job_json' # job_json
    BY <1>2, <2>3 DEF MainGoes, MainTurn, TurnBetweenJobs, QuietTurn, WorkTurn, Quiet, StoreOnly
  <2> QED BY <1>1, <1>2, <2>1, <2>2, <2>3, MainEffects
<1>3. ASSUME NEW w \in Worker, NEW k \in Job, DocGoes(w, k)
      PROVE  job_json'[j] # "TORN"
  <2>1. CASE job_json' = job_json \/ k # j
    BY <1>1, <1>3, <2>1, DocEffects DEF Wrote
  <2>2. CASE k = j /\ Wrote(j, doc'[w][j].mem) /\ doc'[w][j].pc # "none"
    <3>1. doc'[w][j].mem \in JobStatus
      BY <2>2 DEF Step, CallInv, ThreadTypes, DocSound
    <3> QED BY <1>1, <2>2, <3>1 DEF Wrote
  <2>3. CASE k = j /\ Wrote(j, "TORN")
    <3>1. DocTurn(w, j, doc[w][j], doc'[w][j])
      BY <1>3, <2>3 DEF DocGoes
    <3>2. doc[w][j].pc \in {"stageWrite", "finishWrite"} => doc[w][j].mem \in JobStatus
      BY <1>1 DEF CallInv, ThreadTypes, DocSound
    <3> QED BY <1>1, <3>1, <3>2 DEF DocTurn, Wrote, JobStatus, Terminal
  <2> QED BY <1>1, <1>3, <2>1, <2>2, <2>3, DocEffects
<1>4. ASSUME NEW k \in Job, ApiGoes(k)
      PROVE  job_json'[j] # "TORN"
  BY <1>1, <1>4 DEF ApiGoes, ApiTurn, Wrote
<1>5. CASE job_json' = job_json
  BY <1>1, <1>5
<1> QED BY <1>2, <1>3, <1>4, <1>5 DEF Step, SomebodyGoes, TimeGoes, Dies

\* Only calculation books and deliverables get to a document thread.
LEMMA NoDocument ==
  ASSUME Step, KindInv, NEW j \in Job, Kind[j] \in MainOnly, NEW w \in Worker
  PROVE  ~DocExecutes(w, j)'
<1>1. doc[w][j].pc = "none" /\ CallInv
  BY DEF KindInv, DocExecutes, Step
<1>2. ASSUME NEW v \in Worker, MainGoes(v)
      PROVE  doc'[w][j].pc = "none"
  BY <1>1, <1>2, MainDocs DEF MainOnly
<1>3. ASSUME NEW v \in Worker, NEW k \in Job, DocGoes(v, k)
      PROVE  doc'[w][j].pc = "none"
  <2>1. v # w \/ k # j
    BY <1>1, <1>3, DocEffects DEF DocExecutes
  <2> QED BY <1>1, <1>3, <2>1 DEF DocGoes
<1> QED
  BY <1>1, <1>2, <1>3 DEF Step, SomebodyGoes, ApiGoes, TimeGoes, Dies, NoDoc, DocExecutes

\* The initial state.
LEMMA KindInvInit ==
  ASSUME Init
  PROVE  KindInv
BY DEF Init, KindInv, DocExecutes, NoDoc

\* What the kinds of jobs keep from.
THEOREM KindSound == Spec => []KindInv
<1>1. CallInv /\ FenceInv /\ SavedInv /\ KindInv /\ [Next]_vars => KindInv'
  <2> SUFFICES ASSUME CallInv, FenceInv, SavedInv, KindInv, [Next]_vars
               PROVE  KindInv'
    OBVIOUS
  <2>1. Step
    BY StepKinds
  <2>2. \A j \in Job : Kind[j] # "deliverable" => job_json'[j] # "TORN"
    BY <2>1, NeverTorn
  <2>3. \A j \in Job : Kind[j] \in MainOnly => \A w \in Worker : ~DocExecutes(w, j)'
    BY <2>1, NoDocument
  <2> QED BY <2>2, <2>3 DEF KindInv
<1> QED
  BY KindInvInit, <1>1, CallsSound, FenceSound, SavedSound, PTL DEF Spec

-------------------------------------------------------------------------------
(* An interruption has the last word.                                       *)

Stands(j) == HasStatus(j, {"INTERRUPTED", "CANCELLED"})

\* Who sees to it that the interruption of r stands: the worker it was taken
\* from, the one who is marking the job, or nobody needs to.
RowStands(r) ==
  LET j == queue_items[r].item IN
  OnlyInterrupted(r) /\ ~HasNewerQueueItem(r) /\ Kind[j] \in MainOnly =>
    \/ Stands(j)
    \/ \E w \in Worker :
         \/ main[w].row = r /\ main[w].pc \in ClaimPc
         \/ main[w].row = r /\ main[w].pc = "finalize" /\ main[w].mem # "INTERRUPTED"
         \/ Marking(w, j)
StandsInv == NobodyDied => \A r \in RowIds : RowStands(r)

\* Whoever marks a job as interrupted goes on until it is.
LEMMA MarkingEnds ==
  ASSUME Step, NobodyDied', SavedInv, NEW j \in Job, NEW w \in Worker, Marking(w, j)
  PROVE  Marking(w, j)' \/ Stands(j)'
<1>1. job_json \in [Job -> Json] /\ CallInv
  BY DEF Step, CallInv, FileTypes
<1>2. CASE MainGoes(w)
  <2>1. CASE main[w].pc = "reconcileLock"
    BY <1>2, <2>1 DEF Marking, MainGoes, MainTurn, TurnBetweenJobs, QuietTurn, WorkTurn, Keeps
  <2>2. CASE main[w].pc = "reconcileWrite"
    <3>1. Wrote(j, main[w].mem)
      BY <1>2, <2>2 DEF Marking, MainGoes, MainTurn, TurnBetweenJobs, QuietTurn, WorkTurn
    <3>2. main[w].mem \in {"INTERRUPTED", "CANCELLED"}
      BY <2>2 DEF SavedInv, MainMems, MainMem
    <3> QED BY <1>1, <3>1, <3>2 DEF Wrote, HasStatus, Stands
  <2> QED BY <2>1, <2>2 DEF Marking
<1>3. main'[w] = main[w] \/ MainGoes(w)
  BY DEF Step, SomebodyGoes, MainGoes, DocGoes, ApiGoes, TimeGoes, Dies, DeadMain, IdleMain,
         NobodyDied, Dead, At
<1> QED BY <1>2, <1>3 DEF Marking

\* Only an executor overwrites an interruption.
LEMMA StandsUntilSaved ==
  ASSUME Step, SavedInv, KindInv, NEW j \in Job, Kind[j] \in MainOnly, Stands(j), ~Stands(j)'
  PROVE  \E w \in Worker : MainExecutes(w, j) /\ MainGoes(w)
<1>1. job_json \in [Job -> Json] /\ job_json'[j] # job_json[j] /\ CallInv
  BY DEF Step, CallInv, FileTypes, HasStatus, Stands
<1>2. ASSUME NEW w \in Worker, MainGoes(w)
      PROVE  MainExecutes(w, j) /\ MainGoes(w)
  <2>1. main[w].job = j /\ main[w].pc \in ExecutionPc \cup {"reconcileWrite"}
    BY <1>1, <1>2, MainEffects DEF Wrote, ExecutionPc
  <2>2. main[w].pc # "reconcileWrite"
    <3>1. SUFFICES ASSUME main[w].pc = "reconcileWrite"
                   PROVE  FALSE
      OBVIOUS
    <3>2. job_json'[j] = main[w].mem
      BY <1>1, <1>2, <2>1, <3>1, MainEffects DEF Wrote
    <3>3. main[w].mem \in {"INTERRUPTED", "CANCELLED"}
      BY <3>1 DEF SavedInv, MainMems, MainMem
    <3> QED BY <3>2, <3>3 DEF HasStatus, Stands
  <2> QED BY <1>2, <2>1, <2>2 DEF MainExecutes
<1>3. ASSUME NEW w \in Worker, NEW k \in Job, DocGoes(w, k)
      PROVE  FALSE
  <2>1. k = j
    BY <1>1, <1>3, DocEffects DEF Wrote
  <2> QED BY <1>1, <1>3, <2>1, DocEffects DEF KindInv
<1>4. ASSUME NEW k \in Job, ApiGoes(k)
      PROVE  FALSE
  <2>1. CASE api[k] = "none" /\ Wrote(k, "QUEUED")
    <3>1. job_json[k] = "absent"
      BY <2>1 DEF SavedInv, ApiBook
    <3> QED BY <1>1, <2>1, <3>1 DEF Wrote, HasStatus, Stands
  <2>2. CASE Wrote(k, "CANCELLED")
    BY <1>1, <2>2 DEF Wrote, HasStatus, Stands
  <2> QED BY <1>1, <1>4, <2>1, <2>2 DEF ApiGoes, ApiTurn
<1> QED
  BY <1>1, <1>2, <1>3, <1>4 DEF Step, SomebodyGoes, TimeGoes, Dies

\* A late worker overwrites the file only while it holds the interrupted row.
LEMMA LateWorker ==
  ASSUME Step, SavedInv, HoldInv, NEW r \in RowIds, OnlyInterrupted(r), ~HasNewerQueueItem(r),
         NEW w \in Worker, MainExecutes(w, queue_items[r].item)
  PROVE  main[w].row = r /\ main[w].pc \in ClaimPc
<1> DEFINE q == main[w].row
<1>1. /\ main[w].pc \in ClaimPc /\ main[w].pc \notin FreePc
      /\ RowTypes /\ \A p \in RowIds : p \in Nat
  BY DEF MainExecutes, ClaimPc, ExecutionPc, FreePc, Step, CallInv, RowInv, RowIds
<1>2. q \in RowIds /\ queue_items[q].item = queue_items[r].item /\ HoldsRow(w)
  BY <1>1, MainFields DEF Step, SavedInv, ThreadBooks, ThreadBook, MainExecutes, HoldInv
<1>3. CASE queue_items[q].interrupted
  BY <1>1, <1>2, <1>3 DEF OnlyInterrupted
<1>4. CASE queue_items[q].status \in {"claimed", "cancelled"} /\ queue_items[q].claimed_by = w
  <2>1. queue_items[r].status = "failed"
    BY DEF OnlyInterrupted, HoldInv
  <2>2. q < r
    BY <1>1, <1>2, <1>4, <2>1 DEF HasNewerQueueItem
  <2>3. queue_items[r].status = "cancelled"
    BY <1>2, <1>4, <2>2, QueueAssumption DEF HoldInv, Follows, Unfinished
  <2> QED BY <2>1, <2>3
<1> QED BY <1>2, <1>3, <1>4 DEF HoldsRow

\* The late worker finalizes its row again when its claim is refused.
LEMMA ClaimRefused ==
  ASSUME Step, NobodyDied', SavedInv, HoldInv, KindInv,
         NEW r \in RowIds, queue_items[r].interrupted, ~HasNewerQueueItem(r),
         Kind[queue_items[r].item] # "deliverable",
         NEW w \in Worker, main[w].row = r, main[w].pc \in ClaimPc
  PROVE  \/ main'[w].row = r /\ main'[w].pc \in ClaimPc
         \/ /\ main'[w].row = r /\ main'[w].pc = "finalize"
            /\ main'[w].mem = job_json[queue_items[r].item]
            /\ UNCHANGED <<job_json, queue_items>>
<1>1. queue_items[r].status = "failed" /\ main[w].job = queue_items[r].item /\ main[w].job \in Job
  BY MainFields
  DEF HoldInv, SavedInv, ThreadBooks, ThreadBook, ClaimPc, ExecutionPc, ReportPc, FreePc, Step
<1>2. Readable(main[w].job)
  <2>1. api[main[w].job] \notin BeforePc
    BY <1>1 DEF SavedInv, ApiBook
  <2>2. job_json[main[w].job] \notin {"absent", "TORN"}
    BY <1>1, <2>1 DEF SavedInv, ApiBook, KindInv, BeforePc
  <2> QED BY <1>1, <2>2 DEF Readable, Step, CallInv, FileTypes, Json
<1>3. CASE main[w].pc = "complete" /\ MainGoes(w)
  BY <1>1, <1>2, <1>3
  DEF MainGoes, MainTurn, TurnBetweenJobs, QuietTurn, WorkTurn, CompleteClaim, OwnedClaim, Quiet
<1> QED BY <1>3, OutOfClaim DEF NobodyDied

\* Each step keeps an interruption standing, or somebody seeing to it.
LEMMA RowStandsStep ==
  ASSUME Step, NobodyDied', SavedInv, HoldInv, KindInv,
         \A r \in RowIds : RowStands(r),
         NEW r \in RowIds'
  PROVE  RowStands(r)'
<1> SUFFICES ASSUME OnlyInterrupted(r)', ~HasNewerQueueItem(r)',
                    NEW j \in Job, queue_items'[r].item = j, Kind[j] \in MainOnly
             PROVE  \/ Stands(j)'
                    \/ \E w \in Worker :
                         \/ main'[w].row = r /\ main'[w].pc \in ClaimPc
                         \/ main'[w].row = r /\ main'[w].pc = "finalize" /\ main'[w].mem # "INTERRUPTED"
                         \/ Marking(w, j)'
  <2>1. queue_items'[r].item \in Job
    BY DEF Step, CallInv, RowInv, RowTypes, Row, Job
  <2> QED BY <2>1 DEF RowStands, Stands, HasStatus, Marking
<1>1. r \in RowIds /\ RowMove(r) /\ NobodyDied
  BY NewRows, RowMoves, DeadStays DEF OnlyInterrupted, NobodyDied
<1>2. queue_items[r].item = j
  BY <1>1 DEF Step, RowsKept
<1>3. ~HasNewerQueueItem(r)
  BY <1>1, NewerStays
<1>4. CASE ~queue_items[r].interrupted
  <2>1. RowRecovered(r)
    BY <1>1, <1>4 DEF RowMove, SameRow, RowClaimed, RowAcknowledged, RowCompleted, RowCancelled,
       StatusOnly, OnlyInterrupted
  <2>2. PICK w \in Worker : queue_items[r].claimed_by = w /\ main[w].pc \in ClaimPc /\ main[w].row = r
    BY <1>1, <2>1 DEF RowRecovered, HoldInv, ClaimKept, NobodyDied
  <2>3. ~CompleteClaim(r, w, main[w].mem) /\ queue_items' # queue_items
    <3>1. RowTypes /\ queue_items[r] \in Row
      BY <1>1 DEF Step, CallInv, RowInv, RowTypes
    <3> QED BY <1>1, <1>4, <2>1, <3>1 DEF RowRecovered, CompleteClaim, Row, RowTypes
  <2> QED BY <2>2, <2>3, OutOfClaim DEF NobodyDied
<1>5. CASE queue_items[r].interrupted
  <2>1. OnlyInterrupted(r)
    BY <1>1, <1>2, <1>5 DEF OnlyInterrupted, Step, RowsKept
  <2>2. ASSUME NEW w \in Worker, main[w].row = r, main[w].pc \in ClaimPc
        PROVE  \/ Stands(j)'
               \/ main'[w].row = r /\ main'[w].pc \in ClaimPc
               \/ main'[w].row = r /\ main'[w].pc = "finalize" /\ main'[w].mem # "INTERRUPTED"
    BY <1>1, <1>2, <1>3, <1>5, <2>2, ClaimRefused DEF MainOnly, Stands, HasStatus
  <2>3. CASE Stands(j) /\ ~Stands(j)'
    <3>1. PICK w \in Worker : MainExecutes(w, j) /\ MainGoes(w)
      BY <1>2, <2>3, StandsUntilSaved
    <3>2. main[w].row = r /\ main[w].pc \in ClaimPc
      BY <1>1, <1>2, <1>3, <2>1, <3>1, LateWorker
    <3> QED BY <1>2, <2>2, <2>3, <3>2
  <2>4. ASSUME NEW w \in Worker,
               main[w].row = r, main[w].pc = "finalize", main[w].mem # "INTERRUPTED"
        PROVE  \/ main'[w].row = r /\ main'[w].pc = "finalize" /\ main'[w].mem # "INTERRUPTED"
               \/ Marking(w, j)'
    <3>1. main[w].job = j
      BY <1>2, <2>4 DEF SavedInv, ThreadBooks, ThreadBook, FreePc
    <3>2. CASE MainGoes(w)
      BY <2>4, <3>1, <3>2
      DEF MainGoes, MainTurn, TurnBetweenJobs, QuietTurn, WorkTurn, Keeps, Marking
    <3>3. main'[w] = main[w] \/ MainGoes(w)
      BY DEF Step, SomebodyGoes, MainGoes, DocGoes, ApiGoes, TimeGoes, Dies, DeadMain, IdleMain,
             NobodyDied, Dead, At
    <3> QED BY <2>4, <3>2, <3>3
  <2>5. ASSUME NEW w \in Worker, Marking(w, j)
        PROVE  Marking(w, j)' \/ Stands(j)'
    BY <2>5, MarkingEnds
  <2>6. \/ Stands(j)
        \/ \E w \in Worker :
             \/ main[w].row = r /\ main[w].pc \in ClaimPc
             \/ main[w].row = r /\ main[w].pc = "finalize" /\ main[w].mem # "INTERRUPTED"
             \/ Marking(w, j)
    BY <1>1, <1>2, <1>3, <2>1 DEF RowStands
  <2> QED BY <1>2, <2>2, <2>3, <2>4, <2>5, <2>6
<1> QED BY <1>4, <1>5

\* As long as nobody dies, every interruption stands or somebody sees to it.
THEOREM StandsSound == Spec => []StandsInv
<1>1. Init => StandsInv
  BY DEF Init, InitQ, RowIds, StandsInv
<1>2. CallInv /\ FenceInv /\ SavedInv /\ HoldInv /\ KindInv /\ StandsInv /\ [Next]_vars => StandsInv'
  <2> SUFFICES ASSUME CallInv, FenceInv, SavedInv, HoldInv, KindInv, StandsInv, [Next]_vars,
                      NobodyDied'
               PROVE  \A r \in RowIds' : RowStands(r)'
    BY DEF StandsInv
  <2>1. Step
    BY StepKinds
  <2>2. NobodyDied
    BY <2>1, DeadStays DEF NobodyDied
  <2> QED BY <2>1, <2>2, RowStandsStep DEF StandsInv
<1> QED
  BY <1>1, <1>2, CallsSound, FenceSound, SavedSound, HoldSound, KindSound, PTL DEF Spec

\* As long as nobody dies, an interruption has the last word on a job whose
\* executor runs in the main thread.
THEOREM InterruptionStandsWhileAlive ==
  ASSUME \A j \in Job : Kind[j] \in MainOnly
  PROVE  Spec => [](NobodyDied => InterruptionStands)
<1>1. ASSUME CallInv, SavedInv, StandsInv, NobodyDied,
             NEW j \in Job, NEW r \in RowIds, Settled(j), queue_items[r].item = j,
             OnlyInterrupted(r), ~HasNewerQueueItem(r)
      PROVE  Stands(j)
  <2>1. ASSUME NEW w \in Worker, main[w].row = r, main[w].pc \notin FreePc
        PROVE  main[w].job = j
    BY <1>1, <2>1 DEF SavedInv, ThreadBooks, ThreadBook
  <2>2. \A w \in Worker : main[w].pc \in ClaimPc \cup {"finalize"} => main[w].pc \notin FreePc
    BY DEF ClaimPc, ExecutionPc, ReportPc, FreePc
  <2> QED BY <1>1, <2>1, <2>2 DEF StandsInv, RowStands, Settled, Marking
<1>2. CallInv /\ SavedInv /\ StandsInv => (NobodyDied => InterruptionStands)
  BY <1>1 DEF InterruptionStands, Stands
<1> QED
  BY <1>2, CallsSound, SavedSound, StandsSound, PTL

-------------------------------------------------------------------------------
(* Without stalls and repeated requests: a claim is taken from the dead     *)
(* only, and a job has one row.                                             *)

\* No worker stalls, and nobody asks again for a retry.
Calm == {"stall", "retry"} \cap Disturbances = {}

OwnerDied(r) == \A w \in Worker : queue_items[r].claimed_by = w => Dead(w)
HasRow(w, j) == \E r \in RowIds : queue_items[r].item = j /\ queue_items[r].claimed_by = w

CalmInv ==
  /\ \A q, r \in RowIds : queue_items[q].item = queue_items[r].item => q = r
  /\ \A r \in RowIds :
       /\ Stale(r) \/ queue_items[r].interrupted => OwnerDied(r)
       /\ queue_items[r].status = "queued" => queue_items[r].claimed_by = NoWorker
  /\ \A w \in Worker : main[w].pc \in ClaimPc => queue_items[main[w].row].claimed_by = w
  /\ \A w \in Worker, j \in Job : DocExecutes(w, j) => ~Dead(w) /\ HasRow(w, j)

\* A claim goes stale only if its owner died.
LEMMA StaleFrom ==
  ASSUME CallInv, [Next]_vars, Calm, NEW r \in RowIds', Stale(r)'
  PROVE  r \in RowIds /\ (Stale(r) \/ \E w \in Worker : Dead(w) /\ OwnedClaim(r, w))
<1>1. /\ RowTypes /\ queue_items \in [RowIds -> Row] /\ last_id \in Nat
      /\ "stall" \notin Disturbances
  BY QueueAssumption DEF CallInv, RowInv, RowTypes, Calm
<1>2. CASE UNCHANGED <<last_id, queue_items>>
  BY <1>2 DEF RowIds, Stale
<1>3. ASSUME NEW w \in Worker, MainStep(w)
      PROVE  r \in RowIds /\ Stale(r)
  <2>1. MainTurn(w, main[w], main'[w])
    BY <1>3, MainTurns
  <2>2. CASE RecoverStaleClaims
    BY <1>1, <2>2 DEF RecoverStaleClaims, Stale, RowIds, Row
  <2>3. CASE AcknowledgeInterruptedClaim(main[w].row, queue_items[main[w].row].claimed_by)
    BY <1>1, <2>3 DEF AcknowledgeInterruptedClaim, Stale, RowIds, Row
  <2>4. ASSUME NEW q \in RowIds, ClaimNext(q, w)
        PROVE  r \in RowIds /\ Stale(r)
    BY <1>1, <2>4 DEF ClaimNext, Stale, RowIds, Row
  <2>5. CASE CompleteClaim(main[w].row, w, main[w].mem)
    BY <1>1, <2>5 DEF CompleteClaim, OwnedClaim, Stale, RowIds, Row
  <2> QED
    BY <1>2, <2>1, <2>2, <2>3, <2>4, <2>5
    DEF MainTurn, TurnBetweenJobs, WorkTurn, Quiet, StoreOnly, Wrote, BeginExecution,
        FinishExecution, RowIds, Stale
<1>4. ASSUME NEW w \in Worker, DocStep(w)
      PROVE  UNCHANGED <<last_id, queue_items>>
  BY <1>4, DocTurns, DocEffects DEF DocGoes
<1>5. ASSUME NEW j \in Job, ApiStep(j) \/ UserStep(j)
      PROVE  r \in RowIds /\ Stale(r)
  <2>1. CASE Enqueue(j)
    BY <1>1, <2>1 DEF Enqueue, Insert, NewRow, Stale, RowIds, Row
  <2>2. CASE RequestExecutionCancel(j)
    BY <1>1, <2>2 DEF RequestExecutionCancel, RowsCancelled, Stale, RowIds, Row
  <2> QED BY <1>2, <1>5, <2>1, <2>2, ApiTurns DEF ApiTurn, Wrote, RowIds, Stale
<1>6. ASSUME NEW w \in Worker, Heartbeat(w)
      PROVE  r \in RowIds /\ Stale(r)
  BY <1>1, <1>6 DEF Heartbeat, HeartbeatClaim, Stale, RowIds, Row
<1>7. ASSUME NEW q \in RowIds, Expire(q)
      PROVE  r \in RowIds /\ (Stale(r) \/ \E w \in Worker : Dead(w) /\ OwnedClaim(r, w))
  <2>1. PICK w \in Worker : Dead(w) /\ OwnedClaim(q, w)
    BY <1>1, <1>7 DEF Expire
  <2> QED BY <1>1, <1>7, <2>1 DEF Expire, ExpireClaim, Stale, RowIds, Row
<1>8. ASSUME NEW w \in Worker, Crash(w)
      PROVE  UNCHANGED <<last_id, queue_items>>
  BY <1>8 DEF Crash, queueVars
<1> QED
  BY <1>2, <1>3, <1>4, <1>5, <1>6, <1>7, <1>8 DEF Next, vars, queueVars

\* A job is enqueued once.
LEMMA OneRow ==
  ASSUME CallInv, [Next]_vars, Calm, SavedInv, NEW r \in RowIds', r \notin RowIds
  PROVE  /\ \A q \in RowIds : queue_items[q].item # queue_items'[r].item
         /\ queue_items'[r].item \in Job /\ api[queue_items'[r].item] = "created"
<1>1. /\ RowTypes /\ queue_items \in [RowIds -> Row] /\ last_id \in Nat
      /\ "retry" \notin Disturbances
  BY QueueAssumption DEF CallInv, RowInv, RowTypes, Calm
<1>2. last_id' # last_id
  BY DEF RowIds
<1>3. \A w \in Worker : ~MainStep(w) /\ ~DocStep(w)
  BY <1>2, MainTurns, DocTurns, DocEffects, MainEffects DEF MainGoes, DocGoes
<1>4. PICK j \in Job : ApiStep(j) \/ UserStep(j)
  BY <1>2, <1>3
  DEF Next, vars, queueVars, Heartbeat, HeartbeatClaim, Crash, Expire, ExpireClaim
<1>5. api[j] = "created" /\ Enqueue(j)
  BY <1>1, <1>2, <1>4
  DEF ApiStep, UserStep, EnqueueCreated, CancelRequest, CancelLock, CancelWrite, CancelRefresh,
      CreateJob, EnqueueAgain, CancelCheck, RequestExecutionCancel, queueVars
<1>6. queue_items'[r].item = j
  BY <1>1, <1>2, <1>5 DEF Enqueue, Insert, NewRow, RowIds
<1> QED BY <1>5, <1>6 DEF SavedInv, ApiBook, BeforePc

\* A document thread gets a job from the main thread of its worker.
LEMMA DocumentFrom ==
  ASSUME Step, NEW w \in Worker, NEW j \in Job, ~DocExecutes(w, j), DocExecutes(w, j)'
  PROVE  ~Dead(w) /\ main[w].job = j /\ main[w].pc \in {"prepare", "boundary"}
<1>1. CallInv /\ doc[w][j].pc = "none" /\ doc'[w][j].pc # "none"
  BY DEF Step, DocExecutes
<1>2. ASSUME NEW v \in Worker, MainGoes(v)
      PROVE  main[w].job = j /\ main[w].pc \in {"prepare", "boundary"}
  BY <1>1, <1>2, MainDocs
<1>3. ASSUME NEW v \in Worker, NEW k \in Job, DocGoes(v, k)
      PROVE  FALSE
  <2>1. v # w \/ k # j
    BY <1>1, <1>3, DocEffects DEF DocExecutes
  <2> QED BY <1>1, <1>3, <2>1 DEF DocGoes
<1>4. \A v \in Worker : ~Dies(v) \/ v # w
  BY <1>1 DEF Dies, NoDoc
<1> QED
  BY <1>1, <1>2, <1>3, <1>4 DEF Step, SomebodyGoes, ApiGoes, TimeGoes, Dies, Dead, At

\* Each step keeps the rows to their owners.
LEMMA CalmInvStep ==
  ASSUME CallInv, FenceInv, [Next]_vars, Calm, SavedInv, HoldInv, CalmInv
  PROVE  CalmInv'
<1>0. Step
  BY StepKinds
<1>1. ASSUME NEW q \in RowIds', NEW r \in RowIds', queue_items'[q].item = queue_items'[r].item
      PROVE  q = r
  <2>1. CASE q \in RowIds /\ r \in RowIds
    BY <1>0, <1>1, <2>1 DEF Step, RowsKept, CalmInv
  <2>2. CASE q \notin RowIds /\ r \in RowIds
    BY <1>0, <1>1, <2>2, OneRow DEF Step, RowsKept
  <2>3. CASE q \in RowIds /\ r \notin RowIds
    BY <1>0, <1>1, <2>3, OneRow DEF Step, RowsKept
  <2>4. CASE q \notin RowIds /\ r \notin RowIds
    <3>1. ~(q < r) /\ ~(r < q)
      BY <1>0, <2>4, OneNewRow
    <3>2. q \in Nat /\ r \in Nat
      BY DEF RowIds
    <3> QED BY <3>1, <3>2
  <2> QED BY <2>1, <2>2, <2>3, <2>4
<1>2. ASSUME NEW r \in RowIds, NEW w \in Worker, queue_items'[r].claimed_by = w
      PROVE  queue_items[r].claimed_by = w \/ RowClaimed(r, w)
  BY <1>0, <1>2, RowMoves, QueueAssumption
  DEF RowMove, SameRow, RowClaimed, RowAcknowledged, RowCompleted, RowRecovered, RowCancelled,
      StatusOnly
<1>3. ASSUME NEW r \in RowIds', Stale(r)' \/ queue_items'[r].interrupted
      PROVE  OwnerDied(r)'
  <2>1. r \in RowIds
    BY <1>0, <1>3, StaleFrom, NewRows
  <2>2. OwnerDied(r) \/ \E w \in Worker : Dead(w) /\ OwnedClaim(r, w)
    <3>1. CASE Stale(r)'
      BY <3>1, StaleFrom DEF CalmInv
    <3>2. CASE queue_items'[r].interrupted
      <4>1. queue_items[r].interrupted \/ Stale(r)
        BY <1>0, <2>1, <3>2, RowMoves
        DEF RowMove, SameRow, RowClaimed, RowAcknowledged, RowCompleted, RowRecovered,
            RowCancelled, StatusOnly, Stale
      <4> QED BY <2>1, <4>1 DEF CalmInv
    <3> QED BY <1>3, <3>1, <3>2
  <2>3. ASSUME NEW w \in Worker, queue_items'[r].claimed_by = w
        PROVE  Dead(w)'
    <3>1. CASE queue_items[r].claimed_by = w
      BY <1>0, <2>2, <3>1, DeadStays DEF OwnerDied, OwnedClaim
    <3>2. CASE RowClaimed(r, w)
      <4>1. queue_items[r].status = "queued" /\ ~queue_items[r].interrupted /\ ~Stale(r)
        BY <2>1, <3>2 DEF RowClaimed, HoldInv, Stale
      <4> QED BY <1>0, <1>3, <2>1, <3>2, <4>1, StaleFrom DEF RowClaimed, OwnedClaim
    <3> QED BY <1>2, <2>1, <2>3, <3>1, <3>2
  <2> QED BY <2>3 DEF OwnerDied
<1>4. ASSUME NEW r \in RowIds, NEW w \in Worker, queue_items[r].claimed_by = w, ~Dead(w)
      PROVE  queue_items'[r].claimed_by = w
  <2>1. ~queue_items[r].interrupted /\ queue_items[r].status # "queued"
    BY <1>4, QueueAssumption DEF CalmInv, OwnerDied
  <2> QED BY <1>0, <1>4, <2>1, RowMoves
          DEF RowMove, SameRow, RowClaimed, RowAcknowledged, AwaitsAcknowledgement, RowCompleted,
              RowRecovered, RowCancelled, StatusOnly
<1>5. ASSUME NEW r \in RowIds', queue_items'[r].status = "queued"
      PROVE  queue_items'[r].claimed_by = NoWorker
  <2>1. CASE r \in RowIds
    <3>1. \A w \in Worker : main[w].pc = "complete" => main[w].mem \in {"done", "cancelled", "failed"}
      BY <1>0, MainFields DEF Step, MainSound
    <3> QED BY <1>0, <1>5, <2>1, <3>1, RowMoves
            DEF RowMove, SameRow, RowClaimed, RowAcknowledged, AwaitsAcknowledgement, RowCompleted,
                RowRecovered, RowCancelled, StatusOnly, CalmInv
  <2> QED BY <1>0, <2>1, NewRows
<1>6. ASSUME NEW w \in Worker, main'[w].pc \in ClaimPc
      PROVE  queue_items'[main'[w].row].claimed_by = w
  <2>1. CASE main[w].pc \in ClaimPc /\ main'[w].row = main[w].row
    <3>1. main[w].row \in RowIds /\ ~Dead(w)
      BY <1>0, <2>1, MainFields
      DEF Step, ClaimPc, FreePc, ExecutionPc, ReportPc, Dead, At
    <3> QED BY <1>4, <2>1, <3>1 DEF CalmInv
  <2> QED BY <1>0, <1>6, <2>1, IntoClaim
<1>7. ASSUME NEW w \in Worker, NEW j \in Job, DocExecutes(w, j)'
      PROVE  ~Dead(w)' /\ HasRow(w, j)'
  <2>1. ~Dead(w)
    BY <1>0, <1>7, DocumentFrom DEF CalmInv
  <2>2. HasRow(w, j)
    <3>1. CASE DocExecutes(w, j)
      BY <3>1 DEF CalmInv
    <3>2. CASE main[w].job = j /\ main[w].pc \in {"prepare", "boundary"}
      <4>1. main[w].row \in RowIds /\ queue_items[main[w].row].item = j
        BY <1>0, <3>2, MainFields DEF Step, SavedInv, ThreadBooks, ThreadBook, FreePc
      <4> QED BY <3>2, <4>1 DEF CalmInv, ClaimPc, ExecutionPc, HasRow
    <3> QED BY <1>0, <1>7, <3>1, <3>2, DocumentFrom
  <2>3. ~Dead(w)'
    <3>1. ASSUME Dies(w)
          PROVE  FALSE
      BY <1>7, <3>1 DEF Dies, DocExecutes, NoDoc
    <3>2. ASSUME MainGoes(w)
          PROVE  main'[w].pc # "dead"
      BY <2>1, <3>2 DEF MainGoes, MainTurn, TurnBetweenJobs, QuietTurn, WorkTurn
    <3> QED BY <1>0, <2>1, <3>1, <3>2
            DEF Step, SomebodyGoes, MainGoes, DocGoes, ApiGoes, TimeGoes, Dies, Dead, At
  <2>4. PICK r \in RowIds : queue_items[r].item = j /\ queue_items[r].claimed_by = w
    BY <2>2 DEF HasRow
  <2>5. r \in RowIds' /\ queue_items'[r].item = j /\ queue_items'[r].claimed_by = w
    BY <1>0, <1>4, <2>1, <2>4 DEF Step, RowsKept
  <2> QED BY <2>3, <2>5 DEF HasRow
<1> QED BY <1>1, <1>3, <1>5, <1>6, <1>7 DEF CalmInv

\* Without stalls and repeated requests a claim is taken from the dead only.
LEMMA CalmSound ==
  ASSUME Calm
  PROVE  Spec => []CalmInv
<1>1. Init => CalmInv
  BY DEF Init, InitQ, RowIds, IdleMain, NoDoc, CalmInv, ClaimPc, ExecutionPc, ReportPc, DocExecutes
<1>2. CallInv /\ FenceInv /\ SavedInv /\ HoldInv /\ CalmInv /\ [Next]_vars => CalmInv'
  BY CalmInvStep
<1> QED
  BY <1>1, <1>2, CallsSound, FenceSound, SavedSound, HoldSound, PTL DEF Spec

\* Whoever executes a job was not recovered.
LEMMA ExecutedByOwner ==
  ASSUME CallInv, SavedInv, CalmInv, NEW w \in Worker, NEW j \in Job, Executes(w, j)
  PROVE  ~Recovered(j)
<1>1. HasRow(w, j) /\ ~Dead(w)
  <2>1. CASE MainExecutes(w, j)
    <3>1. main[w].pc \in ClaimPc /\ main[w].pc \notin FreePc
      BY <2>1 DEF MainExecutes, ClaimPc, ExecutionPc, FreePc
    <3> QED BY <2>1, <3>1, MainFields
            DEF MainExecutes, CalmInv, SavedInv, ThreadBooks, ThreadBook, HasRow, Dead, At, FreePc
  <2>2. CASE DocExecutes(w, j)
    BY <2>2 DEF CalmInv
  <2> QED BY <2>1, <2>2 DEF Executes
<1> QED BY <1>1 DEF HasRow, CalmInv, OwnerDied, Recovered

\* Without stalls and repeated requests a job that the user saw cancelled stays
\* cancelled, whatever kind of job it is and whoever dies.
THEOREM CancelledSticksWhenCalm ==
  ASSUME Calm
  PROVE  Spec => CancelledSticks
<1>1. ASSUME CallInv, FenceInv, SavedInv, CalmInv, [Next]_vars, NEW j \in Job,
             HasStatus(j, {"CANCELLED"}), ~HasStatus(j, {"CANCELLED"})'
      PROVE  FALSE
  <2>1. Step
    BY <1>1, StepKinds
  <2>2. PICK w \in Worker : Unended(w, j)
    BY <1>1, <2>1, CancelledOverwritten DEF SavedInv
  <2>3. Executes(w, j)
    BY <2>2 DEF Unended, Executes, DocExecutes
  <2>4. Executing(j)
    BY <1>1, <2>2, <2>3, ExecutedByOwner DEF SavedInv, UnendedRuns
  <2> QED BY <1>1, <2>4 DEF SavedInv, CancelSaid, HasStatus, IsCancelled, Executing
<1>2. CallInv /\ FenceInv /\ SavedInv /\ CalmInv /\ [Next]_vars
        => [\A j \in Job : HasStatus(j, {"CANCELLED"}) => HasStatus(j, {"CANCELLED"})']_vars
  BY <1>1
<1> QED
  BY <1>2, CallsSound, FenceSound, SavedSound, CalmSound, PTL DEF Spec, CancelledSticks

-------------------------------------------------------------------------------
(* Without stalls and repeated requests: what is over is over.              *)

\* An execution begins where a main thread begins it.
LEMMA BeginsBy ==
  ASSUME Step, NEW j \in Job, ~Executing(j), Executing(j)'
  PROVE  BeginGranted(j) /\ \E w \in Worker : main[w].pc = "begin" /\ main[w].job = j
<1>1. /\ execution_controls \in [Item -> Control] /\ j \in Item /\ CallInv
      /\ execution_controls'[j] # execution_controls[j]
  BY DEF Step, CallInv, ControlInv, Job, Executing
<1>2. BeginGranted(j)
  BY <1>1 DEF Step, ControlKept, Ended, Executing, BeginGranted, Control, ControlState
<1>3. ASSUME NEW i \in Item, FinishExecution(i) \/ RequestExecutionCancel(i)
      PROVE  FALSE
  BY <1>1, <1>2, <1>3
  DEF FinishExecution, RequestExecutionCancel, ControlAfterFinish, ControlAfterCancel, Executing,
      BeginGranted
<1>4. PICK w \in Worker : MainGoes(w)
  BY <1>1, <1>3, DocEffects
  DEF Step, SomebodyGoes, ApiGoes, ApiTurn, Wrote, Enqueue, TimeGoes, Dies, Job
<1>5. /\ main[w].pc \notin FreePc /\ BeginExecution(main[w].job)
      /\ ~FinishExecution(main[w].job)
  BY <1>1, <1>3, <1>4, MainEffects, MainFields DEF Job
<1>6. main[w].job = j
  BY <1>1, <1>5 DEF BeginExecution
<1>7. main[w].pc = "begin"
  <2>1. execution_controls' # execution_controls
    BY <1>1
  <2>2. ~TurnBetweenJobs(w, main[w], main'[w]) \/ main[w].pc \in FreePc \cup {"complete", "acknowledge"}
    BY DEF TurnBetweenJobs, FreePc
  <2>3. main[w].pc \notin {"complete", "acknowledge"}
    BY <1>4, <2>1
    DEF MainGoes, MainTurn, TurnBetweenJobs, QuietTurn, WorkTurn, Quiet, CompleteClaim,
        AcknowledgeInterruptedClaim, Wrote
  <2>4. ~Quiet
    BY <2>1 DEF Quiet
  <2>5. WorkTurn(w, main[w], main'[w])
    BY <1>4, <1>5, <2>2, <2>3, <2>4 DEF MainGoes, MainTurn
  <2> QED BY <1>5, <2>1, <2>5 DEF WorkTurn, Wrote
<1> QED BY <1>2, <1>6, <1>7

\* A worker works on a claim that nobody took, and that can be begun only as
\* long as nobody cancelled it.
LEMMA HeldRow ==
  ASSUME CallInv, HoldInv, SavedInv, CalmInv, NEW w \in Worker, main[w].pc \in ClaimPc
  PROVE  /\ main[w].row \in RowIds /\ queue_items[main[w].row].item = main[w].job
         /\ queue_items[main[w].row].claimed_by = w
         /\ ~queue_items[main[w].row].interrupted
         /\ BeginGranted(main[w].job) => queue_items[main[w].row].status = "claimed"
<1>1. /\ main[w].row \in RowIds /\ queue_items[main[w].row].item = main[w].job
      /\ main[w].job \in Job /\ ~Dead(w)
  BY MainFields
  DEF SavedInv, ThreadBooks, ThreadBook, ClaimPc, ExecutionPc, ReportPc, FreePc, Dead, At
<1>2. queue_items[main[w].row].claimed_by = w /\ ~queue_items[main[w].row].interrupted
  BY <1>1 DEF CalmInv, OwnerDied
<1>3. CancelRequested(main[w].job) => ~BeginGranted(main[w].job)
  BY <1>1 DEF CallInv, ControlInv, ControlSound, CancelRequested, BeginGranted, Job
<1> QED BY <1>1, <1>2, <1>3 DEF HoldInv, HoldsRow

\* Nobody begins a job whose row is closed or whose worker is past the fence.
LEMMA StaysStopped ==
  ASSUME Step, HoldInv, SavedInv, CalmInv, NEW j \in Job, ~Executing(j),
         NEW r \in RowIds, queue_items[r].item = j,
         \/ queue_items[r].status # "claimed"
         \/ \E w \in Worker : main[w].row = r /\ main[w].pc \in ClaimPc \ {"begin"}
  PROVE  ~Executing(j)'
<1> SUFFICES ASSUME Executing(j)'
             PROVE  FALSE
  OBVIOUS
<1>1. BeginGranted(j) /\ CallInv
  BY BeginsBy DEF Step
<1>2. PICK v \in Worker : main[v].pc = "begin" /\ main[v].job = j
  BY BeginsBy
<1>3. /\ main[v].row \in RowIds /\ queue_items[main[v].row].item = j
      /\ queue_items[main[v].row].claimed_by = v
      /\ queue_items[main[v].row].status = "claimed"
  BY <1>1, <1>2, HeldRow DEF ClaimPc
<1>4. main[v].row = r
  BY <1>3 DEF CalmInv
<1>5. PICK w \in Worker : main[w].row = r /\ main[w].pc \in ClaimPc \ {"begin"}
  BY <1>3, <1>4
<1>6. queue_items[r].claimed_by = w
  BY <1>1, <1>5, HeldRow
<1> QED BY <1>2, <1>3, <1>4, <1>5, <1>6

\* Whoever recovers a job has ended its execution before it marks it.
AckInv ==
  \A w \in Worker :
    main[w].pc \in MarkedPc => queue_items[main[w].row].interrupted /\ ~Executing(main[w].job)

\* Each step keeps the execution of a job ended that is being acknowledged.
LEMMA AckInvStep ==
  ASSUME Step, SavedInv, HoldInv, CalmInv, AckInv, NEW w \in Worker, main'[w].pc \in MarkedPc
  PROVE  queue_items'[main'[w].row].interrupted /\ ~Executing(main[w].job)'
<1>1. CallInv /\ \A v \in Worker : main[v].pc \notin FreePc =>
        main[v].row \in RowIds /\ queue_items[main[v].row].item = main[v].job /\ main[v].job \in Job
  BY MainFields DEF Step, SavedInv, ThreadBooks, ThreadBook
<1>2. ASSUME main[w].pc \in MarkedPc, main'[w].row = main[w].row, main'[w].job = main[w].job
      PROVE  queue_items'[main'[w].row].interrupted /\ ~Executing(main[w].job)'
  <2>1. /\ main[w].row \in RowIds /\ queue_items[main[w].row].item = main[w].job
        /\ main[w].job \in Job /\ queue_items[main[w].row].interrupted
        /\ ~Executing(main[w].job)
    BY <1>1, <1>2 DEF AckInv, MarkedPc, FreePc
  <2>2. ASSUME NEW j \in Job, main[w].job = j
        PROVE  ~Executing(j)'
    BY <2>1, <2>2, StaysStopped DEF HoldInv
  <2> QED BY <1>2, <2>1, <2>2 DEF Step, RowsKept, Executing
<1>3. CASE main[w].pc = "finalize" /\ MainGoes(w)
  <2>1. /\ main'[w].row = main[w].row /\ main'[w].job = main[w].job
        /\ FinishExecution(main[w].job)
    BY <1>3 DEF MainGoes, MainTurn, TurnBetweenJobs, QuietTurn, WorkTurn, Keeps
  <2>2. queue_items[main[w].row].interrupted
    BY <1>3 DEF SavedInv, ThreadBooks, ThreadBook, RecoveryPc
  <2>3. ~Executing(main[w].job)'
    BY <1>1, <1>3, <2>1
    DEF FreePc, FinishExecution, ControlAfterFinish, Executing, CallInv, ControlInv, Control, Job
  <2> QED BY <1>1, <1>3, <2>1, <2>2, <2>3 DEF Step, RowsKept, FreePc
<1>4. CASE MainGoes(w) /\ main[w].pc \notin MarkedPc \cup {"finalize"}
  <2>1. \/ main[w].pc = "reconcile" /\ main'[w].row \in RowIds /\ HasNewerQueueItem(main'[w].row)
        \/ main[w].pc = "complete" /\ queue_items[main[w].row].interrupted
    BY <1>1, <1>4, MainFields
    DEF MainGoes, MainTurn, TurnBetweenJobs, QuietTurn, WorkTurn, MarkedPc
  <2>2. ~HasNewerQueueItem(main'[w].row) \/ main'[w].row \notin RowIds
    <3>1. \A q \in RowIds : q \in Nat
      BY DEF RowIds
    <3> QED BY <3>1 DEF HasNewerQueueItem, CalmInv
  <2> QED BY <1>1, <2>1, <2>2, HeldRow DEF ClaimPc, ReportPc
<1>5. CASE MainGoes(w) /\ main[w].pc \in MarkedPc
  <2>1. main'[w].row = main[w].row /\ main'[w].job = main[w].job
    BY <1>5 DEF MainGoes, MainTurn, TurnBetweenJobs, QuietTurn, WorkTurn, MarkedPc, Keeps
  <2> QED BY <1>2, <1>5, <2>1
<1>6. CASE Dies(w)
  BY <1>6 DEF Dies, DeadMain, IdleMain, MarkedPc
<1> QED
  BY <1>2, <1>3, <1>4, <1>5, <1>6 DEF Step, SomebodyGoes, MainGoes, DocGoes, ApiGoes, TimeGoes, Dies

\* Recovery ends an execution before it marks the job.
LEMMA AckSound ==
  ASSUME Calm
  PROVE  Spec => []AckInv
<1>1. Init => AckInv
  BY DEF Init, IdleMain, AckInv, MarkedPc
<1>2. CallInv /\ FenceInv /\ SavedInv /\ HoldInv /\ CalmInv /\ AckInv /\ [Next]_vars => AckInv'
  <2> SUFFICES ASSUME CallInv, FenceInv, SavedInv, HoldInv, CalmInv, AckInv, [Next]_vars,
                      NEW w \in Worker, main'[w].pc \in MarkedPc
               PROVE  queue_items'[main'[w].row].interrupted /\ ~Executing(main[w].job)'
    BY DEF AckInv, Executing
  <2> QED BY StepKinds, AckInvStep
<1> QED
  BY <1>1, <1>2, CallsSound, FenceSound, SavedSound, HoldSound, CalmSound, PTL DEF Spec

\* Without stalls and repeated requests an acknowledged interruption is one
\* whose execution has been ended.
THEOREM AcknowledgedWhenCalm ==
  ASSUME Calm
  PROVE  Spec => AcknowledgedWasReconciled
<1>1. ASSUME CallInv, FenceInv, SavedInv, AckInv, [Next]_vars, NEW r \in RowIds,
             AwaitsAcknowledgement(r), ~AwaitsAcknowledgement(r)'
      PROVE  ~Executing(queue_items[r].item)
  <2>1. PICK w \in Worker : RowAcknowledged(r, w)
    BY <1>1, StepKinds, RowMoves
    DEF RowMove, SameRow, RowClaimed, RowCompleted, OwnedClaim, RowRecovered, RowCancelled,
        Unfinished, AwaitsAcknowledgement
  <2>2. main[w].job = queue_items[r].item
    BY <1>1, <2>1 DEF RowAcknowledged, SavedInv, ThreadBooks, ThreadBook, FreePc
  <2> QED BY <1>1, <2>1, <2>2 DEF RowAcknowledged, AckInv, MarkedPc
<1>2. CallInv /\ FenceInv /\ SavedInv /\ AckInv /\ [Next]_vars
        => [\A r \in RowIds :
              AwaitsAcknowledgement(r) /\ ~AwaitsAcknowledgement(r)'
                => ~Executing(queue_items[r].item)]_vars
  BY <1>1
<1> QED
  BY <1>2, CallsSound, FenceSound, SavedSound, AckSound, PTL DEF Spec, AcknowledgedWasReconciled

\* A job that was enqueued has a readable file, unless an executor left it torn.
LEMMA EnqueuedReadable ==
  ASSUME CallInv, SavedInv, KindInv, NEW j \in Job, Kind[j] # "deliverable",
         NEW r \in RowIds, queue_items[r].item = j
  PROVE  Readable(j)
<1>1. api[j] \notin BeforePc
  BY DEF SavedInv, ApiBook
<1>2. job_json[j] \notin {"absent", "TORN"}
  BY <1>1 DEF SavedInv, ApiBook, KindInv, BeforePc
<1> QED BY <1>2 DEF Readable, CallInv, FileTypes, Json

\* A worker that reports a job as over, or has, with the wait not given up.
Reports(w) == main[w].pc = "report" \/ (main[w].pc = "complete" /\ main[w].mem # "failed")
DoneInv ==
  /\ \A w \in Worker : Reports(w) => ~Executing(main[w].job)
  /\ RowDoneMeansStopped

\* No executor leaves a torn file behind.
NoDeliverable == \A j \in Job : Kind[j] # "deliverable"

\* Each step keeps the execution ended that a worker reports.
LEMMA ReportsStep ==
  ASSUME Step, SavedInv, HoldInv, KindInv, CalmInv, DoneInv, NoDeliverable,
         NEW w \in Worker, Reports(w)'
  PROVE  ~Executing(main[w].job)' /\ main'[w].job = main[w].job
<1>1. CallInv
  BY DEF Step
<1>2. CASE Reports(w) /\ main'[w] = main[w]
  <2>1. main[w].pc \in ClaimPc \ {"begin"} /\ main[w].pc \notin FreePc
    BY <1>2 DEF Reports, ClaimPc, ReportPc, FreePc
  <2>2. main[w].job \in Job /\ main[w].row \in RowIds /\ queue_items[main[w].row].item = main[w].job
    BY <1>1, <2>1, MainFields DEF SavedInv, ThreadBooks, ThreadBook
  <2>3. ~Executing(main[w].job)
    BY <1>2 DEF DoneInv
  <2>4. ASSUME NEW j \in Job, j = main[w].job
        PROVE  ~Executing(j)'
    BY <2>1, <2>2, <2>3, <2>4, StaysStopped
  <2> QED BY <1>2, <2>2, <2>4 DEF Executing
<1>3. CASE MainGoes(w)
  <2>1. /\ main[w].pc \in {"check", "wait", "report"} /\ main'[w].job = main[w].job /\ Quiet
        /\ main[w].pc = "report" \/ ~Readable(main[w].job) \/ ~Executing(main[w].job)
    BY <1>3 DEF MainGoes, MainTurn, TurnBetweenJobs, QuietTurn, WorkTurn, Keeps, Reports
  <2>2. Readable(main[w].job)
    <3>1. main[w].pc \notin FreePc
      BY <2>1 DEF FreePc
    <3> QED BY <1>1, <3>1, MainFields, EnqueuedReadable
            DEF SavedInv, ThreadBooks, ThreadBook, NoDeliverable
  <2>3. ~Executing(main[w].job)
    BY <2>1, <2>2 DEF DoneInv, Reports
  <2> QED BY <2>1, <2>3 DEF Quiet, Executing
<1>4. CASE Dies(w)
  BY <1>4 DEF Dies, DeadMain, IdleMain, Reports
<1> QED
  BY <1>2, <1>3, <1>4 DEF Step, SomebodyGoes, MainGoes, DocGoes, ApiGoes, TimeGoes, Dies, Reports

\* Each step keeps the execution ended whose row is closed.
LEMMA RowDoneStep ==
  ASSUME Step, SavedInv, HoldInv, CalmInv, DoneInv, NEW r \in RowIds',
         queue_items'[r].status \in {"done", "cancelled"}, queue_items'[r].claimed_by # NoWorker
  PROVE  ~Executing(queue_items[r].item)' /\ queue_items'[r].item = queue_items[r].item
<1>1. r \in RowIds /\ queue_items'[r].item = queue_items[r].item /\ queue_items[r].item \in Job
  BY NewRows DEF Step, RowsKept, CallInv, RowInv, RowTypes, Row, Job
<1>2. CASE SameRow(r)
  <2>1. ~Executing(queue_items[r].item) /\ queue_items[r].status # "claimed"
    BY <1>1, <1>2 DEF SameRow, DoneInv, RowDoneMeansStopped
  <2>2. ASSUME NEW j \in Job, j = queue_items[r].item
        PROVE  ~Executing(j)'
    BY <1>1, <2>1, <2>2, StaysStopped
  <2> QED BY <1>1, <2>2 DEF Executing
<1>3. ASSUME NEW w \in Worker, RowCompleted(r, w)
      PROVE  ~Executing(queue_items[r].item)'
  <2>1. Reports(w) /\ main[w].job = queue_items[r].item
    BY <1>3 DEF RowCompleted, StatusOnly, Reports, SavedInv, ThreadBooks, ThreadBook, FreePc
  <2>2. ~Executing(queue_items[r].item) /\ main[w].row = r /\ main[w].pc \in ClaimPc \ {"begin"}
    BY <1>3, <2>1 DEF RowCompleted, DoneInv, ClaimPc, ReportPc
  <2>3. ASSUME NEW j \in Job, j = queue_items[r].item
        PROVE  ~Executing(j)'
    BY <1>1, <2>2, <2>3, StaysStopped
  <2> QED BY <1>1, <2>3 DEF Executing
<1>4. CASE RowCancelled(r)
  BY <1>1, <1>4 DEF RowCancelled, IsCancelled, Executing
<1>5. ASSUME NEW w \in Worker, RowClaimed(r, w) \/ RowAcknowledged(r, w)
      PROVE  FALSE
  BY <1>5 DEF RowClaimed, RowAcknowledged
<1>6. ~RowRecovered(r)
  BY DEF RowRecovered
<1> QED BY <1>1, <1>2, <1>3, <1>4, <1>5, <1>6, RowMoves DEF RowMove

\* Without stalls and repeated requests, and with files that are replaced as a
\* whole, a completed claim is one whose execution is over: the wait may be given
\* up, and any worker may die at any time.
THEOREM RowDoneMeansStoppedWhenCalm ==
  ASSUME Calm, NoDeliverable
  PROVE  Spec => []RowDoneMeansStopped
<1>1. Init => DoneInv
  BY DEF Init, InitQ, RowIds, IdleMain, DoneInv, Reports, RowDoneMeansStopped
<1>2. CallInv /\ FenceInv /\ SavedInv /\ HoldInv /\ KindInv /\ CalmInv /\ DoneInv /\ [Next]_vars
        => DoneInv'
  <2> SUFFICES ASSUME CallInv, FenceInv, SavedInv, HoldInv, KindInv, CalmInv, DoneInv, [Next]_vars
               PROVE  DoneInv'
    OBVIOUS
  <2>1. Step
    BY StepKinds
  <2>2. \A w \in Worker : Reports(w)' => ~Executing(main[w].job)' /\ main'[w].job = main[w].job
    BY <2>1, ReportsStep
  <2>3. \A r \in RowIds' :
          queue_items'[r].status \in {"done", "cancelled"} /\ queue_items'[r].claimed_by # NoWorker
            => ~Executing(queue_items[r].item)' /\ queue_items'[r].item = queue_items[r].item
    BY <2>1, RowDoneStep
  <2> QED BY <2>2, <2>3 DEF DoneInv, RowDoneMeansStopped, Executing
<1>3. DoneInv => RowDoneMeansStopped
  BY DEF DoneInv
<1> QED
  BY <1>1, <1>2, <1>3, CallsSound, FenceSound, SavedSound, HoldSound, KindSound, CalmSound, PTL
  DEF Spec

-------------------------------------------------------------------------------
(* Then, if nobody gives up a wait, a settled job is over, crashes or not.  *)

\* A job that is over stays over when its executors are gone.
LEMMA TerminalLasts ==
  ASSUME Step, SavedInv, CalmInv, NEW j \in Job, HasStatus(j, Terminal),
         ~Executing(j) \/ Recovered(j)
  PROVE  HasStatus(j, Terminal)'
<1> SUFFICES ASSUME ~HasStatus(j, Terminal)'
             PROVE  FALSE
  OBVIOUS
<1>1. PICK w \in Worker : Unended(w, j)
  BY OpenWrites DEF SavedInv, Unended
<1>2. Executes(w, j)
  BY <1>1 DEF Unended, Executes, DocExecutes
<1>3. ~Recovered(j)
  BY <1>2, ExecutedByOwner DEF Step
<1> QED BY <1>1, <1>3 DEF SavedInv, UnendedRuns

\* Only a timeout leaves a wait for the end of the claim.
LEMMA NoTimeout ==
  ASSUME CallInv, [Next]_vars, "timeout" \notin Disturbances,
         NEW w \in Worker, main[w].pc = "wait"
  PROVE  main'[w].pc # "complete"
<1>1. main \in [Worker -> Main]
  BY DEF CallInv, ThreadTypes
<1>2. ASSUME NEW v \in Worker, MainStep(v), v # w
      PROVE  main'[w].pc # "complete"
  BY <1>2, MainTurns
<1>3. CASE MainStep(w)
  <2>1. Wait(w)
    BY <1>3 DEF MainStep, RunOnce, ReconcileNext, Finalize, LockForUpdate, WriteAndUnlock,
       RefreshAfter, Acknowledge, ReconcileDone, Claim, LoadJob, Begin, Prepare, Process,
       ProcessWritten, Boundary, FinishJob, Check, Report, CompleteOwned, CompleteRejected, At
  <2> QED BY <1>1, <2>1 DEF Wait, Goto, Main
<1>4. ASSUME NEW v \in Worker, DocStep(v)
      PROVE  main' = main
  BY <1>4, DocTurns
<1>5. ASSUME NEW j \in Job, ApiStep(j) \/ UserStep(j)
      PROVE  main' = main
  BY <1>5, ApiTurns
<1>6. ASSUME NEW v \in Worker, Crash(v)
      PROVE  main'[w].pc # "complete"
  BY <1>1, <1>6 DEF Crash, DeadMain, IdleMain
<1> QED
  BY <1>2, <1>3, <1>4, <1>5, <1>6 DEF Next, vars, Heartbeat, Expire

\* A row is cancelled by its worker, or by a request that goes on to the file.
LEMMA CancelledBy ==
  ASSUME Step, NEW r \in RowIds, RowCancelled(r)
  PROVE  \/ \E w \in Worker : RowCompleted(r, w)
         \/ api'[queue_items[r].item] = "cancelLock"
<1>1. /\ RowTypes /\ queue_items[r] \in Row /\ CallInv /\ queue_items[r].item \in Job
      /\ queue_items' # queue_items
      /\ queue_items[r].status \in {"queued", "claimed"} /\ queue_items'[r].status = "cancelled"
  BY DEF Step, CallInv, RowInv, RowTypes, Row, Job, RowCancelled, StatusOnly, Unfinished
<1>2. ASSUME NEW w \in Worker, MainGoes(w)
      PROVE  RowCompleted(r, w)
  <2>1. ~RecoverStaleClaims
    BY <1>1 DEF RecoverStaleClaims, Row
  <2>2. ~AcknowledgeInterruptedClaim(main[w].row, queue_items[main[w].row].claimed_by)
    BY <1>1 DEF AcknowledgeInterruptedClaim, Row, RowTypes
  <2>3. \A q \in RowIds : ~ClaimNext(q, w)
    BY <1>1 DEF ClaimNext, Row, RowTypes
  <2>4. CompleteClaim(main[w].row, w, main[w].mem) /\ main[w].pc = "complete" /\ main'[w].pc = "idle"
    BY <1>1, <1>2, <2>1, <2>2, <2>3
    DEF MainGoes, MainTurn, TurnBetweenJobs, WorkTurn, Quiet, StoreOnly, Wrote,
        BeginExecution, FinishExecution
  <2>5. main[w].row = r
    BY <1>1, <2>4 DEF CompleteClaim, RowTypes
  <2> QED BY <1>1, <2>4, <2>5 DEF CompleteClaim, RowCompleted, RowCancelled, StatusOnly
<1>3. ASSUME NEW j \in Job, ApiGoes(j)
      PROVE  api'[queue_items[r].item] = "cancelLock"
  <2>1. ~Enqueue(j)
    BY <1>1 DEF Enqueue, Insert, RowIds, RowTypes
  <2>2. RequestExecutionCancel(j) /\ ~Quiet
    BY <1>1, <1>3, <2>1 DEF ApiGoes, ApiTurn, Wrote, Quiet
  <2>3. queue_items[r].item = j
    BY <1>1, <2>2 DEF RequestExecutionCancel, RowsCancelled
  <2>4. execution_controls'[j].state = "cancelled"
    BY <2>3 DEF RowCancelled, StatusOnly, IsCancelled
  <2> QED BY <1>1, <1>3, <2>1, <2>3, <2>4 DEF ApiGoes, ApiTurn, Wrote
<1> QED
  BY <1>1, <1>2, <1>3, DocEffects DEF Step, SomebodyGoes, TimeGoes, SameRow, Dies

\* Whoever reports a job, has reported it or has marked it left it over.
OverAlready(w) ==
  /\ main[w].pc \in {"report", "complete"} =>
       ~Executing(main[w].job) /\ HasStatus(main[w].job, Terminal)
  /\ \/ main[w].pc \in {"refresh", "acknowledge"}
     \/ main[w].pc = "finalize" /\ main[w].mem = "INTERRUPTED"
     => HasStatus(main[w].job, Terminal)
\* A closed row belongs to a job that is over, or is about to be cancelled.
OverBy(r) ==
  LET j == queue_items[r].item IN
  ~Unfinished(r) /\ ~AwaitsAcknowledgement(r) =>
    ~Executing(j) /\ (HasStatus(j, Terminal) \/ api[j] \in {"cancelLock", "cancelWrite"})

OverInv == (\A w \in Worker : OverAlready(w)) /\ \A r \in RowIds : OverBy(r)

\* Each step keeps the job over that a worker reports or has marked.
LEMMA OverAlreadyStep ==
  ASSUME Step, SavedInv, HoldInv, KindInv, CalmInv, AckInv, OverInv, NoDeliverable,
         NEW w \in Worker, main[w].pc = "wait" => main'[w].pc # "complete"
  PROVE  OverAlready(w)'
<1>1. /\ CallInv /\ job_json \in [Job -> Json] /\ OverAlready(w)
      /\ main[w].pc \notin FreePc =>
           /\ main[w].job \in Job /\ main[w].row \in RowIds
           /\ queue_items[main[w].row].item = main[w].job
  BY MainFields DEF Step, CallInv, FileTypes, SavedInv, ThreadBooks, ThreadBook, OverInv
<1>2. CASE main'[w] = main[w]
  <2>1. ASSUME NEW j \in Job, main[w].job = j, main[w].pc \in {"report", "complete"}
        PROVE  ~Executing(j)' /\ HasStatus(j, Terminal)'
    <3>1. main[w].pc \in ClaimPc \ {"begin"} /\ main[w].pc \notin FreePc
      BY <2>1 DEF ClaimPc, ReportPc, FreePc
    <3>2. ~Executing(j)'
      BY <1>1, <2>1, <3>1, StaysStopped DEF OverAlready
    <3> QED BY <1>1, <2>1, <3>2, TerminalLasts DEF OverAlready
  <2>2. ASSUME NEW j \in Job, main[w].job = j,
               main[w].pc \in {"refresh", "acknowledge", "finalize"}, HasStatus(j, Terminal)
        PROVE  HasStatus(j, Terminal)'
    <3>1. ~Executing(j) \/ Recovered(j)
      <4>1. CASE main[w].pc \in MarkedPc
        BY <2>2, <4>1 DEF AckInv
      <4>2. CASE main[w].pc = "finalize"
        BY <1>1, <2>2, <4>2 DEF SavedInv, ThreadBooks, ThreadBook, RecoveryPc, FreePc, Recovered
      <4> QED BY <2>2, <4>1, <4>2 DEF MarkedPc
    <3> QED BY <2>2, <3>1, TerminalLasts
  <2> QED BY <1>1, <1>2, <2>1, <2>2 DEF OverAlready, Executing, HasStatus, FreePc
<1>3. CASE MainGoes(w)
  <2>1. CASE main'[w].pc \in {"report", "complete"}
    <3>1. /\ main[w].pc \in {"check", "wait", "report"} /\ main'[w].job = main[w].job /\ Quiet
          /\ \/ main[w].pc = "report"
             \/ ~Readable(main[w].job)
             \/ HasStatus(main[w].job, Terminal) /\ ~Executing(main[w].job)
      BY <1>3, <2>1 DEF MainGoes, MainTurn, TurnBetweenJobs, QuietTurn, WorkTurn, Keeps
    <3>2. Readable(main[w].job)
      BY <1>1, <3>1, EnqueuedReadable DEF FreePc, NoDeliverable
    <3> QED BY <1>1, <2>1, <3>1, <3>2 DEF OverAlready, Quiet, Executing, HasStatus
  <2>2. CASE main'[w].pc \in {"refresh", "acknowledge", "finalize"}
    <3>1. \/ /\ main[w].pc = "reconcile" /\ main'[w].row \in RowIds
             /\ HasNewerQueueItem(main'[w].row)
          \/ /\ main'[w].pc = "finalize" /\ main'[w].mem = job_json[main'[w].job] /\ Quiet
          \/ main[w].pc = "complete" /\ queue_items[main[w].row].interrupted
          \/ /\ main[w].pc = "reconcileWrite" /\ main'[w].pc = "refresh"
             /\ main'[w].job = main[w].job /\ Wrote(main[w].job, main[w].mem)
          \/ /\ main[w].pc \in {"refresh", "finalize"} /\ main'[w].job = main[w].job
             /\ main[w].pc = "finalize" => main[w].mem = "INTERRUPTED"
             /\ job_json' = job_json
      BY <1>1, <1>3, <2>2, MainFields
      DEF MainGoes, MainTurn, TurnBetweenJobs, QuietTurn, WorkTurn, Keeps, Quiet, StoreOnly
    <3>2. ~HasNewerQueueItem(main'[w].row) \/ main'[w].row \notin RowIds
      <4>1. \A q \in RowIds : q \in Nat
        BY DEF RowIds
      <4> QED BY <4>1 DEF HasNewerQueueItem, CalmInv
    <3>3. ~(main[w].pc = "complete" /\ queue_items[main[w].row].interrupted)
      BY <1>1, HeldRow DEF ClaimPc, ReportPc
    <3>4. CASE main'[w].pc = "finalize" /\ main'[w].mem = job_json[main'[w].job] /\ Quiet
      BY <3>4 DEF OverAlready, HasStatus, Terminal, Quiet
    <3>5. CASE /\ main[w].pc = "reconcileWrite" /\ main'[w].pc = "refresh"
               /\ main'[w].job = main[w].job /\ Wrote(main[w].job, main[w].mem)
      <4>1. main[w].mem \in Terminal
        BY <3>5 DEF SavedInv, MainMems, MainMem, Terminal
      <4>2. main[w].job \in Job
        BY <1>1, <3>5 DEF FreePc
      <4> QED BY <1>1, <3>5, <4>1, <4>2 DEF OverAlready, HasStatus, Wrote
    <3>6. CASE /\ main[w].pc \in {"refresh", "finalize"} /\ main'[w].job = main[w].job
               /\ main[w].pc = "finalize" => main[w].mem = "INTERRUPTED"
               /\ job_json' = job_json
      BY <1>1, <2>2, <3>6 DEF OverAlready, HasStatus
    <3> QED BY <3>1, <3>2, <3>3, <3>4, <3>5, <3>6
  <2> QED BY <2>1, <2>2 DEF OverAlready
<1>4. CASE Dies(w)
  BY <1>4 DEF Dies, DeadMain, IdleMain, OverAlready
<1> QED
  BY <1>2, <1>3, <1>4 DEF Step, SomebodyGoes, MainGoes, DocGoes, ApiGoes, TimeGoes, Dies

\* Each step keeps the job of a closed row over.
LEMMA OverByStep ==
  ASSUME Step, SavedInv, HoldInv, CalmInv, AckInv, OverInv, NEW r \in RowIds
  PROVE  OverBy(r)'
<1>1. /\ CallInv /\ queue_items[r].item \in Job /\ queue_items'[r].item = queue_items[r].item
      /\ api \in [Job -> ApiPc]
  BY DEF Step, RowsKept, CallInv, RowInv, RowTypes, Row, Job, FileTypes
<1>2. PICK j \in Job : queue_items[r].item = j
  BY <1>1
<1>3. ASSUME HasStatus(j, Terminal), ~Executing(j),
             \/ queue_items[r].status # "claimed"
             \/ \E w \in Worker : main[w].row = r /\ main[w].pc \in ClaimPc \ {"begin"}
      PROVE  OverBy(r)'
  BY <1>1, <1>2, <1>3, StaysStopped, TerminalLasts DEF OverBy, Executing, HasStatus
<1>4. CASE ~Unfinished(r) /\ ~AwaitsAcknowledgement(r)
  <2>1. /\ ~Executing(j)
        /\ HasStatus(j, Terminal) \/ api[j] \in {"cancelLock", "cancelWrite"}
        /\ queue_items[r].status # "claimed"
    BY <1>2, <1>4 DEF OverInv, OverBy, Unfinished
  <2>2. ~Executing(j)'
    BY <1>2, <1>4, <2>1, StaysStopped DEF OverInv, OverBy
  <2>3. \/ HasStatus(j, Terminal)'
        \/ api'[j] \in {"cancelLock", "cancelWrite"}
    BY <1>2, <1>4, <2>1, TerminalLasts, CancellingEnds DEF OverInv, OverBy, HasStatus, Terminal
  <2> QED BY <1>1, <1>2, <2>2, <2>3 DEF OverBy, Executing, HasStatus
<1>5. ASSUME NEW w \in Worker, RowCompleted(r, w)
      PROVE  OverBy(r)'
  <2>1. main[w].job = j /\ main[w].row = r /\ main[w].pc = "complete"
    BY <1>2, <1>5 DEF RowCompleted, SavedInv, ThreadBooks, ThreadBook, FreePc
  <2> QED BY <1>3, <2>1 DEF OverInv, OverAlready, ClaimPc, ReportPc
<1>6. ASSUME NEW w \in Worker, RowAcknowledged(r, w)
      PROVE  OverBy(r)'
  <2>1. main[w].job = j /\ main[w].pc = "acknowledge" /\ queue_items[r].status = "failed"
    BY <1>2, <1>6
    DEF RowAcknowledged, AwaitsAcknowledgement, SavedInv, ThreadBooks, ThreadBook, FreePc
  <2> QED BY <1>3, <2>1 DEF OverInv, OverAlready, AckInv, MarkedPc
<1>7. CASE RowCancelled(r) /\ api'[j] = "cancelLock"
  BY <1>1, <1>2, <1>7 DEF RowCancelled, IsCancelled, Executing, OverBy
<1>8. CASE (Unfinished(r) \/ AwaitsAcknowledgement(r)) /\ SameRow(r)
  BY <1>8 DEF SameRow, OverBy, Unfinished, AwaitsAcknowledgement
<1>9. ASSUME NEW w \in Worker, RowClaimed(r, w)
      PROVE  OverBy(r)'
  BY <1>9 DEF RowClaimed, OverBy, Unfinished
<1>10. CASE RowRecovered(r)
  <2>1. queue_items[r].claimed_by # NoWorker
    BY <1>10, QueueAssumption DEF RowRecovered, HoldInv, ClaimKept
  <2> QED BY <1>10, <2>1 DEF RowRecovered, OverBy, AwaitsAcknowledgement
<1> QED
  BY <1>2, <1>4, <1>5, <1>6, <1>7, <1>8, <1>9, <1>10, RowMoves, CancelledBy DEF RowMove

\* The inductive step.
LEMMA OverInvStep ==
  ASSUME CallInv, FenceInv, [Next]_vars, Calm, NoDeliverable, "timeout" \notin Disturbances,
         SavedInv, HoldInv, KindInv, CalmInv, AckInv, OverInv
  PROVE  OverInv'
<1>1. Step
  BY StepKinds
<1>2. \A w \in Worker : OverAlready(w)'
  BY <1>1, NoTimeout, OverAlreadyStep
<1>3. ASSUME NEW r \in RowIds', r \notin RowIds
      PROVE  OverBy(r)'
  <2>1. queue_items'[r].item \in Job /\ api[queue_items'[r].item] = "created"
    BY <1>3, OneRow
  <2>2. ~CancelRequested(queue_items'[r].item)
    BY <2>1 DEF SavedInv, ApiBook, BeforePc, BeginGranted, CallInv, ControlInv, ControlSound,
       CancelRequested, Job
  <2>3. queue_items'[r].status = "queued"
    BY <1>1, <1>3, <2>2, NewRows DEF CancelRequested
  <2> QED BY <2>3 DEF OverBy, Unfinished
<1>4. \A r \in RowIds : OverBy(r)'
  BY <1>1, OverByStep
<1> QED BY <1>2, <1>3, <1>4 DEF OverInv

\* Without stalls, timeouts and repeated requests, and with files that are
\* replaced as a whole, a settled job is terminal and its fence is released: no
\* death of a worker and no cancellation leaves it open.
THEOREM SettledIsTerminalWhenCalm ==
  ASSUME Calm, NoDeliverable, "timeout" \notin Disturbances
  PROVE  Spec => []SettledIsTerminal
<1>1. Init => OverInv
  BY DEF Init, InitQ, RowIds, IdleMain, OverInv, OverAlready
<1>2. CallInv /\ FenceInv /\ SavedInv /\ HoldInv /\ KindInv /\ CalmInv /\ AckInv /\ OverInv
        /\ [Next]_vars => OverInv'
  BY OverInvStep
<1>3. ASSUME SavedInv, OverInv, NEW j \in Job, Settled(j)
      PROVE  ~Executing(j) /\ HasStatus(j, Terminal)
  <2>1. PICK r \in RowIds : queue_items[r].item = j
    BY <1>3 DEF Settled, SavedInv, ApiBook, BeforePc
  <2> QED BY <1>3, <2>1 DEF Settled, OverInv, OverBy
<1>4. SavedInv /\ OverInv => SettledIsTerminal
  BY <1>3 DEF SettledIsTerminal
<1> QED
  BY <1>1, <1>2, <1>4, CallsSound, FenceSound, SavedSound, HoldSound, KindSound, CalmSound,
     AckSound, PTL DEF Spec

-------------------------------------------------------------------------------
(* Without crashes.                                                         *)

\* Nobody dies but by a crash.
THEOREM NobodyDies ==
  ASSUME "crash" \notin Disturbances
  PROVE  Spec => []NobodyDied
<1>1. Init => NobodyDied
  BY DEF Init, IdleMain, NobodyDied, Dead, At
<1>2. ASSUME CallInv, NobodyDied, [Next]_vars, NEW w \in Worker
      PROVE  main'[w].pc # "dead"
  <2>1. main[w].pc # "dead"
    BY <1>2 DEF NobodyDied, Dead, At
  <2>2. ASSUME NEW v \in Worker, MainStep(v)
        PROVE  main'[w].pc # "dead"
    <3>1. CASE v = w
      BY <1>2, <2>2, <3>1, MainTurns DEF MainTurn, TurnBetweenJobs, QuietTurn, WorkTurn
    <3>2. CASE v # w
      BY <1>2, <2>1, <2>2, <3>2, MainTurns
    <3> QED BY <3>1, <3>2
  <2>3. ASSUME NEW v \in Worker, DocStep(v)
        PROVE  main' = main
    BY <1>2, <2>3, DocTurns
  <2>4. ASSUME NEW j \in Job, ApiStep(j) \/ UserStep(j)
        PROVE  main' = main
    BY <1>2, <2>4, ApiTurns
  <2> QED
    BY <1>2, <2>1, <2>2, <2>3, <2>4 DEF Next, vars, Heartbeat, Expire, Crash
<1>3. CallInv /\ NobodyDied /\ [Next]_vars => NobodyDied'
  BY <1>2 DEF NobodyDied, Dead, At
<1> QED
  BY <1>1, <1>3, CallsSound, PTL DEF Spec

\* So, without crashes, a settled job is terminal, and file and database agree.
THEOREM SettledWithoutCrashes ==
  ASSUME "crash" \notin Disturbances
  PROVE  Spec => []SettledIsTerminal /\ []SettledAgrees
BY NobodyDies, SettledIsTerminalWhileAlive, SettledAgreesWhileAlive, PTL

\* And an interruption has the last word on a job of the main thread.
THEOREM InterruptionStandsWithoutCrashes ==
  ASSUME "crash" \notin Disturbances, \A j \in Job : Kind[j] \in MainOnly
  PROVE  Spec => []InterruptionStands
BY NobodyDies, InterruptionStandsWhileAlive, PTL
===============================================================================
