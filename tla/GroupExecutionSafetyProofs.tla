----------------------- MODULE GroupExecutionSafetyProofs -----------------------
(***************************************************************************)
(* What a group and its children owe each other, for any groups, workers,  *)
(* slots and faults: a deliverable is made from a drawing that was         *)
(* replaced, a group succeeds with both its children only, and after a     *)
(* cancellation no child begins.  The second half is about the end: what a *)
(* group leaves in its file, in the database and in the executors when its *)
(* row is closed and nobody has it in hand.                                *)
(***************************************************************************)
EXTENDS GroupExecutionProofs

-------------------------------------------------------------------------------
(* The strengthening of IInv.                                               *)

Stopped(g) == GroupStatus(g) \in {"INTERRUPTED", "CANCELLED"}
Family(g) == {DeliverableOf[g], AuditOf[g]}

\* The children that a loop still has to treat.
Left(todo) == {todo[i] : i \in DOMAIN todo}

\* Where a main thread owns the execution of its group.
OwnPc == EarlyPc \cup {"wait"} \cup BetweenPc \cup {"nextChild", "conclude", "finish", "save"}
Owns(w, g) == main[w].pc \in OwnPc /\ TheGroup(w) = g

\* w executes g, or still runs a child of it.
Engaged(w, g) == Owns(w, g) \/ \E c \in Family(g) : run[w][c].pc # "none"

\* The main thread of w has yet to submit c, or to fail it by name.
Ahead(w, c) ==
  LET g == GroupOf(c) IN
  /\ Owns(w, g)
  /\ \/ main[w].pc \in EarlyPc
     \/ /\ IsDeliverable(c) /\ Saved(g).replacing
        /\ \/ main[w].pc \in BetweenPc \cup {"nextChild"}
           \/ main[w].pc = "wait" /\ main[w].todo = <<AuditOf[g]>>

\* The recovery in w is going to mark c as interrupted.
Marks(w, c) == main[w].pc = "markChild" /\ Head(main[w].todo) = c

\* The main thread: only interrupted rows are reconciled, children only of a
\* group that is stopped on disk, no success is in hand before the end, and only
\* a group that replaces comes to its second child alone.
MainShape(w) ==
  LET m == main[w]
      g == TheGroup(w)
  IN
  /\ \A r \in m.rows : queue_items[r].interrupted
  /\ m.pc \in {"mark", "recoverChild", "markChild"} => queue_items[m.row].interrupted
  /\ m.pc = "mark" => m.mem.value.status \in {"INTERRUPTED", "CANCELLED"}
  /\ m.pc \in {"recoverChild", "markChild"} => Stopped(g)
  /\ m.pc \in {"mark", "recoverChild", "markChild", "children", "wait"}
       => Left(m.todo) \subseteq Family(g)
  /\ m.pc \in WorkPc \ {"finish", "save"} => m.mem.value.status # "SUCCEEDED"
  /\ m.pc \in BetweenPc \cup {"nextChild"} => Saved(g).replacing

\* A cancel request: the group first, then its children.
ApiPassing == {"child", "childSave", "save", "answered"}
ApiShape(g) ==
  LET a == api[g] IN
  a.pc \in ApiPassing =>
    /\ CancelRequested(g)
    /\ Left(a.todo) \subseteq Family(g)
    /\ a.pc = "childSave" => Ended(Head(a.todo))
    /\ a.pc \in {"save", "answered"} => a.todo = <<>>

\* A child in the executors of w: which object its thread has in hand where.
RunShape(w, c) ==
  LET r == run[w][c] IN
  /\ r.pc \in {"stages", "doc", "docRun", "docFinish"} => IsDeliverable(c)
  /\ IsDeliverable(c) /\ r.pc # "docFinish" => r.mem # "SUCCEEDED"
  /\ r.pc \notin {"none", "heavy", "begin"} => Begun(c)
  /\ r.mem = "CANCELLED" => CancelRequested(c)

\* A child is cancelled together with its group.
CancelShape(c) ==
  /\ CancelRequested(c) => CancelRequested(GroupOf(c))
  /\ job_json[c] = "CANCELLED" => CancelRequested(c)

Shape ==
  /\ \A w \in Worker : MainShape(w)
  /\ \A g \in Group : ApiShape(g)
  /\ \A w \in Worker, c \in Child : RunShape(w, c)
  /\ \A c \in Child : CancelShape(c)

\* One worker executes a group, and it submits a child once.
HasRun(c) == execution_controls[c].state \in {"running", "completed"}
Alone ==
  /\ \A w \in Worker, g \in Group : Engaged(w, g) => Begun(g)
  /\ \A w, x \in Worker, g \in Group : Engaged(w, g) /\ Engaged(x, g) => w = x
  /\ \A w \in Worker, c \in Child : Ahead(w, c) => Unsubmitted(w, c)

\* Where a thread is past begin_execution, before finish_execution.
InHandPc ==
  {"acquire", "process", "stages", "update", "boundary", "finish", "doc", "docRun", "docFinish"}

\* Where the thread of a child is whose file may say SUCCEEDED.
DonePc(c) ==
  IF IsDeliverable(c) THEN {"none", "release", "docFinish"}
  ELSE {"none", "boundary", "finish", "release"}

\* A success on disk was written by the execution of c, which has not been ended
\* behind its back, unless the group is stopped.
FileSafe(c) ==
  /\ job_json[c] = "SUCCEEDED" =>
       /\ HasRun(c) \/ (IsDeliverable(c) /\ Stopped(GroupOf(c)))
       /\ Begun(GroupOf(c))
       /\ \A w \in Worker :
            /\ ~Ahead(w, c)
            /\ run[w][c].pc \in DonePc(c)
            /\ run[w][c].pc \in {"boundary", "finish"} => run[w][c].mem = "SUCCEEDED"
  /\ \A w \in Worker :
       run[w][c].pc \in InHandPc => Executing(c) \/ Stopped(GroupOf(c))

\* A success that nobody can take back.
Firm(c) ==
  /\ job_json[c] = "SUCCEEDED"
  /\ execution_controls[c].state = "completed"
  /\ \A w \in Worker : run[w][c].pc \in {"none", "release"} /\ ~Marks(w, c)

\* The main thread of w has waited for c, and nothing has failed so far.
Awaited(w, c) ==
  LET m == main[w]
      g == GroupOf(c)
  IN
  /\ Owns(w, g)
  /\ \/ /\ m.pc = "wait" /\ ~m.failed
        /\ c \notin Left(m.todo)
        /\ Saved(g).replacing => ~IsDeliverable(c)
     \/ m.pc = "conclude" /\ ~m.failed
     \/ m.pc = "finish" /\ m.mem.value.status = "SUCCEEDED"

\* What the main thread of w concludes from is firm, unless the group was stopped
\* or cancelled in the meantime, which it will find out.
MainConcludes(w, g) ==
  LET m == main[w] IN
  /\ \A c \in Family(g) : Awaited(w, c) => Firm(c) \/ CancelRequested(g) \/ Stopped(g)
  /\ Owns(w, g) /\ m.pc = "save" /\ m.mem.value.status = "SUCCEEDED" =>
       Stopped(g) \/ \A c \in Family(g) : Firm(c)
  /\ Owns(w, g) /\ Saved(g).replacing =>
       /\ m.pc \in {"prepareNext", "nextSave"} => Firm(AuditOf[g]) \/ Stopped(g)
       /\ m.pc = "next" => Firm(AuditOf[g])

GroupSafe(g) ==
  /\ \A w \in Worker :
       /\ MainConcludes(w, g)
       /\ Saved(g).replacing /\ run[w][DeliverableOf[g]].pc \in {"heavy", "begin"}
            => Firm(AuditOf[g])
  /\ GroupStatus(g) = "SUCCEEDED" => \A c \in Family(g) : Firm(c)

\* c cannot begin any more, or its group was recovered.
Excluded(c) ==
  /\ Begun(GroupOf(c))
  /\ \A w \in Worker : ~Ahead(w, c) /\ Unsubmitted(w, c)
Barred(c) == Begun(c) \/ Excluded(c) \/ Recovered(GroupOf(c))

BarSafe ==
  /\ \A c \in Child : job_json[c] \in Terminal => Barred(c)
  /\ \A g \in Group : api[g].pc \in ApiPassing =>
       \A c \in Family(g) : c \in Left(api[g].todo) \/ Barred(c)

SInv ==
  /\ IInv /\ Shape /\ Alone
  /\ \A c \in Child : FileSafe(c)
  /\ \A g \in Group : GroupSafe(g)
  /\ BarSafe
-------------------------------------------------------------------------------
(* What no step takes back.                                                 *)

Steady ==
  /\ \A r \in RowIds :
       /\ r \in RowIds'
       /\ queue_items'[r].item = queue_items[r].item
       /\ queue_items[r].interrupted => queue_items'[r].interrupted
  /\ \A i \in Item :
       /\ Begun(i) => Begun(i)'
       /\ Ended(i) => Ended(i)'
       /\ CancelRequested(i) => CancelRequested(i)'
       /\ HasRun(i) => HasRun(i)' \/ Ended(i)'
  /\ \A g \in Group :
       /\ Stopped(g) => Stopped(g)'
       /\ Saved(g)'.replacing = Saved(g).replacing
       /\ Recovered(g) => Recovered(g)'

\* A row that was recovered stays so.
LEMMA InterruptedStays ==
  ASSUME RowTypes, [NextQ]_queueVars, NEW r \in RowIds, r \in RowIds',
         queue_items[r].interrupted
  PROVE  queue_items'[r].interrupted
<1>1. queue_items \in [RowIds -> Row]
  BY DEF RowTypes
<1>2. CASE UNCHANGED queue_items
  BY <1>2
<1>3. CASE \E i \in Item : RequestExecutionCancel(i)
  BY <1>1, <1>3 DEF RequestExecutionCancel, RowsCancelled, Row
<1>4. CASE \E i \in Item : Enqueue(i)
  <2>1. UNCHANGED queue_items \/ \E i \in Item, status \in RowStatus : Insert(i, status)
    BY <1>4 DEF Enqueue, RowStatus
  <2> QED BY <1>2, <2>1, InsertedRow
<1>5. CASE \E i \in Item, w \in Worker : HeartbeatClaim(w, i)
  BY <1>1, <1>5 DEF HeartbeatClaim, Row
<1>6. CASE \E q \in RowIds, w \in Worker :
             ClaimNext(q, w) \/ AcknowledgeInterruptedClaim(q, w)
  BY <1>1, <1>6 DEF ClaimNext, AcknowledgeInterruptedClaim, Row
<1>7. CASE \E q \in RowIds, w \in Worker :
             \E status \in {"done", "failed", "cancelled"} : CompleteClaim(q, w, status)
  BY <1>1, <1>7 DEF CompleteClaim, Row
<1>8. CASE \E q \in RowIds : ExpireClaim(q)
  BY <1>1, <1>8 DEF ExpireClaim, Row
<1>9. CASE RecoverStaleClaims
  BY <1>1, <1>9 DEF RecoverStaleClaims, Row
<1> QED BY <1>2, <1>3, <1>4, <1>5, <1>6, <1>7, <1>8, <1>9
        DEF NextQ, queueVars, BeginExecution, FinishExecution

\* No control goes back.
LEMMA ControlsAdvance ==
  ASSUME ControlInv, ControlStep, NEW i \in Item
  PROVE  /\ Begun(i) => Begun(i)'
         /\ Ended(i) => Ended(i)'
         /\ CancelRequested(i) => CancelRequested(i)'
         /\ HasRun(i) => HasRun(i)' \/ Ended(i)'
<1> DEFINE Goal ==
      /\ Begun(i) => Begun(i)'
      /\ Ended(i) => Ended(i)'
      /\ CancelRequested(i) => CancelRequested(i)'
      /\ HasRun(i) => HasRun(i)' \/ Ended(i)'
<1> USE DEF Begun, Ended, CancelRequested, HasRun
<1>1. /\ execution_controls[i] \in Control /\ ControlSound(execution_controls[i])
      /\ execution_controls \in [Item -> Control]
  BY DEF ControlInv
<1>2. CASE UNCHANGED execution_controls
  BY <1>2
<1>3. ASSUME NEW j \in Item, execution_controls[j].state = "absent",
             execution_controls' = [execution_controls EXCEPT ![j].state = "running"]
      PROVE  Goal
  BY <1>1, <1>3 DEF Control
<1>4. ASSUME NEW j \in Item,
             execution_controls' =
               [execution_controls EXCEPT ![j] = ControlAfterCancel(execution_controls[j])]
      PROVE  Goal
  BY <1>1, <1>4 DEF Control, ControlAfterCancel
<1>5. ASSUME NEW j \in Item,
             execution_controls' =
               [execution_controls EXCEPT ![j] = ControlAfterFinish(execution_controls[j])]
      PROVE  Goal
  BY <1>1, <1>5 DEF Control, ControlAfterFinish, ControlSound
<1> QED BY <1>2, <1>3, <1>4, <1>5 DEF ControlStep

LEMMA SteadyStep ==
  ASSUME IInv, [Next]_vars
  PROVE  Steady
<1>1. CallInv /\ FollowInv /\ RowTypes /\ ControlInv
  BY DEF IInv, CallInv, RowInv
<1>2. [NextQ]_queueVars /\ QueueStays /\ DiskStep
  BY <1>1, CallInvStep, FollowInvStep
<1>3. \A r \in RowIds :
        /\ r \in RowIds'
        /\ queue_items'[r].item = queue_items[r].item
        /\ queue_items[r].interrupted => queue_items'[r].interrupted
  BY <1>1, <1>2, InterruptedStays DEF QueueStays
<1>4. \A i \in Item :
        /\ Begun(i) => Begun(i)'
        /\ Ended(i) => Ended(i)'
        /\ CancelRequested(i) => CancelRequested(i)'
        /\ HasRun(i) => HasRun(i)' \/ Ended(i)'
  BY <1>1, <1>2, NextIsControlStep, ControlsAdvance
<1>5. \A g \in Group : Stopped(g) => Stopped(g)'
  BY <1>2 DEF DiskStep, Stopped, GroupStatus, Saved
<1>6. \A g \in Group : Saved(g)'.replacing = Saved(g).replacing
  BY <1>2 DEF DiskStep, Saved
<1>7. \A g \in Group : Recovered(g) => Recovered(g)'
  BY <1>3 DEF Recovered
<1> QED BY <1>3, <1>4, <1>5, <1>6, <1>7 DEF Steady

\* The group of a main thread that is at work.
LEMMA GroupInHand ==
  ASSUME IInv, Steady, NEW w \in Worker, main[w].pc \notin RestPc
  PROVE  /\ TheGroup(w) \in Group
         /\ main[w].row \in RowIds
         /\ main'[w].row = main[w].row => TheGroup(w)' = TheGroup(w)
BY MainFields DEF IInv, Steady, TheGroup
-------------------------------------------------------------------------------
(* The steps of a main thread, by what they do to its record.               *)

\* The thread is left without a group, or comes to one that it does not own yet.
RestTurn(w) ==
  LET m == main[w]
      n == main'[w]
  IN
  /\ n.pc \in RestPc \cup {"load", "begin", "acknowledge", "complete"}
  /\ n.pc = "begin" => n.mem.value.status = "QUEUED"
  /\ \A r \in n.rows : r \in m.rows \/ (r \in RowIds' /\ queue_items'[r].interrupted)

\* Recovery: the group is marked before its children, and a child only when its
\* file says that it is not over.
RecoveryTurn(w) ==
  LET m == main[w]
      n == main'[w]
  IN
  /\ n.rows \subseteq m.rows
  /\ \/ /\ m.pc = "recover" /\ n.pc \in {"mark", "recoverChild"}
        /\ n.row \in m.rows
        /\ n.todo = Children(queue_items[n.row].item)
        /\ n.pc = "mark" => n.mem.value.status \in {"INTERRUPTED", "CANCELLED"}
        /\ n.pc = "recoverChild" => GroupStatus(queue_items[n.row].item) = "INTERRUPTED"
     \/ /\ m.pc = "mark" /\ n.pc = "recoverChild"
        /\ n.row = m.row /\ n.todo = m.todo
        /\ GroupStatus(TheGroup(w))' = m.mem.value.status
     \/ /\ m.pc = "recoverChild" /\ n.pc = "markChild"
        /\ n.row = m.row /\ n.todo = m.todo /\ m.todo # <<>>
        /\ job_json[Head(m.todo)] \notin Terminal
     \/ /\ m.pc \in {"recoverChild", "markChild"} /\ n.pc = "recoverChild"
        /\ n.row = m.row /\ n.todo = Tail(m.todo) /\ m.todo # <<>>

\* The wait for a child is over.
WaitTurn(w) ==
  LET m == main[w]
      n == main'[w]
      g == TheGroup(w)
      c == Head(m.todo)
      first == Saved(g).replacing /\ ~IsDeliverable(c)
  IN
  /\ m.pc = "wait" /\ m.todo # <<>>
  /\ job_json[c] \in Terminal /\ ~Executing(c)
  /\ n.todo = Tail(m.todo)
  /\ n.mem = m.mem
  /\ ~n.failed => ~m.failed /\ job_json[c] \notin {"FAILED", "INTERRUPTED"}
  /\ \/ first /\ n.pc = "finish"
     \/ first /\ n.pc = "nextChild"
     \/ first /\ n.pc = "prepareNext" /\ job_json[c] = "SUCCEEDED"
     \/ ~first /\ n.pc = "conclude" /\ n.todo = <<>>
     \/ ~first /\ n.pc = "wait" /\ n.todo # <<>>

\* Inside _process_group.
OwnTurn(w) ==
  LET m == main[w]
      n == main'[w]
      g == TheGroup(w)
      a == m.mem.value.status
      b == n.mem.value.status
  IN
  /\ n.row = m.row /\ n.rows \subseteq m.rows
  /\ \/ m.pc = "begin" /\ n.pc = "start" /\ ~Begun(g) /\ b = a
     \/ /\ m.pc \in EarlyPc /\ n.pc \in EarlyPc
        /\ \/ n.todo = Children(g)
           \/ n.todo = m.todo /\ n.pc # "children"
           \/ m.pc = "children" /\ m.todo # <<>> /\ n.todo = Tail(m.todo)
        /\ b \in {a, "RUNNING"}
     \/ /\ m.pc = "progress" /\ n.pc = "wait"
        /\ n.todo = FirstBatch(g) /\ b = "RUNNING"
     \/ WaitTurn(w)
     \/ m.pc = "prepareNext" /\ n.pc = "nextSave" /\ n.mem = m.mem
     \/ m.pc = "nextSave" /\ n.pc = "next" /\ Current(g, m.mem) /\ b = "RUNNING"
     \/ m.pc = "next" /\ n.pc = "wait" /\ n.todo = <<DeliverableOf[g]>> /\ b = a
     \/ m.pc = "nextChild" /\ n.pc = "conclude" /\ n.failed /\ b = a
     \/ /\ m.pc = "conclude" /\ n.pc = "finish"
        /\ b = "SUCCEEDED" => ~m.failed /\ ~CancelRequested(g)
     \/ m.pc \in OwnPc \ {"save"} /\ n.pc = "finish" /\ b \in {a, "FAILED"} /\ m.pc # "finish"
     \/ /\ m.pc = "finish" /\ n.pc = "save"
        /\ b = "SUCCEEDED" => a = "SUCCEEDED" /\ ~CancelRequested(g)

MainTurn(w) == RestTurn(w) \/ RecoveryTurn(w) \/ OwnTurn(w)

LEMMA RestTurns ==
  ASSUME IInv, NEW w \in Worker,
         \/ RunOnce(w) \/ MarkConflicts(w) \/ Acknowledge(w) \/ Claim(w) \/ Load(w)
         \/ SaveOutcome(w) \/ Complete(w) \/ Crash(w)
  PROVE  RestTurn(w)
<1>1. main \in [Worker -> Main] /\ main[w] \in Main
  BY DEF IInv, CallInv, ThreadTypes
<1> USE DEF RestPc
<1>2. CASE RunOnce(w)
  <2>1. /\ main'[w].pc = "recover"
        /\ main'[w].rows = {r \in RowIds : AwaitsAcknowledgement(r)'}
    BY <1>1, <1>2 DEF RunOnce, Main
  <2>2. RowIds' = RowIds
    BY <1>2 DEF RunOnce, RecoverStaleClaims, RowIds
  <2> QED BY <2>1, <2>2 DEF RestTurn, AwaitsAcknowledgement
<1>3. ASSUME main'[w] = Reconciled(w)
      PROVE  RestTurn(w)
  <2>1. main'[w].pc \in {"idle", "recover"} /\ main'[w].rows \subseteq main[w].rows
    BY <1>3 DEF Reconciled, Idle
  <2> QED BY <2>1 DEF RestTurn
<1>4. CASE MarkConflicts(w) \/ Acknowledge(w)
  BY <1>1, <1>3, <1>4 DEF MarkConflicts, Acknowledge
<1>5. CASE Claim(w) \/ SaveOutcome(w)
  <2>1. /\ main'[w].pc \in {"idle", "load", "complete"}
        /\ main'[w].rows \subseteq main[w].rows
    BY <1>1, <1>5 DEF Claim, SaveOutcome, Goto, Idle, Main
  <2> QED BY <2>1 DEF RestTurn
<1>6. CASE Load(w)
  <2>1. /\ main'[w].pc \in {"begin", "complete"} /\ main'[w].rows = main[w].rows
        /\ main'[w].pc = "begin" =>
             /\ main'[w].mem = group_json[TheGroup(w)]
             /\ GroupStatus(TheGroup(w)) = "QUEUED"
    BY <1>1, <1>6 DEF Load, Main
  <2> QED BY <2>1 DEF RestTurn, GroupStatus, Saved
<1>7. CASE Complete(w)
  <2>1. CASE main'[w] = Idle
    BY <2>1 DEF RestTurn, Idle
  <2>2. CASE main'[w] # Idle
    <3>1. /\ main'[w] = [Idle EXCEPT !.pc = "recover", !.rows = {main[w].row}, !.late = TRUE]
          /\ queue_items[main[w].row].interrupted /\ UNCHANGED queueVars
      BY <1>1, <1>7, <2>2 DEF Complete
    <3>2. main[w].row \in RowIds
      BY <1>7, MainFields DEF IInv, Complete, At
    <3> QED BY <3>1, <3>2 DEF RestTurn, Idle, queueVars, RowIds
  <2> QED BY <2>1, <2>2
<1>8. CASE Crash(w)
  <2>1. main'[w].pc = "dead" /\ main'[w].rows = {}
    BY <1>1, <1>8 DEF Crash, Idle
  <2> QED BY <2>1 DEF RestTurn
<1> QED BY <1>2, <1>4, <1>5, <1>6, <1>7, <1>8

LEMMA RecoveryTurns ==
  ASSUME IInv, NEW w \in Worker,
         \/ (\E r \in RowIds : RecoverGroup(w, r))
         \/ MarkGroup(w) \/ RecoverChild(w) \/ MarkChild(w)
  PROVE  RestTurn(w) \/ RecoveryTurn(w)
<1>1. main \in [Worker -> Main] /\ main[w] \in Main
  BY DEF IInv, CallInv, ThreadTypes
<1>2. ASSUME NEW r \in RowIds, RecoverGroup(w, r)
      PROVE  RecoveryTurn(w)
  <2> DEFINE g == queue_items[r].item
             status == FinishedStatus(g, "INTERRUPTED")
  <2>1. /\ main[w].pc = "recover" /\ r \in main[w].rows
        /\ main'[w].pc = IF GroupStatus(g) = "INTERRUPTED" THEN "recoverChild" ELSE "mark"
        /\ main'[w].row = r /\ main'[w].rows \subseteq main[w].rows
        /\ main'[w].todo = Children(g)
        /\ main'[w].mem = [group_json[g] EXCEPT !.value.status = status]
    BY <1>1, <1>2 DEF RecoverGroup, At, Main
  <2>2. group_json[g] \in Live
    BY GroupFields DEF IInv, CallInv
  <2>3. main'[w].mem.value.status = status
    BY <2>1, <2>2 DEF Live, GroupValue
  <2>4. status \in {"INTERRUPTED", "CANCELLED"}
    BY DEF FinishedStatus
  <2> QED BY <2>1, <2>3, <2>4 DEF RecoveryTurn
<1>3. CASE MarkGroup(w)
  <2>1. /\ main[w].pc = "mark" /\ main'[w].pc = "recoverChild"
        /\ main'[w].row = main[w].row /\ main'[w].todo = main[w].todo
        /\ main'[w].rows = main[w].rows
    BY <1>1, <1>3 DEF MarkGroup, Goto, At, Main
  <2>2. /\ main[w].mem \in Live /\ main[w].mem.value.status \in Status
        /\ main[w].row \in RowIds
    BY <2>1, MainFields DEF IInv, RestPc
  <2>3. group_json'[TheGroup(w)] =
          [version |-> main[w].mem.version + 1,
           value |-> [main[w].mem.value EXCEPT !.status = main[w].mem.value.status]]
    <3>1. CallInv /\ main[w].pc \in WorkPc \cup {"mark"}
      BY <2>1 DEF IInv
    <3>2. SaveGroup(w, main[w].mem.value.status)
      BY <1>3 DEF MarkGroup
    <3> QED BY <2>2, <3>1, <3>2, SaveFacts
  <2>4. TheGroup(w)' = TheGroup(w)
    BY <1>3, <2>1 DEF MarkGroup, TheGroup, queueVars
  <2>5. GroupStatus(TheGroup(w))' = main[w].mem.value.status
    BY <2>2, <2>3, <2>4 DEF GroupStatus, Saved, Live, GroupValue
  <2> QED BY <2>1, <2>5 DEF RecoveryTurn
<1>4. CASE RecoverChild(w)
  <2>1. /\ main[w].pc = "recoverChild"
        /\ main'[w].row = main[w].row /\ main'[w].rows = main[w].rows
        /\ \/ main'[w].pc = "acknowledge"
           \/ /\ main'[w].pc = "markChild" /\ main[w].todo # <<>>
              /\ main'[w].todo = main[w].todo
              /\ job_json[Head(main[w].todo)] \notin Terminal
           \/ /\ main'[w].pc = "recoverChild" /\ main[w].todo # <<>>
              /\ main'[w].todo = Tail(main[w].todo)
    BY <1>1, <1>4 DEF RecoverChild, Goto, At, Main
  <2> QED BY <2>1 DEF RecoveryTurn, RestTurn
<1>5. CASE MarkChild(w)
  <2>1. main[w].todo # <<>>
    BY <1>5, MainFields DEF IInv, MarkChild, At, MainSound, TodoPc
  <2>2. /\ main[w].pc = "markChild" /\ main'[w].pc = "recoverChild"
        /\ main'[w].row = main[w].row /\ main'[w].rows = main[w].rows
        /\ main'[w].todo = Tail(main[w].todo)
    BY <1>1, <1>5 DEF MarkChild, At, Main
  <2> QED BY <2>1, <2>2 DEF RecoveryTurn
<1> QED BY <1>2, <1>3, <1>4, <1>5
\* The status of the object in hand.
LEMMA StatusInHand ==
  ASSUME IInv, NEW w \in Worker, main[w].pc \in WorkPc
  PROVE  /\ main[w].mem \in Live /\ main[w].mem.value.status \in Status
         /\ \A status \in Status : \A n \in Main :
              n.mem = [main[w].mem EXCEPT !.value.status = status]
                => n.mem.value.status = status
<1>1. main[w].mem \in Live /\ main[w].mem.value.status \in Status
  BY MainFields DEF IInv
<1> QED BY <1>1 DEF Live, GroupValue

\* A failure only changes the status in hand.
LEMMA FailTurn ==
  ASSUME IInv, NEW w \in Worker, main[w].pc \in OwnPc \ {"finish", "save"}, Fail(w)
  PROVE  OwnTurn(w)
<1>1. main \in [Worker -> Main] /\ main[w] \in Main
  BY DEF IInv, CallInv, ThreadTypes
<1>2. main[w].mem \in Live
  BY StatusInHand DEF OwnPc, WorkPc
<1>3. /\ main'[w].pc = "finish" /\ main'[w].row = main[w].row
      /\ main'[w].rows = main[w].rows
      /\ main'[w].mem = [main[w].mem EXCEPT !.value.status = "FAILED"]
  BY <1>1 DEF Fail, Main
<1>4. main'[w].mem.value.status = "FAILED"
  BY <1>2, <1>3 DEF Live, GroupValue
<1> QED BY <1>3, <1>4 DEF OwnTurn

LEMMA SavingTurns ==
  ASSUME IInv, NEW w \in Worker,
         \/ SaveProgress(w, "start", "prepare")
         \/ SaveProgress(w, "shared", "children")
         \/ SaveProgress(w, "nextSave", "next")
         \/ StartChildren(w)
  PROVE  OwnTurn(w)
<1> DEFINE g == TheGroup(w)
<1>1. main \in [Worker -> Main] /\ main[w] \in Main /\ CallInv
  BY DEF IInv, CallInv, ThreadTypes
<1>2. main[w].pc \in {"start", "shared", "nextSave", "progress"}
  BY DEF SaveProgress, StartChildren, At
<1> USE DEF EarlyPc, BetweenPc
<1>3. CASE Fail(w)
  BY <1>2, <1>3, FailTurn DEF OwnPc
<1>4. CASE ~Fail(w)
  <2>1. SaveGroup(w, "RUNNING") /\ Current(g, main[w].mem)
    BY <1>4 DEF SaveProgress, StartChildren, SaveGroup, UpdateGroup
  <2>2. group_json'[g] = [version |-> main[w].mem.version + 1,
                          value |-> [main[w].mem.value EXCEPT !.status = "RUNNING"]]
    <3>1. main[w].pc \in WorkPc \cup {"mark"} /\ "RUNNING" \in Status
      BY <1>2 DEF WorkPc, Status
    <3> QED BY <1>1, <2>1, <3>1, SaveFacts
  <2>3. main[w].mem \in Live
    BY <1>2, StatusInHand DEF WorkPc
  <2>4. group_json'[g].value.status = "RUNNING"
    BY <2>2, <2>3 DEF Live, GroupValue
  <2>5. CASE StartChildren(w)
    <3>1. /\ main'[w].pc = "wait" /\ main'[w].row = main[w].row
          /\ main'[w].rows = main[w].rows
          /\ main'[w].todo = FirstBatch(g) /\ main'[w].mem = group_json'[g]
          /\ main[w].pc = "progress"
      BY <1>1, <1>4, <2>5 DEF StartChildren, At, Main
    <3> QED BY <2>4, <3>1 DEF OwnTurn
  <2>6. ASSUME NEW to \in MainPc, SaveProgress(w, main[w].pc, to)
        PROVE  /\ main'[w].pc = to /\ main'[w].row = main[w].row
               /\ main'[w].rows = main[w].rows
               /\ main'[w].todo = Children(g) /\ main'[w].mem = group_json'[g]
    BY <1>1, <1>4, <2>6 DEF SaveProgress, Main
  <2>7. CASE SaveProgress(w, "start", "prepare")
    <3>1. main[w].pc = "start"
      BY <2>7 DEF SaveProgress, At
    <3> QED BY <2>4, <2>6, <2>7, <3>1 DEF OwnTurn, MainPc
  <2>8. CASE SaveProgress(w, "shared", "children")
    <3>1. main[w].pc = "shared"
      BY <2>8 DEF SaveProgress, At
    <3> QED BY <2>4, <2>6, <2>8, <3>1 DEF OwnTurn, MainPc
  <2>9. CASE SaveProgress(w, "nextSave", "next")
    <3>1. main[w].pc = "nextSave"
      BY <2>9 DEF SaveProgress, At
    <3> QED BY <2>1, <2>4, <2>6, <2>9, <3>1 DEF OwnTurn, MainPc
  <2> QED BY <2>5, <2>7, <2>8, <2>9
<1> QED BY <1>3, <1>4

LEMMA WaitTurns ==
  ASSUME IInv, NEW w \in Worker, WaitForChild(w)
  PROVE  OwnTurn(w) /\ WaitTurn(w)
<1>1. main \in [Worker -> Main] /\ main[w] \in Main
  BY DEF IInv, CallInv, ThreadTypes
<1>2. main[w].todo # <<>>
  BY MainFields DEF IInv, WaitForChild, At, MainSound, TodoPc
<1> DEFINE c == Head(main[w].todo)
           first == group_json[TheGroup(w)].value.replacing /\ ~IsDeliverable(c)
<1>3. /\ main[w].pc = "wait"
      /\ job_json[c] \in Terminal /\ ~Executing(c)
      /\ main'[w].row = main[w].row /\ main'[w].rows = main[w].rows
      /\ main'[w].todo = Tail(main[w].todo)
      /\ main'[w].mem = main[w].mem
      /\ main'[w].failed = AnyChildFailed(w, c)
      /\ main'[w].pc = IF first THEN AfterReplacement(w, c)
                       ELSE IF Tail(main[w].todo) = <<>> THEN "conclude" ELSE "wait"
  BY <1>1 DEF WaitForChild, At, Main
<1>4. ~main'[w].failed => ~main[w].failed /\ job_json[c] \notin {"FAILED", "INTERRUPTED"}
  BY <1>3 DEF AnyChildFailed
<1>5. AfterReplacement(w, c) \in {"finish", "prepareNext", "nextChild"}
      /\ (AfterReplacement(w, c) = "prepareNext" => job_json[c] = "SUCCEEDED")
  BY DEF AfterReplacement
<1>6. first <=> Saved(TheGroup(w)).replacing /\ ~IsDeliverable(c)
  BY DEF Saved
<1> HIDE DEF first
<1>7. WaitTurn(w)
  <2>1. CASE first
    BY <1>2, <1>3, <1>4, <1>5, <1>6, <2>1 DEF WaitTurn
  <2>2. CASE ~first
    BY <1>2, <1>3, <1>4, <1>6, <2>2 DEF WaitTurn
  <2> QED BY <2>1, <2>2
<1> QED BY <1>3, <1>7 DEF OwnTurn

LEMMA OwnTurns ==
  ASSUME IInv, Alone, NEW w \in Worker,
         \/ Begin(w) \/ Prepare(w, "prepare", "shared") \/ UpdateChildren(w)
         \/ GiveUpWaiting(w) \/ Prepare(w, "prepareNext", "nextSave")
         \/ StartDeliverable(w) \/ FailDeliverable(w) \/ Conclude(w) \/ Finish(w)
  PROVE  RestTurn(w) \/ OwnTurn(w)
<1> DEFINE g == TheGroup(w)
<1>1. main \in [Worker -> Main] /\ main[w] \in Main
  BY DEF IInv, CallInv, ThreadTypes
<1> USE DEF EarlyPc, BetweenPc
<1>2. CASE Begin(w)
  <2>1. /\ main[w].pc = "begin" /\ main'[w].row = main[w].row
        /\ main'[w].rows = main[w].rows /\ main'[w].mem = main[w].mem
        /\ \/ main'[w].pc = "start" /\ ~Begun(g)
           \/ main'[w].pc = "complete"
    BY <1>1, <1>2 DEF Begin, Goto, At, BeginGranted, Begun, Main
  <2> QED BY <2>1 DEF RestTurn, OwnTurn
<1>3. ASSUME NEW from \in OwnPc \ {"finish", "save"}, NEW to \in OwnPc, Prepare(w, from, to)
      PROVE  /\ main[w].pc = from
             /\ \/ OwnTurn(w)
                \/ /\ main'[w].row = main[w].row /\ main'[w].rows = main[w].rows
                   /\ main'[w].mem = main[w].mem /\ main'[w].todo = main[w].todo
                   /\ main'[w].pc = to
  <2>1. main[w].pc = from
    BY <1>3 DEF Prepare, At
  <2>2. CASE Fail(w)
    BY <1>3, <2>1, <2>2, FailTurn
  <2>3. CASE ~Fail(w)
    <3>1. /\ main'[w].row = main[w].row /\ main'[w].rows = main[w].rows
          /\ main'[w].mem = main[w].mem /\ main'[w].todo = main[w].todo
          /\ main'[w].pc \in {to, "finish"}
      BY <1>1, <1>3, <2>3 DEF Prepare, Goto, Main, MainPc, OwnPc
    <3>2. CASE main'[w].pc = "finish"
      BY <1>3, <2>1, <3>1, <3>2 DEF OwnTurn
    <3> QED BY <2>1, <3>1, <3>2
  <2> QED BY <2>1, <2>2, <2>3
<1>4. CASE Prepare(w, "prepare", "shared")
  <2>1. /\ main[w].pc = "prepare"
        /\ \/ OwnTurn(w)
           \/ /\ main'[w].row = main[w].row /\ main'[w].rows = main[w].rows
              /\ main'[w].mem = main[w].mem /\ main'[w].todo = main[w].todo
              /\ main'[w].pc = "shared"
    BY <1>3, <1>4 DEF OwnPc
  <2> QED BY <2>1 DEF OwnTurn
<1>5. CASE Prepare(w, "prepareNext", "nextSave")
  BY <1>3, <1>5 DEF OwnTurn, OwnPc
<1>6. CASE UpdateChildren(w)
  <2>1. main[w].todo # <<>>
    BY <1>6, MainFields DEF IInv, UpdateChildren, At, MainSound, TodoPc
  <2>2. /\ main[w].pc = "children" /\ main'[w].pc \in {"children", "progress"}
        /\ main'[w].row = main[w].row /\ main'[w].rows = main[w].rows
        /\ main'[w].mem = main[w].mem /\ main'[w].todo = Tail(main[w].todo)
    BY <1>1, <1>6 DEF UpdateChildren, At, Main
  <2> QED BY <2>1, <2>2 DEF OwnTurn
<1>7. CASE GiveUpWaiting(w)
  BY <1>7, FailTurn DEF GiveUpWaiting, At, OwnPc
<1>8. CASE StartDeliverable(w)
  <2>1. /\ main[w].pc = "next" /\ main'[w].pc = "wait"
        /\ main'[w].row = main[w].row /\ main'[w].rows = main[w].rows
        /\ main'[w].mem = main[w].mem /\ main'[w].todo = <<DeliverableOf[g]>>
    BY <1>1, <1>8 DEF StartDeliverable, At, Main
  <2> QED BY <2>1 DEF OwnTurn
<1>9. CASE FailDeliverable(w)
  <2>1. /\ main[w].pc = "nextChild" /\ main'[w].pc = "conclude" /\ main'[w].failed
        /\ main'[w].row = main[w].row /\ main'[w].rows = main[w].rows
        /\ main'[w].mem = main[w].mem
    BY <1>1, <1>9 DEF FailDeliverable, At, Main
  <2> QED BY <2>1 DEF OwnTurn
<1>10. CASE Conclude(w) \/ Finish(w)
  <2>1. /\ main[w].pc \in {"conclude", "finish"} /\ main[w].mem \in Live
        /\ main[w].mem.value.status \in Status
    BY <1>10, StatusInHand DEF Conclude, Finish, At, WorkPc
  <2>2. ASSUME NEW status, NEW pc \in MainPc,
               main' = [main EXCEPT ![w].pc = pc, ![w].mem.value.status = status]
        PROVE  /\ main'[w].row = main[w].row /\ main'[w].rows = main[w].rows
               /\ main'[w].pc = pc /\ main'[w].mem.value.status = status
    <3>1. /\ main'[w].row = main[w].row /\ main'[w].rows = main[w].rows
          /\ main'[w].pc = pc
          /\ main'[w].mem = [main[w].mem EXCEPT !.value.status = status]
      BY <1>1, <2>2 DEF Main
    <3> QED BY <2>1, <3>1 DEF Live, GroupValue
  <2>3. CASE Conclude(w)
    <3> DEFINE status == IF CancelRequested(g) THEN "RUNNING"
                         ELSE IF main[w].failed THEN "FAILED" ELSE "SUCCEEDED"
    <3>1. /\ main' = [main EXCEPT ![w].pc = "finish", ![w].mem.value.status = status]
          /\ main[w].pc = "conclude"
          /\ status = "SUCCEEDED" => ~main[w].failed /\ ~CancelRequested(g)
      BY <2>3 DEF Conclude, At
    <3> HIDE DEF status
    <3> QED BY <2>2, <3>1 DEF OwnTurn, MainPc
  <2>4. CASE Finish(w)
    <3> DEFINE status == FinishedStatus(g, main[w].mem.value.status)
    <3>1. main' = [main EXCEPT ![w].pc = "save", ![w].mem.value.status = status]
          /\ main[w].pc = "finish"
      BY <1>1, <2>4 DEF Finish, At
    <3>2. Begun(g) /\ g \in Item
      <4>1. g \in Group /\ Owns(w, g)
        BY <3>1, MainFields DEF IInv, RestPc, Owns, OwnPc
      <4> QED BY <4>1, ChildFacts DEF Alone, Engaged
    <3>3. status = "SUCCEEDED" =>
            main[w].mem.value.status = "SUCCEEDED" /\ ~CancelRequested(g)
      <4>1. execution_controls[g] \in Control
        BY <3>2 DEF IInv, CallInv, ControlInv
      <4> QED BY <3>2, <4>1
              DEF FinishedStatus, ControlAfterFinish, CancelRequested, Begun, Control
    <3> HIDE DEF status
    <3> QED BY <2>2, <3>1, <3>3 DEF OwnTurn, MainPc
  <2> QED BY <1>10, <2>3, <2>4
<1> QED BY <1>2, <1>4, <1>5, <1>6, <1>7, <1>8, <1>9, <1>10
\* One main thread at a time.
LEMMA Turns ==
  ASSUME IInv, Alone, [Next]_vars
  PROVE  \/ UNCHANGED main
         \/ \E w \in Worker :
              MainTurn(w) /\ \A x \in Worker : x # w => main'[x] = main[x]
<1>1. main \in [Worker -> Main] /\ CallInv
  BY DEF IInv, CallInv, ThreadTypes
<1>2. ASSUME NEW w \in Worker, MainStep(w) \/ GiveUpWaiting(w) \/ Crash(w)
      PROVE  MainTurn(w) /\ \A x \in Worker : x # w => main'[x] = main[x]
  <2>1. main' = [main EXCEPT ![w] = main'[w]]
    BY <1>1, <1>2, MainStepCalls, CrashTypes DEF MainCalls
  <2>2. MainTurn(w)
    BY <1>2, RestTurns, RecoveryTurns, SavingTurns, WaitTurns, OwnTurns DEF MainStep, MainTurn
  <2> QED BY <1>1, <2>1, <2>2
<1>3. ASSUME NEW w \in Worker, NEW c \in Child, ChildStep(w, c)
      PROVE  UNCHANGED main
  BY <1>1, <1>3, ChildStepCalls DEF ChildCalls
<1>4. ASSUME NEW g \in Group, ApiStep(g) \/ CancelCheck(g)
      PROVE  UNCHANGED main
  BY <1>1, <1>4, ApiStepCalls DEF ApiCalls
<1>5. ASSUME NEW r \in RowIds, Expire(r)
      PROVE  UNCHANGED main
  BY <1>5 DEF Expire
<1> QED BY <1>2, <1>3, <1>4, <1>5 DEF Next, vars

-------------------------------------------------------------------------------
(* The steps of a cancel request.                                           *)

ApiTurn(g) ==
  LET a == api[g]
      n == api'[g]
  IN
  \/ n.pc \notin ApiPassing
  \/ a.pc = "request" /\ n.pc = "child" /\ n.todo = Children(g) /\ CancelRequested(g)'
  \/ a.pc = "child" /\ n.pc = "save" /\ n.todo = a.todo /\ a.todo = <<>>
  \/ a.pc = "save" /\ n.pc = "answered" /\ n.todo = a.todo
  \/ \E c \in Child :
       /\ a.todo # <<>> /\ c = Head(a.todo)
       /\ \/ a.pc = "child" /\ n.pc = "childSave" /\ n.todo = a.todo /\ Ended(c)'
          \/ /\ a.pc \in {"child", "childSave"} /\ n.pc = "child" /\ n.todo = Tail(a.todo)
             /\ a.pc = "child" => Begun(c)' \/ job_json[c] \in Terminal

\* What a cancel request leaves in the database.
LEMMA RequestedControl ==
  ASSUME NEW k \in Control
  PROVE  /\ ControlAfterCancel(k).state # "absent"
         /\ ControlAfterCancel(k).state # "completed" => ControlAfterCancel(k).cancel_requested
BY DEF ControlAfterCancel, Control

LEMMA ApiTurns ==
  ASSUME IInv, NEW g \in Group, ApiStep(g) \/ CancelCheck(g)
  PROVE  ApiTurn(g)
<1>1. /\ api \in [Group -> Api] /\ api[g] \in Api /\ g \in Item
      /\ execution_controls \in [Item -> Control]
      /\ api[g].todo # <<>> => Head(api[g].todo) \in Child
      /\ Child \subseteq Item
      /\ job_json \in [Child -> Status]
      /\ api[g].pc = "childSave" => api[g].todo # <<>>
  BY ApiFields, ChildFacts DEF IInv, CallInv, ThreadTypes, ControlInv, FileTypes, ApiSound, Child
<1> USE DEF ApiPassing
<1>2. CASE EnqueueGroup(g) \/ CancelCheck(g)
  <2>1. api'[g].pc \in {"ready", "request"}
    BY <1>1, <1>2 DEF EnqueueGroup, CancelCheck, ApiTo, Api
  <2> QED BY <2>1 DEF ApiTurn
<1>3. CASE CancelRequest(g)
  <2>1. /\ api[g].pc = "request" /\ api'[g].todo = Children(g)
        /\ api'[g].pc = IF execution_controls'[g].state = "completed" THEN "ready" ELSE "child"
        /\ execution_controls'[g] = ControlAfterCancel(execution_controls[g])
    BY <1>1, <1>3 DEF CancelRequest, RequestExecutionCancel, Api
  <2>2. execution_controls'[g].state # "completed" => CancelRequested(g)'
    BY <1>1, <2>1, RequestedControl DEF CancelRequested
  <2> QED BY <2>1, <2>2 DEF ApiTurn
<1>4. CASE CancelChild(g)
  <2>1. CASE api[g].todo = <<>>
    <3>1. api[g].pc = "child" /\ api'[g].pc = "save" /\ api'[g].todo = api[g].todo
      BY <1>1, <1>4, <2>1 DEF CancelChild, ApiTo, Api
    <3> QED BY <2>1, <3>1 DEF ApiTurn
  <2>2. CASE api[g].todo # <<>>
    <3>1. PICK c \in Child : c = Head(api[g].todo)
      BY <1>1, <2>2
    <3>2. /\ c \in Item /\ execution_controls[c] \in Control /\ job_json[c] \in Status
          /\ api[g].pc = "child"
      BY <1>1, <1>4, <2>2, <3>1 DEF CancelChild
    <3>3. CASE LiveChild(c)
      <4>1. /\ RequestExecutionCancel(c)
            /\ \/ execution_controls'[c].state = "cancelled" /\ ApiTo(g, "childSave")
               \/ api' = [api EXCEPT ![g].todo = Tail(@)]
        BY <1>4, <2>2, <3>1, <3>3 DEF CancelChild
      <4>2. execution_controls'[c] = ControlAfterCancel(execution_controls[c])
        BY <1>1, <3>2, <4>1 DEF RequestExecutionCancel
      <4>3. Begun(c)'
        BY <3>2, <4>2, RequestedControl DEF Begun
      <4>4. \/ api'[g].pc = "childSave" /\ Ended(c)' /\ api'[g].todo = api[g].todo
            \/ api'[g].pc = "child" /\ api'[g].todo = Tail(api[g].todo)
        BY <1>1, <3>2, <4>1 DEF ApiTo, Api, Ended
      <4> QED BY <2>2, <3>1, <3>2, <4>3, <4>4 DEF ApiTurn
    <3>4. CASE ~LiveChild(c)
      <4>1. api'[g].pc = "child" /\ api'[g].todo = Tail(api[g].todo)
        BY <1>1, <1>4, <2>2, <3>1, <3>2, <3>4 DEF CancelChild, Api
      <4>2. job_json[c] \in Terminal
        BY <3>2, <3>4 DEF LiveChild, Status
      <4> QED BY <2>2, <3>1, <3>2, <4>1, <4>2 DEF ApiTurn
    <3> QED BY <3>3, <3>4
  <2> QED BY <2>1, <2>2
<1>5. CASE SaveCancelledChild(g)
  <2>1. /\ api[g].pc = "childSave" /\ api'[g].pc = "child"
        /\ api'[g].todo = Tail(api[g].todo)
        /\ api[g].todo # <<>> /\ Head(api[g].todo) \in Child
    BY <1>1, <1>5 DEF SaveCancelledChild, Api
  <2> QED BY <2>1 DEF ApiTurn
<1>6. CASE AnswerCancel(g)
  <2>1. api[g].pc = "save" /\ api'[g].pc = "answered" /\ api'[g].todo = api[g].todo
    BY <1>1, <1>6 DEF AnswerCancel, ApiTo, Api
  <2> QED BY <2>1 DEF ApiTurn
<1> QED BY <1>2, <1>3, <1>4, <1>5, <1>6 DEF ApiStep

LEMMA Requests ==
  ASSUME IInv, [Next]_vars, NEW g \in Group
  PROVE  api'[g] = api[g] \/ ApiTurn(g)
<1>1. api \in [Group -> Api] /\ CallInv
  BY DEF IInv, CallInv, ThreadTypes
<1>2. ASSUME NEW w \in Worker, MainStep(w) \/ GiveUpWaiting(w) \/ Crash(w)
      PROVE  UNCHANGED api
  BY <1>1, <1>2, MainStepCalls, CrashTypes DEF MainCalls, Crash
<1>3. ASSUME NEW w \in Worker, NEW c \in Child, ChildStep(w, c)
      PROVE  UNCHANGED api
  BY <1>1, <1>3, ChildStepCalls DEF ChildCalls
<1>4. ASSUME NEW h \in Group, ApiStep(h) \/ CancelCheck(h)
      PROVE  api'[g] = api[g] \/ ApiTurn(g)
  <2>1. api' = [api EXCEPT ![h] = api'[h]]
    BY <1>1, <1>4, ApiStepCalls DEF ApiCalls
  <2> QED BY <1>1, <1>4, <2>1, ApiTurns
<1>5. ASSUME NEW r \in RowIds, Expire(r)
      PROVE  UNCHANGED api
  BY <1>5 DEF Expire
<1> QED BY <1>2, <1>3, <1>4, <1>5 DEF Next, vars

-------------------------------------------------------------------------------
(* The steps of a child in the executors.                                   *)

\* r, f and k are what the thread has in hand, the file and the control of c; n,
\* e and l are the same after the step.
ThreadTurn(c, r, n, f, e, k, l) ==
  \/ r.pc = "heavy" /\ n.pc \in {"begin", "none"} /\ n.mem = r.mem /\ e = f /\ l = k
  \/ /\ r.pc = "begin" /\ n.mem = r.mem /\ e = f
     /\ \/ k.state = "absent" /\ l = [k EXCEPT !.state = "running"] /\ n.pc = "acquire"
        \/ k.state # "absent" /\ l = k /\ n.pc = "none"
  \/ r.pc = "acquire" /\ n.pc \in {"process", "finish"} /\ n.mem = r.mem /\ e = f /\ l = k
  \/ /\ r.pc = "process" /\ l = k
     /\ \/ n.pc = "finish" /\ n.mem = "FAILED" /\ e = f
        \/ IsDeliverable(c) /\ n.pc = "stages" /\ n.mem = "RUNNING" /\ e = "RUNNING"
        \/ ~IsDeliverable(c) /\ n.pc = "update" /\ n.mem = "SUCCEEDED" /\ e = f
  \/ /\ r.pc = "stages" /\ l = k
     /\ \/ n.pc = "update" /\ n.mem = r.mem /\ e = f
        \/ n.pc = "finish" /\ n.mem = "FAILED" /\ e = "FAILED"
  \/ /\ r.pc = "update" /\ l = k
     /\ n.pc = "boundary" /\ n.mem = e
     /\ e = IF k.state = "cancelled" THEN "CANCELLED" ELSE r.mem
  \/ /\ r.pc = "boundary" /\ n.mem = r.mem /\ e = f /\ l = k
     /\ n.pc = "finish" \/ (n.pc = "doc" /\ IsDeliverable(c))
  \/ /\ r.pc = "finish" /\ n.pc = "release" /\ n.mem = r.mem /\ l = ControlAfterFinish(k)
     /\ e = IF l.state = "cancelled" THEN "CANCELLED" ELSE r.mem
  \/ r.pc = "release" /\ n.pc = "none" /\ n.mem = r.mem /\ e = f /\ l = k
  \/ r.pc = "doc" /\ n.pc \in {"docRun", "docFinish"} /\ n.mem = r.mem /\ e = f /\ l = k
  \/ /\ r.pc = "docRun" /\ n.pc = "docFinish" /\ l = k
     /\ n.mem = e /\ e \in {"SUCCEEDED", "FAILED"}
  \/ /\ r.pc = "docFinish" /\ n.pc = "none" /\ n.mem = "QUEUED" /\ l = ControlAfterFinish(k)
     /\ e \in IF l.state = "cancelled" THEN {"CANCELLED"} ELSE {r.mem, f}

WorkedOn(w, c) ==
  /\ ThreadTurn(c, run[w][c], run'[w][c], job_json[c], job_json'[c],
                execution_controls[c], execution_controls'[c])
  /\ \A v \in Worker : v # w => run'[v][c] = run[v][c]

LEMMA ThreadTurns ==
  ASSUME IInv, NEW w \in Worker, NEW c \in Child, ChildStep(w, c)
  PROVE  WorkedOn(w, c)
<1>1. /\ run[w][c] \in Run /\ run \in [Worker -> [Child -> Run]] /\ c \in Item
      /\ job_json \in [Child -> Status] /\ execution_controls \in [Item -> Control]
      /\ CallInv
  BY RunFields DEF IInv, CallInv, ControlInv
<1>2. \A v \in Worker : v # w => run'[v][c] = run[v][c]
  BY <1>1, ChildStepCalls DEF ChildCalls
<1>3. ASSUME NEW pc, RunTo(w, c, pc)
      PROVE  run'[w][c].pc = pc /\ run'[w][c].mem = run[w][c].mem
  BY <1>1, <1>3 DEF RunTo, Run
<1>4. ASSUME NEW s, FinishJob(c, s)
      PROVE  /\ execution_controls'[c] = ControlAfterFinish(execution_controls[c])
             /\ job_json'[c] = IF execution_controls'[c].state = "cancelled"
                               THEN "CANCELLED" ELSE s
  BY <1>1, <1>4 DEF FinishJob, FinishExecution, FinishedStatus
<1> DEFINE Goal == ThreadTurn(c, run[w][c], run'[w][c], job_json[c], job_json'[c],
                              execution_controls[c], execution_controls'[c])
<1> SUFFICES Goal
  BY <1>2 DEF WorkedOn
<1>5. CASE LoadChild(w, c) \/ AcquireSlot(w, c)
  BY <1>3, <1>5 DEF LoadChild, AcquireSlot, fileVars, queueVars, ThreadTurn
<1>6. CASE BeginChild(w, c)
  <2>1. /\ run[w][c].pc = "begin" /\ job_json'[c] = job_json[c]
        /\ run'[w][c].mem = run[w][c].mem
        /\ run'[w][c].pc = IF BeginGranted(c) THEN "acquire" ELSE "none"
    BY <1>3, <1>6 DEF BeginChild, fileVars
  <2>2. \/ /\ BeginGranted(c)
           /\ execution_controls'[c] = [execution_controls[c] EXCEPT !.state = "running"]
        \/ ~BeginGranted(c) /\ execution_controls'[c] = execution_controls[c]
    BY <1>1, <1>6 DEF BeginChild, BeginExecution
  <2> QED BY <2>1, <2>2 DEF ThreadTurn, BeginGranted
<1>7. CASE Process(w, c) \/ SlotBoundStages(w, c)
  <2>1. execution_controls'[c] = execution_controls[c]
    BY <1>7 DEF Process, SlotBoundStages, queueVars
  <2>2. CASE Process(w, c)
    BY <1>1, <2>1, <2>2 DEF Process, ThreadTurn
  <2>3. CASE SlotBoundStages(w, c)
    <3>1. /\ run[w][c].pc = "stages"
          /\ \/ RunTo(w, c, "update") /\ job_json' = job_json
             \/ /\ run'[w][c] = [pc |-> "finish", mem |-> "FAILED"]
                /\ job_json'[c] = "FAILED"
      BY <1>1, <2>3 DEF SlotBoundStages
    <3> QED BY <1>3, <2>1, <3>1 DEF ThreadTurn
  <2> QED BY <1>7, <2>2, <2>3
<1>8. CASE UpdateAfterStages(w, c)
  <2>1. /\ run[w][c].pc = "update"
        /\ run'[w][c] = [pc |-> "boundary", mem |-> job_json'[c]]
        /\ job_json'[c] = IF execution_controls[c].state = "cancelled" THEN "CANCELLED"
                          ELSE run[w][c].mem
        /\ execution_controls'[c] = execution_controls[c]
    BY <1>1, <1>8 DEF UpdateAfterStages, UpdateJob, queueVars
  <2> QED BY <2>1 DEF ThreadTurn
<1>9. CASE HandOver(w, c) \/ ReleaseSlot(w, c) \/ StartDocuments(w, c)
  BY <1>3, <1>9 DEF HandOver, ReleaseSlot, StartDocuments, fileVars, queueVars, ThreadTurn
<1>10. CASE FinishChild(w, c)
  <2>1. run[w][c].pc = "finish" /\ run'[w][c].pc = "release" /\ run'[w][c].mem = run[w][c].mem
    BY <1>3, <1>10 DEF FinishChild
  <2>2. FinishJob(c, run[w][c].mem)
    BY <1>10 DEF FinishChild
  <2> QED BY <1>4, <2>1, <2>2 DEF ThreadTurn
<1>11. CASE MakeDocuments(w, c)
  <2>1. PICK status \in {"SUCCEEDED", "FAILED"} :
          /\ job_json' = [job_json EXCEPT ![c] = status]
          /\ run' = [run EXCEPT ![w][c] = [pc |-> "docFinish", mem |-> status]]
    BY <1>11 DEF MakeDocuments
  <2>2. /\ run[w][c].pc = "docRun" /\ execution_controls'[c] = execution_controls[c]
        /\ job_json'[c] = status /\ run'[w][c] = [pc |-> "docFinish", mem |-> status]
    BY <1>1, <1>11, <2>1 DEF MakeDocuments, queueVars
  <2> QED BY <2>2 DEF ThreadTurn
<1>12. CASE FinishDocuments(w, c)
  <2>1. PICK latest \in {run[w][c].mem, job_json[c]} : FinishJob(c, latest)
    BY <1>12 DEF FinishDocuments
  <2>2. /\ run[w][c].pc = "docFinish"
        /\ run'[w][c].pc = "none" /\ run'[w][c].mem = "QUEUED"
    BY <1>1, <1>12 DEF FinishDocuments, NotRunning
  <2> QED BY <1>4, <2>1, <2>2 DEF ThreadTurn
<1> QED BY <1>2, <1>5, <1>6, <1>7, <1>8, <1>9, <1>10, <1>11, <1>12 DEF ChildStep
-------------------------------------------------------------------------------
(* What one step does to one child.                                         *)

\* The children and their groups.
LEMMA FamilyFacts ==
  ASSUME NEW g \in Group, NEW c \in Family(g)
  PROVE  /\ c \in Child /\ c \in Item /\ c \notin Group
         /\ GroupOf(c) = g
         /\ IsDeliverable(c) <=> c = DeliverableOf[g]
<1>1. /\ c \in Child /\ c \in Item /\ c \notin Group
      /\ \A h \in Group : c \in {DeliverableOf[h], AuditOf[h]} => h = g
  BY GroupExecutionAssumption, ChildFacts DEF Family, Child
<1>2. GroupOf(c) = g
  BY <1>1 DEF GroupOf, Family
<1> QED BY <1>1, <1>2 DEF IsDeliverable

LEMMA ParentFacts ==
  ASSUME NEW c \in Child
  PROVE  /\ GroupOf(c) \in Group /\ c \in Family(GroupOf(c))
         /\ c \in Item /\ c \notin Group
<1>1. PICK g \in Group : c \in Family(g)
  BY DEF Child, Family
<1> QED BY <1>1, FamilyFacts

\* What is left of a loop that goes on.
LEMMA LeftTail ==
  ASSUME NEW s \in Seq(Child), s # <<>>
  PROVE  /\ Left(s) = {Head(s)} \cup Left(Tail(s))
         /\ Head(s) \in Left(s) /\ Left(Tail(s)) \subseteq Left(s)
         /\ Head(s) \in Child /\ Tail(s) \in Seq(Child)
<1>1. /\ Len(s) \in Nat /\ Len(s) >= 1 /\ DOMAIN s = 1 .. Len(s)
      /\ Head(s) = s[1]
      /\ Len(Tail(s)) = Len(s) - 1 /\ DOMAIN Tail(s) = 1 .. Len(s) - 1
      /\ \A i \in 1 .. Len(s) - 1 : Tail(s)[i] = s[i + 1]
  BY EmptySeq, LenProperties, HeadTailProperties
<1>2. \A i \in 1 .. Len(s) : i = 1 \/ (i - 1 \in 1 .. Len(s) - 1 /\ s[i] = Tail(s)[i - 1])
  BY <1>1
<1>3. ASSUME NEW c \in Left(s)
      PROVE  c = Head(s) \/ c \in Left(Tail(s))
  <2>1. PICK i \in 1 .. Len(s) : c = s[i]
    BY <1>1 DEF Left
  <2>2. CASE i = 1
    BY <1>1, <2>1, <2>2
  <2>3. CASE i # 1
    <3>1. i - 1 \in DOMAIN Tail(s) /\ Tail(s)[i - 1] = c
      BY <1>1, <1>2, <2>1, <2>3
    <3> QED BY <3>1 DEF Left
  <2> QED BY <2>2, <2>3
<1>4. Head(s) \in Left(s)
  BY <1>1 DEF Left
<1>5. \A c \in Left(Tail(s)) : c \in Left(s)
  <2>1. \A i \in 1 .. Len(s) - 1 : i + 1 \in 1 .. Len(s)
    BY <1>1
  <2> QED BY <1>1, <2>1 DEF Left
<1> QED BY <1>3, <1>4, <1>5, LoopFacts

\* What is left when a loop begins.
LEMMA LeftFirst ==
  ASSUME NEW g \in Group
  PROVE  /\ Left(Children(g)) = Family(g)
         /\ Saved(g).replacing => Left(FirstBatch(g)) = {AuditOf[g]}
         /\ ~Saved(g).replacing => Left(FirstBatch(g)) = Family(g)
         /\ Left(FirstBatch(g)) \subseteq Family(g)
         /\ Left(<<DeliverableOf[g]>>) = {DeliverableOf[g]}
         /\ Left(<<DeliverableOf[g]>>) \subseteq Family(g)
         /\ Left(<<AuditOf[g]>>) = {AuditOf[g]}
         /\ Left(<<>>) = {}
<1>1. \A a, b : Left(<<a, b>>) = {a, b} /\ Left(<<a>>) = {a} /\ Left(<<>>) = {}
  BY DEF Left
<1>2. Left(Children(g)) = Family(g)
  <2>1. CASE Children(g) = <<AuditOf[g], DeliverableOf[g]>>
    BY <1>1, <2>1 DEF Family
  <2>2. CASE Children(g) = <<DeliverableOf[g], AuditOf[g]>>
    BY <1>1, <2>2 DEF Family
  <2> QED BY <2>1, <2>2 DEF Children
<1>3. CASE Saved(g).replacing
  <2>1. FirstBatch(g) = <<AuditOf[g]>>
    BY <1>3 DEF FirstBatch, Saved
  <2> QED BY <1>1, <1>2, <1>3, <2>1 DEF Family
<1>4. CASE ~Saved(g).replacing
  <2>1. FirstBatch(g) = Children(g)
    BY <1>4 DEF FirstBatch, Saved
  <2> QED BY <1>1, <1>2, <1>4, <2>1 DEF Family
<1> QED BY <1>3, <1>4

Resting(c) ==
  /\ job_json'[c] = job_json[c]
  /\ execution_controls'[c] = execution_controls[c]
  /\ \A w \in Worker :
       \/ run'[w][c] = run[w][c]
       \/ run'[w][c] = NotRunning /\ main'[w].pc = "dead"

\* update_job of c.
Written(c, status) == job_json'[c] = IF Ended(c) THEN "CANCELLED" ELSE status

\* By the recovery, by the main thread before the submission, instead of it, or
\* by a cancellation.
Rewritten(c) ==
  /\ execution_controls'[c] = execution_controls[c]
  /\ \A w \in Worker : run'[w][c] = run[w][c]
  /\ \/ Written(c, "INTERRUPTED") /\ \E w \in Worker : Marks(w, c)
     \/ Written(c, "QUEUED") /\ \E w \in Worker : Ahead(w, c)
     \/ Written(c, "FAILED") /\ \E w \in Worker : Ahead(w, c) /\ ~Ahead(w, c)'
     \/ Written(c, "CANCELLED") /\ Ended(c)

\* Submission by the main thread of w.
Entered(w, c) ==
  /\ Ahead(w, c) /\ ~Ahead(w, c)'
  /\ main'[w].pc = "wait" /\ c \in Left(main'[w].todo)
  /\ run'[w][c] = [NotRunning EXCEPT !.pc = "heavy"]
  /\ \A x \in Worker : x # w => run'[x][c] = run[x][c]
  /\ execution_controls'[c] = execution_controls[c]
  /\ job_json'[c] = job_json[c] \/ Written(c, "QUEUED")
  /\ IsDeliverable(c) /\ Saved(GroupOf(c)).replacing => main[w].pc = "next"

Requested(c) ==
  /\ job_json'[c] = job_json[c]
  /\ \A w \in Worker : run'[w][c] = run[w][c]
  /\ execution_controls'[c] = ControlAfterCancel(execution_controls[c])
  /\ CancelRequested(GroupOf(c))

\* Recovery ends the execution.
GivenUp(c) ==
  /\ job_json'[c] = job_json[c] /\ job_json[c] \notin Terminal
  /\ \A w \in Worker : run'[w][c] = run[w][c]
  /\ execution_controls'[c] = ControlAfterFinish(execution_controls[c])
  /\ Stopped(GroupOf(c)) /\ Recovered(GroupOf(c))

Fate(c) ==
  \/ Resting(c) \/ Rewritten(c) \/ Requested(c) \/ GivenUp(c)
  \/ \E w \in Worker : Entered(w, c) \/ WorkedOn(w, c)

\* The control of a group is not that of a child.
LEMMA GroupOnly ==
  ASSUME IInv, NEW c \in Child,
         \/ UNCHANGED execution_controls
         \/ \E g \in Group : \E k : execution_controls' = [execution_controls EXCEPT ![g] = k],
         UNCHANGED <<job_json, run>>
  PROVE  Resting(c)
<1>1. execution_controls \in [Item -> Control] /\ c \in Item /\ c \notin Group
  BY ParentFacts DEF IInv, CallInv, ControlInv
<1>2. execution_controls'[c] = execution_controls[c]
  BY <1>1
<1> QED BY <1>2 DEF Resting

LEMMA QuietSteps ==
  ASSUME IInv, NEW c \in Child, NEW w \in Worker,
         \/ RunOnce(w) \/ (\E r \in RowIds : RecoverGroup(w, r)) \/ MarkGroup(w)
         \/ MarkConflicts(w) \/ Acknowledge(w) \/ Claim(w) \/ Load(w) \/ Begin(w)
         \/ SaveProgress(w, "start", "prepare") \/ Prepare(w, "prepare", "shared")
         \/ SaveProgress(w, "shared", "children") \/ WaitForChild(w)
         \/ Prepare(w, "prepareNext", "nextSave") \/ SaveProgress(w, "nextSave", "next")
         \/ Conclude(w) \/ Finish(w) \/ SaveOutcome(w) \/ Complete(w) \/ GiveUpWaiting(w)
  PROVE  Resting(c)
<1>1. UNCHANGED <<job_json, run>>
  BY DEF RunOnce, RecoverGroup, MarkGroup, MarkConflicts, Acknowledge, Claim, Load, Begin,
         SaveProgress, Prepare, WaitForChild, Conclude, Finish, SaveOutcome, Complete,
         GiveUpWaiting, fileVars
<1>2. CASE Begin(w) \/ Finish(w)
  <2>1. TheGroup(w) \in Group
    BY <1>2, MainFields DEF IInv, Begin, Finish, At, RestPc
  <2>2. \/ UNCHANGED execution_controls
        \/ \E k : execution_controls' = [execution_controls EXCEPT ![TheGroup(w)] = k]
    <3>1. CASE Begin(w)
      <4>1. /\ execution_controls \in [Item -> Control] /\ TheGroup(w) \in Item
        BY <2>1, ChildFacts DEF IInv, CallInv, ControlInv
      <4>2. \/ UNCHANGED execution_controls
            \/ execution_controls' =
                 [execution_controls EXCEPT ![TheGroup(w)].state = "running"]
        BY <3>1 DEF Begin, BeginExecution
      <4> QED BY <4>1, <4>2
    <3>2. CASE Finish(w)
      BY <3>2 DEF Finish, FinishExecution
    <3> QED BY <1>2, <3>1, <3>2
  <2> QED BY <1>1, <2>1, <2>2, GroupOnly
<1>3. CASE \E r \in RowIds : RecoverGroup(w, r)
  <2>1. PICK r \in RowIds : RecoverGroup(w, r)
    BY <1>3
  <2>2. queue_items[r].item \in Group
    BY DEF IInv, CallInv
  <2>3. \E k : execution_controls' = [execution_controls EXCEPT ![queue_items[r].item] = k]
    BY <2>1 DEF RecoverGroup, FinishExecution
  <2> QED BY <1>1, <2>2, <2>3, GroupOnly
<1>4. ASSUME UNCHANGED execution_controls
      PROVE  Resting(c)
  BY <1>1, <1>4, GroupOnly
<1>5. UNCHANGED execution_controls \/ Begin(w) \/ Finish(w) \/ \E r \in RowIds : RecoverGroup(w, r)
  BY DEF RunOnce, MarkGroup, MarkConflicts, Acknowledge, Claim, Load,
         SaveProgress, Prepare, WaitForChild, Conclude, SaveOutcome, Complete,
         GiveUpWaiting, queueVars, RecoverStaleClaims, AcknowledgeInterruptedClaim, ClaimNext,
         CompleteClaim
<1> QED BY <1>2, <1>3, <1>4, <1>5

\* One child at a time.
LEMMA UpdateJobFate ==
  ASSUME IInv, NEW d \in Child, NEW status, UpdateJob(d, status), NEW c \in Child,
         UNCHANGED <<execution_controls, run>>
  PROVE  /\ c # d => Resting(c)
         /\ c = d => Written(c, status)
<1>1. job_json \in [Child -> Status]
  BY DEF IInv, CallInv, FileTypes
<1> QED BY <1>1 DEF UpdateJob, Resting, Written, Ended

LEMMA RecoveryFates ==
  ASSUME IInv, Shape, NEW c \in Child, NEW w \in Worker, RecoverChild(w) \/ MarkChild(w)
  PROVE  Fate(c)
<1> DEFINE d == Head(main[w].todo)
<1>1. /\ TheGroup(w) \in Group
      /\ Left(main[w].todo) \subseteq Family(TheGroup(w)) /\ Stopped(TheGroup(w))
      /\ main[w].todo \in Seq(Child)
      /\ Recovered(TheGroup(w))
  BY MainFields DEF IInv, RecoverChild, MarkChild, At, RestPc, Shape, MainShape, Recovered, TheGroup
<1>2. main[w].todo # <<>> => d \in Family(TheGroup(w)) /\ d \in Child
  <2>1. SUFFICES ASSUME main[w].todo # <<>>
                 PROVE  d \in Left(main[w].todo) /\ d \in Child
    BY <1>1
  <2> QED BY <1>1, <2>1, LoopFacts DEF Left
<1>3. CASE RecoverChild(w) /\ (UNCHANGED queueVars)
  <2>1. UNCHANGED <<job_json, run>> /\ UNCHANGED execution_controls
    BY <1>3 DEF RecoverChild, fileVars, queueVars
  <2> QED BY <2>1, GroupOnly DEF Fate
<1>4. CASE /\ RecoverChild(w) /\ main[w].todo # <<>>
           /\ job_json[d] \notin Terminal /\ FinishExecution(d)
  <2>1. /\ UNCHANGED <<job_json, run>> /\ execution_controls \in [Item -> Control]
        /\ c \in Item
    BY <1>4, ParentFacts DEF RecoverChild, fileVars, IInv, CallInv, ControlInv
  <2>2. execution_controls' =
          [execution_controls EXCEPT ![d] = ControlAfterFinish(execution_controls[d])]
    BY <1>4 DEF FinishExecution
  <2>3. CASE c = d
    <3>1. GroupOf(c) = TheGroup(w)
      BY <1>1, <1>2, <1>4, <2>3, FamilyFacts
    <3> QED BY <1>1, <1>4, <2>1, <2>2, <2>3, <3>1 DEF Fate, GivenUp
  <2>4. CASE c # d
    BY <2>1, <2>2, <2>4 DEF Fate, Resting
  <2> QED BY <2>3, <2>4
<1>5. CASE MarkChild(w)
  <2>1. main[w].todo # <<>> /\ main[w].pc = "markChild"
    BY <1>5, MainFields DEF IInv, MarkChild, At, MainSound, TodoPc
  <2>2. UpdateJob(d, "INTERRUPTED") /\ UNCHANGED execution_controls /\ UNCHANGED run
    BY <1>5 DEF MarkChild, queueVars
  <2>3. (c # d => Resting(c)) /\ (c = d => Written(c, "INTERRUPTED"))
    BY <1>2, <2>1, <2>2, UpdateJobFate
  <2> QED BY <2>1, <2>2, <2>3 DEF Fate, Rewritten, Marks
<1> QED BY <1>3, <1>4, <1>5 DEF RecoverChild

LEMMA OwnFates ==
  ASSUME IInv, Shape, NEW c \in Child, NEW w \in Worker,
         UpdateChildren(w) \/ FailDeliverable(w), [Next]_vars
  PROVE  Fate(c)
<1> DEFINE g == TheGroup(w)
           d == IF main[w].pc = "children" THEN Head(main[w].todo) ELSE DeliverableOf[g]
           status == IF main[w].pc = "children" THEN "QUEUED" ELSE "FAILED"
<1>1. /\ g \in Group /\ main[w].todo \in Seq(Child)
      /\ main[w].pc \in {"children", "nextChild"}
      /\ main[w].pc = "children" =>
           main[w].todo # <<>> /\ Left(main[w].todo) \subseteq Family(g)
  BY MainFields
  DEF IInv, UpdateChildren, FailDeliverable, At, RestPc, Shape, MainShape, MainSound, TodoPc
<1>2. d \in Child /\ d \in Family(g)
  <2>1. CASE main[w].pc = "children"
    BY <1>1, <2>1, LoopFacts DEF Left
  <2>2. CASE main[w].pc # "children"
    BY <1>1, <2>2, ChildFacts DEF Family
  <2> QED BY <2>1, <2>2
<1>3. UpdateJob(d, status) /\ UNCHANGED <<execution_controls, run>>
  BY <1>1 DEF UpdateChildren, FailDeliverable, At, queueVars
<1>4. (c # d => Resting(c)) /\ (c = d => Written(c, status))
  <2> HIDE DEF d, status
  <2> QED BY <1>2, <1>3, UpdateJobFate
<1>5. GroupOf(d) = g
  BY <1>1, <1>2, FamilyFacts
<1>6. CASE c = d /\ main[w].pc = "children"
  <2>1. Ahead(w, c)
    BY <1>5, <1>6 DEF Ahead, Owns, OwnPc, EarlyPc
  <2> QED BY <1>3, <1>4, <1>6, <2>1 DEF Fate, Rewritten
<1>7. CASE c = d /\ main[w].pc = "nextChild"
  <2>1. main'[w].pc = "conclude"
    BY <1>1, <1>7, MainFields DEF UpdateChildren, FailDeliverable, At, IInv, CallInv, ThreadTypes, Main
  <2>2. ~Ahead(w, c)'
    BY <2>1 DEF Ahead, EarlyPc, BetweenPc
  <2>3. Ahead(w, c)
    BY <1>1, <1>5, <1>7, ChildFacts DEF Ahead, Owns, OwnPc, Shape, MainShape, BetweenPc, EarlyPc
  <2> QED BY <1>3, <1>4, <1>7, <2>2, <2>3 DEF Fate, Rewritten
<1> QED BY <1>1, <1>4, <1>6, <1>7 DEF Fate

\* What the main thread submits enters the heavy executor.
LEMMA SubmitFate ==
  ASSUME IInv, Alone, NEW w \in Worker, NEW cs, Submit(w, cs), NEW c \in Child
  PROVE  /\ \A x \in Worker : x # w => run'[x][c] = run[x][c]
         /\ c \in cs => run'[w][c] = [NotRunning EXCEPT !.pc = "heavy"]
         /\ c \notin cs => run'[w][c] = run[w][c]
<1>1. run \in [Worker -> [Child -> Run]]
  BY DEF IInv, CallInv, ThreadTypes
<1> QED BY <1>1 DEF Submit

LEMMA StartChildrenFate ==
  ASSUME IInv, Shape, Alone, Steady, NEW c \in Child, NEW w \in Worker, StartChildren(w)
  PROVE  Fate(c)
<1> DEFINE g == TheGroup(w)
           cs == {FirstBatch(g)[i] : i \in DOMAIN FirstBatch(g)}
<1>1. /\ g \in Group /\ main[w].pc = "progress" /\ main \in [Worker -> Main]
      /\ UNCHANGED job_json /\ UNCHANGED execution_controls
      /\ main[w].pc \notin RestPc
  BY MainFields DEF StartChildren, At, RestPc, IInv, CallInv, ThreadTypes, queueVars
<1>2. CASE UNCHANGED run
  BY <1>1, <1>2 DEF Fate, Resting
<1>3. CASE ~(UNCHANGED run)
  <2>1. /\ main'[w].pc = "wait" /\ main'[w].row = main[w].row
        /\ main'[w].todo = FirstBatch(g) /\ Submit(w, cs)
    BY <1>1, <1>3 DEF StartChildren, Main
  <2>2. CASE c \notin cs
    <3> HIDE DEF cs
    <3>1. \A x \in Worker : run'[x][c] = run[x][c]
      BY <2>1, <2>2, SubmitFate
    <3> QED BY <1>1, <3>1 DEF Fate, Resting
  <2>3. CASE c \in cs
    <3>1. /\ cs \subseteq Family(g)
          /\ Saved(g).replacing => FirstBatch(g) = <<AuditOf[g]>> /\ cs = {AuditOf[g]}
      BY DEF FirstBatch, Children, Saved, Family
    <3>2. GroupOf(c) = g /\ (IsDeliverable(c) <=> c = DeliverableOf[g])
      BY <1>1, <2>3, <3>1, FamilyFacts
    <3>3. Ahead(w, c)
      BY <1>1, <3>2 DEF Ahead, Owns, OwnPc, EarlyPc
    <3>4. IsDeliverable(c) => ~Saved(g).replacing
      BY <1>1, <2>3, <3>1, <3>2, ChildFacts
    <3>5. Saved(GroupOf(c))'.replacing = Saved(GroupOf(c)).replacing
      BY <1>1, <3>2 DEF Steady
    <3>6. ~Ahead(w, c)'
      BY <2>1, <3>2, <3>4, <3>5 DEF Ahead, EarlyPc, BetweenPc
    <3>7. c \in Left(main'[w].todo)
      BY <2>1, <2>3 DEF Left
    <3>8. Entered(w, c)
      <4> HIDE DEF cs
      <4> QED BY <1>1, <2>1, <2>3, <3>2, <3>3, <3>4, <3>6, <3>7, SubmitFate DEF Entered
    <3> QED BY <3>8 DEF Fate
  <2> QED BY <2>2, <2>3
<1> QED BY <1>2, <1>3

LEMMA StartDeliverableFate ==
  ASSUME IInv, Shape, Alone, Steady, NEW c \in Child, NEW w \in Worker, StartDeliverable(w)
  PROVE  Fate(c)
<1> DEFINE g == TheGroup(w)
           d == DeliverableOf[g]
<1>1. /\ g \in Group /\ main[w].pc = "next" /\ main \in [Worker -> Main]
      /\ UNCHANGED execution_controls
      /\ main[w].pc \notin RestPc /\ Saved(g).replacing
      /\ job_json \in [Child -> Status]
  BY MainFields DEF StartDeliverable, At, RestPc, IInv, CallInv, ThreadTypes, FileTypes,
                    queueVars, Shape, MainShape, BetweenPc
<1>2. /\ UpdateJob(d, "QUEUED") /\ Submit(w, {d})
      /\ main'[w].pc = "wait" /\ main'[w].row = main[w].row
      /\ main'[w].todo = <<d>>
  BY <1>1 DEF StartDeliverable, Main
<1>3. /\ d \in Child /\ GroupOf(d) = g /\ IsDeliverable(d)
      /\ d # AuditOf[g]
  BY <1>1, ChildFacts
<1> HIDE DEF d
<1>4. \A x \in Worker : c # d \/ x # w => run'[x][c] = run[x][c]
  BY <1>2, SubmitFate
<1>5. CASE c # d
  <2>1. job_json'[c] = job_json[c]
    BY <1>1, <1>2, <1>5 DEF UpdateJob
  <2> QED BY <1>1, <1>4, <1>5, <2>1 DEF Fate, Resting
<1>6. CASE c = d
  <2>1. Ahead(w, c)
    BY <1>1, <1>3, <1>6 DEF Ahead, Owns, OwnPc, BetweenPc
  <2>2. ~Ahead(w, c)'
    BY <1>2, <1>3, <1>6 DEF Ahead, EarlyPc, BetweenPc
  <2>3. Written(c, "QUEUED")
    BY <1>1, <1>2, <1>3, <1>6 DEF UpdateJob, Written, Ended
  <2>4. run'[w][c] = [NotRunning EXCEPT !.pc = "heavy"]
    BY <1>2, <1>6, SubmitFate
  <2>5. c \in Left(main'[w].todo)
    BY <1>1, <1>2, <1>6, LeftFirst DEF d
  <2> QED BY <1>1, <1>2, <1>4, <2>1, <2>2, <2>3, <2>4, <2>5 DEF Fate, Entered
<1> QED BY <1>5, <1>6

\* The children and the requests.
LEMMA ChildFates ==
  ASSUME IInv, NEW c \in Child, NEW w \in Worker, NEW d \in Child, ChildStep(w, d)
  PROVE  Fate(c)
<1>1. /\ execution_controls \in [Item -> Control] /\ job_json \in [Child -> Status]
      /\ run \in [Worker -> [Child -> Run]] /\ c \in Item /\ d \in Item
  BY RunFields, ParentFacts DEF IInv, CallInv, ControlInv
<1>2. CASE c = d
  BY <1>2, ThreadTurns DEF Fate
<1>3. CASE c # d
  <2>1. run' = [run EXCEPT ![w][d] = run'[w][d]]
    BY ChildRun DEF IInv
  <2>2. \A x \in Worker : run'[x][c] = run[x][c]
    BY <1>1, <1>3, <2>1
  <2>3. /\ execution_controls'[c] = execution_controls[c]
        /\ job_json'[c] = job_json[c]
    <3>1. ASSUME NEW s, UpdateJob(d, s) PROVE job_json'[c] = job_json[c]
      BY <1>1, <1>3, <3>1 DEF UpdateJob
    <3>2. ASSUME NEW s, FinishJob(d, s)
          PROVE  /\ execution_controls'[c] = execution_controls[c]
                 /\ job_json'[c] = job_json[c]
      BY <1>1, <1>3, <3>2 DEF FinishJob, FinishExecution
    <3>3. CASE BeginChild(w, d)
      BY <1>1, <1>3, <3>3 DEF BeginChild, BeginExecution, fileVars
    <3>4. CASE LoadChild(w, d) \/ AcquireSlot(w, d) \/ HandOver(w, d) \/ ReleaseSlot(w, d)
               \/ StartDocuments(w, d)
      BY <3>4 DEF LoadChild, AcquireSlot, HandOver, ReleaseSlot, StartDocuments, fileVars,
                  queueVars
    <3>5. CASE Process(w, d) \/ SlotBoundStages(w, d) \/ MakeDocuments(w, d)
      BY <1>1, <1>3, <3>5 DEF Process, SlotBoundStages, MakeDocuments, queueVars
    <3>6. CASE UpdateAfterStages(w, d)
      BY <3>1, <3>6 DEF UpdateAfterStages, queueVars
    <3>7. CASE FinishChild(w, d) \/ FinishDocuments(w, d)
      BY <3>2, <3>7 DEF FinishChild, FinishDocuments
    <3> QED BY <3>3, <3>4, <3>5, <3>6, <3>7 DEF ChildStep
  <2> QED BY <2>2, <2>3 DEF Fate, Resting
<1> QED BY <1>2, <1>3

LEMMA ApiFates ==
  ASSUME IInv, Shape, NEW c \in Child, NEW g \in Group, ApiStep(g) \/ CancelCheck(g)
  PROVE  Fate(c)
<1>1. /\ execution_controls \in [Item -> Control] /\ job_json \in [Child -> Status]
      /\ c \in Item /\ c # g /\ g \in Item
      /\ api[g].todo \in Seq(Child)
  BY ApiFields, ChildFacts, ParentFacts DEF IInv, CallInv, ControlInv, FileTypes
<1>2. CASE EnqueueGroup(g) \/ CancelCheck(g) \/ AnswerCancel(g)
  <2>1. UNCHANGED <<job_json, run>> /\ UNCHANGED execution_controls
    BY <1>2 DEF EnqueueGroup, CancelCheck, AnswerCancel, Enqueue, fileVars, queueVars
  <2> QED BY <2>1, GroupOnly DEF Fate
<1>3. CASE CancelRequest(g)
  <2>1. /\ UNCHANGED <<job_json, run>>
        /\ \E k : execution_controls' = [execution_controls EXCEPT ![g] = k]
    BY <1>3 DEF CancelRequest, RequestExecutionCancel, fileVars
  <2> QED BY <2>1, GroupOnly DEF Fate
<1>4. CASE CancelChild(g) /\ UNCHANGED queueVars
  <2>1. UNCHANGED <<job_json, run>> /\ UNCHANGED execution_controls
    BY <1>4 DEF CancelChild, fileVars, queueVars
  <2> QED BY <2>1, GroupOnly DEF Fate
<1> DEFINE d == Head(api[g].todo)
<1>5. /\ api[g].todo # <<>> => d \in Child /\ d \in Left(api[g].todo)
  BY <1>1, LoopFacts DEF Left
<1>6. CASE CancelChild(g) /\ api[g].todo # <<>> /\ RequestExecutionCancel(d)
  <2>1. /\ UNCHANGED <<job_json, run>> /\ api[g].pc = "child"
        /\ execution_controls' =
             [execution_controls EXCEPT ![d] = ControlAfterCancel(execution_controls[d])]
    BY <1>6 DEF CancelChild, RequestExecutionCancel, fileVars
  <2>2. CASE c = d
    <3>1. /\ CancelRequested(g) /\ d \in Family(g)
      BY <1>5, <1>6, <2>1 DEF Shape, ApiShape, ApiPassing
    <3>2. GroupOf(c) = g
      BY <2>2, <3>1, FamilyFacts
    <3> QED BY <1>1, <2>1, <2>2, <3>1, <3>2 DEF Fate, Requested
  <2>3. CASE c # d
    BY <1>1, <2>1, <2>3 DEF Fate, Resting
  <2> QED BY <2>2, <2>3
<1>7. CASE SaveCancelledChild(g)
  <2>1. /\ api[g].pc = "childSave" /\ api[g].todo # <<>> /\ Ended(d)
        /\ UpdateJob(d, "CANCELLED") /\ UNCHANGED <<execution_controls, run>>
    BY <1>7, ApiFields
    DEF SaveCancelledChild, queueVars, IInv, ApiSound, Shape, ApiShape, ApiPassing
  <2>2. d \in Child
    BY <1>5, <2>1
  <2> HIDE DEF d
  <2>3. (c # d => Resting(c)) /\ (c = d => Written(c, "CANCELLED"))
    BY <2>1, <2>2, UpdateJobFate
  <2> QED BY <2>1, <2>3 DEF Fate, Rewritten
<1> QED BY <1>2, <1>3, <1>4, <1>6, <1>7 DEF ApiStep, CancelChild

LEMMA Fates ==
  ASSUME IInv, Shape, Alone, Steady, [Next]_vars, NEW c \in Child
  PROVE  Fate(c)
<1>1. ASSUME NEW w \in Worker, MainStep(w) \/ GiveUpWaiting(w) PROVE Fate(c)
  BY <1>1, QuietSteps, RecoveryFates, OwnFates, StartChildrenFate, StartDeliverableFate
  DEF MainStep, Fate
<1>2. ASSUME NEW w \in Worker, Crash(w) PROVE Fate(c)
  <2>1. \A x \in Worker : run'[x][c] = run[x][c]
                            \/ (x = w /\ run'[x][c] = NotRunning)
    BY <1>2, RunFields DEF Crash, NoRuns, IInv
  <2>2. main'[w].pc = "dead"
    BY <1>2 DEF Crash, Idle, IInv, CallInv, ThreadTypes
  <2> QED BY <1>2, <2>1, <2>2 DEF Crash, Fate, Resting, queueVars, fileVars
<1>3. ASSUME NEW r \in RowIds, Expire(r) PROVE Fate(c)
  BY <1>3 DEF Expire, ExpireClaim, fileVars, Fate, Resting
<1>4. CASE UNCHANGED vars
  BY <1>4 DEF vars, Fate, Resting
<1> QED BY <1>1, <1>2, <1>3, <1>4, ChildFates, ApiFates DEF Next
-------------------------------------------------------------------------------
(* A step of the whole system, as far as the invariant needs it.            *)

\* The only save that makes a group SUCCEEDED is that of an outcome.
SuccessSaved(g) ==
  \/ GroupStatus(g) = "SUCCEEDED"
  \/ \E w \in Worker :
       /\ Owns(w, g) /\ main[w].pc = "save"
       /\ main[w].mem.value.status = "SUCCEEDED" /\ ~Stopped(g)

LEMMA Successes ==
  ASSUME IInv, Shape, [Next]_vars, NEW g \in Group, GroupStatus(g)' = "SUCCEEDED"
  PROVE  SuccessSaved(g)
<1>1. CASE UNCHANGED group_json
  BY <1>1 DEF SuccessSaved, GroupStatus, Saved
<1>2. ASSUME NEW w \in Worker, NEW status \in Status, SaveGroup(w, status),
             main[w].pc \in WorkPc \cup {"mark"}
      PROVE  \/ SuccessSaved(g)
             \/ TheGroup(w) = g /\ status = "SUCCEEDED" /\ Current(g, main[w].mem)
  <2>1. /\ group_json'[TheGroup(w)] =
             [version |-> main[w].mem.version + 1,
              value |-> [main[w].mem.value EXCEPT !.status = status]]
        /\ Current(TheGroup(w), main[w].mem) /\ main[w].mem \in Live
        /\ g # TheGroup(w) => group_json'[g] = group_json[g]
    BY <1>2, SaveFacts, MainFields DEF IInv
  <2>2. CASE g = TheGroup(w)
    BY <2>1, <2>2 DEF GroupStatus, Saved, Live, GroupValue
  <2>3. CASE g # TheGroup(w)
    BY <2>1, <2>3 DEF SuccessSaved, GroupStatus, Saved
  <2> QED BY <2>2, <2>3
<1>3. ASSUME NEW w \in Worker, MarkGroup(w)
      PROVE  SuccessSaved(g)
  <2>1. /\ main[w].pc = "mark" /\ main[w].mem.value.status \in {"INTERRUPTED", "CANCELLED"}
        /\ SaveGroup(w, main[w].mem.value.status)
    BY <1>3 DEF MarkGroup, At, Shape, MainShape
  <2> QED BY <1>2, <2>1 DEF Status, Terminal
<1>4. ASSUME NEW w \in Worker, NEW from \in WorkPc, NEW to, SaveProgress(w, from, to)
      PROVE  SuccessSaved(g)
  BY <1>1, <1>2, <1>4 DEF SaveProgress, At, Status
<1>5. ASSUME NEW w \in Worker, StartChildren(w)
      PROVE  SuccessSaved(g)
  BY <1>1, <1>2, <1>5 DEF StartChildren, At, Status, WorkPc, EarlyPc
<1>6. ASSUME NEW w \in Worker, SaveOutcome(w)
      PROVE  SuccessSaved(g)
  <2>1. CASE SaveGroup(w, main[w].mem.value.status)
    <3>1. /\ main[w].pc = "save" /\ main[w].mem.value.status \in Status
          /\ main[w].pc \in WorkPc \cup {"mark"}
      BY <1>6, MainFields DEF SaveOutcome, At, IInv, WorkPc
    <3>2. \/ SuccessSaved(g)
          \/ /\ TheGroup(w) = g /\ main[w].mem.value.status = "SUCCEEDED"
             /\ Current(g, main[w].mem)
      BY <1>2, <2>1, <3>1
    <3>3. TheGroup(w) = g /\ Current(g, main[w].mem) => ~Stopped(g)
      BY <3>1 DEF IInv, FollowInv, MainFollows, FollowsOpen, WorkPc, Stopped
    <3> QED BY <3>1, <3>2, <3>3 DEF SuccessSaved, Owns, OwnPc
  <2> QED BY <1>1, <1>6, <2>1 DEF SaveOutcome
<1>7. ASSUME NEW h \in Group, AnswerCancel(h)
      PROVE  SuccessSaved(g)
  <2>1. CASE UpdateGroup(h, api[h].mem, [api[h].mem.value EXCEPT !.status = "CANCELLED"])
             /\ api[h].mem # Missing
    <3>1. /\ group_json \in [Group -> Live] /\ api[h].mem \in Live
      BY <2>1, ApiFields DEF IInv, CallInv, FileTypes
    <3>2. CASE g = h
      <4>1. group_json'[g].value.status = "CANCELLED"
        BY <2>1, <3>1, <3>2 DEF UpdateGroup, Bumped, Live, GroupValue
      <4> QED BY <4>1 DEF GroupStatus, Saved
    <3>3. CASE g # h
      <4>1. group_json'[g] = group_json[g]
        BY <2>1, <3>1, <3>3 DEF UpdateGroup
      <4> QED BY <4>1 DEF SuccessSaved, GroupStatus, Saved
    <3> QED BY <3>2, <3>3
  <2> QED BY <1>1, <1>7, <2>1 DEF AnswerCancel
<1>8. ASSUME NEW w \in Worker, MainStep(w) \/ GiveUpWaiting(w) \/ Crash(w)
      PROVE  SuccessSaved(g)
  <2>1. /\ SaveProgress(w, "start", "prepare") => SuccessSaved(g)
        /\ SaveProgress(w, "shared", "children") => SuccessSaved(g)
        /\ SaveProgress(w, "nextSave", "next") => SuccessSaved(g)
    BY <1>4 DEF WorkPc, EarlyPc, BetweenPc
  <2>2. CASE \/ RunOnce(w) \/ (\E r \in RowIds : RecoverGroup(w, r)) \/ MarkConflicts(w)
             \/ RecoverChild(w) \/ MarkChild(w) \/ Acknowledge(w) \/ Claim(w) \/ Load(w)
             \/ Begin(w) \/ Prepare(w, "prepare", "shared") \/ UpdateChildren(w)
             \/ WaitForChild(w) \/ Prepare(w, "prepareNext", "nextSave")
             \/ StartDeliverable(w) \/ FailDeliverable(w) \/ Conclude(w) \/ Finish(w)
             \/ Complete(w) \/ GiveUpWaiting(w) \/ Crash(w)
    <3>1. UNCHANGED group_json
      BY <2>2 DEF RunOnce, RecoverGroup, MarkConflicts, RecoverChild, MarkChild, Acknowledge,
                  Claim, Load, Begin, Prepare, UpdateChildren, WaitForChild, StartDeliverable,
                  FailDeliverable, Conclude, Finish, Complete, GiveUpWaiting, Crash, fileVars
    <3> QED BY <1>1, <3>1
  <2> QED BY <1>3, <1>5, <1>6, <1>8, <2>1, <2>2 DEF MainStep
<1>9. ASSUME NEW w \in Worker, NEW c \in Child, ChildStep(w, c)
      PROVE  UNCHANGED group_json
  BY <1>9 DEF ChildStep, LoadChild, BeginChild, AcquireSlot, Process, SlotBoundStages,
              UpdateAfterStages, HandOver, FinishChild, ReleaseSlot, StartDocuments,
              MakeDocuments, FinishDocuments, fileVars
<1>10. ASSUME NEW h \in Group, ApiStep(h) \/ CancelCheck(h)
       PROVE  SuccessSaved(g)
  BY <1>1, <1>7, <1>10 DEF ApiStep, EnqueueGroup, CancelRequest, CancelChild,
                          SaveCancelledChild, CancelCheck, fileVars
<1>11. ASSUME NEW r \in RowIds, Expire(r)
       PROVE  UNCHANGED group_json
  BY <1>11 DEF Expire, fileVars
<1>12. CASE UNCHANGED vars
  BY <1>1, <1>12 DEF vars
<1> QED BY <1>1, <1>8, <1>9, <1>10, <1>11, <1>12 DEF Next

Moving ==
  /\ IInv /\ IInv' /\ Shape /\ Alone /\ Steady
  /\ \/ UNCHANGED main
     \/ \E w \in Worker :
          MainTurn(w) /\ \A x \in Worker : x # w => main'[x] = main[x]
  /\ \A c \in Child : Fate(c)
  /\ \A g \in Group : api'[g] = api[g] \/ ApiTurn(g)
  /\ \A g \in Group : GroupStatus(g)' = "SUCCEEDED" => SuccessSaved(g)

LEMMA StepMoves ==
  ASSUME IInv, Shape, Alone, [Next]_vars
  PROVE  Moving
<1>1. IInv'
  BY CallInvStep, FollowInvStep, FreshInvStep, SlotInvStep DEF IInv
<1>2. Steady
  BY SteadyStep
<1> QED BY <1>1, <1>2, Turns, Fates, Requests, Successes DEF Moving

\* One thread moves, or none.
LEMMA OneMoves ==
  ASSUME Moving, NEW w \in Worker
  PROVE  /\ main'[w] = main[w] \/ MainTurn(w)
         /\ \A x \in Worker : main'[w] # main[w] /\ main'[x] # main[x] => w = x
BY DEF Moving

\* A thread that rests keeps the group that it has in hand.
LEMMA RowStays ==
  ASSUME Moving, NEW w \in Worker, main[w].pc \notin RestPc, main'[w].row = main[w].row
  PROVE  TheGroup(w) \in Group /\ TheGroup(w)' = TheGroup(w)
BY GroupInHand DEF Moving

\* A group is owned from the grant of begin_execution on.
LEMMA OwnsLater ==
  ASSUME Moving, NEW w \in Worker, NEW g \in Group, Owns(w, g)'
  PROVE  \/ Owns(w, g)
         \/ ~Begun(g) /\ Begun(g)' /\ main'[w] # main[w]
<1> USE DEF EarlyPc, BetweenPc
<1>1. main'[w] = main[w] \/ MainTurn(w)
  BY OneMoves
<1>2. CASE main'[w] = main[w]
  <2>1. main[w].pc \in OwnPc /\ main[w].pc \notin RestPc
    BY <1>2 DEF Owns, OwnPc, RestPc
  <2>2. TheGroup(w)' = TheGroup(w)
    BY <1>2, <2>1, RowStays
  <2> QED BY <2>1, <2>2 DEF Owns
<1>3. CASE OwnTurn(w)
  <2>1. /\ main[w].pc \in OwnPc \/ (main[w].pc = "begin" /\ ~Begun(TheGroup(w)))
        /\ main'[w].row = main[w].row
    BY <1>3 DEF OwnTurn, WaitTurn, OwnPc
  <2>2. TheGroup(w)' = TheGroup(w)
    BY <2>1, RowStays DEF RestPc, OwnPc
  <2>3. TheGroup(w) = g
    BY <2>2 DEF Owns
  <2>4. CASE main[w].pc \in OwnPc
    BY <2>3, <2>4 DEF Owns
  <2>5. CASE main[w].pc = "begin" /\ ~Begun(TheGroup(w))
    <3>1. main'[w] # main[w]
      BY <2>5 DEF Owns, OwnPc
    <3>2. main'[w].pc = "start"
      BY <1>3, <2>5 DEF OwnTurn, WaitTurn, OwnPc
    <3>3. Begun(g)'
      BY <2>3, <2>2, <3>2 DEF Moving, IInv, FreshInv, MainFresh
    <3> QED BY <2>3, <2>5, <3>1, <3>3
  <2> QED BY <2>1, <2>4, <2>5
<1>4. CASE RestTurn(w) \/ RecoveryTurn(w)
  <2>1. main'[w].pc \notin OwnPc
    BY <1>4 DEF RestTurn, RecoveryTurn, RestPc, OwnPc
  <2> QED BY <2>1 DEF Owns
<1> QED BY <1>1, <1>2, <1>3, <1>4 DEF MainTurn

\* No child is submitted again.
LEMMA AheadLater ==
  ASSUME Moving, NEW w \in Worker, NEW c \in Child, Ahead(w, c)'
  PROVE  Ahead(w, c) \/ ~Begun(GroupOf(c))
<1> DEFINE g == GroupOf(c)
<1>1. g \in Group /\ Owns(w, g)'
  BY ParentFacts DEF Ahead
<1>2. CASE ~Owns(w, g)
  BY <1>1, <1>2, OwnsLater
<1>3. CASE Owns(w, g) /\ main'[w] = main[w]
  <2>1. Saved(g)'.replacing = Saved(g).replacing
    BY <1>1 DEF Moving, Steady
  <2> QED BY <1>3, <2>1 DEF Ahead
<1>4. CASE Owns(w, g) /\ main'[w] # main[w]
  <2>1. OwnTurn(w)
    <3>1. main'[w].pc \in OwnPc
      BY <1>1 DEF Owns
    <3>2. ~RestTurn(w) /\ ~RecoveryTurn(w)
      BY <3>1 DEF RestTurn, RecoveryTurn, RestPc, OwnPc, EarlyPc, BetweenPc
    <3> QED BY <1>4, <3>2, OneMoves DEF MainTurn
  <2>2. /\ main[w].pc \in OwnPc /\ TheGroup(w) = g
        /\ Saved(g)'.replacing = Saved(g).replacing
    BY <1>1, <1>4 DEF Owns, Moving, Steady
  <2>3. DeliverableOf[g] # AuditOf[g]
    BY <1>1, ChildFacts
  <2>4. CASE main[w].pc \in EarlyPc
    BY <1>4, <2>4 DEF Ahead
  <2>5. CASE WaitTurn(w)
    <3>1. /\ main[w].pc = "wait" /\ main[w].todo # <<>> /\ main[w].todo \in Seq(Child)
          /\ main'[w].todo = Tail(main[w].todo)
      BY <2>5, MainFields DEF WaitTurn, Moving, IInv
    <3>2. IsDeliverable(c) /\ Saved(g).replacing
      BY <2>2, <2>5 DEF Ahead, WaitTurn, EarlyPc
    <3>3. main[w].todo = <<AuditOf[g]>> \/ main[w].todo = <<DeliverableOf[g]>>
      BY <2>2, <3>1, <3>2 DEF Moving, IInv, FreshInv, MainFresh
    <3>4. CASE main[w].todo = <<AuditOf[g]>>
      BY <1>4, <3>1, <3>2, <3>4 DEF Ahead
    <3>5. CASE main[w].todo = <<DeliverableOf[g]>>
      <4>1. /\ Head(main[w].todo) = DeliverableOf[g] /\ main'[w].todo = <<>>
        BY <3>1, <3>5
      <4>2. main'[w].pc = "conclude"
        BY <1>1, <2>2, <2>5, <4>1, ChildFacts DEF WaitTurn
      <4> QED BY <4>2 DEF Ahead, EarlyPc, BetweenPc
    <3> QED BY <3>3, <3>4, <3>5
  <2>6. CASE main[w].pc \in BetweenPc \cup {"nextChild"}
    <3>1. IsDeliverable(c) \/ main'[w].pc \in EarlyPc
      BY DEF Ahead
    <3>2. main'[w].pc \notin EarlyPc
      BY <2>1, <2>6 DEF OwnTurn, WaitTurn, EarlyPc, BetweenPc
    <3>3. Saved(g).replacing
      BY <2>2, <3>2 DEF Ahead
    <3> QED BY <1>4, <2>6, <3>1, <3>2, <3>3 DEF Ahead
  <2>7. main[w].pc \in EarlyPc \cup BetweenPc \cup {"nextChild"} \/ WaitTurn(w)
        \/ main'[w].pc \in {"finish", "save"}
    BY <2>1, <2>2 DEF OwnTurn, WaitTurn, EarlyPc, BetweenPc, OwnPc
  <2> QED BY <2>4, <2>5, <2>6, <2>7 DEF Ahead, EarlyPc, BetweenPc
<1> QED BY <1>2, <1>3, <1>4

\* A child that enters the executors of w was ahead of w's main thread.
LEMMA RunLater ==
  ASSUME Moving, NEW w \in Worker, NEW c \in Child, run[w][c].pc = "none",
         run'[w][c].pc # "none"
  PROVE  Ahead(w, c) /\ ~Ahead(w, c)'
<1>1. Fate(c)
  BY DEF Moving
<1>2. \A x \in Worker : WorkedOn(x, c) => x # w
  BY DEF WorkedOn, ThreadTurn
<1>3. PICK x \in Worker : Entered(x, c)
  BY <1>1, <1>2 DEF Fate, Resting, Rewritten, Requested, GivenUp, WorkedOn, NotRunning
<1>4. x = w
  BY <1>3 DEF Entered
<1> QED BY <1>3, <1>4 DEF Entered

LEMMA EngagedLater ==
  ASSUME Moving, NEW w \in Worker, NEW g \in Group, Engaged(w, g)'
  PROVE  \/ Engaged(w, g)
         \/ ~Begun(g) /\ Begun(g)' /\ main'[w] # main[w]
<1>1. CASE Owns(w, g)'
  BY <1>1, OwnsLater DEF Engaged
<1>2. CASE \E c \in Family(g) : run'[w][c].pc # "none"
  <2>1. PICK c \in Family(g) : run'[w][c].pc # "none"
    BY <1>2
  <2>2. CASE run[w][c].pc # "none"
    BY <2>2 DEF Engaged
  <2>3. CASE run[w][c].pc = "none"
    <3>1. c \in Child /\ GroupOf(c) = g
      BY FamilyFacts
    <3> QED BY <2>1, <2>3, <3>1, RunLater DEF Ahead, Engaged
  <2> QED BY <2>2, <2>3
<1> QED BY <1>1, <1>2 DEF Engaged

LEMMA AloneStep ==
  ASSUME Moving
  PROVE  Alone'
<1>1. ASSUME NEW w \in Worker, NEW g \in Group, Engaged(w, g)'
      PROVE  Begun(g)'
  BY <1>1, EngagedLater, ChildFacts DEF Moving, Alone, Steady
<1>2. ASSUME NEW w \in Worker, NEW x \in Worker, NEW g \in Group,
             Engaged(w, g)', Engaged(x, g)'
      PROVE  w = x
  <2>1. /\ Engaged(w, g) \/ (~Begun(g) /\ main'[w] # main[w])
        /\ Engaged(x, g) \/ (~Begun(g) /\ main'[x] # main[x])
    BY <1>2, EngagedLater
  <2>2. /\ Engaged(w, g) => Begun(g)
        /\ Engaged(x, g) => Begun(g)
        /\ Engaged(w, g) /\ Engaged(x, g) => w = x
    BY DEF Moving, Alone
  <2>3. main'[w] # main[w] /\ main'[x] # main[x] => w = x
    BY OneMoves
  <2> QED BY <2>1, <2>2, <2>3
<1>3. ASSUME NEW w \in Worker, NEW c \in Child, Ahead(w, c)'
      PROVE  Unsubmitted(w, c)'
  <2>1. Unsubmitted(w, c)
    <3>1. CASE Ahead(w, c)
      BY <3>1 DEF Moving, Alone
    <3>2. CASE ~Begun(GroupOf(c))
      BY <3>2, ParentFacts DEF Moving, IInv, FreshInv, Family
    <3> QED BY <1>3, <3>1, <3>2, AheadLater
  <2> QED BY <1>3, <2>1, RunLater DEF Unsubmitted
<1> QED BY <1>1, <1>2, <1>3 DEF Alone

-------------------------------------------------------------------------------
(* The shape of the threads.                                                *)

LEMMA MainShapeStep ==
  ASSUME Moving, NEW w \in Worker
  PROVE  MainShape(w)'
<1> USE DEF EarlyPc, BetweenPc, WorkPc
<1>1. /\ MainShape(w) /\ MainSound(main[w])
      /\ main[w].todo \in Seq(Child)
      /\ main[w].pc \notin RestPc => TheGroup(w) \in Group /\ main[w].row \in RowIds
      /\ \A r \in RowIds :
           /\ r \in RowIds'
           /\ queue_items'[r].item = queue_items[r].item
           /\ queue_items[r].interrupted => queue_items'[r].interrupted
      /\ \A g \in Group : /\ Stopped(g) => Stopped(g)'
                          /\ Saved(g)'.replacing = Saved(g).replacing
  BY MainFields DEF Moving, IInv, Shape, Steady
<1>2. CASE main'[w] = main[w]
  <2>1. CASE main[w].pc \in RestPc
    BY <1>1, <1>2, <2>1 DEF MainShape, MainSound, RestPc
  <2>2. CASE main[w].pc \notin RestPc
    <3>1. TheGroup(w)' = TheGroup(w)
      BY <1>2, <2>2, RowStays
    <3> QED BY <1>1, <1>2, <2>2, <3>1 DEF MainShape, MainSound
  <2> QED BY <2>1, <2>2
<1>3. CASE RestTurn(w)
  <2>1. \A r \in main'[w].rows : queue_items'[r].interrupted
    BY <1>1, <1>3 DEF RestTurn, MainShape, MainSound
  <2> QED BY <1>3, <2>1 DEF RestTurn, MainShape, RestPc
<1>4. CASE RecoveryTurn(w)
  <2>1. /\ \A r \in main'[w].rows : queue_items'[r].interrupted
        /\ main'[w].pc \in {"mark", "recoverChild", "markChild"}
    BY <1>1, <1>4 DEF RecoveryTurn, MainShape, MainSound
  <2>2. CASE main[w].pc = "recover"
    <3>1. /\ main'[w].pc \in {"mark", "recoverChild"}
          /\ main'[w].row \in main[w].rows
          /\ main'[w].todo = Children(queue_items[main'[w].row].item)
          /\ main'[w].pc = "mark" => main'[w].mem.value.status \in {"INTERRUPTED", "CANCELLED"}
          /\ main'[w].pc = "recoverChild" =>
               GroupStatus(queue_items[main'[w].row].item) = "INTERRUPTED"
      BY <1>4, <2>2 DEF RecoveryTurn
    <3>2. PICK g \in Group : g = queue_items[main'[w].row].item
      BY <1>1, <3>1 DEF MainSound, Moving, IInv, CallInv
    <3>3. /\ main'[w].row \in RowIds /\ queue_items'[main'[w].row].item = g
          /\ queue_items'[main'[w].row].interrupted
      BY <1>1, <3>1, <3>2 DEF MainShape, MainSound
    <3>4. main'[w].pc = "recoverChild" => Stopped(g)'
      BY <1>1, <3>1, <3>2 DEF Stopped
    <3>5. Left(main'[w].todo) \subseteq Family(g)
      BY <3>1, <3>2, LeftFirst
    <3>6. TheGroup(w)' = g
      BY <3>3 DEF TheGroup
    <3> QED BY <2>1, <3>1, <3>3, <3>4, <3>5, <3>6 DEF MainShape
  <2>3. CASE main[w].pc # "recover"
    <3>1. /\ main[w].pc \in {"mark", "recoverChild", "markChild"}
          /\ main'[w].row = main[w].row
          /\ main'[w].pc \in {"recoverChild", "markChild"}
          /\ main'[w].todo = main[w].todo \/ (/\ main[w].todo # <<>>
                                              /\ main'[w].todo = Tail(main[w].todo))
      BY <1>4, <2>3 DEF RecoveryTurn
    <3>2. PICK g \in Group : g = TheGroup(w) /\ TheGroup(w)' = g
      BY <1>1, <3>1, RowStays DEF RestPc
    <3>3. Left(main'[w].todo) \subseteq Family(g)
      BY <1>1, <3>1, <3>2, LeftTail DEF MainShape
    <3>4. Stopped(g)'
      <4>1. CASE main[w].pc = "mark"
        <5>1. GroupStatus(g)' = main[w].mem.value.status
          BY <1>4, <3>2, <4>1 DEF RecoveryTurn
        <5> QED BY <1>1, <4>1, <5>1 DEF MainShape, Stopped
      <4>2. CASE main[w].pc # "mark"
        BY <1>1, <3>1, <3>2, <4>2 DEF MainShape
      <4> QED BY <4>1, <4>2
    <3>5. queue_items'[main'[w].row].interrupted
      BY <1>1, <3>1 DEF MainShape, RestPc
    <3> QED BY <2>1, <3>1, <3>2, <3>3, <3>4, <3>5 DEF MainShape
  <2> QED BY <2>2, <2>3
<1>5. CASE OwnTurn(w)
  <2>1. /\ main[w].pc \in WorkPc \ {"save"} /\ main'[w].pc \in OwnPc
        /\ main'[w].row = main[w].row /\ main'[w].rows \subseteq main[w].rows
    BY <1>5 DEF OwnTurn, WaitTurn, OwnPc
  <2>2. PICK g \in Group : g = TheGroup(w) /\ TheGroup(w)' = g
    BY <1>1, <2>1, RowStays DEF RestPc
  <2>3. \A r \in main'[w].rows : queue_items'[r].interrupted
    BY <1>1, <2>1 DEF MainShape, MainSound
  <2>4. main'[w].pc \in {"children", "wait"} => Left(main'[w].todo) \subseteq Family(g)
    <3>1. \/ main'[w].todo = Children(g) \/ main'[w].todo = FirstBatch(g)
          \/ main'[w].todo = <<DeliverableOf[g]>>
          \/ /\ main[w].pc \in {"children", "wait"} /\ main[w].todo # <<>>
             /\ main'[w].todo = Tail(main[w].todo)
          \/ main'[w].pc \notin {"children", "wait"}
      BY <1>5, <2>2 DEF OwnTurn, WaitTurn, OwnPc
    <3>2. CASE main'[w].todo \in {Children(g), FirstBatch(g), <<DeliverableOf[g]>>}
      <4>1. /\ Left(Children(g)) \subseteq Family(g)
            /\ Left(FirstBatch(g)) \subseteq Family(g)
            /\ Left(<<DeliverableOf[g]>>) \subseteq Family(g)
        BY LeftFirst
      <4> QED BY <3>2, <4>1
    <3>3. CASE /\ main[w].pc \in {"children", "wait"} /\ main[w].todo # <<>>
               /\ main'[w].todo = Tail(main[w].todo)
      <4>1. Left(main[w].todo) \subseteq Family(g)
        BY <1>1, <2>2, <3>3 DEF MainShape
      <4> QED BY <1>1, <3>3, <4>1, LeftTail
    <3> QED BY <3>1, <3>2, <3>3
  <2>5. main'[w].pc \notin {"finish", "save"} => main'[w].mem.value.status # "SUCCEEDED"
    <3>1. main'[w].pc \notin {"finish", "save"} =>
            /\ main'[w].mem.value.status \in {main[w].mem.value.status, "RUNNING"}
            /\ main[w].pc \notin {"finish", "save"}
      BY <1>5 DEF OwnTurn, WaitTurn, OwnPc
    <3> QED BY <1>1, <2>1, <3>1 DEF MainShape
  <2>6. main'[w].pc \in BetweenPc \cup {"nextChild"} => Saved(g)'.replacing
    <3>1. main'[w].pc \in BetweenPc \cup {"nextChild"} =>
            main[w].pc \in BetweenPc \/ Saved(g).replacing
      BY <1>5, <2>2 DEF OwnTurn, WaitTurn, OwnPc
    <3> QED BY <1>1, <2>2, <3>1 DEF MainShape
  <2> QED BY <2>1, <2>2, <2>3, <2>4, <2>5, <2>6 DEF MainShape, OwnPc
<1> QED BY <1>2, <1>3, <1>4, <1>5, OneMoves DEF MainTurn

LEMMA ApiShapeStep ==
  ASSUME Moving, NEW g \in Group
  PROVE  ApiShape(g)'
<1>1. /\ ApiShape(g) /\ ApiSound(api[g]) /\ api[g].todo \in Seq(Child) /\ g \in Item
      /\ \A i \in Item : /\ CancelRequested(i) => CancelRequested(i)'
                         /\ Ended(i) => Ended(i)'
  BY ApiFields, ChildFacts DEF Moving, IInv, Shape, Steady
<1>2. Child \subseteq Item
  BY ParentFacts
<1>3. CASE api'[g] = api[g]
  <2>1. CASE api[g].pc = "childSave"
    <3>1. PICK c \in Child : c = Head(api[g].todo)
      BY <1>1, <2>1, LeftTail DEF ApiSound
    <3>2. Ended(c)'
      BY <1>1, <1>2, <2>1, <3>1 DEF ApiShape, ApiPassing
    <3> QED BY <1>1, <1>3, <2>1, <3>1, <3>2 DEF ApiShape, ApiPassing
  <2>2. CASE api[g].pc # "childSave"
    BY <1>1, <1>3, <2>2 DEF ApiShape
  <2> QED BY <2>1, <2>2
<1>4. CASE ApiTurn(g) /\ api'[g].pc \in ApiPassing
  <2>1. CASE /\ api[g].pc = "request" /\ api'[g].pc = "child" /\ api'[g].todo = Children(g)
             /\ CancelRequested(g)'
    <3>1. Left(api'[g].todo) \subseteq Family(g)
      BY <2>1, LeftFirst
    <3> QED BY <2>1, <3>1 DEF ApiShape
  <2>2. CASE /\ \/ api[g].pc = "child" /\ api'[g].pc = "save" /\ api[g].todo = <<>>
                \/ api[g].pc = "save" /\ api'[g].pc = "answered"
             /\ api'[g].todo = api[g].todo
    BY <1>1, <2>2 DEF ApiShape, ApiPassing
  <2>3. ASSUME NEW c \in Child, api[g].todo # <<>>, c = Head(api[g].todo),
               \/ /\ api[g].pc = "child" /\ api'[g].pc = "childSave"
                  /\ api'[g].todo = api[g].todo /\ Ended(c)'
               \/ /\ api[g].pc \in {"child", "childSave"} /\ api'[g].pc = "child"
                  /\ api'[g].todo = Tail(api[g].todo)
        PROVE  ApiShape(g)'
    <3>1. Left(api[g].todo) \subseteq Family(g) /\ CancelRequested(g)'
      BY <1>1, <2>3 DEF ApiShape, ApiPassing
    <3>2. Left(api'[g].todo) \subseteq Family(g)
      BY <1>1, <2>3, <3>1, LeftTail
    <3> QED BY <2>3, <3>1, <3>2 DEF ApiShape
  <2> QED BY <1>4, <2>1, <2>2, <2>3 DEF ApiTurn
<1>5. CASE api'[g].pc \notin ApiPassing
  BY <1>5 DEF ApiShape
<1> QED BY <1>3, <1>4, <1>5 DEF Moving

\* What the end of an execution and a request leave of a control.
LEMMA ControlFacts ==
  ASSUME NEW k \in Control, ControlSound(k)
  PROVE  /\ ControlAfterFinish(k).cancel_requested = k.cancel_requested
         /\ ControlAfterFinish(k).state = "cancelled" => k.cancel_requested
         /\ k.state = "completed" => ControlAfterFinish(k) = k
         /\ k.state = "completed" => ControlAfterCancel(k).state = "completed"
         /\ k.state = "running" =>
              /\ ControlAfterCancel(k).state = "running"
              /\ ControlAfterFinish(k).state \in {"completed", "cancelled"}
         /\ k.state # "absent" => ControlAfterCancel(k).state = k.state
         /\ k.state = "absent" => ControlAfterFinish(k) = k
         /\ k.state = "cancelled" => k.cancel_requested /\ ControlAfterFinish(k) = k
         /\ k.cancel_requested => ControlAfterCancel(k).cancel_requested
BY DEF Control, ControlState, ControlSound, ControlAfterFinish, ControlAfterCancel

LEMMA ControlOf ==
  ASSUME Moving, NEW c \in Child
  PROVE  /\ execution_controls[c] \in Control /\ ControlSound(execution_controls[c])
         /\ execution_controls'[c] \in Control /\ ControlSound(execution_controls'[c])
         /\ c \in Item
         /\ Ended(c) => CancelRequested(c)
BY ParentFacts DEF Moving, IInv, CallInv, ControlInv, ControlSound, Ended, CancelRequested

LEMMA RunShapeStep ==
  ASSUME Moving, NEW w \in Worker, NEW c \in Child
  PROVE  RunShape(w, c)'
<1>1. /\ RunShape(w, c) /\ Fate(c) /\ c \in Item
      /\ Begun(c) => Begun(c)'
      /\ CancelRequested(c) => CancelRequested(c)'
  BY ControlOf DEF Moving, Shape, Steady
<1>2. CASE run'[w][c] = run[w][c]
  BY <1>1, <1>2 DEF RunShape
<1>3. CASE run'[w][c] \in {NotRunning, [NotRunning EXCEPT !.pc = "heavy"]}
  <2>1. run'[w][c].pc \in {"none", "heavy"} /\ run'[w][c].mem = "QUEUED"
    BY <1>3 DEF NotRunning
  <2> QED BY <2>1 DEF RunShape
<1>4. CASE WorkedOn(w, c)
  <2> DEFINE r == run[w][c]
             n == run'[w][c]
  <2>1. n.pc \in {"stages", "doc", "docRun", "docFinish"} => IsDeliverable(c)
    BY <1>1, <1>4 DEF RunShape, WorkedOn, ThreadTurn
  <2>2. IsDeliverable(c) /\ n.pc # "docFinish" => n.mem # "SUCCEEDED"
    BY <1>1, <1>4 DEF RunShape, WorkedOn, ThreadTurn
  <2>3. n.pc \notin {"none", "heavy", "begin"} => Begun(c)'
    <3>1. CASE r.pc = "begin"
      <4>1. n.pc \notin {"none", "heavy", "begin"} =>
              execution_controls'[c] = [execution_controls[c] EXCEPT !.state = "running"]
        BY <1>4, <3>1 DEF WorkedOn, ThreadTurn
      <4> QED BY <4>1, ControlOf DEF Begun, Control
    <3>2. CASE r.pc # "begin"
      BY <1>1, <1>4, <3>2 DEF RunShape, WorkedOn, ThreadTurn
    <3> QED BY <3>1, <3>2
  <2>4. n.mem = "CANCELLED" => CancelRequested(c)'
    <3>1. CASE r.pc = "update" /\ execution_controls[c].state = "cancelled"
      BY <1>1, <3>1, ControlOf DEF Ended
    <3>2. CASE ~(r.pc = "update" /\ execution_controls[c].state = "cancelled")
      <4>1. n.mem \in {r.mem, "RUNNING", "SUCCEEDED", "FAILED", "QUEUED"}
        BY <1>4, <3>2 DEF WorkedOn, ThreadTurn
      <4> QED BY <1>1, <4>1 DEF RunShape
    <3> QED BY <3>1, <3>2
  <2> QED BY <2>1, <2>2, <2>3, <2>4 DEF RunShape
<1>5. run'[w][c] \in {run[w][c], NotRunning, [NotRunning EXCEPT !.pc = "heavy"]}
      \/ WorkedOn(w, c)
  BY <1>1 DEF Fate, Resting, Rewritten, Requested, GivenUp, Entered, WorkedOn
<1> QED BY <1>2, <1>3, <1>4, <1>5

LEMMA CancelShapeStep ==
  ASSUME Moving, NEW c \in Child
  PROVE  CancelShape(c)'
<1> DEFINE g == GroupOf(c)
           k == execution_controls[c]
           l == execution_controls'[c]
<1>1. /\ CancelShape(c) /\ Fate(c) /\ c \in Item /\ g \in Item
      /\ CancelRequested(g) => CancelRequested(g)'
      /\ CancelRequested(c) => CancelRequested(c)'
      /\ k \in Control /\ ControlSound(k) /\ ControlSound(l)
      /\ Ended(c) => CancelRequested(c)
  BY ControlOf, ParentFacts, ChildFacts DEF Moving, Shape, Steady
<1>2. CancelRequested(c)' => CancelRequested(c) \/ CancelRequested(g)
  <2>1. CASE Requested(c)
    BY <2>1 DEF Requested
  <2>2. CASE l = k \/ l = ControlAfterFinish(k) \/ l = [k EXCEPT !.state = "running"]
    BY <1>1, <2>2, ControlFacts DEF CancelRequested, Control
  <2> QED BY <1>1, <2>1, <2>2
          DEF Fate, Resting, Rewritten, GivenUp, Entered, WorkedOn, ThreadTurn
<1>3. job_json'[c] = "CANCELLED" => CancelRequested(c)'
  <2>1. ASSUME NEW s, s # "CANCELLED" \/ Ended(c), Written(c, s)
        PROVE  job_json'[c] = "CANCELLED" => CancelRequested(c)'
    BY <1>1, <2>1 DEF Written
  <2>2. CASE job_json'[c] = job_json[c]
    BY <1>1, <2>2 DEF CancelShape
  <2>3. ASSUME NEW w \in Worker, WorkedOn(w, c)
        PROVE  job_json'[c] = "CANCELLED" => CancelRequested(c)'
    <3>1. \/ job_json'[c] \in {job_json[c], run[w][c].mem, "RUNNING", "SUCCEEDED", "FAILED"}
          \/ k.state = "cancelled" \/ l.state = "cancelled"
      BY <2>3 DEF WorkedOn, ThreadTurn
    <3>2. run[w][c].mem = "CANCELLED" => CancelRequested(c)
      BY DEF Moving, Shape, RunShape
    <3>3. l.state = "cancelled" => CancelRequested(c)'
      BY <1>1 DEF ControlSound, CancelRequested
    <3> QED BY <1>1, <3>1, <3>2, <3>3 DEF CancelShape, Ended
  <2> QED BY <1>1, <2>1, <2>2, <2>3
          DEF Fate, Resting, Rewritten, Requested, GivenUp, Entered
<1> QED BY <1>1, <1>2, <1>3 DEF CancelShape

LEMMA ShapeStep ==
  ASSUME Moving
  PROVE  Shape'
BY MainShapeStep, ApiShapeStep, RunShapeStep, CancelShapeStep DEF Shape
-------------------------------------------------------------------------------
(* The files of the children.                                               *)

\* A child that is over is not marked, unless it is being marked already.
LEMMA MarksLater ==
  ASSUME Moving, NEW w \in Worker, NEW c \in Child, Marks(w, c)'
  PROVE  Marks(w, c) \/ job_json[c] \notin Terminal
<1>1. CASE main'[w] = main[w]
  BY <1>1 DEF Marks
<1>2. CASE MainTurn(w)
  <2>1. /\ main[w].pc = "recoverChild" /\ main'[w].todo = main[w].todo
        /\ job_json[Head(main[w].todo)] \notin Terminal
    BY <1>2
    DEF MainTurn, RestTurn, RecoveryTurn, OwnTurn, WaitTurn, Marks, RestPc, OwnPc, EarlyPc,
        BetweenPc
  <2> QED BY <2>1 DEF Marks
<1> QED BY <1>1, <1>2, OneMoves

\* The recovery only marks children of groups that are stopped and recovered.
LEMMA MarkedIsStopped ==
  ASSUME IInv, Shape, NEW w \in Worker, NEW c \in Child, Marks(w, c)
  PROVE  Stopped(GroupOf(c)) /\ Recovered(GroupOf(c))
<1>1. /\ main[w].pc = "markChild" /\ main[w].todo # <<>> /\ main[w].todo \in Seq(Child)
      /\ main[w].row \in RowIds /\ TheGroup(w) \in Group
  BY MainFields DEF Marks, IInv, MainSound, TodoPc, RestPc
<1>2. c \in Family(TheGroup(w)) /\ Stopped(TheGroup(w)) /\ queue_items[main[w].row].interrupted
  BY <1>1, LeftTail DEF Marks, Shape, MainShape
<1>3. GroupOf(c) = TheGroup(w)
  BY <1>1, <1>2, FamilyFacts
<1> QED BY <1>1, <1>2, <1>3 DEF Recovered, TheGroup

\* Where a child is in the executors, its group is executed and nobody else has it.
LEMMA OnlyThere ==
  ASSUME Moving, NEW w \in Worker, NEW c \in Child, run[w][c].pc # "none"
  PROVE  /\ Begun(GroupOf(c))
         /\ \A v \in Worker : ~Ahead(v, c)
         /\ \A v \in Worker : v # w => run[v][c].pc = "none"
<1>1. GroupOf(c) \in Group /\ c \in Family(GroupOf(c)) /\ Engaged(w, GroupOf(c))
  BY ParentFacts DEF Engaged
<1>2. \A v \in Worker : Engaged(v, GroupOf(c)) => v = w
  BY <1>1 DEF Moving, Alone
<1>3. Begun(GroupOf(c))
  BY <1>1 DEF Moving, Alone
<1>4. \A v \in Worker : ~Ahead(v, c)
  BY <1>2 DEF Ahead, Engaged, Moving, Alone, Unsubmitted
<1> QED BY <1>1, <1>2, <1>3, <1>4 DEF Engaged

LEMMA NeverAheadAgain ==
  ASSUME Moving, NEW c \in Child, Begun(GroupOf(c)), NEW w \in Worker, ~Ahead(w, c)
  PROVE  ~Ahead(w, c)'
BY AheadLater

LEMMA FirmStays ==
  ASSUME Moving, NEW c \in Child, FileSafe(c), Firm(c)
  PROVE  Firm(c)'
<1>1. /\ job_json[c] = "SUCCEEDED" /\ execution_controls[c].state = "completed"
      /\ Fate(c)
      /\ \A w \in Worker :
           /\ run[w][c].pc \in {"none", "release"} /\ ~Marks(w, c) /\ ~Ahead(w, c)
  BY DEF Firm, FileSafe, Moving
<1>2. \A w \in Worker : ~Marks(w, c)'
  BY <1>1, MarksLater DEF Terminal
<1>3. CASE Resting(c)
  BY <1>1, <1>2, <1>3 DEF Firm, Resting, NotRunning
<1>4. CASE Requested(c)
  BY <1>1, <1>2, <1>4, ControlOf, ControlFacts DEF Firm, Requested
<1>5. ASSUME NEW w \in Worker, WorkedOn(w, c)
      PROVE  Firm(c)'
  BY <1>1, <1>2, <1>5 DEF Firm, WorkedOn, ThreadTurn
<1>6. ~Rewritten(c) /\ ~GivenUp(c) /\ \A w \in Worker : ~Entered(w, c)
  BY <1>1 DEF Rewritten, GivenUp, Entered, Ended, Terminal
<1> QED BY <1>1, <1>3, <1>4, <1>5, <1>6 DEF Fate

\* A success that was waited for is firm, unless the group was stopped.
LEMMA WaitedFor ==
  ASSUME IInv, Shape, NEW c \in Child, FileSafe(c), job_json[c] = "SUCCEEDED", ~Executing(c)
  PROVE  Firm(c) \/ Stopped(GroupOf(c))
<1> SUFFICES ASSUME ~Stopped(GroupOf(c))
             PROVE  Firm(c)
  OBVIOUS
<1>1. execution_controls[c].state = "completed"
  BY DEF FileSafe, HasRun, Executing
<1>2. ASSUME NEW w \in Worker
      PROVE  run[w][c].pc \in {"none", "release"} /\ ~Marks(w, c)
  <2>1. run[w][c].pc \in DonePc(c) /\ run[w][c].pc \notin InHandPc
    BY DEF FileSafe
  <2> QED BY <2>1, MarkedIsStopped DEF DonePc, InHandPc
<1> QED BY <1>1, <1>2 DEF Firm

\* The step of a child keeps what its file says safe.
LEMMA WorkedOnSafe ==
  ASSUME Moving, NEW w \in Worker, NEW c \in Child, FileSafe(c), WorkedOn(w, c)
  PROVE  FileSafe(c)'
<1> DEFINE g == GroupOf(c)
           r == run[w][c]
           n == run'[w][c]
           k == execution_controls[c]
           l == execution_controls'[c]
<1>1. /\ g \in Group /\ g \in Item /\ c \in Item
      /\ RunShape(w, c) /\ ThreadTurn(c, r, n, job_json[c], job_json'[c], k, l)
      /\ \A v \in Worker : v # w => run'[v][c] = run[v][c]
      /\ k \in Control /\ ControlSound(k)
      /\ r.pc # "none"
  BY ParentFacts, ChildFacts, ControlOf DEF Moving, Shape, WorkedOn, ThreadTurn
<1>2. /\ Begun(g)' /\ (Stopped(g) => Stopped(g)')
      /\ \A v \in Worker : ~Ahead(v, c)'
      /\ \A v \in Worker : v # w => run'[v][c].pc = "none"
  BY <1>1, OnlyThere, NeverAheadAgain DEF Moving, Steady
<1>3. /\ job_json[c] = "SUCCEEDED" =>
           /\ HasRun(c) \/ (IsDeliverable(c) /\ Stopped(g))
           /\ r.pc \in DonePc(c)
           /\ r.pc \in {"boundary", "finish"} => r.mem = "SUCCEEDED"
      /\ r.pc \in InHandPc => k.state = "running" \/ Stopped(g)
  BY DEF FileSafe, Executing
<1>4. n.pc \in InHandPc => l.state = "running" \/ Stopped(g)
  <2>1. CASE r.pc = "begin"
    <3>1. n.pc \in InHandPc => l = [k EXCEPT !.state = "running"]
      BY <1>1, <2>1 DEF ThreadTurn, InHandPc
    <3> QED BY <1>1, <3>1 DEF Control
  <2>2. CASE r.pc # "begin"
    <3>1. n.pc \in InHandPc => r.pc \in InHandPc /\ l = k
      BY <1>1, <2>2 DEF ThreadTurn, InHandPc
    <3> QED BY <1>3, <3>1
  <2> QED BY <2>1, <2>2
<1>5. job_json'[c] = "SUCCEEDED" =>
        /\ n.pc \in DonePc(c)
        /\ n.pc \in {"boundary", "finish"} => n.mem = "SUCCEEDED"
        /\ l.state \in {"running", "completed"} \/ (IsDeliverable(c) /\ Stopped(g))
  <2> SUFFICES ASSUME job_json'[c] = "SUCCEEDED"
               PROVE  /\ n.pc \in DonePc(c)
                      /\ n.pc \in {"boundary", "finish"} => n.mem = "SUCCEEDED"
                      /\ l.state \in {"running", "completed"} \/ (IsDeliverable(c) /\ Stopped(g))
    OBVIOUS
  <2>1. CASE r.pc \in {"heavy", "begin", "acquire", "process", "stages", "doc"}
    <3>1. job_json[c] = "SUCCEEDED"
      BY <1>1, <2>1 DEF ThreadTurn
    <3> QED BY <1>3, <2>1, <3>1 DEF DonePc
  <2>2. CASE r.pc = "update"
    <3>1. /\ n.pc = "boundary" /\ n.mem = "SUCCEEDED" /\ l = k
          /\ r.mem = "SUCCEEDED" /\ k.state # "cancelled"
      BY <1>1, <2>2 DEF ThreadTurn
    <3>2. k.state # "absent" /\ ~IsDeliverable(c)
      BY <1>1, <2>2, <3>1 DEF RunShape, Begun
    <3>3. k.state \in {"running", "completed"}
      BY <1>1, <3>1, <3>2 DEF Control, ControlState
    <3> QED BY <3>1, <3>2, <3>3 DEF DonePc
  <2>3. CASE r.pc = "boundary"
    <3>1. /\ job_json[c] = "SUCCEEDED" /\ n.mem = r.mem /\ l = k
          /\ n.pc = "finish" \/ (n.pc = "doc" /\ IsDeliverable(c))
      BY <1>1, <2>3 DEF ThreadTurn
    <3>2. ~IsDeliverable(c)
      BY <1>3, <2>3, <3>1 DEF DonePc
    <3> QED BY <1>3, <2>3, <3>1, <3>2 DEF DonePc, HasRun
  <2>4. CASE r.pc \in {"finish", "docFinish"}
    <3>1. /\ n.pc \in {"release", "none"} /\ l = ControlAfterFinish(k)
          /\ l.state # "cancelled"
      BY <1>1, <2>4 DEF ThreadTurn
    <3>2. k.state # "absent"
      BY <1>1, <2>4 DEF RunShape, Begun
    <3>3. l.state = "completed"
      BY <1>1, <3>1, <3>2 DEF ControlAfterFinish, Control, ControlState
    <3> QED BY <3>1, <3>3 DEF DonePc
  <2>5. CASE r.pc = "release"
    <3>1. job_json[c] = "SUCCEEDED" /\ n.pc = "none" /\ l = k
      BY <1>1, <2>5 DEF ThreadTurn
    <3> QED BY <1>3, <3>1 DEF DonePc, HasRun
  <2>6. CASE r.pc = "docRun"
    <3>1. n.pc = "docFinish" /\ l = k /\ IsDeliverable(c)
      BY <1>1, <2>6 DEF ThreadTurn, RunShape
    <3> QED BY <1>3, <2>6, <3>1 DEF DonePc, InHandPc
  <2>7. r.pc \in {"heavy", "begin", "acquire", "process", "stages", "update", "boundary",
                  "finish", "release", "doc", "docRun", "docFinish"}
    BY <1>1 DEF ThreadTurn
  <2> QED BY <2>1, <2>2, <2>3, <2>4, <2>5, <2>6, <2>7
<1>6. ASSUME NEW v \in Worker
      PROVE  /\ run'[v][c].pc \in InHandPc => Executing(c)' \/ Stopped(g)'
             /\ job_json'[c] = "SUCCEEDED" =>
                  /\ run'[v][c].pc \in DonePc(c)
                  /\ run'[v][c].pc \in {"boundary", "finish"} => run'[v][c].mem = "SUCCEEDED"
  BY <1>2, <1>4, <1>5 DEF Executing, InHandPc, DonePc
<1>7. job_json'[c] = "SUCCEEDED" => HasRun(c)' \/ (IsDeliverable(c) /\ Stopped(g)')
  BY <1>2, <1>5 DEF HasRun
<1> QED BY <1>2, <1>6, <1>7 DEF FileSafe

LEMMA FileSafeStep ==
  ASSUME Moving, NEW c \in Child, FileSafe(c)
  PROVE  FileSafe(c)'
<1> DEFINE g == GroupOf(c)
           k == execution_controls[c]
           l == execution_controls'[c]
<1>1. /\ g \in Group /\ g \in Item /\ c \in Item /\ Fate(c)
      /\ k \in Control /\ ControlSound(k)
      /\ Begun(g) => Begun(g)'
      /\ Stopped(g) => Stopped(g)'
  BY ParentFacts, ChildFacts, ControlOf DEF Moving, Steady
<1>2. job_json[c] = "SUCCEEDED" =>
        /\ Begun(g)'
        /\ \A w \in Worker : ~Ahead(w, c) /\ ~Ahead(w, c)'
  BY <1>1, NeverAheadAgain DEF FileSafe
<1>3. CASE /\ job_json'[c] = job_json[c] \/ job_json'[c] # "SUCCEEDED"
           /\ \A w \in Worker : run'[w][c] \in {run[w][c], NotRunning}
           /\ \/ k.state \in {"running", "completed"} => l.state = k.state
              \/ job_json[c] # "SUCCEEDED" /\ Stopped(g)
  <2>1. HasRun(c) => HasRun(c)' \/ (job_json[c] # "SUCCEEDED" /\ Stopped(g))
    BY <1>3 DEF HasRun
  <2>2. Executing(c) => Executing(c)' \/ Stopped(g)
    BY <1>3 DEF Executing
  <2>3. ASSUME NEW w \in Worker
        PROVE  /\ run'[w][c].pc \in {run[w][c].pc, "none"}
               /\ run'[w][c].pc # "none" => run'[w][c] = run[w][c]
    BY <1>3 DEF NotRunning
  <2>4. "none" \in DonePc(c) /\ "none" \notin InHandPc
    BY DEF DonePc, InHandPc
  <2>5. ASSUME NEW w \in Worker, run'[w][c].pc \in InHandPc
        PROVE  Executing(c)' \/ Stopped(g)'
    BY <1>1, <2>2, <2>3, <2>4, <2>5 DEF FileSafe
  <2>6. ASSUME NEW w \in Worker, job_json'[c] = "SUCCEEDED"
        PROVE  /\ ~Ahead(w, c)'
               /\ run'[w][c].pc \in DonePc(c)
               /\ run'[w][c].pc \in {"boundary", "finish"} => run'[w][c].mem = "SUCCEEDED"
    BY <1>2, <1>3, <2>3, <2>4, <2>6 DEF FileSafe
  <2>7. job_json'[c] = "SUCCEEDED" =>
          HasRun(c)' \/ (IsDeliverable(c) /\ Stopped(g)')
    BY <1>1, <1>3, <2>1 DEF FileSafe
  <2> QED BY <1>2, <1>3, <2>5, <2>6, <2>7 DEF FileSafe
<1>4. CASE Resting(c)
  BY <1>3, <1>4 DEF Resting
<1>5. CASE Rewritten(c)
  <2>1. job_json'[c] # "SUCCEEDED"
    BY <1>5 DEF Rewritten, Written
  <2> QED BY <1>3, <1>5, <2>1 DEF Rewritten
<1>6. CASE Requested(c)
  BY <1>1, <1>3, <1>6, ControlFacts DEF Requested
<1>7. CASE GivenUp(c)
  BY <1>3, <1>7 DEF GivenUp, Terminal
<1>8. ASSUME NEW w \in Worker, Entered(w, c)
      PROVE  FileSafe(c)'
  <2>1. job_json'[c] # "SUCCEEDED"
    BY <1>2, <1>8 DEF Entered, Written
  <2>2. /\ l = k
        /\ \A v \in Worker : run'[v][c] = run[v][c] \/ run'[v][c].pc = "heavy"
    BY <1>8 DEF Entered, NotRunning
  <2> QED BY <1>1, <2>1, <2>2 DEF FileSafe, Executing, InHandPc
<1> QED BY <1>1, <1>4, <1>5, <1>6, <1>7, <1>8, WorkedOnSafe DEF Fate
-------------------------------------------------------------------------------
(* Children that cannot begin any more.                                     *)

LEMMA BarredStays ==
  ASSUME Moving, NEW c \in Child, Barred(c)
  PROVE  Barred(c)'
<1>1. /\ GroupOf(c) \in Group /\ GroupOf(c) \in Item /\ c \in Item
  BY ParentFacts, ChildFacts
<1>2. CASE Begun(c) \/ Recovered(GroupOf(c))
  BY <1>1, <1>2 DEF Barred, Moving, Steady
<1>3. CASE Excluded(c)
  <2>1. Begun(GroupOf(c))'
    BY <1>1, <1>3 DEF Excluded, Moving, Steady
  <2>2. ASSUME NEW w \in Worker
        PROVE  ~Ahead(w, c)' /\ Unsubmitted(w, c)'
    BY <1>3, NeverAheadAgain, RunLater DEF Excluded, Unsubmitted
  <2> QED BY <2>1, <2>2 DEF Excluded, Barred
<1> QED BY <1>2, <1>3 DEF Barred

\* A child that was failed by name is out.
LEMMA FailedByName ==
  ASSUME Moving, NEW c \in Child, NEW w \in Worker, Ahead(w, c), ~Ahead(w, c)',
         \A v \in Worker : run'[v][c] = run[v][c]
  PROVE  Barred(c)'
<1> DEFINE g == GroupOf(c)
<1>1. g \in Group /\ g \in Item /\ c \in Family(g) /\ Engaged(w, g)
  BY ParentFacts, ChildFacts DEF Ahead, Engaged
<1>2. Begun(g) /\ Begun(g)'
  BY <1>1 DEF Moving, Alone, Steady
<1>3. ASSUME NEW v \in Worker
      PROVE  ~Ahead(v, c)' /\ Unsubmitted(v, c)'
  <2>1. v # w => ~Engaged(v, g)
    BY <1>1 DEF Moving, Alone
  <2>2. Unsubmitted(v, c)
    BY <1>1, <2>1 DEF Moving, Alone, Engaged, Unsubmitted
  <2>3. ~Ahead(v, c)'
    BY <1>2, <2>1, NeverAheadAgain DEF Ahead, Engaged
  <2> QED BY <2>2, <2>3 DEF Unsubmitted
<1> QED BY <1>2, <1>3 DEF Barred, Excluded

LEMMA OverIsBarred ==
  ASSUME Moving, BarSafe, NEW c \in Child, job_json'[c] \in Terminal
  PROVE  Barred(c)'
<1>1. Fate(c) /\ (job_json[c] \in Terminal => Barred(c)) /\ c \in Item
  BY ParentFacts DEF Moving, BarSafe
<1>2. CASE Barred(c)
  BY <1>2, BarredStays
<1>3. CASE ~Barred(c)
  <2>1. job_json[c] \notin Terminal /\ ~Begun(c) /\ ~Ended(c)
    BY <1>1, <1>3 DEF Barred, Begun, Ended
  <2>2. CASE Rewritten(c)
    <3>1. CASE Written(c, "INTERRUPTED") /\ \E w \in Worker : Marks(w, c)
      BY <1>3, <3>1, MarkedIsStopped DEF Barred, Moving
    <3>2. CASE Written(c, "FAILED") /\ \E w \in Worker : Ahead(w, c) /\ ~Ahead(w, c)'
      BY <2>2, <3>2, FailedByName DEF Rewritten
    <3> QED BY <2>1, <2>2, <3>1, <3>2 DEF Rewritten, Written, Terminal
  <2>3. ASSUME NEW w \in Worker, WorkedOn(w, c)
        PROVE  FALSE
    <3>1. run[w][c].pc \in {"none", "heavy", "begin"}
      BY <2>1 DEF Moving, Shape, RunShape
    <3>2. job_json'[c] = job_json[c]
      BY <2>3, <3>1 DEF WorkedOn, ThreadTurn
    <3> QED BY <2>1, <3>2
  <2>4. ~Resting(c) /\ ~Requested(c) /\ ~GivenUp(c) /\ \A w \in Worker : ~Entered(w, c)
    BY <2>1 DEF Resting, Requested, GivenUp, Entered, Written, Terminal
  <2> QED BY <1>1, <2>2, <2>3, <2>4 DEF Fate
<1> QED BY <1>2, <1>3

LEMMA BarSafeStep ==
  ASSUME Moving, BarSafe
  PROVE  BarSafe'
<1>1. ASSUME NEW g \in Group, api'[g].pc \in ApiPassing, NEW c \in Family(g)
      PROVE  c \in Left(api'[g].todo) \/ Barred(c)'
  <2>1. /\ c \in Child /\ c \in Item
        /\ api[g].todo \in Seq(Child)
        /\ api[g].pc \in ApiPassing => c \in Left(api[g].todo) \/ Barred(c)
    BY <1>1, FamilyFacts, ApiFields DEF BarSafe, Moving, IInv
  <2>2. CASE api[g].pc \in ApiPassing /\ api'[g].todo = api[g].todo
    BY <2>1, <2>2, BarredStays
  <2>3. CASE api'[g].todo = Children(g)
    BY <2>3, LeftFirst
  <2>4. ASSUME NEW d \in Child, api[g].todo # <<>>, d = Head(api[g].todo),
               api[g].pc \in {"child", "childSave"}, api'[g].todo = Tail(api[g].todo),
               api[g].pc = "child" => Begun(d)' \/ job_json[d] \in Terminal
        PROVE  c \in Left(api'[g].todo) \/ Barred(c)'
    <3>1. CASE c \in Left(api[g].todo) /\ c # d
      BY <2>1, <2>4, <3>1, LeftTail
    <3>2. CASE c \notin Left(api[g].todo)
      BY <2>1, <2>4, <3>2, BarredStays DEF ApiPassing
    <3>3. CASE c = d
      <4>1. CASE api[g].pc = "childSave"
        <5>1. Ended(c)
          BY <2>4, <3>3, <4>1 DEF Moving, Shape, ApiShape, ApiPassing
        <5>2. Barred(c)
          BY <5>1 DEF Barred, Begun, Ended
        <5> QED BY <2>1, <5>2, BarredStays
      <4>2. CASE api[g].pc = "child" /\ Begun(d)'
        BY <3>3, <4>2 DEF Barred
      <4>3. CASE job_json[d] \in Terminal
        BY <2>1, <3>3, <4>3, BarredStays DEF BarSafe
      <4> QED BY <2>4, <4>1, <4>2, <4>3
    <3> QED BY <3>1, <3>2, <3>3
  <2>5. CASE api'[g] = api[g]
    BY <1>1, <2>2, <2>5
  <2>6. CASE ApiTurn(g)
    BY <1>1, <2>2, <2>3, <2>4, <2>6 DEF ApiTurn, ApiPassing
  <2> QED BY <2>5, <2>6 DEF Moving
<1>2. \A c \in Child : job_json'[c] \in Terminal => Barred(c)'
  BY OverIsBarred
<1> QED BY <1>1, <1>2 DEF BarSafe

-------------------------------------------------------------------------------
(* What the main thread concludes from its children.                        *)

\* The firmness of c, or a reason why it does not matter, stays.
LEMMA AnswerStays ==
  ASSUME Moving, NEW g \in Group, NEW c \in Family(g), FileSafe(c)
  PROVE  /\ Firm(c) => Firm(c)'
         /\ Stopped(g) => Stopped(g)'
         /\ CancelRequested(g) => CancelRequested(g)'
BY FirmStays, FamilyFacts, ChildFacts DEF Moving, Steady

\* The thread that owns g after a step, but was not at rest, owned it before.
LEMMA OwnerMoves ==
  ASSUME Moving, NEW w \in Worker, NEW g \in Group, Owns(w, g)',
         main'[w].pc \notin EarlyPc
  PROVE  /\ Owns(w, g) /\ TheGroup(w) = g
         /\ main'[w] = main[w] \/ OwnTurn(w)
<1>1. main'[w].pc \in OwnPc
  BY DEF Owns
<1>2. main'[w] = main[w] \/ OwnTurn(w)
  <2>1. ~RestTurn(w) /\ ~RecoveryTurn(w)
    BY <1>1 DEF RestTurn, RecoveryTurn, RestPc, OwnPc, EarlyPc, BetweenPc
  <2> QED BY <2>1, OneMoves DEF MainTurn
<1>3. main[w].pc \in OwnPc
  BY <1>1, <1>2 DEF OwnTurn, WaitTurn, OwnPc, EarlyPc, BetweenPc
<1>4. TheGroup(w)' = TheGroup(w)
  <2>1. main'[w].row = main[w].row /\ main[w].pc \notin RestPc
    BY <1>2, <1>3 DEF OwnTurn, OwnPc, RestPc, EarlyPc, BetweenPc
  <2> QED BY <2>1, RowStays
<1> QED BY <1>2, <1>3, <1>4 DEF Owns

\* A child that _wait_for_job_completion has returned as a success, or cancelled.
LEMMA HeadAwaited ==
  ASSUME Moving, NEW w \in Worker, NEW g \in Group, TheGroup(w) = g, WaitTurn(w),
         NEW c \in Family(g), FileSafe(c), c = Head(main[w].todo)
  PROVE  /\ ~main'[w].failed => Firm(c) \/ CancelRequested(g) \/ Stopped(g)
         /\ job_json[c] = "SUCCEEDED" => Firm(c) \/ Stopped(g)
<1>1. c \in Child /\ GroupOf(c) = g /\ CancelShape(c)
  BY FamilyFacts DEF Moving, Shape
<1>2. job_json[c] \in Terminal /\ ~Executing(c)
  BY DEF WaitTurn
<1>3. job_json[c] = "SUCCEEDED" => Firm(c) \/ Stopped(g)
  BY <1>1, <1>2, WaitedFor DEF Moving
<1>4. job_json[c] = "CANCELLED" => CancelRequested(g)
  BY <1>1 DEF CancelShape
<1>5. ~main'[w].failed => job_json[c] \in {"SUCCEEDED", "CANCELLED"}
  BY <1>2 DEF WaitTurn, Terminal
<1> QED BY <1>3, <1>4, <1>5

\* In a replacing group a thread waits for one child at a time.
LEMMA WaitsForOne ==
  ASSUME Moving, NEW w \in Worker, NEW g \in Group, TheGroup(w) = g, WaitTurn(w),
         Saved(g).replacing
  PROVE  /\ main[w].todo \in {<<AuditOf[g]>>, <<DeliverableOf[g]>>}
         /\ Left(main[w].todo) = {Head(main[w].todo)}
         /\ main'[w].todo = <<>>
<1>1. main[w].todo \in {<<AuditOf[g]>>, <<DeliverableOf[g]>>}
  BY DEF Moving, IInv, FreshInv, MainFresh, WaitTurn
<1>2. main'[w].todo = Tail(main[w].todo)
  BY DEF WaitTurn
<1>3. \A a : Head(<<a>>) = a /\ Tail(<<a>>) = <<>>
  OBVIOUS
<1>4. /\ Left(<<AuditOf[g]>>) = {AuditOf[g]}
      /\ Left(<<DeliverableOf[g]>>) = {DeliverableOf[g]}
  BY LeftFirst
<1> QED BY <1>1, <1>2, <1>3, <1>4

\* What the thread has waited for is firm, or does not matter.
LEMMA AwaitedStep ==
  ASSUME Moving, NEW w \in Worker, NEW g \in Group, NEW c \in Family(g), FileSafe(c),
         MainConcludes(w, g), Awaited(w, c)'
  PROVE  Firm(c)' \/ CancelRequested(g)' \/ Stopped(g)'
<1> USE DEF EarlyPc, BetweenPc
<1>1. /\ c \in Child /\ GroupOf(c) = g /\ (IsDeliverable(c) <=> c = DeliverableOf[g])
      /\ Saved(g)'.replacing = Saved(g).replacing
      /\ DeliverableOf[g] # AuditOf[g] /\ c \in {DeliverableOf[g], AuditOf[g]}
      /\ main[w].todo \in Seq(Child)
      /\ MainShape(w)
  BY FamilyFacts, ChildFacts, MainFields DEF Moving, Steady, Family, IInv, Shape
<1>2. /\ Owns(w, g) /\ TheGroup(w) = g
      /\ main'[w] = main[w] \/ OwnTurn(w)
  BY <1>1, OwnerMoves DEF Awaited
<1>3. SUFFICES Firm(c) \/ CancelRequested(g) \/ Stopped(g)
  BY AnswerStays
<1>4. CASE Awaited(w, c)
  BY <1>4 DEF MainConcludes
<1>5. CASE main'[w] = main[w]
  BY <1>1, <1>2, <1>4, <1>5 DEF Awaited
<1>6. CASE WaitTurn(w)
  <2>1. main[w].pc = "wait" /\ main[w].todo # <<>> /\ main'[w].todo = Tail(main[w].todo)
    BY <1>6 DEF WaitTurn
  <2>2. ~main'[w].failed /\ ~main[w].failed
    <3>1. main'[w].pc = "finish" => main'[w].mem.value.status # "SUCCEEDED"
      BY <1>1, <1>6, <2>1 DEF WaitTurn, MainShape, WorkPc
    <3>2. ~main'[w].failed
      BY <1>1, <3>1 DEF Awaited
    <3> QED BY <1>6, <3>2 DEF WaitTurn
  <2>3. CASE c = Head(main[w].todo)
    BY <1>2, <1>6, <2>2, <2>3, HeadAwaited
  <2>4. CASE c # Head(main[w].todo)
    <3>1. c \notin Left(main[w].todo)
      <4>1. c \in Left(main[w].todo) => c \in Left(main'[w].todo)
        BY <1>1, <2>1, <2>4, LeftTail
      <4>2. CASE main'[w].pc = "wait"
        BY <1>1, <4>1, <4>2 DEF Awaited
      <4>3. CASE main'[w].pc # "wait"
        <5>1. main'[w].pc = "conclude"
          BY <1>1, <1>6, <2>1, <4>3 DEF Awaited, WaitTurn, MainShape, WorkPc
        <5>2. main'[w].todo = <<>>
          BY <1>6, <5>1 DEF WaitTurn
        <5> QED BY <4>1, <5>2, LeftFirst
      <4> QED BY <4>2, <4>3
    <3>2. CASE ~Saved(g).replacing \/ ~IsDeliverable(c)
      BY <1>1, <1>2, <2>1, <2>2, <3>1, <3>2, <1>4 DEF Awaited
    <3>3. CASE Saved(g).replacing /\ IsDeliverable(c)
      <4>1. Head(main[w].todo) = AuditOf[g]
        BY <1>1, <1>2, <1>6, <2>4, <3>3, WaitsForOne
      <4>2. main'[w].pc \notin {"wait", "conclude"}
        BY <1>1, <1>2, <1>6, <3>3, <4>1, ChildFacts DEF WaitTurn
      <4> QED BY <1>1, <1>6, <2>1, <4>2 DEF Awaited, WaitTurn, MainShape, WorkPc
    <3> QED BY <3>2, <3>3
  <2> QED BY <2>3, <2>4
<1>7. CASE main[w].pc = "progress" /\ main'[w].pc = "wait" /\ main'[w].todo = FirstBatch(g)
  BY <1>1, <1>7, LeftFirst DEF Awaited
<1>8. CASE main[w].pc = "next" /\ main'[w].pc = "wait" /\ main'[w].todo = <<DeliverableOf[g]>>
  <2>1. c = AuditOf[g]
    BY <1>1, <1>8, LeftFirst DEF Awaited
  <2>2. Saved(g).replacing
    BY <1>1, <1>2, <1>8 DEF MainShape
  <2> QED BY <1>2, <1>8, <2>1, <2>2 DEF MainConcludes
<1>9. CASE /\ main[w].pc = "conclude" /\ main'[w].pc = "finish"
           /\ main'[w].mem.value.status = "SUCCEEDED" => ~main[w].failed
  <2>1. ~main[w].failed
    BY <1>1, <1>9 DEF Awaited
  <2> QED BY <1>1, <1>2, <1>4, <1>9, <2>1 DEF Awaited
<1>10. CASE /\ main[w].pc \in OwnPc \ {"finish", "save"} /\ main'[w].pc = "finish"
            /\ main'[w].mem.value.status \in {main[w].mem.value.status, "FAILED"}
  BY <1>1, <1>10 DEF Awaited, MainShape, OwnPc, WorkPc
<1>11. CASE main'[w].pc = "conclude" /\ main'[w].failed
  BY <1>1, <1>11 DEF Awaited
<1>12. main'[w].pc \in {"wait", "conclude", "finish"}
  BY DEF Awaited
<1> QED BY <1>2, <1>5, <1>6, <1>7, <1>8, <1>9, <1>10, <1>11, <1>12 DEF OwnTurn, OwnPc

LEMMA MainConcludesStep ==
  ASSUME Moving, NEW w \in Worker, NEW g \in Group, \A c \in Family(g) : FileSafe(c),
         MainConcludes(w, g)
  PROVE  MainConcludes(w, g)'
<1> USE DEF EarlyPc, BetweenPc
<1> DEFINE a == AuditOf[g]
<1>1. /\ Saved(g)'.replacing = Saved(g).replacing
      /\ \A c \in Family(g) : Firm(c) => Firm(c)'
      /\ Stopped(g) => Stopped(g)'
      /\ a \in Family(g)
  BY AnswerStays DEF Moving, Steady, Family
<1>2. \A c \in Family(g) : Awaited(w, c)' => Firm(c)' \/ CancelRequested(g)' \/ Stopped(g)'
  BY AwaitedStep
<1>3. ASSUME Owns(w, g)', main'[w].pc = "save", main'[w].mem.value.status = "SUCCEEDED"
      PROVE  Stopped(g)' \/ \A c \in Family(g) : Firm(c)'
  <2>1. Owns(w, g) /\ TheGroup(w) = g /\ (main'[w] = main[w] \/ OwnTurn(w))
    BY <1>3, OwnerMoves
  <2>2. CASE main'[w] = main[w]
    BY <1>1, <1>3, <2>1, <2>2 DEF MainConcludes
  <2>3. CASE OwnTurn(w)
    <3>1. /\ main[w].pc = "finish" /\ main[w].mem.value.status = "SUCCEEDED"
          /\ ~CancelRequested(g)
      BY <1>3, <2>1, <2>3 DEF OwnTurn, WaitTurn
    <3>2. \A c \in Family(g) : Awaited(w, c)
      BY <2>1, <3>1, FamilyFacts DEF Awaited
    <3> QED BY <1>1, <3>1, <3>2 DEF MainConcludes
  <2> QED BY <2>1, <2>2, <2>3
<1>4. ASSUME Owns(w, g)', Saved(g)'.replacing, main'[w].pc \in BetweenPc
      PROVE  /\ main'[w].pc \in {"prepareNext", "nextSave"} => Firm(a)' \/ Stopped(g)'
             /\ main'[w].pc = "next" => Firm(a)'
  <2>1. Owns(w, g) /\ TheGroup(w) = g /\ (main'[w] = main[w] \/ OwnTurn(w))
    BY <1>4, OwnerMoves
  <2>2. CASE main'[w] = main[w]
    BY <1>1, <1>4, <2>1, <2>2 DEF MainConcludes
  <2>3. CASE WaitTurn(w)
    <3>1. /\ main'[w].pc = "prepareNext" /\ job_json[Head(main[w].todo)] = "SUCCEEDED"
          /\ ~IsDeliverable(Head(main[w].todo))
      BY <1>4, <2>3 DEF WaitTurn
    <3>2. Head(main[w].todo) = a
      <4>1. main[w].todo \in {<<AuditOf[g]>>, <<DeliverableOf[g]>>}
        BY <1>1, <1>4, <2>1, <2>3, WaitsForOne
      <4>2. main[w].todo # <<DeliverableOf[g]>>
        BY <3>1, ChildFacts
      <4> QED BY <4>1, <4>2
    <3>3. Firm(a) \/ Stopped(g)
      BY <1>1, <2>1, <2>3, <3>1, <3>2, HeadAwaited
    <3> QED BY <1>1, <3>1, <3>3
  <2>4. CASE main[w].pc = "prepareNext" /\ main'[w].pc = "nextSave"
    BY <1>1, <1>4, <2>1, <2>4 DEF MainConcludes
  <2>5. CASE main[w].pc = "nextSave" /\ main'[w].pc = "next" /\ Current(g, main[w].mem)
    <3>1. ~Stopped(g)
      BY <2>1, <2>5
      DEF Moving, IInv, FollowInv, MainFollows, FollowsOpen, WorkPc, Stopped
    <3> QED BY <1>1, <1>4, <2>1, <2>5, <3>1 DEF MainConcludes
  <2> QED BY <1>4, <2>1, <2>2, <2>3, <2>4, <2>5 DEF OwnTurn
<1> QED BY <1>2, <1>3, <1>4 DEF MainConcludes

LEMMA GroupSafeStep ==
  ASSUME Moving, NEW g \in Group, \A c \in Family(g) : FileSafe(c), GroupSafe(g)
  PROVE  GroupSafe(g)'
<1> DEFINE a == AuditOf[g]
           d == DeliverableOf[g]
<1>1. /\ Saved(g)'.replacing = Saved(g).replacing
      /\ \A c \in Family(g) : Firm(c) => Firm(c)'
      /\ a \in Family(g) /\ d \in Family(g)
      /\ d \in Child /\ GroupOf(d) = g /\ IsDeliverable(d)
  BY AnswerStays, ChildFacts DEF Moving, Steady, Family
<1>2. ASSUME NEW w \in Worker
      PROVE  MainConcludes(w, g)'
  BY MainConcludesStep DEF GroupSafe
<1>3. ASSUME NEW w \in Worker, Saved(g).replacing, run'[w][d].pc \in {"heavy", "begin"}
      PROVE  Firm(a)'
  <2>1. CASE run[w][d].pc \in {"heavy", "begin"}
    BY <1>1, <1>3, <2>1 DEF GroupSafe
  <2>2. CASE Entered(w, d)
    <3>1. main[w].pc = "next" /\ Owns(w, g)
      BY <1>1, <1>3, <2>2 DEF Entered, Ahead
    <3> QED BY <1>1, <1>3, <3>1 DEF GroupSafe, MainConcludes
  <2>3. Fate(d)
    BY <1>1 DEF Moving
  <2>4. run'[w][d].pc \in {"heavy", "begin"} =>
          run[w][d].pc \in {"heavy", "begin"} \/ Entered(w, d)
    <3>1. ASSUME NEW x \in Worker, WorkedOn(x, d)
          PROVE  run'[w][d].pc \in {"heavy", "begin"} => run[w][d].pc \in {"heavy", "begin"}
      BY <3>1 DEF WorkedOn, ThreadTurn
    <3>2. ASSUME NEW x \in Worker, Entered(x, d)
          PROVE  run'[w][d] = run[w][d] \/ Entered(w, d)
      BY <3>2 DEF Entered
    <3>3. CASE Resting(d) \/ Rewritten(d) \/ Requested(d) \/ GivenUp(d)
      BY <3>3 DEF Resting, NotRunning, Rewritten, Requested, GivenUp
    <3> QED BY <2>3, <3>1, <3>2, <3>3 DEF Fate
  <2> QED BY <1>3, <2>1, <2>2, <2>4
<1>4. ASSUME GroupStatus(g)' = "SUCCEEDED", NEW c \in Family(g)
      PROVE  Firm(c)'
  <2>1. SuccessSaved(g)
    BY <1>4 DEF Moving
  <2>2. Firm(c)
    BY <2>1 DEF SuccessSaved, GroupSafe, MainConcludes
  <2> QED BY <1>1, <2>2
<1> QED BY <1>1, <1>2, <1>3, <1>4 DEF GroupSafe
-------------------------------------------------------------------------------
(* The invariant and what follows from it.                                  *)

LEMMA SInvInit ==
  ASSUME Init
  PROVE  SInv
<1>1. IInv
  BY CallInvInit, FollowInvInit, FreshInvInit, SlotInvInit DEF IInv
<1>2. \A w \in Worker : main[w].pc = "idle" /\ main[w].rows = {}
  BY DEF Init, Idle
<1>3. /\ \A w \in Worker, c \in Child : run[w][c].pc = "none" /\ run[w][c].mem = "QUEUED"
      /\ \A g \in Group : api[g].pc = "new"
  BY DEF Init, NoRuns, NotRunning
<1>4. \A c \in Child : ~CancelRequested(c) /\ job_json[c] = "QUEUED"
  BY ParentFacts DEF Init, InitQ, CancelRequested
<1>5. \A g \in Group : GroupStatus(g) = "QUEUED"
  <2>1. \A g \in Group : group_json[g].value.status = "QUEUED"
    BY DEF Init
  <2> QED BY <2>1 DEF GroupStatus, Saved
<1> USE DEF OwnPc, WorkPc, EarlyPc, BetweenPc
<1>6. Shape
  BY <1>2, <1>3, <1>4
  DEF Shape, MainShape, ApiShape, RunShape, CancelShape, ApiPassing
<1>7. \A w \in Worker, g \in Group : ~Owns(w, g) /\ ~Engaged(w, g)
  BY <1>2, <1>3, FamilyFacts DEF Owns, Engaged
<1>8. \A w \in Worker, c \in Child : ~Ahead(w, c)
  BY <1>2 DEF Ahead, Owns
<1>9. Alone
  BY <1>7, <1>8 DEF Alone
<1>10. \A c \in Child : FileSafe(c)
  BY <1>3, <1>4 DEF FileSafe, InHandPc
<1>11. ASSUME NEW g \in Group
       PROVE  GroupSafe(g)
  <2>1. ASSUME NEW w \in Worker
        PROVE  MainConcludes(w, g)
    <3>1. \A c \in Family(g) : GroupOf(c) = g
      BY FamilyFacts
    <3>2. \A c \in Family(g) : ~Awaited(w, c)
      BY <1>7, <3>1 DEF Awaited
    <3> QED BY <1>7, <3>2 DEF MainConcludes
  <2>2. \A w \in Worker : run[w][DeliverableOf[g]].pc = "none"
    BY <1>3, ChildFacts
  <2>3. GroupStatus(g) # "SUCCEEDED"
    BY <1>5
  <2> QED BY <2>1, <2>2, <2>3 DEF GroupSafe
<1>12. BarSafe
  BY <1>3, <1>4 DEF BarSafe, Terminal, ApiPassing
<1> QED BY <1>1, <1>6, <1>9, <1>10, <1>11, <1>12 DEF SInv

LEMMA SInvStep ==
  ASSUME SInv, [Next]_vars
  PROVE  SInv'
<1>1. Moving
  BY StepMoves DEF SInv
<1>2. /\ \A c \in Child : FileSafe(c)
      /\ \A g \in Group : GroupSafe(g)
      /\ BarSafe
  BY DEF SInv
<1>3. \A c \in Child : FileSafe(c)'
  BY <1>1, <1>2, FileSafeStep
<1>4. ASSUME NEW g \in Group
      PROVE  GroupSafe(g)'
  BY <1>1, <1>2, GroupSafeStep, FamilyFacts
<1>5. IInv' /\ Shape' /\ Alone' /\ BarSafe'
  BY <1>1, <1>2, ShapeStep, AloneStep, BarSafeStep DEF Moving
<1> QED BY <1>3, <1>4, <1>5 DEF SInv

\* Every state of GroupExecution satisfies SInv: one worker executes a group, a
\* success on disk comes from an execution, what a group concludes from is firm,
\* and the children of a cancelled group are barred.
THEOREM SafetyInvariance == Spec => []SInv
<1>1. Init => SInv
  BY SInvInit
<1>2. SInv /\ [Next]_vars => SInv'
  BY SInvStep
<1> QED BY <1>1, <1>2, PTL DEF Spec

\* A group whose file says SUCCEEDED has both its children SUCCEEDED, whatever
\* cancellations, recoveries, crashes and timeouts came in between: the outcome
\* of _process_group is saved only if nobody stopped the group, and then nobody
\* can have taken back what the children reported.
THEOREM SuccessIsCompleteHolds == Spec => []SuccessIsComplete
<1>1. SInv => SuccessIsComplete
  BY DEF SInv, GroupSafe, SuccessIsComplete, Family, Firm
<1> QED BY <1>1, SafetyInvariance, PTL

\* Where the execution of a child begins.
LEMMA BeginsFromBegin ==
  ASSUME Moving, NEW c \in Child, ~Executing(c), Executing(c)'
  PROVE  \E w \in Worker : run[w][c].pc = "begin" /\ ~Begun(c)
<1>1. /\ execution_controls[c] \in Control /\ ControlSound(execution_controls[c])
      /\ Fate(c)
  BY ControlOf DEF Moving
<1>2. ASSUME NEW w \in Worker, WorkedOn(w, c)
      PROVE  run[w][c].pc = "begin" /\ ~Begun(c)
  <2>1. \/ run[w][c].pc = "begin" /\ ~Begun(c)
        \/ execution_controls'[c] \in {execution_controls[c],
                                       ControlAfterFinish(execution_controls[c])}
    BY <1>2 DEF WorkedOn, ThreadTurn, Begun
  <2>2. /\ execution_controls[c].state # "running"
        /\ execution_controls'[c].state = "running"
    BY DEF Executing
  <2> QED BY <1>1, <2>1, <2>2 DEF ControlAfterFinish, Control, ControlState
<1>3. ~Resting(c) /\ ~Rewritten(c) /\ ~Requested(c) /\ ~GivenUp(c)
      /\ \A w \in Worker : ~Entered(w, c)
  BY <1>1 DEF Resting, Rewritten, Requested, GivenUp, Entered, Executing,
              ControlAfterCancel, ControlAfterFinish, Control, ControlState
<1> QED BY <1>1, <1>2, <1>3 DEF Fate

\* In a replacing group the execution of the deliverable begins only after the
\* replacement job has succeeded, and so from the drawing that it replaced.
THEOREM DeliveredAfterReplacementHolds == Spec => DeliveredAfterReplacement
<1>1. SInv /\ [Next]_vars =>
        [\A g \in Group :
           LET c == DeliverableOf[g] IN
           /\ Saved(g).replacing
           /\ ~Executing(c) /\ Executing(c)'
           => job_json[AuditOf[g]] = "SUCCEEDED"]_vars
  <2> SUFFICES ASSUME SInv, [Next]_vars, NEW g \in Group, Saved(g).replacing,
                      ~Executing(DeliverableOf[g]), Executing(DeliverableOf[g])'
               PROVE  job_json[AuditOf[g]] = "SUCCEEDED"
    OBVIOUS
  <2>1. Moving
    BY StepMoves DEF SInv
  <2>2. \E w \in Worker : run[w][DeliverableOf[g]].pc = "begin"
    BY <2>1, ChildFacts, BeginsFromBegin
  <2> QED BY <2>2 DEF SInv, GroupSafe, Firm
<1> QED BY <1>1, SafetyInvariance, PTL DEF Spec, DeliveredAfterReplacement

\* Once the API has answered a cancel request for a group that was not recovered,
\* no child of it begins: each one had begun, is over, or was taken out of the
\* reach of its worker, before the answer.
THEOREM NoChildAfterCancelHolds == Spec => NoChildAfterCancel
<1>1. SInv /\ [Next]_vars =>
        [\A g \in Group :
           api[g].pc = "answered" /\ ~Recovered(g) =>
             \A c \in {DeliverableOf[g], AuditOf[g]} : ~Executing(c) => ~Executing(c)']_vars
  <2> SUFFICES ASSUME SInv, [Next]_vars, NEW g \in Group,
                      api[g].pc = "answered", ~Recovered(g),
                      NEW c \in {DeliverableOf[g], AuditOf[g]},
                      ~Executing(c), Executing(c)'
               PROVE  FALSE
    OBVIOUS
  <2>1. Moving
    BY StepMoves DEF SInv
  <2>2. c \in Family(g) /\ c \in Child /\ GroupOf(c) = g
    BY FamilyFacts DEF Family
  <2>3. PICK w \in Worker : run[w][c].pc = "begin" /\ ~Begun(c)
    BY <2>1, <2>2, BeginsFromBegin
  <2>4. Barred(c)
    <3>1. Left(api[g].todo) = {}
      BY LeftFirst DEF SInv, Shape, ApiShape, ApiPassing
    <3> QED BY <2>2, <3>1 DEF SInv, BarSafe, ApiPassing
  <2> QED BY <2>2, <2>3, <2>4 DEF Barred, Excluded, Unsubmitted
<1> QED BY <1>1, SafetyInvariance, PTL DEF Spec, NoChildAfterCancel
-------------------------------------------------------------------------------
(* A group that is settled: its row, its fence and its file.                *)

\* Where a main thread holds the claim of a group.
HoldPc == {"load", "begin", "complete"} \cup OwnPc

\* The group came to its end in the database and in its file.
Over(g) ==
  /\ execution_controls[g].state \in {"completed", "cancelled"}
  /\ GroupStatus(g) \in Terminal
  /\ Ended(g) => Stopped(g)

\* The cancel request is going to save g as CANCELLED.
WillCancel(g) == api[g].pc \in {"child", "childSave", "save"} /\ api[g].mem # Missing

\* rec can still be saved, or g was stopped.
Kept(g, rec) == Current(g, rec) \/ Stopped(g)

\* The row of a group is the only one, and a row that is closed without an
\* interruption belongs to a group that is over, or will be by a cancel request.
RowSafe(r) ==
  LET q == queue_items[r]
      g == q.item
  IN
  /\ api[g].pc # "new"
  /\ \A p \in RowIds : queue_items[p].item = g => p = r
  /\ q.interrupted => q.status = "failed"
  /\ q.status = "claimed" => q.claimed_by # NoWorker
  /\ q.status = "queued" => ~Begun(g)
  /\ ~Unfinished(r) /\ ~q.interrupted => Over(g) \/ WillCancel(g)
  /\ q.interrupted /\ q.claimed_by = NoWorker => Stopped(g)

\* A main thread that holds a claim: it is its own until it is interrupted, or
\* cancelled before the execution began, and what the thread has in hand can be
\* saved unless the group is stopped.
MainSafe(w) ==
  LET m == main[w]
      g == TheGroup(w)
      q == queue_items[m.row]
  IN
  /\ m.pc \in HoldPc =>
       /\ q.claimed_by = w \/ (q.interrupted /\ q.claimed_by = NoWorker)
       /\ \/ q.status = "claimed" \/ q.interrupted
          \/ q.status = "cancelled" /\ m.pc \notin OwnPc /\ Ended(g)
  /\ m.pc \in {"load", "begin"} /\ OwnedClaim(m.row, w) => ~Begun(g)
  /\ m.pc = "begin" => Begun(g) \/ Kept(g, m.mem)
  /\ m.pc \in OwnPc => Kept(g, m.mem)
  /\ m.pc = "finish" => m.mem.value.status \in {"FAILED", "SUCCEEDED"} \/ CancelRequested(g)
  /\ m.pc = "save" =>
       /\ execution_controls[g].state \in {"completed", "cancelled"}
       /\ m.mem.value.status \in {"FAILED", "SUCCEEDED", "CANCELLED"}
       /\ Ended(g) => m.mem.value.status = "CANCELLED"
  /\ m.pc = "complete" /\ OwnedClaim(m.row, w) => Over(g)
  /\ m.pc = "acknowledge" => Stopped(g) /\ q.interrupted

\* A cancel request that finds the group not begun saves it as CANCELLED, and
\* nobody else has the group in hand then.
ApiSafe(g) ==
  LET a == api[g] IN
  /\ a.pc = "new" => ~Begun(g)
  /\ a.pc # "new" => \E r \in RowIds : queue_items[r].item = g
  /\ a.pc \in {"new", "ready", "request"} => ~CancelRequested(g)
  /\ a.pc = "request" => Begun(g) \/ Kept(g, a.mem)
  /\ WillCancel(g) => Kept(g, a.mem) /\ \A w \in Worker : ~Owns(w, g)

\* The end of an execution comes to the file by whoever is on the way to save it.
EndSafe(g) ==
  /\ GroupStatus(g) # "QUEUED" => Begun(g) \/ Recovered(g)
  /\ Ended(g) =>
       \/ Stopped(g) \/ WillCancel(g)
       \/ \E r \in RowIds :
            /\ queue_items[r].item = g
            /\ queue_items[r].status = "claimed" \/ AwaitsAcknowledgement(r)

EndInv ==
  /\ \A r \in RowIds : RowSafe(r)
  /\ \A w \in Worker : MainSafe(w)
  /\ \A g \in Group : ApiSafe(g) /\ EndSafe(g)

-------------------------------------------------------------------------------
(* The fences while nobody has died.                                        *)

NobodyDead == \A w \in Worker : ~Dead(w)

\* Then every fence that is closed has its thread.
FenceHeld ==
  NobodyDead =>
    /\ \A g \in Group :
         Executing(g) => \E w \in Worker : Owns(w, g) /\ main[w].pc # "save"
    /\ \A c \in Child : Executing(c) => \E w \in Worker : run[w][c].pc \in InHandPc

-------------------------------------------------------------------------------
(* The fences when processes die, and live ones do not stall.               *)

\* A child that began is not submitted again, a cancellation in a job.json is one
\* in the database, and no thread has an interruption in hand.
ChildSafe(c) ==
  /\ HasRun(c) => Begun(GroupOf(c)) /\ \A w \in Worker : ~Ahead(w, c)
  /\ job_json[c] = "CANCELLED" => Ended(c)
  /\ \A w \in Worker :
       /\ run[w][c].mem # "INTERRUPTED"
       /\ run[w][c].mem = "CANCELLED" => Ended(c)

\* Only a dead worker is recovered from, so what is recovered does not move.
NoStall == "stall" \notin Disturbances
RecoveryPc == {"mark", "recoverChild", "markChild", "acknowledge"}

QuietRow(r) ==
  LET q == queue_items[r] IN
  /\ Stale(r) => Dead(q.claimed_by)
  /\ q.interrupted /\ q.claimed_by = NoWorker => ~Executing(q.item)

QuietMain(w) ==
  /\ main[w].pc \in HoldPc => ~queue_items[main[w].row].interrupted
  /\ main[w].pc \in RecoveryPc => ~Executing(TheGroup(w))
  /\ \A c \in Child :
       run[w][c].pc # "none" =>
         /\ ~Dead(w)
         /\ \A r \in RowIds :
              queue_items[r].item = GroupOf(c) =>
                queue_items[r].claimed_by = w /\ ~queue_items[r].interrupted

QuietChild(c) ==
  /\ \A w \in Worker : run[w][c].pc \in InHandPc => Executing(c)
  /\ job_json[c] = "INTERRUPTED" => Recovered(GroupOf(c)) /\ ~Executing(c)

\* What a recovery leaves behind it is over.
RecoveryDone(w) ==
  LET m == main[w]
      g == TheGroup(w)
  IN
  /\ m.pc = "mark" => Left(m.todo) = Family(g)
  /\ m.pc = "markChild" => ~Executing(Head(m.todo))
  /\ m.pc \in {"recoverChild", "markChild", "acknowledge"} =>
       \A c \in Family(g) \ Left(m.todo) : ~LeftRunning(c)
  /\ m.pc = "acknowledge" => m.todo = <<>>

QuietInv ==
  NoStall =>
    /\ \A r \in RowIds : QuietRow(r)
    /\ \A w \in Worker : QuietMain(w) /\ RecoveryDone(w)
    /\ \A c \in Child : QuietChild(c)

-------------------------------------------------------------------------------
(* ... and a worker that gave up waiting does not die afterwards.           *)

\* A timeout and a crash do not come together.
Apart == NoStall /\ ("timeout" \notin Disturbances \/ MaxFaults <= 1)

\* Nobody has given up waiting.
Prompt == "timeout" \notin Disturbances \/ faults = 0 \/ ~NobodyDead

\* The child is waited for by the main thread of w, or will not begin.
Minded(w, c) ==
  \/ Owns(w, GroupOf(c)) /\ main[w].pc = "wait" /\ c \in Left(main[w].todo)
  \/ run[w][c].pc \in {"heavy", "begin"} /\ Begun(c)

\* The claim on g awaits its recovery.
Recoverable(g) ==
  \E r \in RowIds :
    /\ queue_items[r].item = g
    /\ \/ AwaitsAcknowledgement(r)
       \/ queue_items[r].status = "claimed" /\ Dead(queue_items[r].claimed_by)

MindedInv ==
  Apart =>
    /\ faults = 0 => NobodyDead
    /\ Prompt => \A w \in Worker, c \in Child :
         run[w][c].pc \in {"heavy", "begin"} \cup InHandPc => Minded(w, c)
    /\ \A c \in Child :
         LeftRunning(c) => \/ \E w \in Worker : run[w][c].pc \in InHandPc
                           \/ Recoverable(GroupOf(c))

LInv ==
  /\ SInv /\ EndInv /\ FenceHeld
  /\ \A c \in Child : ChildSafe(c)
  /\ QuietInv /\ MindedInv
-------------------------------------------------------------------------------
(* The steps, by what they do to rows, fences, files and threads of groups.  *)

\* A row gets older, is recovered, claimed, completed, acknowledged or cancelled.
RowMove(r) ==
  LET q == queue_items[r]
      p == queue_items'[r]
  IN
  \/ /\ p.status = q.status /\ p.claimed_by = q.claimed_by
     /\ p.interrupted = q.interrupted
     /\ Stale(r)' => Stale(r) \/ ~NoStall \/ Dead(q.claimed_by)
  \/ Stale(r) /\ p.status = "failed" /\ p.claimed_by = q.claimed_by /\ p.interrupted
  \/ \E w \in Worker :
       /\ q.status = "queued" /\ p.status = "claimed" /\ p.claimed_by = w
       /\ p.interrupted = q.interrupted /\ ~p.expired
       /\ main'[w].pc = "load" /\ main'[w].row = r
  \/ \E w \in Worker :
       /\ OwnedClaim(r, w) /\ main[w].pc = "complete" /\ main[w].row = r
       /\ p.status \in {"done", "failed", "cancelled"} /\ p.claimed_by = w
       /\ p.interrupted = q.interrupted /\ main'[w].pc = "idle"
  \/ \E w \in Worker :
       /\ AwaitsAcknowledgement(r) /\ main[w].pc = "acknowledge" /\ main[w].row = r
       /\ p.status = q.status /\ p.claimed_by = NoWorker /\ p.interrupted = q.interrupted
  \/ /\ Unfinished(r) /\ p.status = "cancelled" /\ p.claimed_by = q.claimed_by
     /\ p.interrupted = q.interrupted
     /\ api[q.item].pc = "request" /\ execution_controls'[q.item].state = "cancelled"

Born(r) ==
  LET p == queue_items'[r] IN
  /\ p.item \in Group /\ api[p.item].pc = "new" /\ api'[p.item].pc = "ready"
  /\ UNCHANGED execution_controls
  /\ ~p.interrupted /\ p.claimed_by = NoWorker
  /\ p.status = IF CancelRequested(p.item) THEN "cancelled" ELSE "queued"

RowsMove ==
  /\ \A r \in RowIds : RowMove(r)
  /\ \A r \in RowIds' \ RowIds : r = last_id + 1 /\ Born(r)

\* The fence of a group is closed by its worker, opened by it or by a recovery,
\* or a cancel request reaches it.
FenceMove(g) ==
  LET k == execution_controls[g]
      l == execution_controls'[g]
  IN
  \/ l = k
  \/ \E w \in Worker :
       /\ TheGroup(w) = g /\ main[w].pc = "begin" /\ main'[w].pc = "start"
       /\ k.state = "absent" /\ l = [k EXCEPT !.state = "running"]
  \/ l = ControlAfterFinish(k) /\ \E w \in Worker :
       \/ TheGroup(w) = g /\ main[w].pc = "finish" /\ main'[w].pc = "save"
       \/ main[w].pc = "recover" /\ Recovered(g)
  \/ l = ControlAfterCancel(k) /\ api[g].pc = "request" /\ api'[g].pc # "request"

\* The file of a group is saved by its worker, or by a recovery or a cancel
\* request that stops it.
FileMove(g) ==
  \/ group_json'[g] = group_json[g]
  \/ Stopped(g)' /\ (Begun(g) \/ Recovered(g))
  \/ \E w \in Worker :
       /\ Owns(w, g) /\ Current(g, main[w].mem)
       /\ \/ /\ main[w].pc = "save" /\ main'[w].pc = "complete"
             /\ GroupStatus(g)' = main[w].mem.value.status
          \/ main'[w].mem = group_json'[g] /\ main'[w].pc \in OwnPc

\* A cancel request that goes on, with what it has in hand.
ApiCourse(g) ==
  LET a == api[g]
      n == api'[g]
      l == execution_controls'[g]
  IN
  /\ UNCHANGED main
  /\ \/ /\ a.pc = "new" /\ n.pc = "ready" /\ UNCHANGED <<execution_controls, group_json>>
        /\ \E r \in RowIds' : queue_items'[r].item = g
     \/ /\ a.pc = "ready" /\ n.pc = "request" /\ UNCHANGED <<queueVars, group_json>>
        /\ n.mem = group_json[g]
     \/ /\ a.pc = "request" /\ UNCHANGED <<last_id, group_json>>
        /\ l = ControlAfterCancel(execution_controls[g])
        /\ \/ l.state = "completed" /\ n.pc = "ready" /\ n.mem = Missing
           \/ l.state = "running" /\ n.pc = "child" /\ n.mem = Missing
           \/ /\ l.state = "cancelled" /\ n.pc = "child" /\ n.mem = a.mem
              /\ \A r \in RowIds : queue_items[r].item = g => ~Unfinished(r)'
     \/ /\ a.pc \in {"child", "childSave"} /\ n.pc \in {"child", "childSave", "save"}
        /\ n.mem = a.mem
     \/ /\ a.pc = "save" /\ n.pc = "answered"
        /\ a.mem # Missing /\ Current(g, a.mem) => Stopped(g)'

\* A main thread that goes on, with what it does to its group.
Course(w) ==
  LET m == main[w]
      n == main'[w]
      g == TheGroup(w)
      k == execution_controls[g]
      l == execution_controls'[g]
      still == UNCHANGED <<queue_items, group_json>>
  IN
  /\ m.pc # "dead"
  /\ \/ /\ n.pc = "dead" /\ "crash" \in Disturbances
        /\ faults < MaxFaults /\ faults' = faults + 1
        /\ \A c \in Child : run'[w][c] = NotRunning
     \/ n.pc \in {"idle", "recover"} /\ m.pc \notin OwnPc
     \/ /\ m.pc = "recover" /\ n.pc \in {"mark", "recoverChild"}
        /\ execution_controls'[queue_items[n.row].item].state # "running"
     \/ /\ m.pc = "recover" /\ n.pc = "load" /\ n.row \in RowIds
        /\ queue_items[n.row].status = "queued"
        /\ queue_items'[n.row].status = "claimed" /\ queue_items'[n.row].claimed_by = w
        /\ UNCHANGED execution_controls
     \/ /\ n.row = m.row
        /\ \/ m.pc = "mark" /\ n.pc = "recoverChild" /\ n.todo = m.todo
           \/ /\ m.pc = "recoverChild" /\ n.pc = "markChild" /\ n.todo = m.todo
              /\ m.todo # <<>> /\ execution_controls'[Head(m.todo)].state # "running"
           \/ /\ m.pc \in {"recoverChild", "markChild"} /\ n.pc = "recoverChild"
              /\ m.todo # <<>> /\ n.todo = Tail(m.todo)
              /\ m.pc = "recoverChild" => job_json[Head(m.todo)] \in Terminal
           \/ /\ m.pc = "recoverChild" /\ n.pc = "acknowledge"
              /\ m.todo = <<>> /\ n.todo = <<>>
           \/ /\ m.pc = "load" /\ still /\ l = k
              /\ \/ n.pc = "begin" /\ n.mem = group_json[g]
                 \/ n.pc = "complete" /\ GroupStatus(g) # "QUEUED"
           \/ /\ m.pc = "begin" /\ still /\ n.mem = m.mem
              /\ \/ n.pc = "start" /\ k.state = "absent" /\ l.state = "running"
                 \/ n.pc = "complete" /\ k.state # "absent" /\ l = k
           \/ /\ m.pc \in OwnPc \ {"finish", "save"} /\ n.pc \in OwnPc \ {"save"}
              /\ UNCHANGED queue_items /\ l = k
              /\ \/ UNCHANGED group_json /\ n.mem.version = m.mem.version
                 \/ n.mem = group_json'[g]
              /\ n.pc = "finish" =>
                   n.mem.value.status \in {"FAILED", "SUCCEEDED"} \/ CancelRequested(g)
              /\ m.pc = "wait" =>
                   \/ WaitTurn(w)
                   \/ /\ "timeout" \in Disturbances
                      /\ faults < MaxFaults /\ faults' = faults + 1
           \/ /\ m.pc = "finish" /\ n.pc = "save" /\ still
              /\ l = ControlAfterFinish(k) /\ n.mem.version = m.mem.version
              /\ n.mem.value.status = IF l.state = "cancelled" THEN "CANCELLED"
                                      ELSE m.mem.value.status
           \/ /\ m.pc = "save" /\ n.pc = "complete" /\ UNCHANGED queue_items /\ l = k
              /\ Current(g, m.mem) => group_json'[g].value.status = m.mem.value.status
              /\ ~Current(g, m.mem) => UNCHANGED group_json

LEMMA RestCourse ==
  ASSUME IInv, NEW w \in Worker,
         \/ RunOnce(w) \/ MarkConflicts(w) \/ Acknowledge(w) \/ Claim(w)
         \/ Complete(w) \/ Crash(w)
  PROVE  Course(w)
<1>1. main \in [Worker -> Main] /\ main[w] \in Main
  BY DEF IInv, CallInv, ThreadTypes
<1>2. CASE RunOnce(w)
  <2>1. main[w].pc = "idle" /\ main'[w].pc = "recover"
    BY <1>1, <1>2 DEF RunOnce, At, Main
  <2> QED BY <2>1 DEF Course, OwnPc, EarlyPc, BetweenPc
<1>3. CASE MarkConflicts(w) \/ Acknowledge(w)
  <2>1. main[w].pc \in {"mark", "acknowledge"} /\ main'[w] = Reconciled(w)
    BY <1>1, <1>3 DEF MarkConflicts, Acknowledge, At
  <2>2. main'[w].pc \in {"idle", "recover"}
    BY <2>1 DEF Reconciled, Idle
  <2> QED BY <2>1, <2>2 DEF Course, OwnPc, EarlyPc, BetweenPc
<1>4. CASE Claim(w)
  <2>1. CASE main'[w] = Idle
    BY <1>4, <2>1 DEF Claim, At, Idle, Course, OwnPc, EarlyPc, BetweenPc
  <2>2. CASE main'[w] # Idle
    <3>1. PICK r \in RowIds :
            /\ ClaimNext(r, w)
            /\ main' = [main EXCEPT ![w].pc = "load", ![w].row = r]
      BY <1>1, <1>4, <2>2 DEF Claim
    <3>2. main[w].pc = "recover" /\ main'[w].pc = "load" /\ main'[w].row = r
      BY <1>1, <1>4, <3>1 DEF Claim, At, Main
    <3>3. /\ queue_items[r].status = "queued" /\ UNCHANGED execution_controls
          /\ queue_items'[r].status = "claimed" /\ queue_items'[r].claimed_by = w
      BY <3>1 DEF ClaimNext, Claimable, QueuedRows, IInv, CallInv, RowInv, RowTypes, Row
    <3> QED BY <3>2, <3>3 DEF Course
  <2> QED BY <2>1, <2>2
<1>5. CASE Complete(w)
  <2>1. /\ main[w].pc = "complete"
        /\ \/ main'[w] = Idle
           \/ main'[w] = [Idle EXCEPT !.pc = "recover", !.rows = {main[w].row}, !.late = TRUE]
    BY <1>1, <1>5 DEF Complete, At
  <2>2. CASE main'[w] = Idle
    BY <2>1, <2>2 DEF Idle, Course, OwnPc, EarlyPc, BetweenPc
  <2>3. CASE main'[w] = [Idle EXCEPT !.pc = "recover", !.rows = {main[w].row}, !.late = TRUE]
    <3>1. main'[w].pc = "recover"
      BY <2>3 DEF Idle
    <3> QED BY <2>1, <3>1 DEF Course, OwnPc, EarlyPc, BetweenPc
  <2> QED BY <2>1, <2>2, <2>3
<1>6. CASE Crash(w)
  <2>1. /\ main[w].pc # "dead" /\ main'[w].pc = "dead" /\ "crash" \in Disturbances
        /\ faults < MaxFaults /\ faults' = faults + 1
        /\ \A c \in Child : run'[w][c] = NotRunning
    BY <1>1, <1>6 DEF Crash, Dead, At, Idle, NoRuns, IInv, CallInv, ThreadTypes
  <2> QED BY <2>1 DEF Course
<1> QED BY <1>2, <1>3, <1>4, <1>5, <1>6

LEMMA RecoveryCourse ==
  ASSUME IInv, NEW w \in Worker,
         (\E r \in RowIds : RecoverGroup(w, r)) \/ MarkGroup(w) \/ RecoverChild(w) \/ MarkChild(w)
  PROVE  Course(w)
<1>1. /\ main \in [Worker -> Main] /\ main[w] \in Main /\ main[w].todo \in Seq(Child)
      /\ execution_controls \in [Item -> Control]
      /\ \A i \in Item : ControlSound(execution_controls[i])
  BY MainFields DEF IInv, CallInv, ThreadTypes, ControlInv
<1>2. ASSUME NEW i \in Item, FinishExecution(i)
      PROVE  execution_controls'[i].state # "running"
  BY <1>1, <1>2 DEF FinishExecution, ControlAfterFinish, Control
<1>3. ASSUME NEW r \in RowIds, RecoverGroup(w, r)
      PROVE  Course(w)
  <2>1. /\ main[w].pc = "recover" /\ main'[w].pc \in {"mark", "recoverChild"}
        /\ main'[w].row = r /\ FinishExecution(queue_items[r].item)
    BY <1>1, <1>3 DEF RecoverGroup, At, Main
  <2>2. queue_items[r].item \in Item
    BY ChildFacts DEF IInv, CallInv
  <2> QED BY <1>2, <2>1, <2>2 DEF Course
<1>4. CASE MarkGroup(w)
  <2>1. /\ main[w].pc = "mark" /\ main'[w].pc = "recoverChild"
        /\ main'[w].row = main[w].row /\ main'[w].todo = main[w].todo
    BY <1>1, <1>4 DEF MarkGroup, Goto, At, Main
  <2> QED BY <2>1 DEF Course
<1>5. CASE RecoverChild(w)
  <2>1. /\ main[w].pc = "recoverChild" /\ main'[w].row = main[w].row
        /\ \/ main[w].todo = <<>> /\ main'[w].pc = "acknowledge" /\ main'[w].todo = main[w].todo
           \/ /\ main[w].todo # <<>> /\ main'[w].pc = "markChild"
              /\ main'[w].todo = main[w].todo /\ FinishExecution(Head(main[w].todo))
           \/ /\ main[w].todo # <<>> /\ main'[w].pc = "recoverChild"
              /\ main'[w].todo = Tail(main[w].todo)
              /\ job_json[Head(main[w].todo)] \in Terminal
    BY <1>1, <1>5 DEF RecoverChild, Goto, At, Main
  <2>2. main[w].todo # <<>> => Head(main[w].todo) \in Item
    BY <1>1, LeftTail, ParentFacts
  <2>3. CASE main[w].todo # <<>> /\ FinishExecution(Head(main[w].todo)) /\ main'[w].pc = "markChild"
    <3>1. execution_controls'[Head(main[w].todo)].state # "running"
      BY <1>2, <2>2, <2>3
    <3> QED BY <2>1, <2>3, <3>1 DEF Course
  <2> QED BY <2>1, <2>3 DEF Course
<1>6. CASE MarkChild(w)
  <2>1. main[w].todo # <<>>
    BY <1>6, MainFields DEF IInv, MarkChild, At, MainSound, TodoPc
  <2>2. /\ main[w].pc = "markChild" /\ main'[w].pc = "recoverChild"
        /\ main'[w].row = main[w].row /\ main'[w].todo = Tail(main[w].todo)
    BY <1>1, <1>6 DEF MarkChild, At, Main
  <2> QED BY <2>1, <2>2 DEF Course
<1> QED BY <1>3, <1>4, <1>5, <1>6

\* What a failure leaves in hand.
LEMMA FailCourse ==
  ASSUME IInv, NEW w \in Worker, main[w].pc \in WorkPc, Fail(w)
  PROVE  /\ main'[w].pc = "finish" /\ main'[w].row = main[w].row
         /\ main'[w].mem.version = main[w].mem.version
         /\ main'[w].mem.value.status = "FAILED"
<1>1. main \in [Worker -> Main] /\ main[w] \in Main /\ main[w].mem \in Live
  BY StatusInHand DEF IInv, CallInv, ThreadTypes
<1>2. /\ main'[w].pc = "finish" /\ main'[w].row = main[w].row
      /\ main'[w].mem = [main[w].mem EXCEPT !.value.status = "FAILED"]
  BY <1>1 DEF Fail, Main
<1> QED BY <1>1, <1>2 DEF Live, GroupValue

LEMMA SavingCourse ==
  ASSUME IInv, NEW w \in Worker,
         \/ SaveProgress(w, "start", "prepare")
         \/ SaveProgress(w, "shared", "children")
         \/ SaveProgress(w, "nextSave", "next")
         \/ StartChildren(w)
  PROVE  Course(w)
<1> DEFINE g == TheGroup(w)
<1>1. main \in [Worker -> Main] /\ main[w] \in Main
  BY DEF IInv, CallInv, ThreadTypes
<1> USE DEF OwnPc, EarlyPc, BetweenPc
<1>2. /\ main[w].pc \in {"start", "shared", "nextSave", "progress"}
      /\ UNCHANGED queue_items
      /\ execution_controls'[g] = execution_controls[g]
  BY DEF SaveProgress, StartChildren, At, queueVars
<1>3. CASE Fail(w) /\ UNCHANGED group_json
  <2>1. /\ main'[w].pc = "finish" /\ main'[w].row = main[w].row
        /\ main'[w].mem.version = main[w].mem.version
        /\ main'[w].mem.value.status = "FAILED"
    BY <1>2, <1>3, FailCourse DEF WorkPc
  <2> QED BY <1>2, <1>3, <2>1 DEF Course
<1>4. CASE ~(Fail(w) /\ UNCHANGED group_json)
  <2>1. ASSUME NEW from \in MainPc, NEW to \in MainPc, SaveProgress(w, from, to)
        PROVE  /\ main'[w].pc = to /\ main'[w].row = main[w].row
               /\ main'[w].mem = group_json'[g]
    BY <1>1, <1>4, <2>1 DEF SaveProgress, Main
  <2>2. /\ main'[w].pc \in {"prepare", "children", "next", "wait"}
        /\ main'[w].row = main[w].row /\ main'[w].mem = group_json'[g]
    <3>1. CASE StartChildren(w)
      BY <1>1, <1>4, <3>1 DEF StartChildren, Main
    <3> QED BY <2>1, <3>1 DEF MainPc
  <2> QED BY <1>2, <2>2 DEF Course
<1> QED BY <1>3, <1>4

LEMMA WorkCourse ==
  ASSUME IInv, Alone, NEW w \in Worker,
         \/ Load(w) \/ Begin(w) \/ Prepare(w, "prepare", "shared") \/ UpdateChildren(w)
         \/ WaitForChild(w) \/ GiveUpWaiting(w) \/ Prepare(w, "prepareNext", "nextSave")
         \/ StartDeliverable(w) \/ FailDeliverable(w)
  PROVE  Course(w)
<1> DEFINE g == TheGroup(w)
<1>1. main \in [Worker -> Main] /\ main[w] \in Main
  BY DEF IInv, CallInv, ThreadTypes
<1> USE DEF OwnPc, EarlyPc, BetweenPc
<1>2. CASE Load(w)
  <2>1. /\ main[w].pc = "load" /\ main'[w].row = main[w].row
        /\ UNCHANGED <<queue_items, execution_controls, group_json>>
        /\ \/ main'[w].pc = "begin" /\ main'[w].mem = group_json[g]
           \/ main'[w].pc = "complete" /\ GroupStatus(g) # "QUEUED"
    BY <1>1, <1>2 DEF Load, At, Main, queueVars, fileVars
  <2> QED BY <2>1 DEF Course
<1>3. CASE Begin(w)
  <2>1. /\ main[w].pc = "begin" /\ main'[w].row = main[w].row /\ main'[w].mem = main[w].mem
        /\ main'[w].pc = IF BeginGranted(g) THEN "start" ELSE "complete"
        /\ UNCHANGED <<queue_items, group_json>> /\ BeginExecution(g)
    BY <1>1, <1>3 DEF Begin, BeginExecution, Goto, At, Main, fileVars
  <2>2. g \in Item /\ execution_controls \in [Item -> Control]
    BY <2>1, MainFields, ChildFacts DEF IInv, RestPc, CallInv, ControlInv
  <2>3. IF BeginGranted(g) THEN execution_controls'[g].state = "running"
        ELSE execution_controls'[g] = execution_controls[g]
    BY <2>1, <2>2 DEF BeginExecution, Control
  <2> QED BY <2>1, <2>3 DEF Course, BeginGranted
<1>4. ASSUME NEW from \in {"prepare", "prepareNext"}, NEW to \in {"shared", "nextSave"},
             Prepare(w, from, to)
      PROVE  Course(w)
  <2>1. /\ main[w].pc = from
        /\ UNCHANGED <<queue_items, execution_controls, group_json>>
    BY <1>4 DEF Prepare, At, queueVars, fileVars
  <2>2. CASE Fail(w)
    <3>1. /\ main'[w].pc = "finish" /\ main'[w].row = main[w].row
          /\ main'[w].mem.version = main[w].mem.version
          /\ main'[w].mem.value.status = "FAILED"
      BY <2>1, <2>2, FailCourse DEF WorkPc
    <3> QED BY <2>1, <3>1 DEF Course
  <2>3. CASE ~Fail(w)
    <3>1. /\ main'[w].row = main[w].row /\ main'[w].mem = main[w].mem
          /\ main'[w].pc = IF CancelRequested(g) THEN "finish" ELSE to
      BY <1>1, <1>4, <2>3 DEF Prepare, Goto, Main
    <3> QED BY <2>1, <3>1 DEF Course
  <2> QED BY <2>2, <2>3
<1>5. CASE UpdateChildren(w)
  <2>1. /\ main[w].pc = "children" /\ main'[w].pc \in {"children", "progress"}
        /\ main'[w].row = main[w].row /\ main'[w].mem = main[w].mem
        /\ UNCHANGED <<queue_items, execution_controls, group_json>>
    BY <1>1, <1>5 DEF UpdateChildren, At, Main, queueVars
  <2> QED BY <2>1 DEF Course
<1>6. CASE WaitForChild(w)
  <2>1. WaitTurn(w)
    BY <1>6, WaitTurns
  <2>2. /\ main[w].pc = "wait" /\ main'[w].row = main[w].row /\ main'[w].mem = main[w].mem
        /\ UNCHANGED <<queue_items, execution_controls, group_json>>
        /\ main'[w].pc \in {"finish", "prepareNext", "nextChild", "conclude", "wait"}
        /\ main'[w].pc = "finish" => CancelRequested(g)
    BY <1>1, <1>6 DEF WaitForChild, AfterReplacement, At, Main, queueVars, fileVars
  <2> QED BY <2>1, <2>2 DEF Course
<1>7. CASE GiveUpWaiting(w)
  <2>1. /\ main[w].pc = "wait" /\ Fail(w)
        /\ "timeout" \in Disturbances /\ faults < MaxFaults /\ faults' = faults + 1
        /\ UNCHANGED <<queue_items, execution_controls, group_json>>
    BY <1>7 DEF GiveUpWaiting, At, queueVars, fileVars
  <2>2. /\ main'[w].pc = "finish" /\ main'[w].row = main[w].row
        /\ main'[w].mem.version = main[w].mem.version
        /\ main'[w].mem.value.status = "FAILED"
    BY <2>1, FailCourse DEF WorkPc
  <2> QED BY <2>1, <2>2 DEF Course
<1>8. CASE StartDeliverable(w) \/ FailDeliverable(w)
  <2>1. /\ main[w].pc \in {"next", "nextChild"} /\ main'[w].pc \in {"wait", "conclude"}
        /\ main'[w].row = main[w].row /\ main'[w].mem = main[w].mem
        /\ UNCHANGED <<queue_items, execution_controls, group_json>>
    BY <1>1, <1>8 DEF StartDeliverable, FailDeliverable, At, Main, queueVars
  <2> QED BY <2>1 DEF Course
<1> QED BY <1>2, <1>3, <1>4, <1>5, <1>6, <1>7, <1>8

LEMMA EndCourse ==
  ASSUME IInv, NEW w \in Worker, Conclude(w) \/ Finish(w) \/ SaveOutcome(w)
  PROVE  Course(w)
<1> DEFINE g == TheGroup(w)
<1>1. /\ main \in [Worker -> Main] /\ main[w] \in Main
      /\ main[w].pc \in {"conclude", "finish", "save"}
      /\ main[w].mem \in Live /\ main[w].mem.value.status \in Status
      /\ main[w].pc \in WorkPc \cup {"mark"} /\ g \in Item
      /\ execution_controls \in [Item -> Control]
  <2>1. main[w].pc \in {"conclude", "finish", "save"}
    BY DEF Conclude, Finish, SaveOutcome, At
  <2> QED BY <2>1, StatusInHand, MainFields, ChildFacts
          DEF IInv, CallInv, ThreadTypes, WorkPc, RestPc, ControlInv
<1> USE DEF OwnPc, EarlyPc, BetweenPc
<1>2. ASSUME NEW status, NEW pc \in MainPc,
             main' = [main EXCEPT ![w].pc = pc, ![w].mem.value.status = status]
      PROVE  /\ main'[w].row = main[w].row /\ main'[w].pc = pc
             /\ main'[w].mem.version = main[w].mem.version
             /\ main'[w].mem.value.status = status
  <2>1. /\ main'[w].row = main[w].row /\ main'[w].pc = pc
        /\ main'[w].mem = [main[w].mem EXCEPT !.value.status = status]
    BY <1>1, <1>2 DEF Main
  <2> QED BY <1>1, <2>1 DEF Live, GroupValue
<1>3. CASE Conclude(w)
  <2> DEFINE status == IF CancelRequested(g) THEN "RUNNING"
                       ELSE IF main[w].failed THEN "FAILED" ELSE "SUCCEEDED"
  <2>1. /\ main' = [main EXCEPT ![w].pc = "finish", ![w].mem.value.status = status]
        /\ main[w].pc = "conclude"
        /\ status \in {"FAILED", "SUCCEEDED"} \/ CancelRequested(g)
        /\ UNCHANGED <<queue_items, execution_controls, group_json>>
    BY <1>3 DEF Conclude, At, queueVars, fileVars
  <2> HIDE DEF status
  <2>2. /\ main'[w].row = main[w].row /\ main'[w].pc = "finish"
        /\ main'[w].mem.version = main[w].mem.version
        /\ main'[w].mem.value.status = status
    BY <1>2, <2>1 DEF MainPc
  <2> QED BY <2>1, <2>2 DEF Course
<1>4. CASE Finish(w)
  <2> DEFINE status == FinishedStatus(g, main[w].mem.value.status)
  <2>1. /\ main' = [main EXCEPT ![w].pc = "save", ![w].mem.value.status = status]
        /\ main[w].pc = "finish" /\ FinishExecution(g)
        /\ UNCHANGED <<queue_items, group_json>>
    BY <1>1, <1>4 DEF Finish, At, FinishExecution, fileVars
  <2>2. execution_controls'[g] = ControlAfterFinish(execution_controls[g])
    BY <1>1, <2>1 DEF FinishExecution
  <2>3. status = IF execution_controls'[g].state = "cancelled" THEN "CANCELLED"
                 ELSE main[w].mem.value.status
    BY <2>2 DEF FinishedStatus
  <2> HIDE DEF status
  <2>4. /\ main'[w].row = main[w].row /\ main'[w].pc = "save"
        /\ main'[w].mem.version = main[w].mem.version
        /\ main'[w].mem.value.status = status
    BY <1>2, <2>1 DEF MainPc
  <2> QED BY <2>1, <2>2, <2>3, <2>4 DEF Course
<1>5. CASE SaveOutcome(w)
  <2>1. /\ main[w].pc = "save" /\ main'[w].pc = "complete" /\ main'[w].row = main[w].row
        /\ UNCHANGED <<queue_items, execution_controls>>
        /\ SaveGroup(w, main[w].mem.value.status) \/ (Conflict(w) /\ UNCHANGED group_json)
    BY <1>1, <1>5 DEF SaveOutcome, At, Goto, Main, queueVars
  <2>2. CASE SaveGroup(w, main[w].mem.value.status)
    <3>1. group_json'[g] = [version |-> main[w].mem.version + 1,
                            value |-> [main[w].mem.value EXCEPT !.status = main[w].mem.value.status]]
          /\ Current(g, main[w].mem)
      BY <1>1, <2>2, SaveFacts DEF IInv
    <3>2. group_json'[g].value.status = main[w].mem.value.status
      BY <1>1, <3>1 DEF Live, GroupValue
    <3> QED BY <2>1, <3>1, <3>2 DEF Course
  <2>3. CASE Conflict(w) /\ UNCHANGED group_json
    BY <2>1, <2>3 DEF Course, Conflict
  <2> QED BY <2>1, <2>2, <2>3
<1> QED BY <1>3, <1>4, <1>5

\* One main thread at a time, and a dead one never.
LEMMA Courses ==
  ASSUME IInv, Alone, [Next]_vars, NEW w \in Worker
  PROVE  main'[w] = main[w] \/ Course(w)
<1>1. main \in [Worker -> Main] /\ CallInv
  BY DEF IInv, CallInv, ThreadTypes
<1>2. ASSUME NEW x \in Worker, MainStep(x) \/ GiveUpWaiting(x) \/ Crash(x)
      PROVE  Course(x) /\ (x # w => main'[w] = main[w])
  <2>1. main' = [main EXCEPT ![x] = main'[x]]
    BY <1>1, <1>2, MainStepCalls, CrashTypes DEF MainCalls
  <2>2. Course(x)
    BY <1>2, RestCourse, RecoveryCourse, SavingCourse, WorkCourse, EndCourse DEF MainStep
  <2> QED BY <1>1, <2>1, <2>2
<1>3. ASSUME NEW x \in Worker, NEW c \in Child, ChildStep(x, c)
      PROVE  UNCHANGED main
  BY <1>1, <1>3, ChildStepCalls DEF ChildCalls
<1>4. ASSUME NEW g \in Group, ApiStep(g) \/ CancelCheck(g)
      PROVE  UNCHANGED main
  BY <1>1, <1>4, ApiStepCalls DEF ApiCalls
<1>5. ASSUME NEW r \in RowIds, Expire(r)
      PROVE  UNCHANGED main
  BY <1>5 DEF Expire
<1> QED BY <1>2, <1>3, <1>4, <1>5 DEF Next, vars

LEMMA SameRows ==
  ASSUME UNCHANGED <<last_id, queue_items>>
  PROVE  RowsMove
BY DEF RowsMove, RowMove, RowIds, Stale

LEMMA MainRowMoves ==
  ASSUME IInv, NEW w \in Worker, MainStep(w) \/ GiveUpWaiting(w) \/ Crash(w)
  PROVE  RowsMove
<1>1. /\ main \in [Worker -> Main] /\ main[w] \in Main
      /\ queue_items \in [RowIds -> Row] /\ w # NoWorker
  BY QueueAssumption DEF IInv, CallInv, ThreadTypes, RowInv, RowTypes
<1>2. CASE RunOnce(w)
  <2>1. RecoverStaleClaims
    BY <1>2 DEF RunOnce
  <2>2. last_id' = last_id
    BY <2>1 DEF RecoverStaleClaims
  <2>3. ASSUME NEW r \in RowIds
        PROVE  RowMove(r)
    <3>1. queue_items'[r] = IF Stale(r)
                            THEN [queue_items[r] EXCEPT !.status = "failed", !.interrupted = TRUE]
                            ELSE queue_items[r]
      BY <2>1 DEF RecoverStaleClaims
    <3>2. CASE Stale(r)
      BY <1>1, <3>1, <3>2 DEF RowMove, Row
    <3>3. CASE ~Stale(r)
      BY <3>1, <3>3 DEF RowMove, Stale
    <3> QED BY <3>2, <3>3
  <2> QED BY <2>2, <2>3 DEF RowsMove, RowIds
<1>3. CASE Acknowledge(w)
  <2>1. CASE UNCHANGED queueVars
    BY <2>1, SameRows DEF queueVars
  <2>2. CASE ~UNCHANGED queueVars
    <3> DEFINE s == main[w].row
    <3>1. /\ main[w].pc = "acknowledge" /\ AwaitsAcknowledgement(s)
          /\ AcknowledgeInterruptedClaim(s, queue_items[s].claimed_by)
      BY <1>3, <2>2 DEF Acknowledge, At
    <3>2. /\ queue_items' = [queue_items EXCEPT ![s].claimed_by = NoWorker]
          /\ last_id' = last_id
      BY <3>1 DEF AcknowledgeInterruptedClaim
    <3>3. ASSUME NEW r \in RowIds
          PROVE  RowMove(r)
      <4>1. CASE r = s
        BY <1>1, <3>1, <3>2, <4>1 DEF RowMove, Row
      <4>2. CASE r # s
        BY <1>1, <3>2, <4>2 DEF RowMove, Stale
      <4> QED BY <4>1, <4>2
    <3> QED BY <3>2, <3>3 DEF RowsMove, RowIds
  <2> QED BY <2>1, <2>2
<1>4. CASE Claim(w)
  <2>1. CASE UNCHANGED queueVars
    BY <2>1, SameRows DEF queueVars
  <2>2. CASE ~UNCHANGED queueVars
    <3>1. PICK s \in RowIds :
            /\ ClaimNext(s, w)
            /\ main' = [main EXCEPT ![w].pc = "load", ![w].row = s]
      BY <1>4, <2>2 DEF Claim
    <3>2. /\ queue_items' = [queue_items EXCEPT ![s].status = "claimed",
                                                ![s].claimed_by = w, ![s].expired = FALSE]
          /\ last_id' = last_id /\ queue_items[s].status = "queued"
          /\ main'[w].pc = "load" /\ main'[w].row = s
      BY <1>1, <3>1 DEF ClaimNext, Claimable, QueuedRows, Main
    <3>3. ASSUME NEW r \in RowIds
          PROVE  RowMove(r)
      <4>1. CASE r = s
        <5>1. /\ queue_items'[r].status = "claimed" /\ queue_items'[r].claimed_by = w
              /\ queue_items'[r].interrupted = queue_items[r].interrupted
              /\ ~queue_items'[r].expired
          BY <1>1, <3>2, <4>1 DEF Row
        <5> QED BY <3>2, <4>1, <5>1 DEF RowMove
      <4>2. CASE r # s
        BY <1>1, <3>2, <4>2 DEF RowMove, Stale
      <4> QED BY <4>1, <4>2
    <3> QED BY <3>2, <3>3 DEF RowsMove, RowIds
  <2> QED BY <2>1, <2>2
<1>5. CASE Complete(w)
  <2>1. CASE UNCHANGED queueVars
    BY <2>1, SameRows DEF queueVars
  <2>2. CASE ~UNCHANGED queueVars
    <3> DEFINE s == main[w].row
    <3>1. /\ main[w].pc = "complete" /\ CompleteClaim(s, w, RowOutcome(w))
          /\ main'[w] = Idle
      BY <1>1, <1>5, <2>2 DEF Complete, At
    <3>2. RowOutcome(w) \in {"done", "failed", "cancelled"} /\ main'[w].pc = "idle"
      BY <3>1 DEF RowOutcome, Idle
    <3>3. /\ queue_items' = [queue_items EXCEPT ![s].status = RowOutcome(w)]
          /\ last_id' = last_id /\ OwnedClaim(s, w)
      BY <3>1 DEF CompleteClaim
    <3>4. ASSUME NEW r \in RowIds
          PROVE  RowMove(r)
      <4>1. CASE r = s
        BY <1>1, <3>1, <3>2, <3>3, <4>1 DEF RowMove, Row, OwnedClaim
      <4>2. CASE r # s
        BY <1>1, <3>3, <4>2 DEF RowMove, Stale
      <4> QED BY <4>1, <4>2
    <3> QED BY <3>3, <3>4 DEF RowsMove, RowIds
  <2> QED BY <2>1, <2>2
<1>6. CASE ~(RunOnce(w) \/ Acknowledge(w) \/ Claim(w) \/ Complete(w))
  <2>1. UNCHANGED <<last_id, queue_items>>
    BY <1>6 DEF MainStep, RecoverGroup, MarkGroup, MarkConflicts, RecoverChild, MarkChild,
         Load, Begin, SaveProgress, Prepare, UpdateChildren, StartChildren, WaitForChild,
         StartDeliverable, FailDeliverable, Conclude, Finish, SaveOutcome, GiveUpWaiting,
         Crash, queueVars, FinishExecution, BeginExecution
  <2> QED BY <2>1, SameRows
<1> QED BY <1>2, <1>3, <1>4, <1>5, <1>6

\* A cancel request to an item reaches the rows of that item.
LEMMA CancelledRows ==
  ASSUME IInv, NEW i \in Item, RequestExecutionCancel(i), NEW r \in RowIds
  PROVE  /\ last_id' = last_id
         /\ execution_controls'[i] = ControlAfterCancel(execution_controls[i])
         /\ \/ /\ queue_items'[r] = queue_items[r]
               /\ execution_controls'[i].state = "cancelled" /\ queue_items[r].item = i
                    => ~Unfinished(r)
            \/ /\ queue_items[r].item = i /\ Unfinished(r)
               /\ queue_items'[r] = [queue_items[r] EXCEPT !.status = "cancelled"]
               /\ execution_controls'[i].state = "cancelled"
<1>1. /\ queue_items \in [RowIds -> Row] /\ execution_controls \in [Item -> Control]
  BY DEF IInv, CallInv, RowInv, RowTypes, ControlInv
<1> QED BY <1>1 DEF RequestExecutionCancel, RowsCancelled

LEMMA ApiRowMoves ==
  ASSUME IInv, NEW g \in Group, ApiStep(g) \/ CancelCheck(g)
  PROVE  RowsMove
<1>1. /\ queue_items \in [RowIds -> Row] /\ g \in Item /\ RowTypes
      /\ \A r \in RowIds : queue_items[r].item \in Group
      /\ api \in [Group -> Api] /\ api[g].todo \in Seq(Child)
  BY ApiFields, ChildFacts DEF IInv, CallInv, RowInv, RowTypes, ThreadTypes
<1>2. CASE EnqueueGroup(g)
  <2>1. api[g].pc = "new" /\ api'[g].pc = "ready" /\ Enqueue(g)
    BY <1>1, <1>2 DEF EnqueueGroup, ApiTo, Api
  <2>2. CASE UNCHANGED queueVars
    BY <2>2, SameRows DEF queueVars
  <2>3. ASSUME NEW status \in {"queued", "cancelled"}, Insert(g, status),
               status = IF CancelRequested(g) THEN "cancelled" ELSE "queued"
        PROVE  RowsMove
    <3>1. /\ RowIds' = RowIds \cup {last_id + 1}
          /\ \A r \in RowIds : queue_items'[r] = queue_items[r]
          /\ queue_items'[last_id + 1] = NewRow(g, status)
      BY <1>1, <2>3, InsertedRow DEF RowStatus
    <3>2. \A r \in RowIds : RowMove(r)
      BY <3>1 DEF RowMove, Stale
    <3>3. UNCHANGED execution_controls
      BY <2>1 DEF Enqueue
    <3>4. Born(last_id + 1)
      BY <2>1, <2>3, <3>1, <3>3 DEF Born, NewRow
    <3> QED BY <3>1, <3>2, <3>4 DEF RowsMove
  <2>4. \/ UNCHANGED queueVars
        \/ \E status \in {"queued", "cancelled"} :
             Insert(g, status) /\ status = IF CancelRequested(g) THEN "cancelled" ELSE "queued"
    BY <2>1 DEF Enqueue, queueVars
  <2> QED BY <2>2, <2>3, <2>4
<1>3. CASE CancelRequest(g)
  <2>1. api[g].pc = "request" /\ RequestExecutionCancel(g)
    BY <1>3 DEF CancelRequest
  <2>2. last_id' = last_id
    BY <2>1 DEF RequestExecutionCancel
  <2>3. ASSUME NEW r \in RowIds
        PROVE  RowMove(r)
    <3>1. CASE queue_items'[r] = queue_items[r]
      BY <3>1 DEF RowMove, Stale
    <3>2. CASE queue_items'[r] # queue_items[r]
      <4>1. /\ queue_items[r].item = g /\ Unfinished(r)
            /\ queue_items'[r] = [queue_items[r] EXCEPT !.status = "cancelled"]
            /\ execution_controls'[g].state = "cancelled"
        BY <1>1, <2>1, <3>2, CancelledRows
      <4> QED BY <1>1, <2>1, <4>1 DEF RowMove, Row
    <3> QED BY <3>1, <3>2
  <2> QED BY <2>2, <2>3 DEF RowsMove, RowIds
<1>4. CASE CancelChild(g)
  <2>1. CASE UNCHANGED queueVars
    BY <2>1, SameRows DEF queueVars
  <2>2. CASE ~UNCHANGED queueVars
    <3>1. api[g].todo # <<>> /\ RequestExecutionCancel(Head(api[g].todo))
      BY <1>4, <2>2 DEF CancelChild
    <3>2. PICK c \in Child : c = Head(api[g].todo) /\ c \in Item /\ c \notin Group
      BY <1>1, <3>1, LeftTail, ParentFacts
    <3>3. RequestExecutionCancel(c)
      BY <3>1, <3>2
    <3>4. \A r \in RowIds : queue_items[r].item # c
      BY <1>1, <3>2
    <3>5. \A r \in RowIds : queue_items'[r] = queue_items[r]
      BY <3>2, <3>3, <3>4, CancelledRows
    <3>6. last_id' = last_id
      BY <3>3 DEF RequestExecutionCancel
    <3>7. \A r \in RowIds : RowMove(r)
      BY <3>5 DEF RowMove, Stale
    <3> QED BY <3>6, <3>7 DEF RowsMove, RowIds
  <2> QED BY <2>1, <2>2
<1>5. CASE SaveCancelledChild(g) \/ AnswerCancel(g) \/ CancelCheck(g)
  BY <1>5, SameRows DEF SaveCancelledChild, AnswerCancel, CancelCheck, queueVars
<1> QED BY <1>2, <1>3, <1>4, <1>5 DEF ApiStep

LEMMA RowMoves ==
  ASSUME IInv, [Next]_vars
  PROVE  RowsMove
<1>1. ASSUME NEW w \in Worker, NEW c \in Child, ChildStep(w, c)
      PROVE  RowsMove
  <2>1. UNCHANGED <<last_id, queue_items>>
    BY <1>1 DEF ChildStep, LoadChild, BeginChild, AcquireSlot, Process, SlotBoundStages,
                UpdateAfterStages, HandOver, FinishChild, ReleaseSlot, StartDocuments,
                MakeDocuments, FinishDocuments, FinishJob, queueVars, FinishExecution,
                BeginExecution
  <2> QED BY <2>1, SameRows
<1>2. ASSUME NEW s \in RowIds, Expire(s)
      PROVE  RowsMove
  <2>1. /\ queue_items' = [queue_items EXCEPT ![s].expired = TRUE]
        /\ last_id' = last_id /\ queue_items \in [RowIds -> Row]
        /\ ~NoStall \/ Dead(queue_items[s].claimed_by)
    BY <1>2 DEF Expire, ExpireClaim, NoStall, OwnedClaim, IInv, CallInv, RowInv, RowTypes
  <2>2. ASSUME NEW r \in RowIds
        PROVE  RowMove(r)
    <3>1. CASE r = s
      BY <2>1, <3>1 DEF RowMove, Row
    <3>2. CASE r # s
      BY <2>1, <3>2 DEF RowMove, Stale
    <3> QED BY <3>1, <3>2
  <2> QED BY <2>1, <2>2 DEF RowsMove, RowIds
<1>3. CASE UNCHANGED vars
  BY <1>3, SameRows DEF vars
<1> QED BY <1>1, <1>2, <1>3, MainRowMoves, ApiRowMoves DEF Next

\* The control of another item does not matter to g.
LEMMA OtherFence ==
  ASSUME IInv, NEW g \in Group, NEW i, i # g,
         \/ FinishExecution(i) \/ BeginExecution(i) \/ RequestExecutionCancel(i)
  PROVE  FenceMove(g)
<1>1. execution_controls \in [Item -> Control] /\ g \in Item
  BY ChildFacts DEF IInv, CallInv, ControlInv
<1>2. execution_controls'[g] = execution_controls[g]
  BY <1>1 DEF FinishExecution, BeginExecution, RequestExecutionCancel
<1> QED BY <1>2 DEF FenceMove

LEMMA MainFenceMoves ==
  ASSUME IInv, Shape, NEW g \in Group,
         NEW w \in Worker, MainStep(w) \/ GiveUpWaiting(w) \/ Crash(w)
  PROVE  FenceMove(g)
<1>1. /\ main \in [Worker -> Main] /\ main[w] \in Main
      /\ execution_controls \in [Item -> Control] /\ g \in Item
      /\ main[w].todo \in Seq(Child)
  BY MainFields, ChildFacts DEF IInv, CallInv, ThreadTypes, ControlInv
<1>2. CASE UNCHANGED execution_controls
  BY <1>2 DEF FenceMove
<1>3. ASSUME NEW r \in RowIds, RecoverGroup(w, r)
      PROVE  FenceMove(g)
  <2>1. FinishExecution(queue_items[r].item) /\ r \in main[w].rows /\ main[w].pc = "recover"
    BY <1>3 DEF RecoverGroup, At
  <2>2. CASE queue_items[r].item = g
    <3>1. Recovered(g)
      BY <2>1, <2>2 DEF Shape, MainShape, Recovered
    <3>2. execution_controls'[g] = ControlAfterFinish(execution_controls[g])
      BY <1>1, <2>1, <2>2 DEF FinishExecution
    <3> QED BY <2>1, <3>1, <3>2 DEF FenceMove
  <2>3. CASE queue_items[r].item # g
    BY <2>1, <2>3, OtherFence
  <2> QED BY <2>2, <2>3
<1>4. CASE RecoverChild(w) /\ ~UNCHANGED queueVars
  <2>1. main[w].todo # <<>> /\ FinishExecution(Head(main[w].todo))
    BY <1>4 DEF RecoverChild
  <2>2. Head(main[w].todo) # g
    BY <1>1, <2>1, LeftTail, ParentFacts
  <2> QED BY <2>1, <2>2, OtherFence
<1>5. CASE Begin(w)
  <2>1. /\ BeginExecution(TheGroup(w)) /\ main[w].pc = "begin"
        /\ main'[w].pc = IF BeginGranted(TheGroup(w)) THEN "start" ELSE "complete"
    BY <1>1, <1>5 DEF Begin, Goto, At, Main
  <2>2. CASE TheGroup(w) = g /\ BeginGranted(g)
    BY <1>1, <2>1, <2>2 DEF BeginExecution, FenceMove, BeginGranted, Control
  <2>3. CASE TheGroup(w) = g /\ ~BeginGranted(g)
    BY <2>1, <2>3 DEF BeginExecution, FenceMove
  <2>4. CASE TheGroup(w) # g
    BY <2>1, <2>4, OtherFence
  <2> QED BY <2>2, <2>3, <2>4
<1>6. CASE Finish(w)
  <2>1. FinishExecution(TheGroup(w)) /\ main[w].pc = "finish" /\ main'[w].pc = "save"
    BY <1>1, <1>6 DEF Finish, At, Main
  <2>2. CASE TheGroup(w) = g
    BY <1>1, <2>1, <2>2 DEF FinishExecution, FenceMove
  <2>3. CASE TheGroup(w) # g
    BY <2>1, <2>3, OtherFence
  <2> QED BY <2>2, <2>3
<1>7. CASE ~(Begin(w) \/ Finish(w) \/ RecoverChild(w) \/ \E r \in RowIds : RecoverGroup(w, r))
  <2>1. UNCHANGED execution_controls
    BY <1>7 DEF MainStep, RunOnce, MarkGroup, MarkConflicts, MarkChild, Acknowledge, Claim,
         Load, SaveProgress, Prepare, UpdateChildren, StartChildren, WaitForChild,
         StartDeliverable, FailDeliverable, Conclude, SaveOutcome, Complete, GiveUpWaiting,
         Crash, queueVars, RecoverStaleClaims, AcknowledgeInterruptedClaim, ClaimNext,
         CompleteClaim
  <2> QED BY <1>2, <2>1
<1> QED BY <1>2, <1>3, <1>4, <1>5, <1>6, <1>7 DEF queueVars

LEMMA FenceMoves ==
  ASSUME IInv, Shape, [Next]_vars, NEW g \in Group
  PROVE  FenceMove(g)
<1>1. /\ execution_controls \in [Item -> Control] /\ g \in Item
      /\ \A h \in Group : api[h].todo \in Seq(Child)
  BY ApiFields, ChildFacts DEF IInv, CallInv, ControlInv
<1>2. CASE UNCHANGED execution_controls
  BY <1>2 DEF FenceMove
<1>3. ASSUME NEW w \in Worker, NEW c \in Child, ChildStep(w, c)
      PROVE  FenceMove(g)
  <2>1. \/ UNCHANGED execution_controls
        \/ FinishExecution(c) \/ BeginExecution(c)
    BY <1>3 DEF ChildStep, LoadChild, BeginChild, AcquireSlot, Process, SlotBoundStages,
                UpdateAfterStages, HandOver, FinishChild, ReleaseSlot, StartDocuments,
                MakeDocuments, FinishDocuments, FinishJob, queueVars
  <2>2. c # g
    BY ParentFacts
  <2> QED BY <1>2, <2>1, <2>2, OtherFence
<1>4. ASSUME NEW h \in Group, CancelRequest(h)
      PROVE  FenceMove(g)
  <2>1. RequestExecutionCancel(h) /\ api[h].pc = "request" /\ api'[h].pc # "request"
    BY <1>4 DEF CancelRequest, IInv, CallInv, ThreadTypes, Api
  <2>2. CASE h = g
    BY <1>1, <2>1, <2>2 DEF RequestExecutionCancel, FenceMove
  <2>3. CASE h # g
    BY <2>1, <2>3, OtherFence
  <2> QED BY <2>2, <2>3
<1>5. ASSUME NEW h \in Group, CancelChild(h), ~UNCHANGED queueVars
      PROVE  FenceMove(g)
  <2>1. api[h].todo # <<>> /\ RequestExecutionCancel(Head(api[h].todo))
    BY <1>5 DEF CancelChild
  <2>2. Head(api[h].todo) # g
    BY <1>1, <2>1, LeftTail, ParentFacts
  <2> QED BY <2>1, <2>2, OtherFence
<1>6. ASSUME NEW h \in Group, ApiStep(h) \/ CancelCheck(h)
      PROVE  \/ UNCHANGED execution_controls
             \/ CancelRequest(h)
             \/ CancelChild(h) /\ ~UNCHANGED queueVars
  BY <1>6 DEF ApiStep, EnqueueGroup, SaveCancelledChild, AnswerCancel, CancelCheck,
              Enqueue, queueVars
<1>7. ASSUME NEW r \in RowIds, Expire(r)
      PROVE  UNCHANGED execution_controls
  BY <1>7 DEF Expire, ExpireClaim
<1> QED BY <1>2, <1>3, <1>4, <1>5, <1>6, <1>7, MainFenceMoves DEF Next, vars

LEMMA MainFileMoves ==
  ASSUME IInv, Shape, NEW g \in Group,
         NEW w \in Worker, MainStep(w) \/ GiveUpWaiting(w) \/ Crash(w)
  PROVE  FileMove(g)
<1>1. main \in [Worker -> Main] /\ main[w] \in Main
  BY DEF IInv, CallInv, ThreadTypes
<1>2. CASE UNCHANGED group_json
  BY <1>2 DEF FileMove
<1>3. ASSUME NEW status \in Status, SaveGroup(w, status), main[w].pc \in WorkPc \cup {"mark"}
      PROVE  \/ FileMove(g)
             \/ /\ TheGroup(w) = g /\ GroupStatus(g)' = status /\ Current(g, main[w].mem)
                /\ main[w].row \in RowIds
  <2>1. /\ group_json'[TheGroup(w)] =
             [version |-> main[w].mem.version + 1,
              value |-> [main[w].mem.value EXCEPT !.status = status]]
        /\ Current(TheGroup(w), main[w].mem) /\ main[w].mem \in Live
        /\ g # TheGroup(w) => group_json'[g] = group_json[g]
        /\ main[w].row \in RowIds
    BY <1>3, SaveFacts, MainFields DEF IInv, WorkPc, EarlyPc, BetweenPc, RestPc
  <2>2. CASE g = TheGroup(w)
    BY <2>1, <2>2 DEF GroupStatus, Saved, Live, GroupValue
  <2>3. CASE g # TheGroup(w)
    BY <2>1, <2>3 DEF FileMove
  <2> QED BY <2>2, <2>3
<1>4. CASE MarkGroup(w)
  <2>1. /\ main[w].pc = "mark" /\ main[w].mem.value.status \in {"INTERRUPTED", "CANCELLED"}
        /\ SaveGroup(w, main[w].mem.value.status) /\ queue_items[main[w].row].interrupted
    BY <1>4 DEF MarkGroup, At, Shape, MainShape
  <2>2. \/ FileMove(g)
        \/ /\ TheGroup(w) = g /\ GroupStatus(g)' = main[w].mem.value.status
           /\ main[w].row \in RowIds
    BY <1>3, <2>1 DEF Status, Terminal
  <2> QED BY <2>1, <2>2 DEF FileMove, Stopped, Recovered, TheGroup
<1>5. CASE SaveOutcome(w) /\ ~UNCHANGED group_json
  <2>1. /\ main[w].pc = "save" /\ main'[w].pc = "complete"
        /\ SaveGroup(w, main[w].mem.value.status)
    BY <1>1, <1>5 DEF SaveOutcome, At, Goto, Main
  <2>2. main[w].mem.value.status \in Status
    BY <2>1, MainFields DEF IInv, WorkPc
  <2>3. \/ FileMove(g)
        \/ /\ TheGroup(w) = g /\ GroupStatus(g)' = main[w].mem.value.status
           /\ Current(g, main[w].mem)
    BY <1>3, <2>1, <2>2 DEF WorkPc
  <2> QED BY <2>1, <2>3 DEF FileMove, Owns, OwnPc
<1>6. ASSUME \/ SaveProgress(w, "start", "prepare")
             \/ SaveProgress(w, "shared", "children")
             \/ SaveProgress(w, "nextSave", "next")
             \/ StartChildren(w),
             ~UNCHANGED group_json
      PROVE  FileMove(g)
  <2>1. SaveGroup(w, "RUNNING") /\ main[w].pc \in {"start", "shared", "nextSave", "progress"}
    BY <1>6 DEF SaveProgress, StartChildren, At
  <2>2. ASSUME NEW from \in MainPc, NEW to \in MainPc, SaveProgress(w, from, to)
        PROVE  main'[w].pc = to /\ main'[w].mem = group_json'[TheGroup(w)]
    BY <1>1, <1>6, <2>2 DEF SaveProgress, Main
  <2>3. /\ main'[w].pc \in {"prepare", "children", "next", "wait"}
        /\ main'[w].mem = group_json'[TheGroup(w)]
    <3>1. CASE StartChildren(w)
      BY <1>1, <1>6, <3>1 DEF StartChildren, Main
    <3> QED BY <1>6, <2>2, <3>1 DEF MainPc
  <2>4. \/ FileMove(g)
        \/ TheGroup(w) = g /\ Current(g, main[w].mem)
    BY <1>3, <2>1 DEF WorkPc, EarlyPc, BetweenPc, Status
  <2> QED BY <2>1, <2>3, <2>4 DEF FileMove, Owns, OwnPc, EarlyPc, BetweenPc
<1>7. CASE \/ RunOnce(w) \/ (\E r \in RowIds : RecoverGroup(w, r)) \/ MarkConflicts(w)
           \/ RecoverChild(w) \/ MarkChild(w) \/ Acknowledge(w) \/ Claim(w) \/ Load(w)
           \/ Begin(w) \/ Prepare(w, "prepare", "shared") \/ UpdateChildren(w)
           \/ WaitForChild(w) \/ Prepare(w, "prepareNext", "nextSave")
           \/ StartDeliverable(w) \/ FailDeliverable(w) \/ Conclude(w) \/ Finish(w)
           \/ Complete(w) \/ GiveUpWaiting(w) \/ Crash(w)
  <2>1. UNCHANGED group_json
    BY <1>7 DEF RunOnce, RecoverGroup, MarkConflicts, RecoverChild, MarkChild, Acknowledge,
                Claim, Load, Begin, Prepare, UpdateChildren, WaitForChild, StartDeliverable,
                FailDeliverable, Conclude, Finish, Complete, GiveUpWaiting, Crash, fileVars
  <2> QED BY <1>2, <2>1
<1> QED BY <1>2, <1>4, <1>5, <1>6, <1>7 DEF MainStep

\* The save of a cancel request stops the group.
LEMMA CancelSaves ==
  ASSUME IInv, NEW g \in Group, AnswerCancel(g), NEW h \in Group
  PROVE  /\ FileMove(h)
         /\ api[g].mem # Missing /\ Current(g, api[g].mem) => Stopped(g)'
<1>1. group_json \in [Group -> Live]
  BY DEF IInv, CallInv, FileTypes
<1>2. CASE api[g].mem # Missing /\ Current(g, api[g].mem)
  <2>1. /\ group_json' = [group_json EXCEPT ![g] =
             Bumped(api[g].mem, [api[g].mem.value EXCEPT !.status = "CANCELLED"])]
        /\ api[g].pc = "save"
    BY <1>2 DEF AnswerCancel, UpdateGroup
  <2>2. api[g].mem \in Live
    BY <1>2, ApiFields DEF IInv, CallInv
  <2>3. GroupStatus(g)' = "CANCELLED"
    BY <1>1, <2>1, <2>2 DEF Bumped, GroupStatus, Saved, Live, GroupValue
  <2>4. Begun(g)
    BY <1>2, <2>1 DEF IInv, FollowInv, ApiFollows, Ended, Begun
  <2>5. h # g => group_json'[h] = group_json[h]
    BY <1>1, <2>1
  <2> QED BY <2>3, <2>4, <2>5 DEF FileMove, Stopped
<1>3. CASE ~(api[g].mem # Missing /\ Current(g, api[g].mem))
  BY <1>3 DEF AnswerCancel, FileMove
<1> QED BY <1>2, <1>3

LEMMA FileMoves ==
  ASSUME IInv, Shape, [Next]_vars, NEW g \in Group
  PROVE  FileMove(g)
<1>1. CASE UNCHANGED group_json
  BY <1>1 DEF FileMove
<1>2. ASSUME NEW w \in Worker, NEW c \in Child, ChildStep(w, c)
      PROVE  UNCHANGED group_json
  BY <1>2 DEF ChildStep, LoadChild, BeginChild, AcquireSlot, Process, SlotBoundStages,
              UpdateAfterStages, HandOver, FinishChild, ReleaseSlot, StartDocuments,
              MakeDocuments, FinishDocuments, fileVars
<1>3. ASSUME NEW h \in Group, ApiStep(h) \/ CancelCheck(h)
      PROVE  UNCHANGED group_json \/ AnswerCancel(h)
  BY <1>3 DEF ApiStep, EnqueueGroup, CancelRequest, CancelChild, SaveCancelledChild,
              CancelCheck, fileVars
<1>4. ASSUME NEW r \in RowIds, Expire(r)
      PROVE  UNCHANGED group_json
  BY <1>4 DEF Expire, fileVars
<1> QED BY <1>1, <1>2, <1>3, <1>4, MainFileMoves, CancelSaves DEF Next, vars

LEMMA ApiCourses ==
  ASSUME IInv, NEW g \in Group, ApiStep(g) \/ CancelCheck(g)
  PROVE  ApiCourse(g)
<1>1. /\ api \in [Group -> Api] /\ api[g] \in Api /\ g \in Item
      /\ execution_controls \in [Item -> Control]
      /\ queue_items \in [RowIds -> Row] /\ RowTypes
  BY ApiFields, ChildFacts DEF IInv, CallInv, ThreadTypes, ControlInv, RowInv, RowTypes
<1>2. UNCHANGED main
  BY ApiStepCalls DEF IInv, ApiCalls
<1>3. CASE EnqueueGroup(g)
  <2>1. /\ api[g].pc = "new" /\ api'[g].pc = "ready" /\ Enqueue(g)
        /\ UNCHANGED <<execution_controls, group_json>>
    BY <1>1, <1>3 DEF EnqueueGroup, ApiTo, Api, Enqueue, fileVars
  <2>2. CASE HasUnfinished(g) /\ UNCHANGED <<last_id, queue_items>>
    <3>1. \E r \in RowIds' : queue_items'[r].item = g
      BY <2>2 DEF HasUnfinished, RowIds
    <3> QED BY <1>2, <2>1, <3>1 DEF ApiCourse
  <2>3. ASSUME NEW status \in RowStatus, Insert(g, status)
        PROVE  ApiCourse(g)
    <3>1. /\ RowIds' = RowIds \cup {last_id + 1}
          /\ queue_items'[last_id + 1] = NewRow(g, status)
      BY <1>1, <2>3, InsertedRow
    <3>2. \E r \in RowIds' : queue_items'[r].item = g
      BY <3>1 DEF NewRow
    <3> QED BY <1>2, <2>1, <3>2 DEF ApiCourse
  <2> QED BY <2>1, <2>2, <2>3 DEF Enqueue, RowStatus
<1>4. CASE CancelCheck(g)
  <2>1. /\ api[g].pc = "ready" /\ api'[g].pc = "request" /\ api'[g].mem = group_json[g]
        /\ UNCHANGED <<queueVars, group_json>>
    BY <1>1, <1>4 DEF CancelCheck, Api, fileVars
  <2> QED BY <1>2, <2>1 DEF ApiCourse
<1>5. CASE CancelRequest(g)
  <2>1. /\ api[g].pc = "request" /\ RequestExecutionCancel(g)
        /\ api'[g].pc = IF execution_controls'[g].state = "completed" THEN "ready" ELSE "child"
        /\ api'[g].mem = IF execution_controls'[g].state = "cancelled" THEN api[g].mem
                         ELSE Missing
        /\ UNCHANGED group_json
    BY <1>1, <1>5 DEF CancelRequest, Api, fileVars
  <2>2. /\ last_id' = last_id
        /\ execution_controls'[g] = ControlAfterCancel(execution_controls[g])
    BY <1>1, <2>1 DEF RequestExecutionCancel
  <2>3. execution_controls'[g].state \in {"running", "completed", "cancelled"}
    BY <1>1, <2>2 DEF ControlAfterCancel, Control, ControlState
  <2>4. ASSUME execution_controls'[g].state = "cancelled",
               NEW r \in RowIds, queue_items[r].item = g
        PROVE  ~Unfinished(r)'
    <3>1. \/ queue_items'[r] = queue_items[r] /\ ~Unfinished(r)
          \/ queue_items'[r] = [queue_items[r] EXCEPT !.status = "cancelled"]
      BY <1>1, <2>1, <2>4, CancelledRows
    <3> QED BY <1>1, <3>1 DEF Unfinished, Row
  <2> QED BY <1>2, <2>1, <2>2, <2>3, <2>4 DEF ApiCourse
<1>6. CASE CancelChild(g) \/ SaveCancelledChild(g)
  <2>1. /\ api[g].pc \in {"child", "childSave"} /\ api'[g].pc \in {"child", "childSave", "save"}
        /\ api'[g].mem = api[g].mem
    BY <1>1, <1>6 DEF CancelChild, SaveCancelledChild, ApiTo, Api
  <2> QED BY <1>2, <2>1 DEF ApiCourse
<1>7. CASE AnswerCancel(g)
  <2>1. api[g].pc = "save" /\ api'[g].pc = "answered"
    BY <1>1, <1>7 DEF AnswerCancel, ApiTo, Api
  <2> QED BY <1>2, <1>7, <2>1, CancelSaves DEF ApiCourse
<1> QED BY <1>3, <1>4, <1>5, <1>6, <1>7 DEF ApiStep

LEMMA ApiMoves ==
  ASSUME IInv, [Next]_vars, NEW g \in Group
  PROVE  api'[g] = api[g] \/ ApiCourse(g)
<1>1. api \in [Group -> Api] /\ CallInv
  BY DEF IInv, CallInv, ThreadTypes
<1>2. ASSUME NEW w \in Worker, MainStep(w) \/ GiveUpWaiting(w) \/ Crash(w)
      PROVE  UNCHANGED api
  BY <1>1, <1>2, MainStepCalls, CrashTypes DEF MainCalls, Crash
<1>3. ASSUME NEW w \in Worker, NEW c \in Child, ChildStep(w, c)
      PROVE  UNCHANGED api
  BY <1>1, <1>3, ChildStepCalls DEF ChildCalls
<1>4. ASSUME NEW h \in Group, ApiStep(h) \/ CancelCheck(h)
      PROVE  api'[g] = api[g] \/ ApiCourse(g)
  <2>1. api' = [api EXCEPT ![h] = api'[h]]
    BY <1>1, <1>4, ApiStepCalls DEF ApiCalls
  <2> QED BY <1>1, <1>4, <2>1, ApiCourses
<1>5. ASSUME NEW r \in RowIds, Expire(r)
      PROVE  UNCHANGED api
  BY <1>5 DEF Expire
<1> QED BY <1>2, <1>3, <1>4, <1>5 DEF Next, vars

\* Something goes wrong at most once in a step.
LEMMA FaultsMove ==
  ASSUME IInv, [Next]_vars
  PROVE  faults \in Nat /\ faults' \in {faults, faults + 1}
<1> USE DEF IInv, CallInv
<1>4. faults \in Nat
  BY GroupExecutionAssumption
<1>1. ASSUME NEW w \in Worker, MainStep(w)
      PROVE  UNCHANGED faults
  BY <1>1
  DEF MainStep, RunOnce, RecoverGroup, MarkGroup, MarkConflicts, RecoverChild,
      MarkChild, Acknowledge, Claim, Load, Begin, SaveProgress, Prepare, UpdateChildren,
      StartChildren, WaitForChild, StartDeliverable, FailDeliverable, Conclude, Finish,
      SaveOutcome, Complete
<1>2. \A w \in Worker, c \in Child : ChildStep(w, c) => UNCHANGED faults
  BY ChildStepCalls DEF IInv, ChildCalls
<1>3. \A g \in Group : ApiStep(g) \/ CancelCheck(g) => UNCHANGED faults
  BY ApiStepCalls DEF IInv, ApiCalls
<1> QED BY <1>1, <1>2, <1>3, <1>4 DEF Next, vars, GiveUpWaiting, Crash, Expire

\* A step of the whole system, with all that.
Going ==
  /\ Moving /\ RowsMove
  /\ \A w \in Worker : main'[w] = main[w] \/ Course(w)
  /\ \A g \in Group : /\ FenceMove(g) /\ FileMove(g)
                      /\ api'[g] = api[g] \/ ApiCourse(g)
  /\ faults \in Nat /\ faults' \in {faults, faults + 1}

LEMMA StepGoes ==
  ASSUME IInv, Shape, Alone, [Next]_vars
  PROVE  Going
BY StepMoves, RowMoves, Courses, FenceMoves, FileMoves, ApiMoves, FaultsMove DEF Going
-------------------------------------------------------------------------------
(* The ends stay in step: what a step leaves of them.                       *)

Ending == EndInv /\ Going

LEMMA RowFacts ==
  ASSUME Ending, NEW r \in RowIds
  PROVE  /\ queue_items[r].item \in Group /\ queue_items[r] \in Row
         /\ RowSafe(r) /\ RowMove(r)
         /\ r \in RowIds' /\ queue_items'[r].item = queue_items[r].item
         /\ queue_items[r].interrupted => queue_items'[r].interrupted
BY DEF Ending, EndInv, Going, RowsMove, Moving, Steady, IInv, CallInv, RowInv, RowTypes

\* The row that a main thread holds is the only one of its group.
LEMMA HeldRow ==
  ASSUME Ending, NEW w \in Worker, main[w].pc \in HoldPc \cup {"acknowledge"}
  PROVE  /\ main[w].row \in RowIds /\ TheGroup(w) \in Group
         /\ queue_items[main[w].row].item = TheGroup(w)
         /\ MainSafe(w) /\ RowSafe(main[w].row) /\ RowMove(main[w].row)
         /\ \A p \in RowIds : queue_items[p].item = TheGroup(w) => p = main[w].row
         /\ main'[w].row = main[w].row => TheGroup(w)' = TheGroup(w)
         /\ w # NoWorker
<1>1. main[w].pc \notin RestPc
  BY DEF HoldPc, OwnPc, EarlyPc, BetweenPc, RestPc
<1>2. main[w].row \in RowIds /\ TheGroup(w) \in Group
      /\ (main'[w].row = main[w].row => TheGroup(w)' = TheGroup(w))
  BY <1>1, GroupInHand DEF Ending, Going, Moving
<1>3. MainSafe(w) /\ w # NoWorker
  BY QueueAssumption DEF Ending, EndInv
<1>4. RowSafe(main[w].row) /\ RowMove(main[w].row)
  BY <1>2, RowFacts
<1>5. queue_items[main[w].row].item = TheGroup(w)
  BY DEF TheGroup
<1>6. \A p \in RowIds : queue_items[p].item = TheGroup(w) => p = main[w].row
  BY <1>4, <1>5 DEF RowSafe
<1> QED BY <1>2, <1>3, <1>4, <1>5, <1>6

LEMMA ControlOfGroup ==
  ASSUME Ending, NEW g \in Group
  PROVE  /\ execution_controls[g] \in Control /\ ControlSound(execution_controls[g])
         /\ execution_controls'[g] \in Control /\ ControlSound(execution_controls'[g])
         /\ g \in Item /\ ApiSafe(g) /\ EndSafe(g) /\ FenceMove(g) /\ FileMove(g)
         /\ api'[g] = api[g] \/ ApiCourse(g)
         /\ Ended(g) => CancelRequested(g) /\ Begun(g)
<1>1. g \in Item
  BY ChildFacts
<1> QED BY <1>1 DEF Ending, EndInv, Going, Moving, IInv, CallInv, ControlInv, ControlSound, Ended,
                    CancelRequested, Begun

\* A group is executed while its claim is open, or was recovered.
LEMMA NobodyOwns ==
  ASSUME Ending, NEW r \in RowIds, ~queue_items[r].interrupted,
         NEW w \in Worker, Owns(w, queue_items[r].item)
  PROVE  queue_items[r].status = "claimed" /\ queue_items[r].claimed_by = w
<1>1. main[w].pc \in OwnPc /\ main[w].pc \in HoldPc /\ TheGroup(w) = queue_items[r].item
  BY DEF Owns, HoldPc
<1>2. main[w].row = r /\ MainSafe(w)
  BY <1>1, HeldRow
<1> QED BY <1>1, <1>2 DEF MainSafe

\* A request for a group that never began.
Cancels(g) ==
  /\ api[g].pc = "request" /\ ~Begun(g) /\ Ended(g)'
  /\ api'[g].pc = "child" /\ api'[g].mem = api[g].mem /\ api[g].mem # Missing
  /\ \A r \in RowIds : queue_items[r].item = g => ~Unfinished(r)'
  /\ UNCHANGED <<group_json, main>>

LEMMA RequestTakes ==
  ASSUME Ending, NEW g \in Group, api[g].pc = "request", api'[g].pc # "request"
  PROVE  (Begun(g) /\ ~Ended(g)) \/ Cancels(g)
<1>1. /\ ApiCourse(g) /\ ~CancelRequested(g)
      /\ execution_controls[g] \in Control /\ ControlSound(execution_controls[g])
  BY ControlOfGroup DEF ApiSafe
<1>2. /\ execution_controls'[g] = ControlAfterCancel(execution_controls[g])
      /\ UNCHANGED <<group_json, main>>
      /\ execution_controls'[g].state = "cancelled" =>
           /\ api'[g].pc = "child" /\ api'[g].mem = api[g].mem
           /\ \A r \in RowIds : queue_items[r].item = g => ~Unfinished(r)'
  BY <1>1 DEF ApiCourse
<1>3. api[g].mem # Missing
  BY LiveFacts DEF Ending, Going, Moving, IInv, CallInv, ThreadTypes, ApiSound, Live, Missing
<1>4. ~Ended(g)
  BY <1>1, ControlOfGroup
<1>5. CASE ~Begun(g)
  <2>1. execution_controls'[g].state = "cancelled"
    BY <1>2, <1>5 DEF Begun, ControlAfterCancel
  <2> QED BY <1>2, <1>3, <1>5, <2>1 DEF Cancels, Ended
<1> QED BY <1>4, <1>5

\* What moves the fence of a group.
LEMMA FenceTurns ==
  ASSUME Ending, NEW g \in Group
  PROVE  /\ execution_controls[g].state \in {"completed", "cancelled"} =>
              execution_controls'[g].state = execution_controls[g].state
         /\ ~Begun(g) /\ Begun(g)' =>
              \/ \E w \in Worker :
                   TheGroup(w) = g /\ main[w].pc = "begin" /\ main'[w].pc = "start"
              \/ Cancels(g)
         /\ ~Ended(g) /\ Ended(g)' =>
              \/ \E w \in Worker :
                   Owns(w, g) /\ main[w].pc = "finish" /\ main'[w].pc = "save"
              \/ Recovered(g)
              \/ Cancels(g)
<1> DEFINE k == execution_controls[g]
           l == execution_controls'[g]
<1>1. /\ k \in Control /\ ControlSound(k) /\ FenceMove(g) /\ ApiSafe(g)
  BY ControlOfGroup
<1>2. CASE l = k
  BY <1>2 DEF Begun, Ended
<1>3. CASE \E w \in Worker :
             /\ TheGroup(w) = g /\ main[w].pc = "begin" /\ main'[w].pc = "start"
             /\ k.state = "absent" /\ l = [k EXCEPT !.state = "running"]
  <2>1. l.state = "running"
    BY <1>1, <1>3 DEF Control
  <2> QED BY <1>3, <2>1 DEF Begun, Ended
<1>4. CASE /\ l = ControlAfterFinish(k)
           /\ \E w \in Worker :
                \/ TheGroup(w) = g /\ main[w].pc = "finish" /\ main'[w].pc = "save"
                \/ main[w].pc = "recover" /\ Recovered(g)
  <2>1. /\ k.state \in {"completed", "cancelled", "absent"} => l = k
    BY <1>1, <1>4, ControlFacts
  <2>2. \/ \E w \in Worker :
             Owns(w, g) /\ main[w].pc = "finish" /\ main'[w].pc = "save"
        \/ Recovered(g)
    BY <1>4 DEF Owns, OwnPc
  <2> QED BY <2>1, <2>2 DEF Begun, Ended
<1>5. CASE l = ControlAfterCancel(k) /\ api[g].pc = "request" /\ api'[g].pc # "request"
  <2>1. k.state # "absent" => l.state = k.state
    BY <1>1, <1>5, ControlFacts
  <2>2. Begun(g) \/ Cancels(g)
    BY <1>5, RequestTakes
  <2> QED BY <2>1, <2>2 DEF Begun, Ended
<1> QED BY <1>1, <1>2, <1>3, <1>4, <1>5 DEF FenceMove

\* A row is cancelled by the request for its group.
LEMMA RowCancelled ==
  ASSUME Ending, NEW r \in RowIds,
         api[queue_items[r].item].pc = "request",
         execution_controls'[queue_items[r].item].state = "cancelled"
  PROVE  Cancels(queue_items[r].item)
<1> DEFINE g == queue_items[r].item
           k == execution_controls[g]
           l == execution_controls'[g]
<1>1. g \in Group
  BY RowFacts
<1>2. /\ k \in Control /\ ControlSound(k) /\ FenceMove(g) /\ ApiSafe(g)
      /\ ~CancelRequested(g) /\ ~Ended(g)
  BY <1>1, ControlOfGroup DEF ApiSafe
<1>3. /\ ControlAfterFinish(k).state # "cancelled" /\ [k EXCEPT !.state = "running"].state # "cancelled"
  BY <1>2, ControlFacts DEF CancelRequested, Control
<1>4. /\ l = ControlAfterCancel(k) /\ api'[g].pc # "request"
  BY <1>2, <1>3 DEF FenceMove, Ended
<1>5. k.state = "absent"
  BY <1>2, <1>4, ControlFacts DEF Ended
<1> QED BY <1>1, <1>4, <1>5, RequestTakes DEF Begun

\* A group that is over stays so when nobody executes it.
LEMMA OverStays ==
  ASSUME Ending, NEW g \in Group, Over(g), \A w \in Worker : ~Owns(w, g)
  PROVE  Over(g)'
<1>1. execution_controls'[g].state = execution_controls[g].state
  BY FenceTurns DEF Over
<1>2. GroupStatus(g)' = GroupStatus(g) \/ Stopped(g)'
  BY ControlOfGroup DEF FileMove, GroupStatus, Saved
<1>3. Stopped(g) => Stopped(g)'
  BY DEF Ending, Going, Moving, Steady
<1> QED BY <1>1, <1>2, <1>3 DEF Over, Ended, Stopped, Terminal

\* What somebody has in hand can still be saved when the owner does not save.
LEMMA KeptStays ==
  ASSUME Ending, NEW g \in Group, NEW rec, Kept(g, rec), \A w \in Worker : ~Owns(w, g)
  PROVE  Kept(g, rec)'
<1>1. group_json'[g] = group_json[g] \/ Stopped(g)'
  BY ControlOfGroup DEF FileMove
<1>2. Stopped(g) => Stopped(g)'
  BY DEF Ending, Going, Moving, Steady
<1> QED BY <1>1, <1>2 DEF Kept, Current

\* A request that is going to save, saves or finds the group stopped.
LEMMA CancelLater ==
  ASSUME Ending, NEW g \in Group, WillCancel(g)
  PROVE  WillCancel(g)' \/ Stopped(g)'
<1>1. /\ Kept(g, api[g].mem)
      /\ api'[g] = api[g] \/ ApiCourse(g)
  BY ControlOfGroup DEF ApiSafe
<1>2. Stopped(g) => Stopped(g)'
  BY DEF Ending, Going, Moving, Steady
<1>3. CASE api'[g] = api[g]
  BY <1>3 DEF WillCancel
<1>4. CASE ApiCourse(g)
  <2>1. \/ /\ api'[g].pc \in {"child", "childSave", "save"} /\ api'[g].mem = api[g].mem
        \/ Current(g, api[g].mem) => Stopped(g)'
    BY <1>4 DEF ApiCourse, WillCancel
  <2> QED BY <1>1, <1>2, <2>1 DEF WillCancel, Kept
<1> QED BY <1>1, <1>3, <1>4

\* A row that is settled by a step is that of a group that is over by then.
LEMMA RowSafeStep ==
  ASSUME Ending, NEW r \in RowIds
  PROVE  RowSafe(r)'
<1> DEFINE q == queue_items[r]
           p == queue_items'[r]
<1>0. PICK g \in Group : g = q.item
  BY RowFacts
<1>1. /\ g = q.item /\ q \in Row /\ RowSafe(r) /\ RowMove(r)
      /\ r \in RowIds' /\ p.item = g
  BY <1>0, RowFacts
<1>2. /\ ApiSafe(g) /\ EndSafe(g)
      /\ api'[g] = api[g] \/ ApiCourse(g)
  BY <1>1, ControlOfGroup
<1>3. Steady /\ NoWorker \notin Worker
  BY QueueAssumption DEF Ending, Going, Moving
<1>4. api'[g].pc # "new"
  BY <1>1, <1>2 DEF RowSafe, ApiCourse
<1>5. ASSUME NEW s \in RowIds', queue_items'[s].item = g
      PROVE  s = r
  <2>1. CASE s \in RowIds
    BY <1>1, <1>5, <2>1, RowFacts DEF RowSafe
  <2>2. CASE s \notin RowIds
    BY <1>1, <1>5, <2>2 DEF RowSafe, Ending, Going, RowsMove, Born
  <2> QED BY <2>1, <2>2
<1>6. p.interrupted => p.status = "failed"
  BY <1>1 DEF RowSafe, RowMove, OwnedClaim, Unfinished
<1>7. p.status = "claimed" => p.claimed_by # NoWorker
  BY <1>1, <1>3 DEF RowSafe, RowMove, AwaitsAcknowledgement
<1>8. p.status = "queued" => ~Begun(g)'
  <2> SUFFICES ASSUME p.status = "queued", Begun(g)'
               PROVE  FALSE
    OBVIOUS
  <2>1. q.status = "queued"
    BY <1>1 DEF RowMove, AwaitsAcknowledgement
  <2>2. ~Begun(g)
    BY <1>1, <2>1 DEF RowSafe
  <2>3. CASE Cancels(g)
    BY <1>1, <2>3 DEF Cancels, Unfinished
  <2>4. CASE \E w \in Worker : TheGroup(w) = g /\ main[w].pc = "begin"
    <3>1. PICK w \in Worker : TheGroup(w) = g /\ main[w].pc = "begin"
      BY <2>4
    <3>2. main[w].row = r /\ MainSafe(w) /\ main[w].pc \in HoldPc
      BY <1>1, <3>1, HeldRow DEF HoldPc
    <3> QED BY <1>1, <2>1, <3>2 DEF MainSafe, RowSafe
  <2> QED BY <1>1, <2>2, <2>3, <2>4, FenceTurns
<1>9. ASSUME ~Unfinished(r)', ~p.interrupted
      PROVE  Over(g)' \/ WillCancel(g)'
  <2>1. CASE p.status = q.status /\ p.interrupted = q.interrupted
    <3>1. ~Unfinished(r) /\ ~q.interrupted
      BY <1>9, <2>1 DEF Unfinished
    <3>2. CASE Over(g)
      <4>1. \A w \in Worker : ~Owns(w, g)
        BY <1>1, <3>1, NobodyOwns DEF Unfinished
      <4> QED BY <1>1, <3>2, <4>1, OverStays
    <3>3. CASE WillCancel(g)
      <4>1. WillCancel(g)' \/ Stopped(g)'
        BY <1>1, <3>3, CancelLater
      <4>2. Ended(g) /\ Begun(g)
        BY <1>1, <3>3 DEF WillCancel, Ending, Going, Moving, IInv, FollowInv, ApiFollows, Ended, Begun
      <4>3. Ended(g)'
        BY <1>1, <1>3, <4>2, ChildFacts DEF Steady
      <4> QED BY <4>1, <4>3 DEF Over, Ended, Stopped, Terminal
    <3> QED BY <1>1, <3>1, <3>2, <3>3 DEF RowSafe
  <2>2. CASE \E w \in Worker : OwnedClaim(r, w) /\ main[w].pc = "complete" /\ main[w].row = r
    <3>1. PICK w \in Worker : OwnedClaim(r, w) /\ main[w].pc = "complete" /\ main[w].row = r
      BY <2>2
    <3>2. Over(g)
      BY <1>1, <3>1, HeldRow DEF MainSafe, HoldPc, TheGroup
    <3>3. ASSUME NEW x \in Worker, Owns(x, g)
          PROVE  FALSE
      <4>1. ~q.interrupted
        BY <1>1, <3>1 DEF RowSafe, OwnedClaim
      <4>2. q.claimed_by = x
        BY <1>1, <3>3, <4>1, NobodyOwns
      <4> QED BY <3>1, <3>3, <4>2 DEF OwnedClaim, Owns, OwnPc, EarlyPc, BetweenPc
    <3> QED BY <1>1, <3>2, <3>3, OverStays
  <2>3. CASE api[g].pc = "request" /\ execution_controls'[g].state = "cancelled"
    <3>1. Cancels(g)
      BY <1>1, <2>3, RowCancelled
    <3> QED BY <3>1 DEF Cancels, WillCancel
  <2>4. \/ p.status = q.status /\ p.interrupted = q.interrupted
        \/ \E w \in Worker : OwnedClaim(r, w) /\ main[w].pc = "complete" /\ main[w].row = r
        \/ api[g].pc = "request" /\ execution_controls'[g].state = "cancelled"
    BY <1>1, <1>9 DEF RowMove, Unfinished
  <2> QED BY <2>1, <2>2, <2>3, <2>4
<1>10. ASSUME p.interrupted, p.claimed_by = NoWorker
       PROVE  Stopped(g)'
  <2>1. CASE q.interrupted /\ q.claimed_by = NoWorker
    BY <1>1, <1>3, <2>1 DEF RowSafe, Steady
  <2>2. CASE \E w \in Worker : main[w].pc = "acknowledge" /\ main[w].row = r
    BY <1>1, <1>3, <2>2, HeldRow DEF MainSafe, Steady, TheGroup
  <2>3. \/ q.interrupted /\ q.claimed_by = NoWorker
        \/ \E w \in Worker : main[w].pc = "acknowledge" /\ main[w].row = r
    BY <1>1, <1>3, <1>10 DEF RowMove, RowSafe, Stale, OwnedClaim
  <2> QED BY <2>1, <2>2, <2>3
<1> QED BY <1>1, <1>4, <1>5, <1>6, <1>7, <1>8, <1>9, <1>10 DEF RowSafe

\* A row that is new.
LEMMA BornSafe ==
  ASSUME Ending, NEW r \in RowIds', r \notin RowIds
  PROVE  RowSafe(r)'
<1> DEFINE p == queue_items'[r]
<1>1. Born(r) /\ \A s \in RowIds' : s \notin RowIds => s = r
  BY DEF Ending, Going, RowsMove
<1>2. PICK g \in Group :
        /\ g = p.item /\ api[g].pc = "new" /\ api'[g].pc = "ready"
        /\ UNCHANGED execution_controls
  BY <1>1 DEF Born
<1>3. ~Begun(g) /\ ~CancelRequested(g)
  BY <1>2, ControlOfGroup DEF ApiSafe
<1>4. p.status = "queued" /\ ~p.interrupted
  BY <1>1, <1>2, <1>3 DEF Born
<1>5. \A s \in RowIds' : queue_items'[s].item = g => s = r
  BY <1>1, <1>2, RowFacts DEF RowSafe
<1> QED BY <1>2, <1>3, <1>4, <1>5 DEF RowSafe, Unfinished, Begun

LEMMA ApiSafeStep ==
  ASSUME Ending, NEW g \in Group
  PROVE  ApiSafe(g)'
<1> DEFINE a == api[g]
           n == api'[g]
<1>0. PICK rec, new : rec = a.mem /\ new = n.mem
  OBVIOUS
<1>1. /\ ApiSafe(g)
      /\ n = a \/ ApiCourse(g)
  BY ControlOfGroup
<1>2. /\ Steady /\ g \in Item
      /\ execution_controls[g] \in Control /\ ControlSound(execution_controls[g])
      /\ FileMove(g) /\ FenceMove(g)
  BY ControlOfGroup DEF Ending, Going, Moving
<1>3. \A w \in Worker : Owns(w, g) => Begun(g)
  BY DEF Ending, Going, Moving, Alone, Engaged
<1>4. n.pc = "new" => ~Begun(g)'
  <2> SUFFICES ASSUME n.pc = "new"
               PROVE  ~Begun(g)'
    OBVIOUS
  <2>1. a.pc = "new" /\ ~Begun(g)
    BY <1>1 DEF ApiCourse, ApiSafe
  <2>2. ASSUME NEW w \in Worker, TheGroup(w) = g, main[w].pc = "begin"
        PROVE  FALSE
    BY <2>1, <2>2, HeldRow DEF RowSafe, HoldPc
  <2> QED BY <2>1, <2>2, FenceTurns DEF Cancels
<1>5. n.pc # "new" => \E r \in RowIds' : queue_items'[r].item = g
  <2>1. CASE a.pc # "new"
    BY <1>1, <2>1, RowFacts DEF ApiSafe
  <2>2. CASE a.pc = "new"
    BY <1>1, <2>2 DEF ApiCourse
  <2> QED BY <2>1, <2>2
<1>6. n.pc \in {"new", "ready", "request"} => ~CancelRequested(g)'
  <2> SUFFICES ASSUME n.pc \in {"new", "ready", "request"}
               PROVE  ~CancelRequested(g)'
    OBVIOUS
  <2>1. a.pc \in {"new", "ready", "request"} /\ ~CancelRequested(g)
    BY <1>1 DEF ApiCourse, ApiSafe
  <2>2. CASE execution_controls'[g] = ControlAfterCancel(execution_controls[g]) /\ a.pc = "request" /\ n.pc # "request"
    <3>1. ControlAfterCancel(execution_controls[g]).state = "completed"
      BY <1>1, <2>2 DEF ApiCourse
    <3>2. execution_controls[g].state = "completed"
      BY <1>2, <3>1, ControlFacts DEF Control, ControlState, ControlAfterCancel
    <3> QED BY <1>2, <2>1, <2>2, <3>2 DEF CancelRequested, ControlAfterCancel, Control
  <2>3. CASE execution_controls'[g].cancel_requested = execution_controls[g].cancel_requested
    BY <2>1, <2>3 DEF CancelRequested
  <2>4. [execution_controls[g] EXCEPT !.state = "running"].cancel_requested
          = execution_controls[g].cancel_requested
    BY <1>2 DEF Control
  <2> QED BY <1>2, <2>2, <2>3, <2>4, ControlFacts DEF FenceMove
<1>7. n.pc = "request" => Begun(g)' \/ Kept(g, new)'
  <2> SUFFICES ASSUME n.pc = "request", ~Begun(g)
               PROVE  Kept(g, new)'
    BY <1>2 DEF Steady
  <2>1. CASE n = a
    BY <1>0, <1>1, <1>3, <2>1, KeptStays DEF ApiSafe
  <2>2. CASE n # a
    BY <1>0, <1>1, <2>2 DEF ApiCourse, Kept, Current
  <2> QED BY <2>1, <2>2
<1>8. ASSUME WillCancel(g)'
      PROVE  Kept(g, new)' /\ \A w \in Worker : ~Owns(w, g)'
  <2>1. CASE WillCancel(g) /\ n.mem = a.mem
    <3>1. Begun(g) /\ Kept(g, a.mem) /\ \A w \in Worker : ~Owns(w, g)
      BY <1>1, <2>1 DEF ApiSafe, WillCancel, Ending, Going, Moving, IInv, FollowInv, ApiFollows,
                        Ended, Begun
    <3>2. Kept(g, rec)'
      <4>1. group_json'[g] = group_json[g] \/ Stopped(g)'
        BY <1>2, <3>1 DEF FileMove
      <4> QED BY <1>0, <1>2, <3>1, <4>1 DEF Kept, Current, Steady
    <3> QED BY <1>0, <2>1, <3>1, <3>2, OwnsLater DEF Ending, Going
  <2>2. CASE ~(WillCancel(g) /\ n.mem = a.mem)
    <3>1. a.pc = "request" /\ n.pc = "child" /\ n.mem # Missing
      BY <1>1, <1>8, <2>2 DEF WillCancel, ApiCourse
    <3>2. (Begun(g) /\ ~Ended(g)) \/ Cancels(g)
      BY <3>1, RequestTakes
    <3>3. ~(Begun(g) /\ ~Ended(g))
      <4>1. execution_controls'[g].state = "cancelled"
           /\ execution_controls'[g] = ControlAfterCancel(execution_controls[g])
        BY <1>1, <3>1 DEF ApiCourse
      <4> QED BY <1>2, <4>1, ControlFacts DEF Begun, Ended
    <3>4. Cancels(g) /\ ~Begun(g)
      BY <3>2, <3>3 DEF Cancels
    <3>5. Kept(g, a.mem) /\ n.mem = a.mem /\ UNCHANGED <<group_json, main>>
      BY <1>1, <3>1, <3>4 DEF Cancels, ApiSafe
    <3>6. \A w \in Worker : ~Owns(w, g)'
      BY <1>3, <3>4, <3>5, OwnsLater DEF Ending, Going
    <3>7. Kept(g, new)'
      BY <1>0, <1>3, <3>4, <3>5, KeptStays
    <3> QED BY <3>6, <3>7
  <2> QED BY <2>1, <2>2
<1> QED BY <1>0, <1>4, <1>5, <1>6, <1>7, <1>8 DEF ApiSafe

LEMMA EndSafeStep ==
  ASSUME Ending, NEW g \in Group
  PROVE  EndSafe(g)'
<1>1. /\ ApiSafe(g) /\ EndSafe(g) /\ FileMove(g) /\ Steady /\ g \in Item
      /\ Ended(g) => CancelRequested(g)
  BY ControlOfGroup DEF Ending, Going, Moving
<1>2. GroupStatus(g)' # "QUEUED" => Begun(g)' \/ Recovered(g)'
  <2>1. \A w \in Worker : Owns(w, g) => Begun(g)
    BY DEF Ending, Going, Moving, Alone, Engaged
  <2> QED BY <1>1, <2>1 DEF FileMove, EndSafe, Steady, GroupStatus, Saved
<1> DEFINE Coming(r) ==
      queue_items[r].item = g /\ (queue_items[r].status = "claimed" \/ AwaitsAcknowledgement(r))
<1>3. ASSUME NEW r \in RowIds, Coming(r), ~(Ended(g) /\ api[g].pc = "request"),
             Ended(g) \/ queue_items'[r] = queue_items[r] \/ queue_items[r].status = "failed"
      PROVE  Stopped(g)' \/ \E s \in RowIds' : Coming(s)'
  <2>1. /\ RowSafe(r) /\ RowMove(r) /\ r \in RowIds' /\ queue_items'[r].item = g
    BY <1>3, RowFacts
  <2>2. CASE /\ queue_items'[r].status = queue_items[r].status
             /\ queue_items'[r].claimed_by = queue_items[r].claimed_by
             /\ queue_items'[r].interrupted = queue_items[r].interrupted
    BY <1>3, <2>1, <2>2 DEF AwaitsAcknowledgement
  <2>3. CASE /\ Stale(r) /\ queue_items'[r].status = "failed" /\ queue_items'[r].interrupted
             /\ queue_items'[r].claimed_by = queue_items[r].claimed_by
    BY <2>1, <2>3 DEF AwaitsAcknowledgement, Stale, RowSafe
  <2>4. CASE \E w \in Worker : OwnedClaim(r, w) /\ main[w].pc = "complete" /\ main[w].row = r
             /\ Ended(g)
    <3>1. Over(g)
      BY <1>3, <2>4, HeldRow DEF HoldPc, MainSafe, TheGroup
    <3> QED BY <1>1, <2>4, <3>1 DEF Over, Steady
  <2>5. CASE \E w \in Worker : main[w].pc = "acknowledge" /\ main[w].row = r
    BY <1>1, <1>3, <2>5, HeldRow DEF MainSafe, TheGroup, Steady
  <2>6. CASE queue_items'[r] = queue_items[r]
    BY <2>2, <2>6
  <2> QED BY <1>3, <2>1, <2>2, <2>3, <2>4, <2>5, <2>6
          DEF RowMove, AwaitsAcknowledgement, OwnedClaim, Unfinished
<1>4. CASE Ended(g)
  <2>1. api[g].pc # "request"
    BY <1>1, <1>4 DEF ApiSafe
  <2>2. Stopped(g) => Stopped(g)'
    BY <1>1 DEF Steady
  <2>3. WillCancel(g) => WillCancel(g)' \/ Stopped(g)'
    BY CancelLater
  <2>4. ASSUME NEW r \in RowIds, Coming(r)
        PROVE  Stopped(g)' \/ \E s \in RowIds' : Coming(s)'
    BY <1>3, <1>4, <2>1, <2>4
  <2> QED BY <1>1, <1>2, <1>4, <2>2, <2>3, <2>4 DEF EndSafe
<1>5. CASE ~Ended(g) /\ Ended(g)'
  <2>1. CASE Cancels(g)
    <3>1. WillCancel(g)'
      BY <2>1 DEF Cancels, WillCancel
    <3> QED BY <1>2, <3>1 DEF EndSafe
  <2>2. CASE \E w \in Worker : Owns(w, g) /\ main[w].pc = "finish" /\ main'[w].pc = "save"
    <3>1. PICK w \in Worker : Owns(w, g) /\ main[w].pc = "finish" /\ main'[w].pc = "save"
      BY <2>2
    <3>2. PICK r \in RowIds : r = main[w].row /\ queue_items[r].item = g /\ RowSafe(r) /\ MainSafe(w)
      BY <3>1, HeldRow DEF HoldPc, Owns
    <3>3. UNCHANGED queue_items
      BY <3>1 DEF Ending, Going, Course, OwnPc, EarlyPc, BetweenPc
    <3>4. Coming(r) \/ Stopped(g)
      BY <3>1, <3>2 DEF MainSafe, RowSafe, Owns, HoldPc, AwaitsAcknowledgement
    <3>5. Stopped(g)' \/ \E s \in RowIds' : Coming(s)'
      BY <1>1, <1>3, <1>5, <3>3, <3>4 DEF Steady
    <3> QED BY <1>2, <3>5 DEF EndSafe
  <2>3. CASE Recovered(g)
    <3>1. PICK r \in RowIds : queue_items[r].item = g /\ queue_items[r].interrupted /\ RowSafe(r)
      BY <2>3, RowFacts DEF Recovered
    <3>2. queue_items[r].status = "failed" /\ (Coming(r) \/ Stopped(g))
      BY <3>1 DEF RowSafe, AwaitsAcknowledgement
    <3>3. Stopped(g)' \/ \E s \in RowIds' : Coming(s)'
      BY <1>1, <1>3, <1>5, <3>2 DEF Steady
    <3> QED BY <1>2, <3>3 DEF EndSafe
  <2> QED BY <1>5, <2>1, <2>2, <2>3, FenceTurns
<1>6. CASE ~Ended(g)'
  BY <1>2, <1>6 DEF EndSafe
<1> QED BY <1>4, <1>5, <1>6

\* A main thread that waits while others go on.
LEMMA MainSafeStays ==
  ASSUME Ending, NEW w \in Worker, main'[w] = main[w]
  PROVE  MainSafe(w)'
<1>1. CASE main[w].pc \notin HoldPc \cup {"acknowledge"}
  BY <1>1 DEF MainSafe, HoldPc, OwnPc, EarlyPc, BetweenPc
<1>2. CASE main[w].pc \in HoldPc \cup {"acknowledge"}
  <2>0. PICK rec, status : rec = main[w].mem /\ status = main[w].mem.value.status
    OBVIOUS
  <2>1. PICK g \in Group, r \in RowIds :
          /\ g = TheGroup(w) /\ r = main[w].row /\ queue_items[r].item = g
          /\ rec = main[w].mem /\ status = main[w].mem.value.status
    BY <1>2, <2>0, HeldRow
  <2>2. /\ TheGroup(w)' = g /\ MainSafe(w) /\ RowSafe(r) /\ RowMove(r) /\ w # NoWorker
        /\ main'[w].row = r /\ main'[w].mem = rec /\ main'[w].pc = main[w].pc
        /\ \A p \in RowIds : queue_items[p].item = g => p = r
    BY <1>2, <2>1, HeldRow
  <2>3. /\ Steady /\ FileMove(g) /\ ApiSafe(g) /\ g \in Item
        /\ execution_controls[g] \in Control /\ ControlSound(execution_controls[g])
        /\ Begun(g) => Begun(g)'
        /\ Ended(g) => Ended(g)'
        /\ Stopped(g) => Stopped(g)'
        /\ CancelRequested(g) => CancelRequested(g)'
    BY ControlOfGroup DEF Ending, Going, Moving, Steady
  <2>4. CASE main[w].pc = "acknowledge"
    BY <1>2, <2>1, <2>2, <2>3, <2>4, RowFacts DEF MainSafe, HoldPc, OwnPc, EarlyPc, BetweenPc
  <2>5. CASE main[w].pc \in HoldPc
    <3> DEFINE q == queue_items[r]
               p == queue_items'[r]
    <3>1. /\ q.claimed_by = w \/ (q.interrupted /\ q.claimed_by = NoWorker)
          /\ \/ q.status = "claimed" \/ q.interrupted
             \/ q.status = "cancelled" /\ main[w].pc \notin OwnPc /\ Ended(g)
          /\ q.interrupted => q.status = "failed"
      BY <2>1, <2>2, <2>5 DEF MainSafe, RowSafe
    <3>2. ASSUME NEW x \in Worker, OwnedClaim(r, x), main[x].pc = "complete", main'[x].pc = "idle"
          PROVE  FALSE
      BY <2>2, <3>1, <3>2 DEF OwnedClaim
    <3>3. \/ p.status = q.status /\ p.claimed_by = q.claimed_by /\ p.interrupted = q.interrupted
          \/ Stale(r) /\ p.status = "failed" /\ p.claimed_by = q.claimed_by /\ p.interrupted
          \/ AwaitsAcknowledgement(r) /\ p.status = q.status /\ p.claimed_by = NoWorker /\ p.interrupted
          \/ /\ Unfinished(r) /\ p.status = "cancelled" /\ p.claimed_by = q.claimed_by
             /\ p.interrupted = q.interrupted /\ Cancels(g)
      BY <2>1, <2>2, <3>1, <3>2, RowCancelled DEF RowMove, AwaitsAcknowledgement
    <3>4. Owns(w, g) => Begun(g)
      BY DEF Ending, Going, Moving, Alone, Engaged
    <3>5. /\ p.claimed_by = w \/ (p.interrupted /\ p.claimed_by = NoWorker)
          /\ \/ p.status = "claimed" \/ p.interrupted
             \/ p.status = "cancelled" /\ main[w].pc \notin OwnPc /\ Ended(g)'
      BY <2>1, <2>3, <3>1, <3>3, <3>4 DEF Stale, Unfinished, Cancels, Owns
    <3>6. OwnedClaim(r, w)' => OwnedClaim(r, w)
      BY <3>3 DEF OwnedClaim, AwaitsAcknowledgement
    <3>7. main[w].pc \in {"load", "begin"} /\ OwnedClaim(r, w)' => ~Begun(g)'
      <4> SUFFICES ASSUME main[w].pc \in {"load", "begin"}, OwnedClaim(r, w)', Begun(g)'
                   PROVE  FALSE
        OBVIOUS
      <4>1. OwnedClaim(r, w) /\ ~Begun(g)
        BY <2>1, <2>2, <3>6 DEF MainSafe
      <4>2. CASE Cancels(g)
        BY <2>1, <4>2 DEF Cancels, Unfinished, OwnedClaim
      <4>3. ASSUME NEW x \in Worker, TheGroup(x) = g, main[x].pc = "begin", main'[x].pc = "start"
            PROVE  FALSE
        <5>1. main[x].row = r /\ MainSafe(x) /\ main[x].pc \in HoldPc
          BY <2>2, <4>3, HeldRow DEF HoldPc
        <5>2. q.claimed_by = x
          BY <2>2, <3>1, <4>1, <5>1 DEF MainSafe, OwnedClaim
        <5> QED BY <2>2, <4>1, <4>3, <5>2 DEF OwnedClaim
      <4> QED BY <4>1, <4>2, <4>3, FenceTurns
    <3>8. main[w].pc \in OwnPc => Kept(g, rec)'
      <4> SUFFICES ASSUME main[w].pc \in OwnPc
                   PROVE  Kept(g, rec)'
        OBVIOUS
      <4>1. Kept(g, rec) /\ Owns(w, g)
        BY <2>1, <2>2 DEF MainSafe, Owns
      <4>2. \A x \in Worker : Owns(x, g) => x = w
        BY <4>1 DEF Ending, Going, Moving, Alone, Engaged
      <4>3. \/ group_json'[g] = group_json[g] \/ Stopped(g)'
            \/ rec = group_json'[g]
        BY <2>2, <2>3, <4>2 DEF FileMove
      <4> QED BY <2>3, <4>1, <4>3 DEF Kept, Current
    <3>9. main[w].pc = "begin" => Begun(g)' \/ Kept(g, rec)'
      <4>1. main[w].pc = "begin" => Begun(g) \/ Kept(g, rec)
        BY <2>1, <2>2 DEF MainSafe
      <4>2. ~Begun(g) => \A x \in Worker : ~Owns(x, g)
        BY DEF Ending, Going, Moving, Alone, Engaged
      <4> QED BY <2>3, <4>1, <4>2, KeptStays
    <3>10. main[w].pc = "finish" => status \in {"FAILED", "SUCCEEDED"} \/ CancelRequested(g)'
      BY <2>1, <2>2, <2>3 DEF MainSafe
    <3>11. main[w].pc = "save" =>
             /\ execution_controls'[g].state \in {"completed", "cancelled"}
             /\ status \in {"FAILED", "SUCCEEDED", "CANCELLED"}
             /\ Ended(g)' => status = "CANCELLED"
      BY <2>1, <2>2, FenceTurns DEF MainSafe, Ended
    <3>12. main[w].pc = "complete" /\ OwnedClaim(r, w)' => Over(g)'
      <4> SUFFICES ASSUME main[w].pc = "complete", OwnedClaim(r, w)'
                   PROVE  Over(g)'
        OBVIOUS
      <4>1. Over(g) /\ OwnedClaim(r, w)
        BY <2>1, <2>2, <3>6 DEF MainSafe
      <4>2. ASSUME NEW x \in Worker, Owns(x, g)
            PROVE  FALSE
        <5>1. q.claimed_by = x
          BY <2>1, <3>1, <4>1, <4>2, NobodyOwns DEF OwnedClaim
        <5> QED BY <4>1, <4>2, <5>1 DEF OwnedClaim, Owns, OwnPc, EarlyPc, BetweenPc
      <4> QED BY <4>1, <4>2, OverStays
    <3> HIDE DEF q, p
    <3>13. main'[w].mem.value.status = status
      BY <2>1, <2>2
    <3> QED BY <2>2, <2>5, <3>5, <3>7, <3>8, <3>9, <3>10, <3>11, <3>12, <3>13
            DEF MainSafe, p, HoldPc, OwnPc, EarlyPc, BetweenPc
  <2> QED BY <1>2, <2>4, <2>5
<1> QED BY <1>1, <1>2

\* A main thread that goes on, outside _process_group and into it.
LEMMA MainSafeEnters ==
  ASSUME Ending, NEW w \in Worker, Course(w), main[w].pc \notin OwnPc
  PROVE  MainSafe(w)'
<1> USE DEF HoldPc, OwnPc, EarlyPc, BetweenPc
<1>1. CASE main'[w].pc \notin HoldPc \cup {"acknowledge"}
  BY <1>1 DEF MainSafe
<1>2. CASE main[w].pc = "recover" /\ main'[w].pc = "load"
  <2>1. /\ main'[w].row \in RowIds
        /\ queue_items[main'[w].row].status = "queued"
        /\ queue_items'[main'[w].row].status = "claimed"
        /\ queue_items'[main'[w].row].claimed_by = w
        /\ UNCHANGED execution_controls
    BY <1>2 DEF Course
  <2>2. PICK r \in RowIds, g \in Group : r = main'[w].row /\ g = queue_items[r].item
    BY <2>1, RowFacts
  <2>3. queue_items'[r].item = g /\ ~Begun(g)
    BY <2>1, <2>2, RowFacts DEF RowSafe
  <2>4. TheGroup(w)' = g /\ ~Begun(g)'
    BY <2>1, <2>2, <2>3 DEF TheGroup, Begun
  <2> QED BY <1>2, <2>1, <2>4 DEF MainSafe
<1>3. CASE main[w].pc = "recoverChild" /\ main'[w].pc = "acknowledge"
  <2>1. main'[w].row = main[w].row /\ main[w].pc \notin RestPc
    BY <1>3 DEF Course, RestPc
  <2>2. /\ TheGroup(w) \in Group /\ main[w].row \in RowIds /\ TheGroup(w)' = TheGroup(w)
        /\ Stopped(TheGroup(w)) /\ queue_items[main[w].row].interrupted
    BY <1>3, <2>1, GroupInHand DEF Ending, Going, Moving, Shape, MainShape
  <2>3. queue_items'[main[w].row].interrupted
    BY <2>2, RowFacts
  <2>4. PICK g \in Group : g = TheGroup(w)
    BY <2>2
  <2>5. Stopped(g)'
    BY <2>2, <2>4 DEF Ending, Going, Moving, Steady
  <2> QED BY <1>3, <2>1, <2>2, <2>3, <2>4, <2>5 DEF MainSafe
<1>4. CASE /\ main[w].pc \in {"load", "begin"} /\ main'[w].row = main[w].row
           /\ main'[w].pc \in HoldPc \cup {"acknowledge"}
  <2>0. PICK rec : rec = main'[w].mem
    OBVIOUS
  <2>1. PICK g \in Group, r \in RowIds :
          /\ g = TheGroup(w) /\ r = main[w].row /\ queue_items[r].item = g /\ rec = main'[w].mem
    BY <1>4, <2>0, HeldRow
  <2>2. /\ TheGroup(w)' = g /\ MainSafe(w) /\ RowSafe(r) /\ main'[w].row = r
        /\ UNCHANGED <<queue_items, group_json>>
    <3>1. UNCHANGED <<queue_items, group_json>>
      BY <1>4 DEF Course
    <3> QED BY <1>4, <2>1, <3>1, HeldRow
  <2>3. /\ queue_items[r].claimed_by = w \/ (queue_items[r].interrupted /\ queue_items[r].claimed_by = NoWorker)
        /\ \/ queue_items[r].status = "claimed" \/ queue_items[r].interrupted
           \/ queue_items[r].status = "cancelled" /\ Ended(g)
        /\ OwnedClaim(r, w) => ~Begun(g)
        /\ main[w].pc = "begin" => Begun(g) \/ Kept(g, main[w].mem)
    BY <1>4, <2>1, <2>2 DEF MainSafe
  <2>4. CASE main[w].pc = "load" /\ main'[w].pc = "begin"
    <3>1. rec = group_json[g] /\ execution_controls'[g] = execution_controls[g]
      BY <2>1, <2>4 DEF Course
    <3>2. Kept(g, rec)' /\ (Begun(g)' <=> Begun(g)) /\ (Ended(g)' <=> Ended(g))
      BY <2>2, <3>1 DEF Kept, Current, Begun, Ended
    <3> QED BY <2>1, <2>2, <2>3, <2>4, <3>2 DEF MainSafe, OwnedClaim
  <2>5. CASE main[w].pc = "load" /\ main'[w].pc = "complete"
    <3>1. GroupStatus(g) # "QUEUED" /\ execution_controls'[g] = execution_controls[g]
      BY <2>1, <2>5 DEF Course
    <3>2. Begun(g) \/ Recovered(g)
      BY <3>1, ControlOfGroup DEF EndSafe
    <3>3. Recovered(g) => queue_items[r].interrupted
      BY <2>1, <2>2 DEF Recovered, RowSafe
    <3>4. ~OwnedClaim(r, w)
      BY <2>2, <2>3, <3>2, <3>3 DEF RowSafe, OwnedClaim
    <3>5. Ended(g)' <=> Ended(g)
      BY <3>1 DEF Ended
    <3> QED BY <2>2, <2>3, <2>5, <3>4, <3>5 DEF MainSafe, OwnedClaim
  <2>6. CASE main[w].pc = "begin" /\ main'[w].pc = "start"
    <3>1. rec = main[w].mem /\ ~Begun(g) /\ ~Ended(g)
      BY <2>1, <2>6 DEF Course, Begun, Ended
    <3>2. Kept(g, rec)'
      BY <2>2, <2>3, <2>6, <3>1 DEF Kept, Current, Stopped, GroupStatus, Saved
    <3> QED BY <2>1, <2>2, <2>3, <2>6, <3>1, <3>2 DEF MainSafe
  <2>7. CASE main[w].pc = "begin" /\ main'[w].pc = "complete"
    <3>1. Begun(g) /\ execution_controls'[g] = execution_controls[g]
      BY <2>1, <2>7 DEF Course, Begun
    <3>2. ~OwnedClaim(r, w) /\ (Ended(g)' <=> Ended(g))
      BY <2>3, <3>1 DEF Ended
    <3> QED BY <2>2, <2>3, <2>7, <3>2 DEF MainSafe, OwnedClaim
  <2> QED BY <1>1, <1>4, <2>4, <2>5, <2>6, <2>7 DEF Course
<1> QED BY <1>1, <1>2, <1>3, <1>4 DEF Course

\* ... and inside it.
LEMMA MainSafeWorks ==
  ASSUME Ending, NEW w \in Worker, Course(w), main[w].pc \in OwnPc
  PROVE  MainSafe(w)'
<1> USE DEF HoldPc, OwnPc, EarlyPc, BetweenPc
<1>1. CASE main'[w].pc \notin HoldPc \cup {"acknowledge"}
  BY <1>1 DEF MainSafe
<1>2. CASE main'[w].pc \in HoldPc \cup {"acknowledge"}
  <2>0. PICK rec, new, status :
          rec = main[w].mem /\ new = main'[w].mem /\ status = main'[w].mem.value.status
    OBVIOUS
  <2>1. PICK g \in Group, r \in RowIds :
          /\ g = TheGroup(w) /\ r = main[w].row /\ queue_items[r].item = g
          /\ rec = main[w].mem /\ new = main'[w].mem /\ status = main'[w].mem.value.status
    BY <2>0, HeldRow
  <2>2. /\ MainSafe(w) /\ RowSafe(r) /\ Owns(w, g) /\ Begun(g)
        /\ main'[w].row = r /\ UNCHANGED queue_items
    BY <1>2, <2>1, HeldRow DEF Course, Owns, Ending, Going, Moving, Alone, Engaged
  <2>3. TheGroup(w)' = g
    BY <2>1, <2>2, HeldRow
  <2>4. /\ queue_items[r].claimed_by = w \/ (queue_items[r].interrupted /\ queue_items[r].claimed_by = NoWorker)
        /\ queue_items[r].status = "claimed" \/ queue_items[r].interrupted
        /\ Kept(g, rec)
    BY <2>1, <2>2 DEF MainSafe
  <2>5. /\ Stopped(g) => Stopped(g)'
        /\ CancelRequested(g) => CancelRequested(g)'
        /\ execution_controls[g] \in Control /\ ControlSound(execution_controls[g])
    BY ControlOfGroup DEF Ending, Going, Moving, Steady
  <2>6. CASE main[w].pc \notin {"finish", "save"} /\ main'[w].pc # "save"
    <3>1. /\ \/ UNCHANGED group_json /\ new.version = rec.version
             \/ new = group_json'[g]
          /\ main'[w].pc = "finish" => status \in {"FAILED", "SUCCEEDED"} \/ CancelRequested(g)
          /\ main'[w].pc \in OwnPc
      BY <1>2, <2>1, <2>6 DEF Course
    <3>2. Kept(g, new)'
      BY <2>4, <2>5, <3>1 DEF Kept, Current
    <3> QED BY <2>1, <2>2, <2>3, <2>4, <2>5, <2>6, <3>1, <3>2 DEF MainSafe
  <2>7. CASE main[w].pc = "finish" /\ main'[w].pc = "save"
    <3>1. /\ UNCHANGED group_json /\ new.version = rec.version
          /\ execution_controls'[g] = ControlAfterFinish(execution_controls[g])
          /\ status = IF Ended(g)' THEN "CANCELLED" ELSE rec.value.status
      BY <2>1, <2>7 DEF Course, Ended
    <3>2. Kept(g, new)'
      BY <2>4, <2>5, <3>1 DEF Kept, Current
    <3>3. /\ rec.value.status \in {"FAILED", "SUCCEEDED"} \/ CancelRequested(g)
      BY <2>1, <2>2, <2>7 DEF MainSafe
    <3>4. /\ execution_controls'[g].state \in {"completed", "cancelled"}
          /\ CancelRequested(g) => Ended(g)'
      BY <2>2, <2>5, <3>1 DEF Begun, ControlAfterFinish, Control, Ended, CancelRequested
    <3>5. status \in {"FAILED", "SUCCEEDED", "CANCELLED"}
      BY <3>1, <3>3, <3>4
    <3> QED BY <2>1, <2>2, <2>3, <2>4, <2>7, <3>1, <3>2, <3>4, <3>5 DEF MainSafe
  <2>8. CASE main[w].pc = "save" /\ main'[w].pc = "complete"
    <3>1. /\ execution_controls'[g] = execution_controls[g]
          /\ Current(g, rec) => group_json'[g].value.status = rec.value.status
          /\ ~Current(g, rec) => UNCHANGED group_json
      BY <2>1, <2>8 DEF Course
    <3>2. /\ execution_controls[g].state \in {"completed", "cancelled"}
          /\ rec.value.status \in {"FAILED", "SUCCEEDED", "CANCELLED"}
          /\ Ended(g) => rec.value.status = "CANCELLED"
      BY <2>1, <2>2, <2>8 DEF MainSafe
    <3>3. CASE Current(g, rec)
      <4>1. GroupStatus(g)' = rec.value.status /\ (Ended(g)' <=> Ended(g))
        BY <3>1, <3>3 DEF GroupStatus, Saved, Ended
      <4>2. Over(g)'
        BY <3>1, <3>2, <4>1 DEF Over, Terminal, Stopped
      <4> QED BY <2>2, <2>3, <2>4, <2>8, <4>2 DEF MainSafe
    <3>4. CASE ~Current(g, rec)
      <4>1. Stopped(g)'
        BY <2>4, <2>5, <3>4 DEF Kept
      <4>2. Over(g)'
        BY <3>1, <3>2, <4>1 DEF Over, Terminal, Stopped
      <4> QED BY <2>2, <2>3, <2>4, <2>8, <4>2 DEF MainSafe
    <3> QED BY <3>3, <3>4
  <2> QED BY <1>2, <2>6, <2>7, <2>8 DEF Course
<1> QED BY <1>1, <1>2

LEMMA EndInvStep ==
  ASSUME Ending
  PROVE  EndInv'
<1>1. \A r \in RowIds' : RowSafe(r)'
  BY RowSafeStep, BornSafe
<1>2. \A w \in Worker : MainSafe(w)'
  BY MainSafeStays, MainSafeEnters, MainSafeWorks DEF Ending, Going
<1>3. \A g \in Group : ApiSafe(g)' /\ EndSafe(g)'
  BY ApiSafeStep, EndSafeStep
<1> QED BY <1>1, <1>2, <1>3 DEF EndInv

LEMMA EndInvInit ==
  ASSUME Init
  PROVE  EndInv
<1>1. RowIds = {}
  BY DEF Init, InitQ, RowIds
<1>2. \A w \in Worker : MainSafe(w)
  BY DEF Init, Idle, MainSafe, HoldPc, OwnPc, EarlyPc, BetweenPc
<1>3. ASSUME NEW g \in Group
      PROVE  ApiSafe(g) /\ EndSafe(g)
  <2>1. /\ api[g].pc = "new" /\ GroupStatus(g) = "QUEUED" /\ g \in Item
    BY ChildFacts DEF Init, GroupStatus, Saved
  <2>2. ~Begun(g) /\ ~Ended(g) /\ ~CancelRequested(g)
    BY <2>1 DEF Init, InitQ, Begun, Ended, CancelRequested
  <2> QED BY <2>1, <2>2 DEF ApiSafe, EndSafe, WillCancel
<1> QED BY <1>1, <1>2, <1>3 DEF EndInv

\* A settled group: its row is there, and closed by its end or by its interruption.
LEMMA SettledAgrees ==
  ASSUME IInv, EndInv, NEW g \in Group, Settled(g)
  PROVE  StatusAgrees(g)
<1>1. PICK r \in RowIds : queue_items[r].item = g
  BY DEF EndInv, ApiSafe, Settled
<1>2. /\ RowSafe(r) /\ ~Unfinished(r) /\ ~AwaitsAcknowledgement(r)
  BY <1>1 DEF EndInv, Settled
<1>3. GroupStatus(g) = "CANCELLED" => Ended(g)
  BY DEF IInv, FollowInv
<1>4. GroupStatus(g) \in Terminal /\ (Ended(g) => Stopped(g))
  <2>1. CASE queue_items[r].interrupted
    <3>1. Stopped(g)
      BY <1>1, <1>2, <2>1 DEF RowSafe, AwaitsAcknowledgement
    <3> QED BY <3>1 DEF Stopped, Terminal
  <2>2. CASE ~queue_items[r].interrupted
    <3>1. ~WillCancel(g)
      BY DEF WillCancel, Settled
    <3> QED BY <1>1, <1>2, <2>2, <3>1 DEF RowSafe, Over
  <2> QED BY <2>1, <2>2
<1> QED BY <1>3, <1>4 DEF StatusAgrees, Stopped, Ended

-------------------------------------------------------------------------------
(* The fences while nobody has died.                                        *)

LEMMA DeadStays ==
  ASSUME Ending, NEW w \in Worker
  PROVE  /\ Dead(w) => Dead(w)' /\ main'[w] = main[w]
         /\ "crash" \notin Disturbances /\ ~Dead(w) => ~Dead(w)'
<1>1. main'[w] = main[w] \/ Course(w)
  BY DEF Ending, Going
<1>2. Course(w) => ~Dead(w)
  BY DEF Course, Dead, At
<1>3. ASSUME Course(w), main'[w].pc = "dead"
      PROVE  "crash" \in Disturbances
  BY <1>3 DEF Course, OwnPc, EarlyPc, BetweenPc
<1> QED BY <1>1, <1>2, <1>3 DEF Dead, At

\* The fence of a group that is closed after a step.
LEMMA GroupFence ==
  ASSUME Ending, NEW g \in Group, Executing(g)', ~Executing(g)
  PROVE  \E w \in Worker : Owns(w, g)' /\ main'[w].pc = "start"
<1>1. /\ execution_controls[g] \in Control /\ ControlSound(execution_controls[g])
      /\ FenceMove(g)
  BY ControlOfGroup
<1>2. /\ ControlAfterFinish(execution_controls[g]).state # "running"
      /\ ControlAfterCancel(execution_controls[g]).state # "running"
  BY <1>1 DEF Executing, Control, ControlAfterFinish, ControlAfterCancel
<1>3. PICK w \in Worker : TheGroup(w) = g /\ main[w].pc = "begin" /\ main'[w].pc = "start"
  BY <1>1, <1>2 DEF FenceMove, Executing
<1>4. main'[w].row = main[w].row
  BY <1>3 DEF Ending, Going, Course, OwnPc, EarlyPc, BetweenPc
<1>5. TheGroup(w)' = g
  BY <1>3, <1>4, HeldRow DEF HoldPc
<1> QED BY <1>3, <1>5 DEF Owns, OwnPc, EarlyPc

\* Its owner keeps it until finish_execution, or dies.
LEMMA OwnerStays ==
  ASSUME Ending, NEW g \in Group, NEW w \in Worker, Owns(w, g), main[w].pc # "save"
  PROVE  \/ Owns(w, g)' /\ main'[w].pc # "save"
         \/ ~Executing(g)'
         \/ Dead(w)'
<1> USE DEF OwnPc, EarlyPc, BetweenPc
<1>1. main[w].pc \in OwnPc /\ TheGroup(w) = g
  BY DEF Owns
<1>2. main'[w].row = main[w].row => TheGroup(w)' = g
  BY <1>1, HeldRow DEF HoldPc
<1>3. CASE main'[w] = main[w]
  BY <1>1, <1>2, <1>3 DEF Owns
<1>4. CASE Course(w)
  <2>1. CASE main'[w].pc = "dead"
    BY <2>1 DEF Dead, At
  <2>2. CASE main'[w].row = main[w].row /\ main'[w].pc \in OwnPc /\ main'[w].pc # "save"
    BY <1>2, <2>2 DEF Owns
  <2>3. CASE main[w].pc = "finish" /\ execution_controls'[g] = ControlAfterFinish(execution_controls[g])
    <3>1. execution_controls[g] \in Control
      BY ControlOfGroup
    <3> QED BY <2>3, <3>1 DEF Executing, ControlAfterFinish, Control
  <2> QED BY <1>1, <1>4, <2>1, <2>2, <2>3 DEF Course
<1> QED BY <1>3, <1>4 DEF Ending, Going

\* The fence of a child that is closed has its thread.
LEMMA ChildFence ==
  ASSUME Ending, NEW c \in Child, Executing(c)'
  PROVE  \/ ~Executing(c) /\ \E w \in Worker : run'[w][c].pc = "acquire"
         \/ /\ Executing(c)
            /\ \A w \in Worker : run[w][c].pc \in InHandPc =>
                 run'[w][c].pc \in InHandPc \/ Dead(w)'
<1> DEFINE Goal ==
      \/ ~Executing(c) /\ \E w \in Worker : run'[w][c].pc = "acquire"
      \/ /\ Executing(c)
         /\ \A w \in Worker : run[w][c].pc \in InHandPc =>
              run'[w][c].pc \in InHandPc \/ Dead(w)'
<1> USE DEF InHandPc
<1>1. /\ execution_controls[c] \in Control /\ ControlSound(execution_controls[c])
      /\ Fate(c) /\ \A w \in Worker : Ahead(w, c) => Unsubmitted(w, c)
  BY ControlOf DEF Ending, Going, Moving, Alone
<1>2. /\ ControlAfterFinish(execution_controls[c]).state # "running"
      /\ ControlAfterCancel(execution_controls[c]).state = "running" => Executing(c)
  BY <1>1 DEF Executing, Control, ControlAfterFinish, ControlAfterCancel
<1>3. CASE Resting(c)
  BY <1>3 DEF Resting, Executing, Dead, At
<1>4. CASE Rewritten(c)
  BY <1>4 DEF Rewritten, Executing
<1>5. CASE Requested(c)
  BY <1>2, <1>5 DEF Requested, Executing
<1>6. CASE GivenUp(c)
  BY <1>2, <1>6 DEF GivenUp, Executing
<1>7. ASSUME NEW w \in Worker, Entered(w, c)
      PROVE  Goal
  <2>1. run[w][c].pc = "none"
    BY <1>1, <1>7 DEF Entered, Unsubmitted
  <2> QED BY <1>7, <2>1 DEF Entered, Executing
<1>8. ASSUME NEW w \in Worker, WorkedOn(w, c)
      PROVE  Goal
  <2>1. \/ /\ run'[w][c].pc = "acquire" /\ execution_controls[c].state = "absent"
        \/ /\ execution_controls'[c] = execution_controls[c]
           /\ run[w][c].pc \in InHandPc => run'[w][c].pc \in InHandPc
    BY <1>2, <1>8 DEF WorkedOn, ThreadTurn, Executing
  <2> QED BY <1>8, <2>1 DEF WorkedOn, Executing
<1> QED BY <1>1, <1>3, <1>4, <1>5, <1>6, <1>7, <1>8 DEF Fate

LEMMA FenceHeldStep ==
  ASSUME Ending, FenceHeld
  PROVE  FenceHeld'
<1> SUFFICES ASSUME NobodyDead'
             PROVE  /\ \A g \in Group :
                         Executing(g)' => \E w \in Worker : Owns(w, g)' /\ main'[w].pc # "save"
                    /\ \A c \in Child :
                         Executing(c)' => \E w \in Worker : run'[w][c].pc \in InHandPc
  BY DEF FenceHeld
<1>1. NobodyDead
  BY DeadStays DEF NobodyDead
<1>2. ASSUME NEW g \in Group, Executing(g)'
      PROVE  \E w \in Worker : Owns(w, g)' /\ main'[w].pc # "save"
  <2>1. CASE ~Executing(g)
    BY <1>2, <2>1, GroupFence
  <2>2. CASE Executing(g)
    <3>1. PICK w \in Worker : Owns(w, g) /\ main[w].pc # "save"
      BY <1>1, <2>2 DEF FenceHeld
    <3> QED BY <1>2, <3>1, OwnerStays DEF NobodyDead
  <2> QED BY <2>1, <2>2
<1>3. ASSUME NEW c \in Child, Executing(c)'
      PROVE  \E w \in Worker : run'[w][c].pc \in InHandPc
  <2>1. CASE ~Executing(c)
    BY <1>3, <2>1, ChildFence DEF InHandPc
  <2>2. CASE Executing(c)
    <3>1. PICK w \in Worker : run[w][c].pc \in InHandPc
      BY <1>1, <2>2 DEF FenceHeld
    <3> QED BY <1>3, <2>2, <3>1, ChildFence DEF NobodyDead
  <2> QED BY <2>1, <2>2
<1> QED BY <1>2, <1>3

\* Nobody has a settled group in hand.
LEMMA SettledIsFree ==
  ASSUME IInv, NEW g \in Group, Settled(g), NEW w \in Worker
  PROVE  /\ ~Owns(w, g)
         /\ \A c \in Family(g) : run[w][c].pc = "none"
<1>1. main[w].pc \in OwnPc => main[w].row \in RowIds /\ 0 \notin RowIds
  BY MainFields DEF IInv, OwnPc, EarlyPc, BetweenPc, RestPc, RowIds
<1> QED BY <1>1, FamilyFacts DEF Settled, Owns

\* While nobody has died, whoever settles a group leaves nothing behind.
LEMMA HeldMeansFree ==
  ASSUME IInv, EndInv, FenceHeld, NobodyDead
  PROVE  NobodyLeftBehind
<1> SUFFICES ASSUME NEW g \in Group, Settled(g)
             PROVE  /\ StatusAgrees(g) /\ ~Executing(g)
                    /\ \A c \in Family(g) : ~LeftRunning(c)
  BY DEF NobodyLeftBehind, Family
<1>1. StatusAgrees(g)
  BY SettledAgrees
<1>2. ~Executing(g)
  BY SettledIsFree DEF FenceHeld
<1>3. \A c \in Family(g) : ~LeftRunning(c)
  BY SettledIsFree, FamilyFacts DEF FenceHeld, LeftRunning, InHandPc
<1> QED BY <1>1, <1>2, <1>3

LEMMA FenceHeldInit ==
  ASSUME Init
  PROVE  FenceHeld
<1>1. Child \subseteq Item /\ Group \subseteq Item
  BY GroupExecutionAssumption
<1> QED BY <1>1 DEF Init, InitQ, FenceHeld, Executing

-------------------------------------------------------------------------------
(* The fences when processes die, and live ones do not stall.               *)

Lasting == LInv /\ Going

LEMMA LastingFacts ==
  ASSUME Lasting
  PROVE  /\ Ending /\ Moving /\ SInv /\ Steady /\ FenceHeld /\ QuietInv /\ MindedInv
         /\ \A c \in Child : ChildSafe(c)
BY DEF Lasting, LInv, Ending, Going, Moving

\* The thread that begins c was submitted by the worker that executes the group.
LEMMA BeginsWithGroup ==
  ASSUME Lasting, NEW c \in Child, HasRun(c)', ~HasRun(c)
  PROVE  \E w \in Worker :
           run[w][c].pc = "begin" /\ run'[w][c].pc = "acquire" /\ WorkedOn(w, c)
<1>1. /\ execution_controls[c] \in Control /\ ControlSound(execution_controls[c]) /\ Fate(c)
  BY LastingFacts, ControlOf DEF Moving
<1>2. /\ ControlAfterFinish(execution_controls[c]).state \notin {"running", "completed"}
      /\ ControlAfterCancel(execution_controls[c]).state \notin {"running", "completed"}
  BY <1>1 DEF HasRun, Control, ControlState, ControlSound, ControlAfterFinish, ControlAfterCancel
<1>3. CASE execution_controls'[c] = execution_controls[c]
  BY <1>3 DEF HasRun
<1>4. ASSUME NEW w \in Worker, WorkedOn(w, c)
      PROVE  execution_controls'[c] = execution_controls[c]
             \/ (run[w][c].pc = "begin" /\ run'[w][c].pc = "acquire")
  BY <1>2, <1>4 DEF WorkedOn, ThreadTurn, HasRun
<1> QED BY <1>1, <1>2, <1>3, <1>4
        DEF Fate, Resting, Rewritten, Requested, GivenUp, Entered, HasRun

LEMMA ChildSafeStep ==
  ASSUME Lasting, NEW c \in Child
  PROVE  ChildSafe(c)'
<1>1. /\ ChildSafe(c) /\ Fate(c) /\ Moving /\ c \in Item /\ GroupOf(c) \in Group
      /\ GroupOf(c) \in Item /\ Steady
  BY LastingFacts, ParentFacts, ChildFacts DEF Moving
<1>2. ASSUME HasRun(c)'
      PROVE  Begun(GroupOf(c))' /\ \A w \in Worker : ~Ahead(w, c)'
  <2>1. Begun(GroupOf(c)) /\ \A w \in Worker : ~Ahead(w, c)
    <3>1. CASE HasRun(c)
      BY <1>1, <3>1 DEF ChildSafe
    <3>2. CASE ~HasRun(c)
      BY <1>1, <1>2, <3>2, BeginsWithGroup, OnlyThere
    <3> QED BY <3>1, <3>2
  <2> QED BY <1>1, <2>1, NeverAheadAgain DEF Steady
<1>3. Ended(c) => Ended(c)'
  BY <1>1 DEF Steady
<1>4. ASSUME NEW w \in Worker, WorkedOn(w, c)
      PROVE  /\ job_json'[c] = "CANCELLED" => Ended(c)'
             /\ \A x \in Worker : /\ run'[x][c].mem # "INTERRUPTED"
                                  /\ run'[x][c].mem = "CANCELLED" => Ended(c)'
  <2>1. /\ run[w][c].mem # "INTERRUPTED"
        /\ run[w][c].mem = "CANCELLED" => Ended(c)
        /\ job_json[c] = "CANCELLED" => Ended(c)
    BY <1>1 DEF ChildSafe
  <2>2. /\ job_json'[c] = "CANCELLED" => Ended(c)'
        /\ run'[w][c].mem # "INTERRUPTED"
        /\ run'[w][c].mem = "CANCELLED" => Ended(c)'
    BY <1>3, <1>4, <2>1 DEF WorkedOn, ThreadTurn, Ended
  <2> QED BY <1>1, <1>3, <1>4, <2>2 DEF WorkedOn, ChildSafe
<1>5. /\ job_json'[c] = "CANCELLED" => Ended(c)'
      /\ \A x \in Worker : /\ run'[x][c].mem # "INTERRUPTED"
                           /\ run'[x][c].mem = "CANCELLED" => Ended(c)'
  BY <1>1, <1>3, <1>4
  DEF ChildSafe, Fate, Resting, Rewritten, Written, Requested, GivenUp, Entered, NotRunning
<1> QED BY <1>2, <1>5 DEF ChildSafe

\* What is recovered does not begin again.
LEMMA RecoveredFence ==
  ASSUME Lasting, NoStall, NEW r \in RowIds, queue_items[r].interrupted,
         NEW g \in Group, g = queue_items[r].item, ~Executing(g)
  PROVE  ~Executing(g)'
<1>1. FenceMove(g) /\ execution_controls[g] \in Control
  BY LastingFacts, ControlOfGroup
<1>2. ASSUME NEW w \in Worker, TheGroup(w) = g, main[w].pc = "begin"
      PROVE  FALSE
  <2>1. main[w].row = r
    BY <1>2, LastingFacts, HeldRow DEF HoldPc
  <2> QED BY <1>2, <2>1, LastingFacts DEF QuietInv, QuietMain, HoldPc
<1>3. /\ ControlAfterFinish(execution_controls[g]).state # "running"
      /\ ControlAfterCancel(execution_controls[g]).state # "running"
  BY <1>1 DEF Executing, Control, ControlAfterFinish, ControlAfterCancel
<1> QED BY <1>1, <1>2, <1>3 DEF FenceMove, Executing

LEMMA QuietRowStep ==
  ASSUME Lasting, NoStall, NEW r \in RowIds'
  PROVE  QuietRow(r)'
<1>1. CASE r \notin RowIds
  <2>1. Born(r) /\ queue_items'[r].status \in {"queued", "cancelled"}
    BY <1>1, LastingFacts DEF Ending, Going, RowsMove, Born
  <2> QED BY <2>1 DEF QuietRow, Stale, Born
<1>2. CASE r \in RowIds
  <2> DEFINE q == queue_items[r]
             p == queue_items'[r]
  <2>0. PICK g \in Group : g = q.item
    BY <1>2, LastingFacts, RowFacts
  <2>1. /\ RowSafe(r) /\ RowMove(r) /\ p.item = g
        /\ Stale(r) => Dead(q.claimed_by)
        /\ q.interrupted /\ q.claimed_by = NoWorker => ~Executing(g)
        /\ NoWorker \notin Worker /\ q \in Row
    BY <1>2, <2>0, LastingFacts, RowFacts, QueueAssumption DEF QuietInv, QuietRow
  <2>2. ASSUME Stale(r)'
        PROVE  \E w \in Worker : w = p.claimed_by /\ Dead(w)'
    <3>1. p.claimed_by = q.claimed_by /\ Dead(q.claimed_by) /\ q.claimed_by \in Worker
      BY <2>1, <2>2 DEF RowMove, RowSafe, Stale, Row, AwaitsAcknowledgement
    <3>2. PICK w \in Worker : w = q.claimed_by /\ Dead(w)
      BY <3>1
    <3> QED BY <3>1, <3>2, LastingFacts, DeadStays
  <2>3. ASSUME p.interrupted, p.claimed_by = NoWorker
        PROVE  ~Executing(g)'
    <3>1. CASE q.interrupted /\ q.claimed_by = NoWorker
      BY <1>2, <2>0, <2>1, <3>1, RecoveredFence
    <3>2. CASE \E w \in Worker :
                 AwaitsAcknowledgement(r) /\ main[w].pc = "acknowledge" /\ main[w].row = r
      <4>1. PICK w \in Worker :
                 AwaitsAcknowledgement(r) /\ main[w].pc = "acknowledge" /\ main[w].row = r
        BY <3>2
      <4>2. TheGroup(w) = g /\ ~Executing(g) /\ q.interrupted
        BY <2>0, <4>1, LastingFacts
        DEF QuietInv, QuietMain, RecoveryPc, TheGroup, AwaitsAcknowledgement
      <4> QED BY <1>2, <2>0, <4>2, RecoveredFence
    <3> QED BY <2>1, <2>3, <3>1, <3>2 DEF RowMove, RowSafe, Stale, OwnedClaim
  <2> QED BY <2>1, <2>2, <2>3 DEF QuietRow, Dead, At
<1> QED BY <1>1, <1>2

\* A worker that is at a claim of its own keeps it until it dies.
LEMMA HeldStays ==
  ASSUME Lasting, NoStall, NEW w \in Worker, ~Dead(w), NEW g \in Group, Begun(g),
         NEW r \in RowIds, queue_items[r].item = g,
         queue_items[r].claimed_by = w, ~queue_items[r].interrupted
  PROVE  queue_items'[r].claimed_by = w /\ ~queue_items'[r].interrupted
<1>1. RowSafe(r) /\ RowMove(r)
  BY LastingFacts, RowFacts
<1>2. ~Stale(r)
  BY LastingFacts DEF QuietInv, QuietRow
<1>3. queue_items[r].status # "queued"
  BY <1>1 DEF RowSafe
<1> QED BY <1>1, <1>2, <1>3 DEF RowMove, OwnedClaim, AwaitsAcknowledgement

\* ... and so do the threads of its children.
LEMMA HeldByRunner ==
  ASSUME Lasting, NoStall, NEW w \in Worker, NEW c \in Child, run'[w][c].pc # "none"
  PROVE  /\ ~Dead(w)'
         /\ \A r \in RowIds' :
              queue_items'[r].item = GroupOf(c) =>
                queue_items'[r].claimed_by = w /\ ~queue_items'[r].interrupted
<1> DEFINE g == GroupOf(c)
<1>1. g \in Group /\ Moving /\ c \in Family(g)
  BY LastingFacts, ParentFacts
<1>2. /\ Begun(g) /\ ~Dead(w)
      /\ \A r \in RowIds : queue_items[r].item = g =>
           queue_items[r].claimed_by = w /\ ~queue_items[r].interrupted
  <2>1. CASE run[w][c].pc # "none"
    <3>1. Begun(g)
      BY <1>1, <2>1, OnlyThere
    <3> QED BY <2>1, <3>1, LastingFacts DEF QuietInv, QuietMain
  <2>2. CASE run[w][c].pc = "none"
    <3>1. Ahead(w, c) /\ Owns(w, g)
      BY <1>1, <2>2, RunLater DEF Ahead
    <3>2. main[w].pc \in HoldPc /\ ~Dead(w) /\ TheGroup(w) = g
      BY <3>1 DEF Owns, HoldPc, Dead, At, OwnPc, EarlyPc, BetweenPc
    <3>3. ~queue_items[main[w].row].interrupted
      BY <3>2, LastingFacts DEF QuietInv, QuietMain
    <3>4. /\ queue_items[main[w].row].claimed_by = w
          /\ \A r \in RowIds : queue_items[r].item = g => r = main[w].row
      BY <3>2, <3>3, LastingFacts, HeldRow DEF MainSafe
    <3>5. Begun(g)
      BY <1>1, <3>1 DEF Moving, Alone, Engaged
    <3> QED BY <3>2, <3>3, <3>4, <3>5
  <2> QED BY <2>1, <2>2
<1>3. ~Dead(w)'
  <2>1. ASSUME Dead(w)'
        PROVE  run'[w][c] = NotRunning
    BY <1>2, <2>1, LastingFacts DEF Ending, Going, Course, Dead, At, OwnPc, EarlyPc, BetweenPc
  <2> QED BY <2>1 DEF NotRunning
<1>4. ASSUME NEW r \in RowIds', queue_items'[r].item = g
      PROVE  queue_items'[r].claimed_by = w /\ ~queue_items'[r].interrupted
  <2>1. CASE r \notin RowIds
    <3>1. api[g].pc = "new"
      BY <1>4, <2>1, LastingFacts DEF Ending, Going, RowsMove, Born
    <3> QED BY <1>1, <1>2, <3>1, LastingFacts, ControlOfGroup DEF ApiSafe
  <2>2. CASE r \in RowIds
    <3>1. queue_items[r].item = g
      BY <1>4, <2>2, LastingFacts, RowFacts
    <3> QED BY <1>1, <1>2, <2>2, <3>1, HeldStays
  <2> QED BY <2>1, <2>2
<1> QED BY <1>3, <1>4

\* A recovery starts with the group it took from the rows.
LEMMA TakenGroup ==
  ASSUME Lasting, NEW w \in Worker, main[w].pc = "recover",
         main'[w].pc \in {"mark", "recoverChild"}
  PROVE  /\ main'[w].row \in RowIds
         /\ queue_items[main'[w].row].interrupted
         /\ TheGroup(w)' = queue_items[main'[w].row].item
         /\ main'[w].todo = Children(queue_items[main'[w].row].item)
         /\ execution_controls'[queue_items[main'[w].row].item].state # "running"
<1>1. /\ Moving /\ main[w].rows \subseteq RowIds
      /\ \A r \in main[w].rows : queue_items[r].interrupted
  BY LastingFacts, MainFields DEF Moving, IInv, MainSound, Shape, MainShape
<1>2. RecoveryTurn(w)
  BY <1>1, OneMoves DEF MainTurn, RestTurn, OwnTurn, WaitTurn, RestPc, OwnPc, EarlyPc, BetweenPc
<1>3. /\ main'[w].row \in main[w].rows
      /\ main'[w].todo = Children(queue_items[main'[w].row].item)
  BY <1>2 DEF RecoveryTurn
<1>4. PICK r \in RowIds, g \in Group :
        r = main'[w].row /\ g = queue_items[r].item /\ queue_items'[r].item = g
  BY <1>1, <1>3, LastingFacts, RowFacts
<1>5. execution_controls'[g].state # "running"
  BY <1>4, LastingFacts DEF Ending, Going, Course, OwnPc, EarlyPc, BetweenPc
<1>6. TheGroup(w)' = g
  BY <1>4 DEF TheGroup
<1> QED BY <1>1, <1>3, <1>4, <1>5, <1>6

LEMMA QuietMainStep ==
  ASSUME Lasting, NoStall, NEW w \in Worker
  PROVE  QuietMain(w)'
<1> USE DEF HoldPc, RecoveryPc, OwnPc, EarlyPc, BetweenPc
<1>0. /\ QuietMain(w) /\ MainShape(w) /\ MainSafe(w)
      /\ main'[w] = main[w] \/ Course(w)
  BY LastingFacts DEF QuietInv, Moving, Shape, Ending, EndInv, Going
<1>1. main'[w].pc \in HoldPc => ~queue_items'[main'[w].row].interrupted
  <2> SUFFICES ASSUME main'[w].pc \in HoldPc
               PROVE  ~queue_items'[main'[w].row].interrupted
    OBVIOUS
  <2>1. CASE main'[w] = main[w]
    <3>1. /\ main[w].row \in RowIds /\ RowMove(main[w].row) /\ RowSafe(main[w].row)
          /\ ~queue_items[main[w].row].interrupted /\ ~Dead(w)
      BY <1>0, <2>1, LastingFacts, HeldRow DEF QuietMain, Dead, At
    <3>2. queue_items[main[w].row].claimed_by = w
      BY <1>0, <2>1, <3>1 DEF MainSafe
    <3>3. ~Stale(main[w].row)
      BY <3>1, <3>2, LastingFacts DEF QuietInv, QuietRow
    <3> QED BY <2>1, <3>1, <3>3 DEF RowMove, AwaitsAcknowledgement
  <2>2. CASE Course(w) /\ main[w].pc = "recover"
    <3>1. PICK r \in RowIds :
            /\ r = main'[w].row /\ queue_items[r].status = "queued"
            /\ queue_items'[r].status = "claimed"
      BY <2>2 DEF Course
    <3>2. RowSafe(r) /\ RowMove(r)
      BY LastingFacts, RowFacts
    <3> QED BY <3>1, <3>2 DEF RowSafe, RowMove, Stale, OwnedClaim, AwaitsAcknowledgement
  <2>3. CASE Course(w) /\ main[w].pc # "recover"
    <3>1. main[w].pc \in HoldPc /\ main'[w].row = main[w].row /\ UNCHANGED queue_items
      BY <2>3 DEF Course
    <3> QED BY <1>0, <3>1 DEF QuietMain
  <2> QED BY <1>0, <2>1, <2>2, <2>3
<1>2. main'[w].pc \in RecoveryPc => ~Executing(TheGroup(w))'
  <2> SUFFICES ASSUME main'[w].pc \in RecoveryPc
               PROVE  ~Executing(TheGroup(w))'
    OBVIOUS
  <2>1. CASE main[w].pc = "recover"
    <3>1. main'[w].pc \in {"mark", "recoverChild"}
      BY <1>0, <2>1 DEF Course
    <3> QED BY <2>1, <3>1, TakenGroup DEF Executing
  <2>2. CASE main[w].pc # "recover"
    <3>1. main[w].pc \in RecoveryPc /\ main'[w].row = main[w].row
      BY <1>0, <2>2 DEF Course
    <3>2. PICK g \in Group, r \in RowIds :
            /\ g = TheGroup(w) /\ TheGroup(w)' = g /\ r = main[w].row /\ queue_items[r].item = g
      BY <3>1, LastingFacts, GroupInHand DEF Moving, RestPc, TheGroup
    <3>3. queue_items[r].interrupted /\ ~Executing(g)
      BY <1>0, <3>1, <3>2 DEF MainShape, MainSafe, QuietMain
    <3>4. ~Executing(g)'
      BY <3>2, <3>3, RecoveredFence
    <3> QED BY <3>2, <3>4 DEF Executing
  <2> QED BY <2>1, <2>2
<1> QED BY <1>1, <1>2, HeldByRunner DEF QuietMain

\* A child of a recovered group is not in the executors, and does not begin.
LEMMA RecoveredChild ==
  ASSUME Lasting, NoStall, NEW c \in Child, Recovered(GroupOf(c))
  PROVE  /\ \A w \in Worker : run[w][c].pc = "none" /\ run'[w][c].pc = "none"
         /\ ~Executing(c) => ~Executing(c)'
<1>1. Recovered(GroupOf(c))' /\ GroupOf(c) \in Group
  BY LastingFacts, ParentFacts DEF Steady
<1>2. \A w \in Worker : run[w][c].pc = "none"
  BY LastingFacts DEF Recovered, QuietInv, QuietMain
<1>3. \A w \in Worker : run'[w][c].pc = "none"
  BY <1>1, HeldByRunner DEF Recovered
<1> QED BY <1>2, <1>3, LastingFacts, ChildFence

\* What takes back the end of a child in its file is the thread of the child.
LEMMA LeftLater ==
  ASSUME Lasting, NoStall, NEW c \in Child, LeftRunning(c)', Executing(c), ~LeftRunning(c)
  PROVE  \E w \in Worker : run[w][c].pc \in InHandPc
<1>1. /\ job_json[c] \in {"SUCCEEDED", "FAILED"} /\ job_json'[c] # job_json[c]
      /\ HasRun(c) /\ ~Ended(c) /\ Fate(c) /\ ChildSafe(c)
  BY LastingFacts DEF LeftRunning, Executing, HasRun, Ended, Moving
<1>2. \A w \in Worker : ~Marks(w, c) /\ ~Ahead(w, c)
  BY <1>1, LastingFacts DEF ChildSafe, Marks, QuietInv, RecoveryDone
<1>3. ASSUME NEW w \in Worker, WorkedOn(w, c)
      PROVE  run[w][c].pc \in InHandPc
  BY <1>1, <1>3 DEF WorkedOn, ThreadTurn, InHandPc
<1> QED BY <1>1, <1>2, <1>3 DEF Fate, Resting, Rewritten, Requested, GivenUp, Entered, Written

LEMMA QuietChildStep ==
  ASSUME Lasting, NoStall, NEW c \in Child
  PROVE  QuietChild(c)'
<1>1. /\ QuietChild(c) /\ Fate(c) /\ ChildSafe(c) /\ Moving
      /\ execution_controls[c] \in Control
      /\ GroupOf(c) \in Group
  BY LastingFacts, ControlOf, ParentFacts DEF QuietInv, Moving
<1>2. ASSUME NEW w \in Worker, run'[w][c].pc \in InHandPc
      PROVE  Executing(c)'
  <2>1. ~Recovered(GroupOf(c))
    BY <1>2, RecoveredChild DEF InHandPc
  <2>2. CASE run'[w][c] = run[w][c] /\ ~WorkedOn(w, c)
    <3>1. Executing(c)
      BY <1>1, <1>2, <2>2 DEF QuietChild
    <3>2. ASSUME NEW x \in Worker, WorkedOn(x, c), x # w
          PROVE  FALSE
      <4>1. run[x][c].pc # "none"
        BY <3>2 DEF WorkedOn, ThreadTurn
      <4>2. run[w][c].pc = "none"
        BY <1>1, <3>2, <4>1, OnlyThere
      <4> QED BY <1>2, <2>2, <4>2 DEF InHandPc
    <3>3. ControlAfterCancel(execution_controls[c]).state = "running"
      BY <1>1, <3>1 DEF Executing, ControlAfterCancel, Control
    <3> QED BY <1>1, <2>1, <2>2, <3>1, <3>2, <3>3
            DEF Fate, Resting, Rewritten, Requested, GivenUp, Entered, Executing
  <2>3. CASE WorkedOn(w, c)
    <3>1. \/ execution_controls'[c] = [execution_controls[c] EXCEPT !.state = "running"]
          \/ execution_controls'[c] = execution_controls[c] /\ run[w][c].pc \in InHandPc
      BY <1>2, <2>3 DEF WorkedOn, ThreadTurn, InHandPc
    <3> QED BY <1>1, <3>1 DEF QuietChild, Executing, Control
  <2>4. CASE run'[w][c] # run[w][c] /\ ~WorkedOn(w, c)
    BY <1>1, <1>2, <2>4
    DEF Fate, Resting, Rewritten, Requested, GivenUp, Entered, WorkedOn, NotRunning, InHandPc
  <2> QED BY <2>2, <2>3, <2>4
<1>3. ASSUME job_json'[c] = "INTERRUPTED"
      PROVE  Recovered(GroupOf(c))' /\ ~Executing(c)'
  <2>1. Recovered(GroupOf(c)) /\ ~Executing(c)
    <3>1. CASE job_json[c] = "INTERRUPTED"
      BY <1>1, <3>1 DEF QuietChild
    <3>2. CASE \E w \in Worker : Marks(w, c)
      <4>1. PICK w \in Worker : Marks(w, c)
        BY <3>2
      <4>2. Recovered(GroupOf(c))
        BY <4>1, LastingFacts, MarkedIsStopped DEF Moving
      <4>3. ~Executing(c)
        BY <4>1, LastingFacts DEF Marks, QuietInv, RecoveryDone
      <4> QED BY <4>2, <4>3
    <3>3. ASSUME NEW w \in Worker, WorkedOn(w, c)
          PROVE  job_json[c] = "INTERRUPTED"
      BY <1>1, <1>3, <3>3 DEF WorkedOn, ThreadTurn, ChildSafe
    <3> QED BY <1>1, <1>3, <3>1, <3>2, <3>3
            DEF Fate, Resting, Rewritten, Written, Requested, GivenUp, Entered
  <2> QED BY <1>1, <2>1, RecoveredChild, LastingFacts DEF Steady
<1> QED BY <1>2, <1>3 DEF QuietChild

\* The recovery treats every child of its group, and leaves none of them running.
LEMMA RecoveryDoneStep ==
  ASSUME Lasting, NoStall, NEW w \in Worker
  PROVE  RecoveryDone(w)'
<1> USE DEF OwnPc, EarlyPc, BetweenPc
<1>1. CASE main'[w].pc \notin RecoveryPc
  BY <1>1 DEF RecoveryDone, RecoveryPc
<1>2. CASE main'[w].pc \in RecoveryPc /\ main[w].pc = "recover"
  <2>1. main'[w].pc \in {"mark", "recoverChild"}
    BY <1>2, LastingFacts DEF Ending, Going, Course, RecoveryPc
  <2>2. PICK g \in Group :
          TheGroup(w)' = g /\ main'[w].todo = Children(g)
    BY <1>2, <2>1, LastingFacts, TakenGroup, RowFacts
  <2>3. Left(main'[w].todo) = Family(g)
    BY <2>2, LeftFirst
  <2> QED BY <2>1, <2>2, <2>3 DEF RecoveryDone
<1>3. CASE main'[w].pc \in RecoveryPc /\ main[w].pc # "recover"
  <2> DEFINE m == main[w]
             n == main'[w]
  <2>1. /\ m.pc \in RecoveryPc /\ n.row = m.row
        /\ n = m \/ Course(w)
        /\ RecoveryDone(w) /\ MainShape(w) /\ MainSafe(w) /\ m.todo \in Seq(Child)
        /\ m.pc = "markChild" => m.todo # <<>>
    BY <1>3, LastingFacts, MainFields
    DEF Ending, EndInv, Going, Course, RecoveryPc, QuietInv, Moving, Shape, IInv, MainSound, TodoPc
  <2>2. PICK g \in Group, r \in RowIds :
          /\ g = TheGroup(w) /\ TheGroup(w)' = g /\ r = m.row /\ queue_items[r].item = g
    BY <2>1, LastingFacts, GroupInHand DEF Moving, RestPc, RecoveryPc, TheGroup
  <2>3. Recovered(g) /\ (m.pc # "acknowledge" => Left(m.todo) \subseteq Family(g))
    BY <2>1, <2>2 DEF MainShape, MainSafe, RecoveryPc, Recovered
  <2>4. ASSUME NEW c \in Family(g)
        PROVE  /\ ~Executing(c) => ~Executing(c)'
               /\ ~LeftRunning(c) => ~LeftRunning(c)'
    <3>1. c \in Child /\ Recovered(GroupOf(c))
      BY <2>3, FamilyFacts
    <3>2. ~Executing(c) => ~Executing(c)'
      BY <3>1, RecoveredChild
    <3>3. ~LeftRunning(c) /\ Executing(c) => ~LeftRunning(c)'
      BY <3>1, LeftLater, RecoveredChild DEF InHandPc
    <3> QED BY <3>2, <3>3 DEF LeftRunning
  <2>5. /\ m.pc = "mark" => Left(m.todo) = Family(g)
        /\ m.pc = "markChild" => ~Executing(Head(m.todo))
        /\ m.pc \in {"recoverChild", "markChild", "acknowledge"} =>
             \A c \in Family(g) \ Left(m.todo) : ~LeftRunning(c)
        /\ m.pc = "acknowledge" => m.todo = <<>>
    BY <2>1, <2>2 DEF RecoveryDone
  <2>6. \A c \in Family(g) \ Left(m.todo) :
          m.pc \in {"recoverChild", "markChild", "acknowledge"} => ~LeftRunning(c)'
    BY <2>4, <2>5
  <2>7. CASE n = m
    <3>1. m.pc = "markChild" => ~Executing(Head(m.todo))'
      <4> SUFFICES ASSUME m.pc = "markChild"
                   PROVE  ~Executing(Head(main[w].todo))'
        OBVIOUS
      <4>1. PICK c \in Family(g) : c = Head(m.todo)
        BY <2>1, <2>3, LeftTail
      <4>2. c = Head(main'[w].todo) /\ ~Executing(c)'
        BY <2>4, <2>5, <2>7, <4>1
      <4> QED BY <4>2 DEF Executing
    <3> QED BY <2>2, <2>5, <2>6, <2>7, <3>1 DEF RecoveryDone
  <2>8. CASE m.pc = "mark" /\ n.pc = "recoverChild" /\ n.todo = m.todo
    BY <2>2, <2>5, <2>8 DEF RecoveryDone
  <2>9. CASE /\ m.pc = "recoverChild" /\ n.pc = "markChild" /\ n.todo = m.todo
             /\ m.todo # <<>> /\ execution_controls'[Head(m.todo)].state # "running"
    BY <2>2, <2>6, <2>9 DEF RecoveryDone, Executing
  <2>10. CASE /\ m.pc \in {"recoverChild", "markChild"} /\ n.pc = "recoverChild"
              /\ m.todo # <<>> /\ n.todo = Tail(m.todo)
              /\ m.pc = "recoverChild" => job_json[Head(m.todo)] \in Terminal
    <3>1. PICK c \in Family(g) : c = Head(m.todo)
      BY <2>1, <2>3, <2>10, LeftTail
    <3>2. ~LeftRunning(c)
      <4>1. CASE m.pc = "markChild"
        BY <2>5, <3>1, <4>1 DEF LeftRunning
      <4>2. CASE m.pc = "recoverChild"
        <5>1. c \in Child /\ ChildSafe(c) /\ QuietChild(c)
          BY FamilyFacts, LastingFacts DEF QuietInv
        <5> QED BY <2>10, <3>1, <4>2, <5>1
                DEF LeftRunning, Terminal, ChildSafe, QuietChild, Ended, Executing
      <4> QED BY <2>10, <4>1, <4>2
    <3>3. \A d \in Family(g) \ Left(n.todo) : d = c \/ d \in Family(g) \ Left(m.todo)
      BY <2>1, <2>10, <3>1, LeftTail
    <3>4. \A d \in Family(g) \ Left(n.todo) : ~LeftRunning(d)'
      BY <2>4, <2>6, <2>10, <3>2, <3>3
    <3> QED BY <2>2, <2>10, <3>4 DEF RecoveryDone
  <2>11. CASE m.pc = "recoverChild" /\ n.pc = "acknowledge" /\ m.todo = <<>> /\ n.todo = <<>>
    BY <2>2, <2>6, <2>11 DEF RecoveryDone
  <2> QED BY <1>3, <2>1, <2>7, <2>8, <2>9, <2>10, <2>11 DEF Course, RecoveryPc
<1> QED BY <1>1, <1>2, <1>3

LEMMA QuietInvStep ==
  ASSUME Lasting
  PROVE  QuietInv'
<1> SUFFICES ASSUME NoStall
             PROVE  /\ \A r \in RowIds' : QuietRow(r)'
                    /\ \A w \in Worker : QuietMain(w)' /\ RecoveryDone(w)'
                    /\ \A c \in Child : QuietChild(c)'
  BY DEF QuietInv, NoStall
<1> QED BY QuietRowStep, QuietMainStep, RecoveryDoneStep, QuietChildStep

\* Where live workers do not stall, a settled group is not executing.
LEMMA QuietMeansFree ==
  ASSUME EndInv, QuietInv, NoStall, NEW g \in Group, Settled(g)
  PROVE  ~Executing(g)
<1>1. PICK r \in RowIds : queue_items[r].item = g
  BY DEF EndInv, ApiSafe, Settled
<1>2. /\ RowSafe(r) /\ QuietRow(r) /\ ~Unfinished(r) /\ ~AwaitsAcknowledgement(r)
  BY <1>1 DEF EndInv, QuietInv, Settled
<1>3. CASE queue_items[r].interrupted
  BY <1>1, <1>2, <1>3 DEF RowSafe, QuietRow, AwaitsAcknowledgement
<1>4. CASE ~queue_items[r].interrupted
  BY <1>1, <1>2, <1>4 DEF RowSafe, Over, WillCancel, Settled, Executing
<1> QED BY <1>3, <1>4

-------------------------------------------------------------------------------
(* ... and a worker that gave up waiting does not die afterwards.           *)

\* The death of a worker is what goes wrong in its step.
LEMMA Dying ==
  ASSUME Lasting, NEW w \in Worker, ~Dead(w), Dead(w)'
  PROVE  faults < MaxFaults /\ faults' = faults + 1
BY LastingFacts DEF Ending, Going, Course, Dead, At, OwnPc, EarlyPc, BetweenPc

\* Who has not given up before has not given up now, and so on.
LEMMA PromptBefore ==
  ASSUME Lasting, Apart, Prompt'
  PROVE  Prompt
<1>1. /\ faults \in Nat /\ faults' \in {faults, faults + 1} /\ MaxFaults \in Nat
  BY LastingFacts, GroupExecutionAssumption DEF Ending, Going
<1>2. CASE faults' = 0
  BY <1>1, <1>2 DEF Prompt
<1>3. CASE ~NobodyDead' /\ NobodyDead /\ "timeout" \in Disturbances
  <2>1. faults < MaxFaults /\ MaxFaults <= 1
    BY <1>3, Dying DEF NobodyDead, Apart
  <2>2. faults = 0
    BY <1>1, <2>1
  <2> QED BY <2>2 DEF Prompt
<1>4. CASE "timeout" \notin Disturbances
  BY <1>4 DEF Prompt
<1>5. CASE ~NobodyDead
  BY <1>5 DEF Prompt
<1> QED BY <1>2, <1>3, <1>4, <1>5 DEF Prompt

\* A main thread that goes on waiting.
LEMMA WaitsOn ==
  ASSUME Lasting, Apart, Prompt', NEW w \in Worker, NEW g \in Group, Owns(w, g),
         main[w].pc = "wait", main'[w] # main[w]
  PROVE  \/ Dead(w)'
         \/ WaitTurn(w) /\ TheGroup(w)' = g /\ main'[w].pc \in OwnPc
<1>1. Course(w) /\ Moving
  BY LastingFacts DEF Ending, Going
<1>2. CASE main'[w].pc = "dead"
  BY <1>2 DEF Dead, At
<1>3. CASE main'[w].pc # "dead"
  <2>1. /\ main'[w].row = main[w].row /\ main'[w].pc \in OwnPc
        /\ \/ WaitTurn(w)
           \/ "timeout" \in Disturbances /\ faults < MaxFaults /\ faults' = faults + 1
    BY <1>1, <1>3 DEF Course, OwnPc, EarlyPc, BetweenPc
  <2>2. TheGroup(w)' = g
    BY <2>1, LastingFacts, HeldRow DEF HoldPc, Owns
  <2>3. ASSUME "timeout" \in Disturbances, faults < MaxFaults, faults' = faults + 1
        PROVE  FALSE
    <3>1. faults = 0 /\ faults' # 0
      BY <2>3, LastingFacts, GroupExecutionAssumption DEF Apart, Ending, Going
    <3>2. NobodyDead
      BY <3>1, LastingFacts DEF MindedInv
    <3>3. \A x \in Worker : x = w \/ main'[x] = main[x]
      BY <1>1, OneMoves
    <3>4. NobodyDead'
      BY <1>3, <3>2, <3>3 DEF NobodyDead, Dead, At
    <3> QED BY <2>3, <3>1, <3>4 DEF Prompt
  <2> QED BY <2>1, <2>2, <2>3
<1> QED BY <1>2, <1>3

\* What is waited for is what is left of the loop.
LEMMA WaitsForTheRest ==
  ASSUME Lasting, NEW w \in Worker, NEW g \in Group, Owns(w, g), WaitTurn(w),
         NEW c \in Left(main[w].todo), c # Head(main[w].todo)
  PROVE  main'[w].pc = "wait" /\ c \in Left(main'[w].todo)
<1>1. /\ main[w].pc = "wait" /\ main[w].todo # <<>> /\ main[w].todo \in Seq(Child)
      /\ main'[w].todo = Tail(main[w].todo) /\ TheGroup(w) = g
  BY LastingFacts, MainFields DEF WaitTurn, Owns, Moving, IInv
<1>2. c \in Left(main'[w].todo)
  BY <1>1, LeftTail
<1>3. main'[w].todo # <<>>
  BY <1>2, LeftFirst
<1>4. ~Saved(g).replacing
  <2> SUFFICES ASSUME Saved(g).replacing
               PROVE  FALSE
    OBVIOUS
  <2>1. main[w].todo = <<AuditOf[g]>> \/ main[w].todo = <<DeliverableOf[g]>>
    BY <1>1, LastingFacts DEF Moving, IInv, FreshInv, MainFresh
  <2>2. ASSUME NEW d, main[w].todo = <<d>>
        PROVE  FALSE
    <3>1. Tail(main[w].todo) = <<>>
      BY <2>2
    <3> QED BY <1>1, <1>3, <3>1
  <2> QED BY <2>1, <2>2
<1> QED BY <1>1, <1>2, <1>3, <1>4 DEF WaitTurn

\* A child in the executors is waited for as long as it may begin or go on.
LEMMA MindedStep ==
  ASSUME Lasting, Apart, Prompt', NEW w \in Worker, NEW c \in Child,
         run'[w][c].pc \in {"heavy", "begin"} \cup InHandPc
  PROVE  Minded(w, c)'
<1> DEFINE g == GroupOf(c)
<1>1. /\ Moving /\ Steady /\ Fate(c) /\ Prompt /\ NoStall
      /\ g \in Group /\ c \in Family(g) /\ c \in Item
  BY LastingFacts, PromptBefore, ParentFacts DEF Moving, Apart
<1>2. /\ ~Dead(w)' /\ ~Recovered(g)
  BY <1>1, HeldByRunner, RecoveredChild DEF InHandPc
<1>3. PICK h \in Group : h = g
  BY <1>1
<1>4. ASSUME Owns(w, h)', main'[w].pc = "wait", c \in Left(main'[w].todo)
      PROVE  Minded(w, c)'
  BY <1>3, <1>4 DEF Minded
<1>5. CASE run[w][c].pc = "none"
  <2>1. Ahead(w, c) /\ ~Ahead(w, c)'
    BY <1>1, <1>5, RunLater DEF InHandPc
  <2>2. Entered(w, c)
    <3>1. run'[w][c].pc # "none"
      BY DEF InHandPc
    <3>2. \A x \in Worker : WorkedOn(x, c) => x # w
      BY <1>5 DEF WorkedOn, ThreadTurn
    <3>3. PICK x \in Worker : Entered(x, c)
      BY <1>1, <1>5, <3>1, <3>2
      DEF Fate, Resting, Rewritten, Requested, GivenUp, WorkedOn, NotRunning
    <3>4. x = w
      BY <1>5, <3>1, <3>3 DEF Entered
    <3> QED BY <3>3, <3>4
  <2>3. main'[w].pc = "wait" /\ c \in Left(main'[w].todo) /\ Owns(w, h)
    BY <1>3, <2>1, <2>2 DEF Entered, Ahead
  <2>4. main'[w].row = main[w].row
    <3>1. main[w].pc \in OwnPc /\ (main'[w] = main[w] \/ Course(w))
      BY <2>3, LastingFacts DEF Owns, Ending, Going
    <3> QED BY <2>3, <3>1 DEF Course, OwnPc, EarlyPc, BetweenPc
  <2>5. TheGroup(w)' = h
    BY <2>3, <2>4, LastingFacts, HeldRow DEF Owns, HoldPc
  <2> QED BY <1>4, <2>3, <2>5 DEF Owns, OwnPc
<1>6. CASE run[w][c].pc # "none"
  <2>1. /\ \A x \in Worker : Entered(x, c) => x # w
        /\ run'[w][c].pc # "none"
    BY <1>1, <1>6 DEF Entered, Moving, Alone, Unsubmitted, InHandPc
  <2>2. \/ run'[w][c] = run[w][c]
        \/ WorkedOn(w, c)
    BY <1>1, <2>1
    DEF Fate, Resting, Rewritten, Requested, GivenUp, Entered, WorkedOn, NotRunning
  <2>3. run[w][c].pc \in {"heavy", "begin"} \cup InHandPc
    <3>1. run[w][c].pc # "release"
      BY <2>1, <2>2 DEF WorkedOn, ThreadTurn, InHandPc
    <3>2. run[w][c].pc \in RunPc
      BY LastingFacts, RunFields DEF Moving, IInv, Run
    <3> QED BY <1>6, <3>1, <3>2 DEF RunPc, HoldingPc, InHandPc
  <2>4. Minded(w, c)
    BY <1>1, <2>3, LastingFacts DEF MindedInv
  <2>5. CASE run[w][c].pc \in {"heavy", "begin"} /\ Begun(c)
    <3>1. run'[w][c].pc \in {"heavy", "begin"}
      BY <2>1, <2>2, <2>5 DEF WorkedOn, ThreadTurn, Begun
    <3> QED BY <1>1, <2>5, <3>1 DEF Minded, Steady
  <2>6. CASE Owns(w, h) /\ main[w].pc = "wait" /\ c \in Left(main[w].todo)
    <3>1. CASE main'[w] = main[w]
      <4>1. TheGroup(w)' = h
        BY <2>6, <3>1, LastingFacts, HeldRow DEF Owns, HoldPc
      <4> QED BY <1>4, <2>6, <3>1, <4>1 DEF Owns
    <3>2. CASE main'[w] # main[w]
      <4>1. WaitTurn(w) /\ TheGroup(w)' = h /\ main'[w].pc \in OwnPc
        BY <1>2, <2>6, <3>2, WaitsOn
      <4>2. CASE c # Head(main[w].todo)
        BY <1>4, <2>6, <4>1, <4>2, WaitsForTheRest DEF Owns
      <4>3. CASE c = Head(main[w].todo)
        <5>1. job_json[c] \in Terminal /\ ~Executing(c)
          BY <4>1, <4>3 DEF WaitTurn
        <5>2. run[w][c].pc \in {"heavy", "begin"}
          BY <1>1, <2>3, <5>1, LastingFacts DEF QuietInv, QuietChild
        <5>3. Barred(c)
          BY <5>1, LastingFacts DEF SInv, BarSafe
        <5>4. Begun(c)
          BY <1>2, <5>2, <5>3 DEF Barred, Excluded, Unsubmitted
        <5> QED BY <2>5, <5>2, <5>4
      <4> QED BY <4>2, <4>3
    <3> QED BY <3>1, <3>2
  <2> QED BY <1>3, <2>4, <2>5, <2>6 DEF Minded
<1> QED BY <1>5, <1>6

\* A claim that awaits its recovery goes on doing so until its children are over.
LEMMA RecoverableStays ==
  ASSUME Lasting, NoStall, NEW c \in Child, LeftRunning(c), Recoverable(GroupOf(c))
  PROVE  Recoverable(GroupOf(c))'
<1>1. PICK r \in RowIds :
        /\ queue_items[r].item = GroupOf(c)
        /\ \/ AwaitsAcknowledgement(r)
           \/ queue_items[r].status = "claimed" /\ Dead(queue_items[r].claimed_by)
  BY DEF Recoverable
<1>2. PICK g \in Group : g = GroupOf(c)
  BY ParentFacts
<1>3. /\ RowSafe(r) /\ RowMove(r) /\ r \in RowIds' /\ queue_items'[r].item = g
      /\ Begun(g) /\ c \in Family(g) /\ queue_items[r] \in Row
  BY <1>1, <1>2, LastingFacts, RowFacts, ParentFacts DEF ChildSafe, LeftRunning, Executing, HasRun
<1>4. ASSUME AwaitsAcknowledgement(r)' \/ (queue_items'[r].status = "claimed"
               /\ \E y \in Worker : y = queue_items'[r].claimed_by /\ Dead(y)')
      PROVE  Recoverable(GroupOf(c))'
  BY <1>2, <1>3, <1>4 DEF Recoverable, Dead, At
<1>5. CASE AwaitsAcknowledgement(r)
  <2>1. ASSUME NEW x \in Worker, main[x].pc = "acknowledge", main[x].row = r
        PROVE  FALSE
    <3>1. TheGroup(x) = g /\ main[x].todo = <<>> /\ \A d \in Family(g) \ Left(main[x].todo) : ~LeftRunning(d)
      BY <1>1, <1>2, <2>1, LastingFacts DEF QuietInv, RecoveryDone, TheGroup
    <3>2. Left(main[x].todo) = {}
      BY <1>2, <3>1, LeftFirst
    <3> QED BY <1>3, <3>1, <3>2
  <2>2. AwaitsAcknowledgement(r)'
    BY <1>3, <1>5, <2>1 DEF RowMove, AwaitsAcknowledgement, Stale, OwnedClaim, Unfinished
  <2> QED BY <1>4, <2>2
<1>6. CASE queue_items[r].status = "claimed" /\ Dead(queue_items[r].claimed_by)
  <2>1. PICK y \in Worker : y = queue_items[r].claimed_by /\ Dead(y) /\ Dead(y)' /\ y # NoWorker
    <3>1. queue_items[r].claimed_by \in Worker
      BY <1>3, <1>6 DEF RowSafe, Row
    <3> QED BY <1>6, <3>1, LastingFacts, DeadStays, QueueAssumption
  <2>2. ~(api[g].pc = "request" /\ execution_controls'[g].state = "cancelled")
    BY <1>1, <1>2, <1>3, LastingFacts, RowCancelled DEF Cancels
  <2>3. ~\E x \in Worker : OwnedClaim(r, x) /\ main[x].pc = "complete"
    BY <2>1 DEF OwnedClaim, Dead, At
  <2>4. /\ queue_items'[r].claimed_by = y
        /\ \/ queue_items'[r].status = "claimed"
           \/ queue_items'[r].status = "failed" /\ queue_items'[r].interrupted
    BY <1>1, <1>2, <1>3, <1>6, <2>1, <2>2, <2>3 DEF RowMove, AwaitsAcknowledgement
  <2> QED BY <1>4, <2>1, <2>4 DEF AwaitsAcknowledgement
<1> QED BY <1>1, <1>5, <1>6

\* A worker that dies with a child in hand leaves its claim to the recovery.
LEMMA DiesWithClaim ==
  ASSUME Lasting, Apart, NEW w \in Worker, NEW c \in Child, run[w][c].pc \in InHandPc, Dead(w)'
  PROVE  Recoverable(GroupOf(c))'
<1>1. PICK g \in Group : g = GroupOf(c)
  BY ParentFacts
<1>2. ~Dead(w) /\ NoStall
  BY LastingFacts DEF QuietInv, QuietMain, InHandPc, Apart
<1>3. Prompt
  <2>1. Prompt'
    BY DEF Prompt, NobodyDead
  <2> QED BY <2>1, PromptBefore
<1>4. Owns(w, g) /\ main[w].pc = "wait"
  BY <1>1, <1>3, LastingFacts DEF MindedInv, Minded, InHandPc
<1>5. PICK r \in RowIds : r = main[w].row /\ queue_items[r].item = g
  BY <1>4, LastingFacts, HeldRow DEF HoldPc, Owns
<1>6. /\ queue_items[r].claimed_by = w /\ queue_items[r].status = "claimed"
      /\ ~queue_items[r].interrupted /\ Begun(g)
  BY <1>2, <1>4, <1>5, LastingFacts, HeldRow
  DEF QuietInv, QuietMain, MainSafe, HoldPc, Owns, Moving, Alone, Engaged
<1>7. RowMove(r) /\ ~Stale(r) /\ r \in RowIds' /\ queue_items'[r].item = g
  BY <1>2, <1>5, <1>6, LastingFacts, RowFacts DEF QuietInv, QuietRow
<1>8. ~(api[g].pc = "request" /\ execution_controls'[g].state = "cancelled")
  BY <1>5, <1>6, LastingFacts, RowCancelled DEF Cancels
<1>9. ~\E x \in Worker : OwnedClaim(r, x) /\ main[x].pc = "complete"
  BY <1>4, <1>6 DEF OwnedClaim
<1>10. queue_items'[r].claimed_by = w /\ queue_items'[r].status = "claimed"
  BY <1>5, <1>6, <1>7, <1>8, <1>9 DEF RowMove, AwaitsAcknowledgement
<1>11. Dead(queue_items[r].claimed_by)'
  BY <1>10 DEF Dead, At
<1> QED BY <1>1, <1>7, <1>10, <1>11 DEF Recoverable

LEMMA MindedInvStep ==
  ASSUME Lasting
  PROVE  MindedInv'
<1> SUFFICES ASSUME Apart
             PROVE  /\ faults' = 0 => NobodyDead'
                    /\ Prompt' => \A w \in Worker, c \in Child :
                         run'[w][c].pc \in {"heavy", "begin"} \cup InHandPc => Minded(w, c)'
                    /\ \A c \in Child :
                         LeftRunning(c)' => \/ \E w \in Worker : run'[w][c].pc \in InHandPc
                                            \/ Recoverable(GroupOf(c))'
  BY DEF MindedInv, Apart, NoStall
<1>1. faults' = 0 => NobodyDead'
  <2>1. faults \in Nat /\ faults' \in {faults, faults + 1}
    BY LastingFacts DEF Ending, Going
  <2>2. ASSUME faults' = 0, NEW w \in Worker, Dead(w)'
        PROVE  FALSE
    <3>1. faults = 0
      BY <2>1, <2>2
    <3>2. ~Dead(w)
      BY <3>1, LastingFacts DEF MindedInv, NobodyDead
    <3> QED BY <2>1, <2>2, <3>2, Dying
  <2> QED BY <2>2 DEF NobodyDead
<1>2. ASSUME NEW c \in Child, LeftRunning(c)'
      PROVE  \/ \E w \in Worker : run'[w][c].pc \in InHandPc
             \/ Recoverable(GroupOf(c))'
  <2>1. NoStall /\ Executing(c)'
    BY <1>2 DEF Apart, LeftRunning
  <2>2. CASE ~Executing(c)
    BY <2>1, <2>2, LastingFacts, ChildFence DEF InHandPc
  <2>3. CASE Executing(c) /\ \E w \in Worker : run[w][c].pc \in InHandPc
    <3>1. PICK w \in Worker : run[w][c].pc \in InHandPc
      BY <2>3
    <3>2. run'[w][c].pc \in InHandPc \/ Dead(w)'
      BY <2>1, <2>3, <3>1, LastingFacts, ChildFence
    <3> QED BY <3>1, <3>2, DiesWithClaim
  <2>4. CASE Executing(c) /\ ~\E w \in Worker : run[w][c].pc \in InHandPc
    <3>1. LeftRunning(c)
      BY <1>2, <2>1, <2>4, LeftLater
    <3>2. Recoverable(GroupOf(c))
      BY <2>4, <3>1, LastingFacts DEF MindedInv
    <3> QED BY <2>1, <3>1, <3>2, RecoverableStays
  <2> QED BY <2>2, <2>3, <2>4
<1> QED BY <1>1, <1>2, MindedStep

\* ... then a settled group has left nothing behind.
LEMMA MindedMeansFree ==
  ASSUME LInv, Apart
  PROVE  NobodyLeftBehind
<1> SUFFICES ASSUME NEW g \in Group, Settled(g)
             PROVE  /\ StatusAgrees(g) /\ ~Executing(g)
                    /\ \A c \in Family(g) : ~LeftRunning(c)
  BY DEF NobodyLeftBehind, Family
<1>1. StatusAgrees(g)
  BY SettledAgrees DEF LInv, SInv
<1>2. ~Executing(g)
  BY QuietMeansFree DEF LInv, Apart
<1>3. ASSUME NEW c \in Family(g)
      PROVE  ~LeftRunning(c)
  <2>1. c \in Child /\ GroupOf(c) = g /\ \A w \in Worker : run[w][c].pc \notin InHandPc
    BY FamilyFacts, SettledIsFree DEF LInv, SInv, InHandPc
  <2>2. ~Recoverable(g)
    BY DEF Recoverable, Settled, Unfinished
  <2> QED BY <2>1, <2>2 DEF LInv, MindedInv
<1> QED BY <1>1, <1>2, <1>3

-------------------------------------------------------------------------------
(* What a settled group leaves behind.                                      *)

LEMMA LInvInit ==
  ASSUME Init
  PROVE  LInv
<1>1. SInv /\ EndInv /\ FenceHeld
  BY SInvInit, EndInvInit, FenceHeldInit
<1>2. /\ RowIds = {} /\ faults = 0
      /\ \A w \in Worker : main[w].pc = "idle"
      /\ \A w \in Worker, c \in Child : run[w][c] = NotRunning
      /\ \A c \in Child : job_json[c] = "QUEUED" /\ ~HasRun(c) /\ ~Executing(c)
  BY GroupExecutionAssumption
  DEF Init, InitQ, RowIds, Idle, NoRuns, HasRun, Executing
<1>3. \A c \in Child : ChildSafe(c)
  BY <1>2 DEF ChildSafe, NotRunning
<1>4. QuietInv
  BY <1>2 DEF QuietInv, QuietMain, RecoveryDone, QuietChild, HoldPc, OwnPc, EarlyPc, BetweenPc,
              RecoveryPc, InHandPc, NotRunning
<1>5. MindedInv
  BY <1>2 DEF MindedInv, NobodyDead, Dead, At, InHandPc, LeftRunning, NotRunning
<1> QED BY <1>1, <1>3, <1>4, <1>5 DEF LInv

LEMMA LInvStep ==
  ASSUME LInv, [Next]_vars
  PROVE  LInv'
<1>1. SInv'
  BY SInvStep DEF LInv
<1>2. Lasting /\ Ending /\ FenceHeld
  BY StepGoes DEF Lasting, Ending, LInv, SInv
<1>3. EndInv' /\ FenceHeld'
  BY <1>2, EndInvStep, FenceHeldStep
<1>4. \A c \in Child : ChildSafe(c)'
  BY <1>2, ChildSafeStep
<1>5. QuietInv' /\ MindedInv'
  BY <1>2, QuietInvStep, MindedInvStep
<1> QED BY <1>1, <1>3, <1>4, <1>5 DEF LInv

\* What lasts: the ends of groups and of their children, whatever died, stalled or
\* was given up on the way.
THEOREM EndsInvariance == Spec => []LInv
<1>1. Init => LInv
  BY LInvInit
<1>2. LInv /\ [Next]_vars => LInv'
  BY LInvStep
<1> QED BY <1>1, <1>2, PTL DEF Spec

\* A settled group has a terminal file that says CANCELLED only if the database
\* says so, and SUCCEEDED or FAILED only if it does not: with any faults, since the
\* outcome that a worker, a recovery or a cancel request saves is the one that
\* finish_execution answered, and nobody is left who would save another.
THEOREM SettledAgreesHolds == Spec => [](\A g \in Group : Settled(g) => StatusAgrees(g))
<1>1. LInv => \A g \in Group : Settled(g) => StatusAgrees(g)
  BY SettledAgrees DEF LInv, SInv
<1> QED BY <1>1, EndsInvariance, PTL

\* As long as no worker has died, a settled group leaves nothing behind: its file
\* agrees with the database, no fence is closed, and this with workers that stall
\* past their heartbeat, waits that time out and publications that fail.
THEOREM NothingLeftByTheLiving == Spec => [](NobodyDead => NobodyLeftBehind)
<1>1. LInv => (NobodyDead => NobodyLeftBehind)
  BY HeldMeansFree DEF LInv, SInv
<1> QED BY <1>1, EndsInvariance, PTL

\* Where workers do not stall, a settled group has its fence open, whoever died: a
\* recovered claim had its execution finished in the same transaction.
THEOREM NoFenceLeftClosed ==
  ASSUME NoStall
  PROVE  Spec => [](\A g \in Group : Settled(g) => ~Executing(g))
<1>1. LInv => \A g \in Group : Settled(g) => ~Executing(g)
  BY QuietMeansFree DEF LInv
<1> QED BY <1>1, EndsInvariance, PTL

\* Where workers that die had neither stalled nor given up a wait, a settled group
\* leaves nothing behind: no child is in execution on paper without a result in its
\* file, because the row stays open until the recovery has treated every child.
THEOREM NobodyLeftBehindHolds ==
  ASSUME Apart
  PROVE  Spec => []NobodyLeftBehind
<1>1. LInv => NobodyLeftBehind
  BY MindedMeansFree
<1> QED BY <1>1, EndsInvariance, PTL

\* Without crashes nobody is dead, so there the property holds as it stands.
THEOREM NobodyLeftBehindWithoutCrashes ==
  ASSUME "crash" \notin Disturbances
  PROVE  Spec => []NobodyLeftBehind
<1>1. Init => NobodyDead
  BY DEF Init, Idle, NobodyDead, Dead, At
<1>2. LInv /\ NobodyDead /\ [Next]_vars => NobodyDead'
  BY StepGoes, DeadStays DEF NobodyDead, Ending, LInv, SInv
<1>3. LInv /\ NobodyDead => NobodyLeftBehind
  BY HeldMeansFree DEF LInv, SInv
<1> QED BY <1>1, <1>2, <1>3, EndsInvariance, PTL DEF Spec
===============================================================================
