------------------------- MODULE GroupExecutionProofs -------------------------
(***************************************************************************)
(* The execution of task groups for any groups, workers, slots and faults: *)
(* its type, that no CAD slot is lost, and that the end of a group stands. *)
(***************************************************************************)
EXTENDS GroupExecution, SQLiteQueueProofs, FiniteSetTheorems, SequenceTheorems

-------------------------------------------------------------------------------
(* The inductive invariant.                                                 *)

\* Where the main thread has no row in hand.
RestPc == {"dead", "idle", "recover"}

\* From the start of the execution to the submission of the first children.
EarlyPc == {"start", "prepare", "shared", "children", "progress"}

\* From the success of the replacement to the submission of the deliverable.
BetweenPc == {"prepareNext", "nextSave", "next"}

\* Inside _process_group, with the group in hand.
WorkPc == {"begin"} \cup EarlyPc \cup {"wait"} \cup BetweenPc
            \cup {"nextChild", "conclude", "finish", "save"}

\* Where there is a next child.
TodoPc == {"markChild", "children", "wait"}

\* A group.json that exists.
Live == [version : Nat \ {0}, value : GroupValue]

MainSound(m) ==
  /\ m \in Main
  /\ m.rows \subseteq RowIds
  /\ m.pc \notin RestPc => m.row \in RowIds
  /\ m.pc \in TodoPc => m.todo # <<>>
  /\ m.pc \in WorkPc \cup {"mark"} => m.mem \in Live

ApiSound(a) ==
  /\ a \in Api
  /\ a.mem \in Live \cup {Missing}
  /\ a.pc = "request" => a.mem \in Live
  /\ a.pc = "childSave" => a.todo # <<>>

FileTypes ==
  /\ group_json \in [Group -> Live]
  /\ job_json \in [Child -> Status]

ThreadTypes ==
  /\ main \in [Worker -> Main]
  /\ \A w \in Worker : MainSound(main[w])
  /\ run \in [Worker -> [Child -> Run]]
  /\ api \in [Group -> Api]
  /\ \A g \in Group : ApiSound(api[g])

\* The part that makes every step a step of SpecQ.
CallInv ==
  /\ RowInv
  /\ ControlInv
  /\ \A r \in RowIds : queue_items[r].item \in Group
  /\ FileTypes
  /\ ThreadTypes
  /\ faults \in 0 .. MaxFaults

Ended(g) == execution_controls[g].state = "cancelled"

\* rec was read of g, or saved to g, some time ago.
Follows(g, rec) ==
  /\ rec.version <= group_json[g].version
  /\ rec.value.replacing = Saved(g).replacing

\* ... when g was not stopped; a later end of g makes rec outdated.
FollowsOpen(g, rec) ==
  /\ Follows(g, rec)
  /\ Current(g, rec) => GroupStatus(g) \notin {"INTERRUPTED", "CANCELLED"}

\* Only an object that is going to be saved as CANCELLED may have that status,
\* and then the database says so.
MainFollows(w) ==
  LET m == main[w]
      g == TheGroup(w)
  IN
  /\ m.pc \in WorkPc => FollowsOpen(g, m.mem)
  /\ m.pc \in WorkPc \cup {"mark"} /\ m.mem.value.status = "CANCELLED" =>
       m.pc \in {"save", "mark"} /\ Ended(g)
  /\ m.pc = "mark" =>
       /\ Follows(g, m.mem)
       /\ Current(g, m.mem) =>
            /\ GroupStatus(g) # "INTERRUPTED"
            /\ GroupStatus(g) = "CANCELLED" => m.mem.value.status = "CANCELLED"

ApiFollows(g) ==
  api[g].mem # Missing =>
    /\ FollowsOpen(g, api[g].mem)
    /\ api[g].pc \in {"child", "childSave", "save"} => Ended(g)

FollowInv ==
  /\ \A w \in Worker : MainFollows(w)
  /\ \A g \in Group : ApiFollows(g)
  /\ \A g \in Group : GroupStatus(g) = "CANCELLED" => Ended(g)

Unsubmitted(w, c) == run[w][c].pc = "none"
Begun(g) == execution_controls[g].state # "absent"

\* A child that is going to be submitted is not in the executors yet.
MainFresh(w) ==
  LET m == main[w]
      g == TheGroup(w)
  IN
  /\ m.pc \in EarlyPc \cup BetweenPc \cup {"wait"} => Begun(g)
  /\ m.pc \in EarlyPc => Unsubmitted(w, AuditOf[g])
  /\ m.pc \in EarlyPc \cup BetweenPc => Unsubmitted(w, DeliverableOf[g])
  /\ m.pc = "wait" /\ Saved(g).replacing =>
       \/ m.todo = <<AuditOf[g]>> /\ Unsubmitted(w, DeliverableOf[g])
       \/ m.todo = <<DeliverableOf[g]>>

FreshInv ==
  /\ \A w \in Worker : MainFresh(w)
  /\ \A w \in Worker, g \in Group :
       ~Begun(g) => Unsubmitted(w, AuditOf[g]) /\ Unsubmitted(w, DeliverableOf[g])

Holding(w) == {c \in Child : run[w][c].pc \in HoldingPc}

SlotInv ==
  /\ slots \in [Worker -> 0 .. Slots]
  /\ \A w \in Worker :
       /\ IsFiniteSet(HeavyThreads(w))
       /\ Cardinality(HeavyThreads(w)) <= Slots
       /\ slots[w] + Cardinality(Holding(w)) = Slots

IInv == CallInv /\ FollowInv /\ FreshInv /\ SlotInv

-------------------------------------------------------------------------------
(* Groups, children and records.                                            *)

\* The two children of a group belong to no other group.
LEMMA ChildFacts ==
  ASSUME NEW g \in Group
  PROVE  /\ g \in Item
         /\ DeliverableOf[g] \in Child /\ DeliverableOf[g] \in Item
         /\ AuditOf[g] \in Child /\ AuditOf[g] \in Item
         /\ DeliverableOf[g] # AuditOf[g]
         /\ GroupOf(DeliverableOf[g]) = g
         /\ IsDeliverable(DeliverableOf[g])
         /\ ~IsDeliverable(AuditOf[g])
<1>1. /\ DeliverableOf[g] \in Child /\ AuditOf[g] \in Child
      /\ DeliverableOf[g] # AuditOf[g]
      /\ g \in Item /\ DeliverableOf[g] \in Item /\ AuditOf[g] \in Item
  BY GroupExecutionAssumption DEF Child
<1>2. \A h \in Group : DeliverableOf[g] \in {DeliverableOf[h], AuditOf[h]} <=> h = g
  BY GroupExecutionAssumption
<1>3. \A h \in Group : AuditOf[g] \in {DeliverableOf[h], AuditOf[h]} <=> h = g
  BY GroupExecutionAssumption
<1>4. GroupOf(DeliverableOf[g]) = g
  BY <1>2 DEF GroupOf
<1>5. GroupOf(AuditOf[g]) = g
  BY <1>3 DEF GroupOf
<1> QED BY <1>1, <1>4, <1>5 DEF IsDeliverable

\* The loops over the children go through sequences of children.
LEMMA ChildrenFacts ==
  ASSUME NEW g \in Group
  PROVE  /\ Children(g) \in Seq(Child) /\ Children(g) # <<>>
         /\ FirstBatch(g) \in Seq(Child) /\ FirstBatch(g) # <<>>
         /\ <<DeliverableOf[g]>> \in Seq(Child) /\ <<DeliverableOf[g]>> # <<>>
<1>1. DeliverableOf[g] \in Child /\ AuditOf[g] \in Child
  BY ChildFacts
<1> QED BY <1>1 DEF Children, FirstBatch

\* A loop takes the head of what is left and goes on with the tail.
LEMMA LoopFacts ==
  ASSUME NEW s \in Seq(Child)
  PROVE  s # <<>> =>
           /\ Head(s) \in Child /\ Tail(s) \in Seq(Child)
           /\ Len(s) # 1 => Tail(s) # <<>>
<1> SUFFICES ASSUME s # <<>>
             PROVE  /\ Head(s) \in Child /\ Tail(s) \in Seq(Child)
                    /\ Len(s) # 1 => Tail(s) # <<>>
  OBVIOUS
<1>1. Head(s) \in Child /\ Tail(s) \in Seq(Child) /\ Len(Tail(s)) = Len(s) - 1
  BY HeadTailProperties
<1>2. Tail(s) = <<>> => Len(Tail(s)) = 0
  BY EmptySeq
<1>3. Len(s) \in Nat
  BY LenProperties
<1> QED BY <1>1, <1>2, <1>3

\* A live record with another status is live, and so is what a save leaves.
LEMMA LiveFacts ==
  ASSUME NEW rec \in Live, NEW status \in Status
  PROVE  /\ rec.version \in Nat \ {0} /\ rec.value \in GroupValue
         /\ rec.value.status \in Status
         /\ [rec.value EXCEPT !.status = status] \in GroupValue
         /\ [rec EXCEPT !.value.status = status] \in Live
         /\ [rec EXCEPT !.value.status = status].version = rec.version
         /\ [rec EXCEPT !.value.status = status].value
              = [rec.value EXCEPT !.status = status]
         /\ Bumped(rec, [rec.value EXCEPT !.status = status]) \in Live
         /\ rec \in Record /\ rec # Missing
BY DEF Live, Record, GroupValue, Bumped, Missing

\* What the invariant says of the record of a main thread.
LEMMA MainFields ==
  ASSUME CallInv, NEW w \in Worker
  PROVE  /\ main[w] \in Main /\ MainSound(main[w])
         /\ RowIds \subseteq 1 .. MaxRows
         /\ main[w].pc \notin RestPc =>
              main[w].row \in RowIds /\ TheGroup(w) \in Group
         /\ main[w].todo \in Seq(Child)
         /\ main[w].pc \in WorkPc \cup {"mark"} =>
              main[w].mem \in Live /\ main[w].mem.value.status \in Status
BY QueueAssumption
DEF CallInv, ThreadTypes, MainSound, Main, RowInv, RowTypes, RowIds, TheGroup, Live, GroupValue

LEMMA GroupFields ==
  ASSUME CallInv, NEW g \in Group
  PROVE  /\ group_json[g] \in Live /\ group_json[g] \in Record
         /\ GroupStatus(g) \in Status
         /\ execution_controls[g] \in Control
BY ChildFacts, LiveFacts
DEF CallInv, FileTypes, Live, Record, GroupValue, GroupStatus, Saved, ControlInv

-------------------------------------------------------------------------------
(* What a step of the main thread of w does, and its type.                  *)

MainCalls(w) ==
  /\ [NextQ]_queueVars
  /\ last_id' = last_id
  /\ FileTypes'
  /\ main' = [main EXCEPT ![w] = main'[w]]
  /\ MainSound(main'[w])
  /\ run' \in [Worker -> [Child -> Run]]
  /\ UNCHANGED api
  /\ faults' \in 0 .. MaxFaults

\* A step of the main thread that only moves it on to m.
LEMMA OnlyMain ==
  ASSUME CallInv, NEW w \in Worker, NEW m, MainSound(m), main' = [main EXCEPT ![w] = m],
         [NextQ]_queueVars, last_id' = last_id,
         UNCHANGED <<fileVars, run, api, faults>>
  PROVE  MainCalls(w)
BY DEF CallInv, ThreadTypes, FileTypes, MainCalls, fileVars

\* The thread goes on with its row and its group.
LEMMA MovedOn ==
  ASSUME CallInv, NEW w \in Worker, NEW pc \in MainPc,
         main[w].pc \notin RestPc,
         pc \in TodoPc => main[w].todo # <<>>,
         pc \in WorkPc \cup {"mark"} => main[w].pc \in WorkPc \cup {"mark"}
  PROVE  MainSound([main[w] EXCEPT !.pc = pc])
BY MainFields DEF MainSound, Main

LEMMA MovedOnWith ==
  ASSUME CallInv, NEW w \in Worker, NEW pc \in MainPc, NEW mem \in Live,
         NEW todo \in Seq(Child),
         main[w].pc \notin RestPc,
         pc \in TodoPc => todo # <<>>
  PROVE  MainSound([main[w] EXCEPT !.pc = pc, !.mem = mem, !.todo = todo])
<1>1. mem \in Record
  BY DEF Live, Record
<1> QED BY <1>1, MainFields DEF MainSound, Main

\* The thread has nothing in hand but interrupted rows.
LEMMA IdleSound ==
  ASSUME CallInv, NEW rows \in SUBSET RowIds
  PROVE  /\ MainSound(Idle)
         /\ MainSound([Idle EXCEPT !.pc = "dead"])
         /\ MainSound([Idle EXCEPT !.pc = "recover", !.rows = rows])
         /\ MainSound([Idle EXCEPT !.pc = "recover", !.rows = rows, !.late = TRUE])
<1>1. RowIds \subseteq 1 .. MaxRows /\ 0 \in 0 .. MaxRows
  BY QueueAssumption DEF CallInv, RowInv, RowTypes, RowIds
<1>2. Missing \in Record /\ <<>> \in Seq(Child)
  BY DEF Missing, Record
<1>3. Idle \in Main
  BY <1>1, <1>2 DEF Idle, Main, MainPc
<1>4. /\ Idle.rows = {} /\ Idle.pc = "idle"
      /\ [Idle EXCEPT !.pc = "dead"].rows = {} /\ [Idle EXCEPT !.pc = "dead"].pc = "dead"
  BY DEF Idle
<1> USE DEF MainSound, RestPc, TodoPc, WorkPc, EarlyPc, BetweenPc
<1>5. MainSound(Idle)
  BY <1>3, <1>4
<1>6. MainSound([Idle EXCEPT !.pc = "dead"])
  BY <1>3, <1>4 DEF Main, MainPc
<1>7. MainSound([Idle EXCEPT !.pc = "recover", !.rows = rows])
  BY <1>1, <1>3 DEF Main, MainPc
<1>8. MainSound([Idle EXCEPT !.pc = "recover", !.rows = rows, !.late = TRUE])
  BY <1>1, <1>3 DEF Main, MainPc
<1> QED BY <1>5, <1>6, <1>7, <1>8

\* update_group of the group in hand.
LEMMA SaveFacts ==
  ASSUME CallInv, NEW w \in Worker, NEW status \in Status,
         main[w].pc \in WorkPc \cup {"mark"}, SaveGroup(w, status)
  PROVE  /\ TheGroup(w) \in Group
         /\ group_json' \in [Group -> Live]
         /\ group_json'[TheGroup(w)] =
              [version |-> main[w].mem.version + 1,
               value |-> [main[w].mem.value EXCEPT !.status = status]]
         /\ Current(TheGroup(w), main[w].mem)
         /\ \A g \in Group : g # TheGroup(w) => group_json'[g] = group_json[g]
<1> DEFINE g == TheGroup(w)
           rec == Bumped(main[w].mem, [main[w].mem.value EXCEPT !.status = status])
<1>1. g \in Group /\ main[w].mem \in Live
  BY MainFields DEF RestPc, WorkPc, EarlyPc, BetweenPc
<1>2. rec \in Live
  BY <1>1, LiveFacts
<1>3. group_json' = [group_json EXCEPT ![g] = rec] /\ Current(g, main[w].mem)
  BY DEF SaveGroup, UpdateGroup
<1>4. rec = [version |-> main[w].mem.version + 1,
             value |-> [main[w].mem.value EXCEPT !.status = status]]
  BY DEF Bumped
<1>5. group_json \in [Group -> Live]
  BY DEF CallInv, FileTypes
<1> HIDE DEF rec, g
<1>6. group_json' \in [Group -> Live] /\ group_json'[g] = rec
  BY <1>1, <1>2, <1>3, <1>5
<1>7. \A h \in Group : h # g => group_json'[h] = group_json[h]
  BY <1>3, <1>5
<1> QED BY <1>1, <1>3, <1>4, <1>6, <1>7 DEF g

\* update_job writes a status.
LEMMA UpdateJobFacts ==
  ASSUME CallInv, NEW c \in Child, NEW status \in Status, UpdateJob(c, status)
  PROVE  job_json' \in [Child -> Status]
BY DEF UpdateJob, CallInv, FileTypes, Status, Terminal

-------------------------------------------------------------------------------
(* The steps of the main thread, one by one.                                *)

LEMMA RunOnceCalls ==
  ASSUME CallInv, NEW w \in Worker, RunOnce(w)
  PROVE  MainCalls(w)
<1> DEFINE rows == {r \in RowIds : AwaitsAcknowledgement(r)'}
<1>1. [NextQ]_queueVars /\ last_id' = last_id
  BY DEF RunOnce, RecoverStaleClaims, NextQ
<1>2. main[w] \in Main /\ main[w].pc = "idle"
  BY MainFields DEF RunOnce, At
<1>3. MainSound([main[w] EXCEPT !.pc = "recover", !.rows = rows])
  <2>1. rows \in SUBSET RowIds /\ RowIds \subseteq 1 .. MaxRows
    BY MainFields
  <2> HIDE DEF rows
  <2> QED BY <2>1, <1>2, MainFields
          DEF MainSound, Main, MainPc, RestPc, TodoPc, WorkPc, EarlyPc, BetweenPc
<1>4. main' = [main EXCEPT ![w] = [main[w] EXCEPT !.pc = "recover", !.rows = rows]]
  BY DEF RunOnce, CallInv, ThreadTypes
<1> QED BY <1>1, <1>3, <1>4, OnlyMain DEF RunOnce

\* What Reconciled(w) makes of the record.
LEMMA ReconciledSound ==
  ASSUME CallInv, NEW w \in Worker
  PROVE  MainSound(Reconciled(w))
<1>1. main[w].rows \in SUBSET RowIds
  BY MainFields DEF MainSound
<1> QED BY <1>1, IdleSound DEF Reconciled

LEMMA RecoverGroupCalls ==
  ASSUME CallInv, NEW w \in Worker, NEW r \in RowIds, RecoverGroup(w, r)
  PROVE  MainCalls(w)
<1> DEFINE g == queue_items[r].item
           pc == IF GroupStatus(g) = "INTERRUPTED" THEN "recoverChild" ELSE "mark"
           mem == [group_json[g] EXCEPT !.value.status = FinishedStatus(g, "INTERRUPTED")]
           m == [main[w] EXCEPT !.pc = pc, !.row = r, !.rows = @ \ {r},
                                !.todo = Children(g), !.mem = mem]
<1>1. g \in Group /\ g \in Item
  BY ChildFacts DEF CallInv
<1>2. [NextQ]_queueVars /\ last_id' = last_id
  BY <1>1 DEF RecoverGroup, FinishExecution, NextQ
<1>3. mem \in Live /\ mem \in Record
  <2>1. FinishedStatus(g, "INTERRUPTED") \in Status
    BY DEF FinishedStatus, Status, Terminal
  <2>2. group_json[g] \in Live
    BY <1>1, GroupFields
  <2>3. mem \in Live
    BY <2>1, <2>2, LiveFacts
  <2> HIDE DEF mem
  <2> QED BY <2>3 DEF Live, Record
<1>4. MainSound(m)
  <2>1. pc \in {"recoverChild", "mark"} /\ Children(g) \in Seq(Child)
    BY <1>1, ChildrenFacts
  <2>2. main[w].rows \ {r} \subseteq RowIds /\ r \in 1 .. MaxRows /\ r \in 0 .. MaxRows
        /\ RowIds \subseteq 1 .. MaxRows
    BY MainFields DEF MainSound
  <2> HIDE DEF mem, pc, g
  <2> QED BY <1>3, <2>1, <2>2, MainFields
          DEF MainSound, Main, MainPc, RestPc, TodoPc, WorkPc, EarlyPc, BetweenPc
<1>5. main' = [main EXCEPT ![w] = m]
  BY DEF RecoverGroup, CallInv, ThreadTypes
<1> HIDE DEF m
<1> QED BY <1>2, <1>4, <1>5, OnlyMain DEF RecoverGroup

LEMMA MarkGroupCalls ==
  ASSUME CallInv, NEW w \in Worker, MarkGroup(w)
  PROVE  MainCalls(w)
<1>1. main[w].pc = "mark" /\ main[w].mem.value.status \in Status
  BY MainFields DEF MarkGroup, At
<1>2. FileTypes'
  BY <1>1, SaveFacts DEF MarkGroup, CallInv, FileTypes
<1>3. MainSound([main[w] EXCEPT !.pc = "recoverChild"])
  BY <1>1, MovedOn DEF MainPc, RestPc, TodoPc, WorkPc, EarlyPc, BetweenPc
<1>4. main' = [main EXCEPT ![w] = [main[w] EXCEPT !.pc = "recoverChild"]]
  BY DEF MarkGroup, Goto, CallInv, ThreadTypes
<1> QED BY <1>2, <1>3, <1>4 DEF MarkGroup, MainCalls, queueVars, CallInv, ThreadTypes

LEMMA MarkConflictsCalls ==
  ASSUME CallInv, NEW w \in Worker, MarkConflicts(w)
  PROVE  MainCalls(w)
BY ReconciledSound, OnlyMain DEF MarkConflicts, queueVars

LEMMA RecoverChildCalls ==
  ASSUME CallInv, NEW w \in Worker, RecoverChild(w)
  PROVE  MainCalls(w)
<1> DEFINE c == Head(main[w].todo)
<1>1. main[w].pc = "recoverChild" /\ main[w].todo \in Seq(Child)
  BY MainFields DEF RecoverChild, At
<1>2. CASE UNCHANGED queueVars /\ Goto(w, "acknowledge")
  <2>1. MainSound([main[w] EXCEPT !.pc = "acknowledge"])
    BY <1>1, MovedOn DEF MainPc, RestPc, TodoPc, WorkPc, EarlyPc, BetweenPc
  <2> QED BY <1>2, <2>1, OnlyMain DEF RecoverChild, Goto, CallInv, ThreadTypes, queueVars
<1>3. CASE main[w].todo # <<>> /\ FinishExecution(c) /\ Goto(w, "markChild")
  <2>1. MainSound([main[w] EXCEPT !.pc = "markChild"])
    BY <1>1, <1>3, MovedOn DEF MainPc, RestPc, TodoPc, WorkPc, EarlyPc, BetweenPc
  <2>2. c \in Item
    BY <1>1, <1>3, LoopFacts, GroupExecutionAssumption
  <2>3. [NextQ]_queueVars /\ last_id' = last_id
    BY <1>3, <2>2 DEF NextQ, FinishExecution
  <2> QED BY <1>3, <2>1, <2>3, OnlyMain DEF RecoverChild, Goto, CallInv, ThreadTypes
<1>4. CASE /\ main[w].todo # <<>> /\ UNCHANGED queueVars
           /\ main' = [main EXCEPT ![w].todo = Tail(@)]
  <2>1. Tail(main[w].todo) \in Seq(Child)
    BY <1>1, <1>4, LoopFacts
  <2>2. MainSound([main[w] EXCEPT !.todo = Tail(main[w].todo)])
    BY <1>1, <2>1, MainFields DEF MainSound, Main, TodoPc, WorkPc, EarlyPc, BetweenPc
  <2>3. main' = [main EXCEPT ![w] = [main[w] EXCEPT !.todo = Tail(main[w].todo)]]
    BY <1>4 DEF CallInv, ThreadTypes
  <2> QED BY <1>4, <2>2, <2>3, OnlyMain DEF RecoverChild, queueVars
<1> QED BY <1>2, <1>3, <1>4 DEF RecoverChild

LEMMA MarkChildCalls ==
  ASSUME CallInv, NEW w \in Worker, MarkChild(w)
  PROVE  MainCalls(w)
<1>1. /\ main[w].pc = "markChild" /\ main[w].todo \in Seq(Child) /\ main[w].todo # <<>>
  BY MainFields DEF MarkChild, At, MainSound, TodoPc
<1>2. Head(main[w].todo) \in Child /\ Tail(main[w].todo) \in Seq(Child)
  BY <1>1, LoopFacts
<1>3. FileTypes'
  BY <1>2, UpdateJobFacts DEF MarkChild, CallInv, FileTypes, Status, Terminal
<1>4. MainSound([main[w] EXCEPT !.pc = "recoverChild", !.todo = Tail(main[w].todo)])
  BY <1>1, <1>2, MainFields
  DEF MainSound, Main, MainPc, RestPc, TodoPc, WorkPc, EarlyPc, BetweenPc
<1>5. main' = [main EXCEPT ![w] = [main[w] EXCEPT !.pc = "recoverChild",
                                                  !.todo = Tail(main[w].todo)]]
  BY DEF MarkChild, CallInv, ThreadTypes
<1> QED BY <1>3, <1>4, <1>5 DEF MarkChild, MainCalls, queueVars, CallInv, ThreadTypes

LEMMA AcknowledgeCalls ==
  ASSUME CallInv, NEW w \in Worker, Acknowledge(w)
  PROVE  MainCalls(w)
<1> DEFINE r == main[w].row
<1>1. r \in RowIds
  BY MainFields DEF Acknowledge, At, RestPc
<1>2. [NextQ]_queueVars /\ last_id' = last_id
  <2>1. CASE UNCHANGED queueVars
    BY <2>1 DEF queueVars
  <2>2. CASE AcknowledgeInterruptedClaim(r, queue_items[r].claimed_by)
    <3>1. queue_items[r].claimed_by \in Worker
      BY <1>1, <2>2 DEF AcknowledgeInterruptedClaim, AwaitsAcknowledgement, CallInv,
                        RowInv, RowTypes, Row
    <3> QED BY <1>1, <2>2, <3>1 DEF NextQ, AcknowledgeInterruptedClaim
  <2> QED BY <2>1, <2>2 DEF Acknowledge
<1> QED BY <1>2, ReconciledSound, OnlyMain DEF Acknowledge

LEMMA ClaimCalls ==
  ASSUME CallInv, NEW w \in Worker, Claim(w)
  PROVE  MainCalls(w)
<1>1. main[w].pc = "recover"
  BY DEF Claim, At
<1>2. CASE UNCHANGED queueVars /\ main' = [main EXCEPT ![w] = Idle]
  BY <1>2, IdleSound, OnlyMain DEF Claim, queueVars
<1>3. ASSUME NEW r \in RowIds, ClaimNext(r, w),
             main' = [main EXCEPT ![w].pc = "load", ![w].row = r]
      PROVE  MainCalls(w)
  <2>1. [NextQ]_queueVars /\ last_id' = last_id
    BY <1>3 DEF NextQ, ClaimNext
  <2>2. r \in 0 .. MaxRows
    BY <1>3, MainFields
  <2>3. MainSound([main[w] EXCEPT !.pc = "load", !.row = r])
    BY <1>3, <2>2, MainFields
    DEF MainSound, Main, MainPc, RestPc, TodoPc, WorkPc, EarlyPc, BetweenPc
  <2>4. main' = [main EXCEPT ![w] = [main[w] EXCEPT !.pc = "load", !.row = r]]
    BY <1>3 DEF CallInv, ThreadTypes
  <2> QED BY <2>1, <2>3, <2>4, OnlyMain DEF Claim
<1> QED BY <1>2, <1>3 DEF Claim

LEMMA LoadCalls ==
  ASSUME CallInv, NEW w \in Worker, Load(w)
  PROVE  MainCalls(w)
<1> DEFINE g == TheGroup(w)
<1>1. main[w].pc = "load" /\ g \in Group
  BY MainFields DEF Load, At, RestPc
<1>2. CASE main' = [main EXCEPT ![w].pc = "begin", ![w].mem = group_json[g]]
  <2>1. MainSound([main[w] EXCEPT !.pc = "begin", !.mem = group_json[g]])
    <3>1. group_json[g] \in Live /\ group_json[g] \in Record
      BY <1>1, GroupFields
    <3> HIDE DEF g
    <3> QED BY <1>1, <3>1, MainFields DEF MainSound, Main, MainPc, RestPc, TodoPc
  <2>2. main' = [main EXCEPT ![w] = [main[w] EXCEPT !.pc = "begin", !.mem = group_json[g]]]
    BY <1>2 DEF CallInv, ThreadTypes
  <2> QED BY <2>1, <2>2, OnlyMain DEF Load, queueVars
<1>3. CASE main' = [main EXCEPT ![w].pc = "complete"]
  <2>1. MainSound([main[w] EXCEPT !.pc = "complete"])
    BY <1>1, MovedOn DEF MainPc, RestPc, TodoPc, WorkPc, EarlyPc, BetweenPc
  <2>2. main' = [main EXCEPT ![w] = [main[w] EXCEPT !.pc = "complete"]]
    BY <1>3 DEF CallInv, ThreadTypes
  <2> QED BY <2>1, <2>2, OnlyMain DEF Load, queueVars
<1> QED BY <1>2, <1>3 DEF Load

LEMMA BeginCalls ==
  ASSUME CallInv, NEW w \in Worker, Begin(w)
  PROVE  MainCalls(w)
<1> DEFINE g == TheGroup(w)
           pc == IF BeginGranted(g) THEN "start" ELSE "complete"
<1>1. main[w].pc = "begin" /\ g \in Item
  BY MainFields, ChildFacts DEF Begin, At, RestPc
<1>2. [NextQ]_queueVars /\ last_id' = last_id
  BY <1>1 DEF Begin, BeginExecution, NextQ
<1>3. MainSound([main[w] EXCEPT !.pc = pc])
  BY <1>1, MovedOn DEF MainPc, RestPc, TodoPc, WorkPc, EarlyPc, BetweenPc
<1>4. main' = [main EXCEPT ![w] = [main[w] EXCEPT !.pc = pc]]
  BY DEF Begin, Goto, CallInv, ThreadTypes
<1> QED BY <1>2, <1>3, <1>4, OnlyMain DEF Begin

\* The except branch leaves a live object.
LEMMA FailSound ==
  ASSUME CallInv, NEW w \in Worker, main[w].pc \in WorkPc, Fail(w)
  PROVE  /\ main' = [main EXCEPT ![w] = main'[w]]
         /\ MainSound(main'[w])
<1> DEFINE mem == [main[w].mem EXCEPT !.value.status = "FAILED"]
<1>1. mem \in Live /\ main[w].todo \in Seq(Child)
  BY LiveFacts, MainFields DEF Status, Terminal
<1>2. main' = [main EXCEPT ![w] = [main[w] EXCEPT !.pc = "finish", !.mem = mem,
                                                  !.todo = main[w].todo]]
  BY MainFields DEF Fail, Main
<1> HIDE DEF mem
<1>3. MainSound([main[w] EXCEPT !.pc = "finish", !.mem = mem, !.todo = main[w].todo])
  BY <1>1, MovedOnWith DEF MainPc, RestPc, TodoPc, WorkPc, EarlyPc, BetweenPc
<1> QED BY <1>2, <1>3 DEF CallInv, ThreadTypes

\* A save of the group in hand that the thread goes on with.
LEMMA SavedSound ==
  ASSUME CallInv, NEW w \in Worker, main[w].pc \in WorkPc, SaveGroup(w, "RUNNING"),
         NEW pc \in MainPc, NEW todo \in Seq(Child), todo # <<>>,
         main' = [main EXCEPT ![w].pc = pc, ![w].mem = group_json'[TheGroup(w)],
                              ![w].todo = todo]
  PROVE  /\ group_json' \in [Group -> Live]
         /\ main' = [main EXCEPT ![w] = main'[w]]
         /\ MainSound(main'[w])
<1> DEFINE mem == group_json'[TheGroup(w)]
<1>1. /\ group_json' \in [Group -> Live] /\ mem \in Live
      /\ main[w].pc \notin RestPc
  BY SaveFacts DEF Status, RestPc, WorkPc, EarlyPc, BetweenPc
<1>2. main' = [main EXCEPT ![w] = [main[w] EXCEPT !.pc = pc, !.mem = mem, !.todo = todo]]
  BY DEF CallInv, ThreadTypes
<1> HIDE DEF mem
<1>3. MainSound([main[w] EXCEPT !.pc = pc, !.mem = mem, !.todo = todo])
  BY <1>1, MovedOnWith
<1> QED BY <1>1, <1>2, <1>3 DEF CallInv, FileTypes, ThreadTypes

LEMMA SaveProgressCalls ==
  ASSUME CallInv, NEW w \in Worker,
         NEW from \in {"start", "shared", "nextSave"},
         NEW to \in {"prepare", "children", "next"},
         SaveProgress(w, from, to)
  PROVE  MainCalls(w)
<1>1. main[w].pc = from /\ from \in WorkPc /\ to \in MainPc
  BY DEF SaveProgress, At, WorkPc, EarlyPc, BetweenPc, MainPc
<1>2. /\ Children(TheGroup(w)) \in Seq(Child) /\ Children(TheGroup(w)) # <<>>
  BY <1>1, MainFields, ChildrenFacts DEF RestPc
<1>3. /\ FileTypes'
      /\ main' = [main EXCEPT ![w] = main'[w]]
      /\ MainSound(main'[w])
  BY <1>1, <1>2, SavedSound, FailSound DEF SaveProgress, CallInv, FileTypes
<1> QED BY <1>3 DEF SaveProgress, MainCalls, queueVars, CallInv, ThreadTypes

LEMMA PrepareCalls ==
  ASSUME CallInv, NEW w \in Worker,
         NEW from \in {"prepare", "prepareNext"}, NEW to \in {"shared", "nextSave"},
         Prepare(w, from, to)
  PROVE  MainCalls(w)
<1> DEFINE pc == IF CancelRequested(TheGroup(w)) THEN "finish" ELSE to
<1>1. main[w].pc \in WorkPc /\ main[w].pc \notin RestPc
  BY DEF Prepare, At, WorkPc, EarlyPc, BetweenPc, RestPc
<1>2. MainSound([main[w] EXCEPT !.pc = pc])
  BY <1>1, MovedOn DEF MainPc, RestPc, TodoPc, WorkPc, EarlyPc, BetweenPc
<1>3. CASE Goto(w, pc)
  <2>1. main' = [main EXCEPT ![w] = [main[w] EXCEPT !.pc = pc]]
    BY <1>3 DEF Goto, CallInv, ThreadTypes
  <2> QED BY <1>2, <2>1, OnlyMain DEF Prepare, queueVars
<1>4. CASE Fail(w)
  BY <1>1, <1>4, FailSound
  DEF Prepare, MainCalls, queueVars, fileVars, CallInv, ThreadTypes, FileTypes
<1> QED BY <1>3, <1>4 DEF Prepare

LEMMA UpdateChildrenCalls ==
  ASSUME CallInv, NEW w \in Worker, UpdateChildren(w)
  PROVE  MainCalls(w)
<1> DEFINE pc == IF Len(main[w].todo) = 1 THEN "progress" ELSE "children"
<1>1. /\ main[w].pc = "children" /\ main[w].todo \in Seq(Child) /\ main[w].todo # <<>>
  BY MainFields DEF UpdateChildren, At, MainSound, TodoPc
<1>2. /\ Head(main[w].todo) \in Child /\ Tail(main[w].todo) \in Seq(Child)
      /\ pc \in TodoPc => Tail(main[w].todo) # <<>>
  BY <1>1, LoopFacts DEF TodoPc
<1>3. FileTypes'
  BY <1>2, UpdateJobFacts DEF UpdateChildren, CallInv, FileTypes, Status, Terminal
<1>4. MainSound([main[w] EXCEPT !.pc = pc, !.todo = Tail(main[w].todo)])
  BY <1>1, <1>2, MainFields
  DEF MainSound, Main, MainPc, RestPc, TodoPc, WorkPc, EarlyPc, BetweenPc
<1>5. main' = [main EXCEPT ![w] = [main[w] EXCEPT !.pc = pc, !.todo = Tail(main[w].todo)]]
  BY <1>1 DEF UpdateChildren, CallInv, ThreadTypes
<1> QED BY <1>3, <1>4, <1>5 DEF UpdateChildren, MainCalls, queueVars, CallInv, ThreadTypes

\* A submission to the heavy executor.
LEMMA SubmitTypes ==
  ASSUME CallInv, NEW w \in Worker, NEW cs, Submit(w, cs)
  PROVE  run' \in [Worker -> [Child -> Run]]
<1>1. [NotRunning EXCEPT !.pc = "heavy"] \in Run
  BY DEF NotRunning, Run, RunPc, Status
<1> QED BY <1>1 DEF Submit, CallInv, ThreadTypes

LEMMA StartChildrenCalls ==
  ASSUME CallInv, NEW w \in Worker, StartChildren(w)
  PROVE  MainCalls(w)
<1> DEFINE batch == FirstBatch(TheGroup(w))
<1>1. main[w].pc = "progress" /\ main[w].pc \in WorkPc /\ "wait" \in MainPc
  BY DEF StartChildren, At, WorkPc, EarlyPc, MainPc
<1>2. batch \in Seq(Child) /\ batch # <<>>
  BY <1>1, MainFields, ChildrenFacts DEF RestPc
<1>3. /\ FileTypes'
      /\ main' = [main EXCEPT ![w] = main'[w]]
      /\ MainSound(main'[w])
  BY <1>1, <1>2, SavedSound, FailSound DEF StartChildren, CallInv, FileTypes
<1>4. run' \in [Worker -> [Child -> Run]]
  BY SubmitTypes DEF StartChildren, CallInv, ThreadTypes
<1> QED BY <1>3, <1>4 DEF StartChildren, MainCalls, queueVars, CallInv

LEMMA WaitForChildCalls ==
  ASSUME CallInv, NEW w \in Worker, WaitForChild(w)
  PROVE  MainCalls(w)
<1> DEFINE c == Head(main[w].todo)
           rest == Tail(main[w].todo)
           failed == AnyChildFailed(w, c)
<1>1. /\ main[w].pc = "wait" /\ main[w].todo \in Seq(Child) /\ main[w].todo # <<>>
  BY MainFields DEF WaitForChild, At, MainSound, TodoPc
<1>2. rest \in Seq(Child) /\ failed \in BOOLEAN
  BY <1>1, LoopFacts, MainFields DEF AnyChildFailed, Main
<1>3. PICK pc \in {"finish", "prepareNext", "nextChild", "conclude", "wait"} :
        /\ main' = [main EXCEPT ![w].todo = rest, ![w].failed = failed, ![w].pc = pc]
        /\ pc = "wait" => rest # <<>>
  BY DEF WaitForChild, AfterReplacement
<1> HIDE DEF rest, failed
<1>4. MainSound([main[w] EXCEPT !.todo = rest, !.failed = failed, !.pc = pc])
  BY <1>1, <1>2, <1>3, MainFields
  DEF MainSound, Main, MainPc, RestPc, TodoPc, WorkPc, EarlyPc, BetweenPc
<1>5. main' = [main EXCEPT ![w] = [main[w] EXCEPT !.todo = rest, !.failed = failed, !.pc = pc]]
  BY <1>3 DEF CallInv, ThreadTypes
<1> QED BY <1>4, <1>5, OnlyMain DEF WaitForChild, queueVars

LEMMA GiveUpWaitingCalls ==
  ASSUME CallInv, NEW w \in Worker, GiveUpWaiting(w)
  PROVE  MainCalls(w)
<1>1. main[w].pc \in WorkPc
  BY DEF GiveUpWaiting, At, WorkPc
<1>2. faults' \in 0 .. MaxFaults
  BY GroupExecutionAssumption DEF GiveUpWaiting, CallInv
<1> QED BY <1>1, <1>2, FailSound
        DEF GiveUpWaiting, MainCalls, queueVars, fileVars, CallInv, ThreadTypes, FileTypes

LEMMA FailDeliverableCalls ==
  ASSUME CallInv, NEW w \in Worker, FailDeliverable(w)
  PROVE  MainCalls(w)
<1>1. main[w].pc = "nextChild" /\ DeliverableOf[TheGroup(w)] \in Child
  BY MainFields, ChildFacts DEF FailDeliverable, At, RestPc
<1>2. FileTypes'
  BY <1>1, UpdateJobFacts DEF FailDeliverable, CallInv, FileTypes, Status, Terminal
<1>3. MainSound([main[w] EXCEPT !.pc = "conclude", !.failed = TRUE])
  BY <1>1, MainFields DEF MainSound, Main, MainPc, RestPc, TodoPc, WorkPc, EarlyPc, BetweenPc
<1>4. main' = [main EXCEPT ![w] = [main[w] EXCEPT !.pc = "conclude", !.failed = TRUE]]
  BY DEF FailDeliverable, CallInv, ThreadTypes
<1> QED BY <1>2, <1>3, <1>4 DEF FailDeliverable, MainCalls, queueVars, CallInv, ThreadTypes

LEMMA StartDeliverableCalls ==
  ASSUME CallInv, NEW w \in Worker, StartDeliverable(w)
  PROVE  MainCalls(w)
<1> DEFINE c == DeliverableOf[TheGroup(w)]
<1>1. /\ main[w].pc = "next" /\ c \in Child /\ <<c>> \in Seq(Child) /\ <<c>> # <<>>
  BY MainFields, ChildFacts, ChildrenFacts DEF StartDeliverable, At, RestPc
<1>2. FileTypes'
  BY <1>1, UpdateJobFacts DEF StartDeliverable, CallInv, FileTypes, Status, Terminal
<1>3. MainSound([main[w] EXCEPT !.pc = "wait", !.todo = <<c>>])
  <2> HIDE DEF c
  <2> QED BY <1>1, MainFields
          DEF MainSound, Main, MainPc, RestPc, TodoPc, WorkPc, EarlyPc, BetweenPc
<1>4. main' = [main EXCEPT ![w] = [main[w] EXCEPT !.pc = "wait", !.todo = <<c>>]]
  BY DEF StartDeliverable, CallInv, ThreadTypes
<1>5. run' \in [Worker -> [Child -> Run]]
  BY SubmitTypes DEF StartDeliverable
<1> QED BY <1>2, <1>3, <1>4, <1>5 DEF StartDeliverable, MainCalls, queueVars, CallInv, ThreadTypes

\* The thread goes on with its group in another status.
LEMMA RestatusSound ==
  ASSUME CallInv, NEW w \in Worker, main[w].pc \in WorkPc, NEW pc \in {"finish", "save"},
         NEW status \in Status,
         main' = [main EXCEPT ![w].pc = pc, ![w].mem.value.status = status]
  PROVE  /\ main' = [main EXCEPT ![w] = main'[w]]
         /\ MainSound(main'[w])
<1> DEFINE mem == [main[w].mem EXCEPT !.value.status = status]
<1>1. mem \in Live /\ main[w].todo \in Seq(Child)
  BY LiveFacts, MainFields
<1>2. main' = [main EXCEPT ![w] = [main[w] EXCEPT !.pc = pc, !.mem = mem,
                                                  !.todo = main[w].todo]]
  BY MainFields DEF Main
<1> HIDE DEF mem
<1>3. MainSound([main[w] EXCEPT !.pc = pc, !.mem = mem, !.todo = main[w].todo])
  BY <1>1, MovedOnWith DEF MainPc, RestPc, TodoPc, WorkPc, EarlyPc, BetweenPc
<1> QED BY <1>2, <1>3 DEF CallInv, ThreadTypes

LEMMA ConcludeCalls ==
  ASSUME CallInv, NEW w \in Worker, Conclude(w)
  PROVE  MainCalls(w)
<1> DEFINE status == IF CancelRequested(TheGroup(w)) THEN "RUNNING"
                     ELSE IF main[w].failed THEN "FAILED" ELSE "SUCCEEDED"
<1>1. main[w].pc \in WorkPc /\ status \in Status
  BY DEF Conclude, At, WorkPc, Status, Terminal
<1> HIDE DEF status
<1>2. main' = [main EXCEPT ![w].pc = "finish", ![w].mem.value.status = status]
  BY DEF Conclude, status
<1>3. main' = [main EXCEPT ![w] = main'[w]] /\ MainSound(main'[w])
  BY <1>1, <1>2, RestatusSound
<1> QED BY <1>3 DEF Conclude, MainCalls, queueVars, fileVars, CallInv, ThreadTypes, FileTypes

LEMMA FinishCalls ==
  ASSUME CallInv, NEW w \in Worker, Finish(w)
  PROVE  MainCalls(w)
<1> DEFINE g == TheGroup(w)
           status == FinishedStatus(g, main[w].mem.value.status)
<1>1. main[w].pc = "finish" /\ main[w].pc \in WorkPc /\ g \in Item /\ status \in Status
  BY MainFields, ChildFacts DEF Finish, At, WorkPc, RestPc, FinishedStatus, Status, Terminal
<1>2. [NextQ]_queueVars /\ last_id' = last_id
  BY <1>1 DEF Finish, FinishExecution, NextQ
<1> HIDE DEF status
<1>3. main' = [main EXCEPT ![w].pc = "save", ![w].mem.value.status = status]
  BY MainFields DEF Finish, status, CallInv, ThreadTypes
<1>4. main' = [main EXCEPT ![w] = main'[w]] /\ MainSound(main'[w])
  BY <1>1, <1>3, RestatusSound
<1> QED BY <1>2, <1>4 DEF Finish, MainCalls, fileVars, CallInv, ThreadTypes, FileTypes

LEMMA SaveOutcomeCalls ==
  ASSUME CallInv, NEW w \in Worker, SaveOutcome(w)
  PROVE  MainCalls(w)
<1>1. main[w].pc = "save" /\ main[w].pc \in WorkPc /\ main[w].mem.value.status \in Status
  BY MainFields DEF SaveOutcome, At, WorkPc
<1>2. FileTypes'
  BY <1>1, SaveFacts DEF SaveOutcome, CallInv, FileTypes
<1>3. PICK raised \in BOOLEAN :
        main' = [main EXCEPT ![w] = [main[w] EXCEPT !.pc = "complete", !.raised = raised]]
  <2>1. CASE Goto(w, "complete")
    <3>1. main' = [main EXCEPT ![w] = [main[w] EXCEPT !.pc = "complete",
                                                      !.raised = main[w].raised]]
      BY <2>1, MainFields DEF Goto, CallInv, ThreadTypes, Main
    <3> QED BY <3>1, MainFields DEF Main
  <2>2. CASE main' = [main EXCEPT ![w].pc = "complete", ![w].raised = TRUE]
    BY <2>2 DEF CallInv, ThreadTypes
  <2> QED BY <2>1, <2>2 DEF SaveOutcome
<1>4. MainSound([main[w] EXCEPT !.pc = "complete", !.raised = raised])
  BY <1>1, MainFields DEF MainSound, Main, MainPc, RestPc, TodoPc, WorkPc, EarlyPc, BetweenPc
<1> QED BY <1>2, <1>3, <1>4 DEF SaveOutcome, MainCalls, queueVars, CallInv, ThreadTypes

LEMMA CompleteCalls ==
  ASSUME CallInv, NEW w \in Worker, Complete(w)
  PROVE  MainCalls(w)
<1> DEFINE r == main[w].row
<1>1. r \in RowIds /\ {r} \in SUBSET RowIds
  BY MainFields DEF Complete, At, RestPc
<1>2. CASE CompleteClaim(r, w, RowOutcome(w)) /\ main' = [main EXCEPT ![w] = Idle]
  <2>1. RowOutcome(w) \in {"done", "failed", "cancelled"}
    BY DEF RowOutcome
  <2>2. [NextQ]_queueVars /\ last_id' = last_id
    BY <1>1, <1>2, <2>1 DEF NextQ, CompleteClaim
  <2> QED BY <1>2, <2>2, IdleSound, OnlyMain DEF Complete
<1>3. CASE UNCHANGED queueVars
  BY <1>1, <1>3, IdleSound, OnlyMain DEF Complete, queueVars
<1> QED BY <1>2, <1>3 DEF Complete

\* Every step of a main thread that lives.
LEMMA MainStepCalls ==
  ASSUME CallInv, NEW w \in Worker, MainStep(w) \/ GiveUpWaiting(w)
  PROVE  MainCalls(w)
BY RunOnceCalls, RecoverGroupCalls, MarkGroupCalls, MarkConflictsCalls, RecoverChildCalls,
   MarkChildCalls, AcknowledgeCalls, ClaimCalls, LoadCalls, BeginCalls, SaveProgressCalls,
   PrepareCalls, UpdateChildrenCalls, StartChildrenCalls, WaitForChildCalls,
   GiveUpWaitingCalls, FailDeliverableCalls, StartDeliverableCalls, ConcludeCalls,
   FinishCalls, SaveOutcomeCalls, CompleteCalls
DEF MainStep

-------------------------------------------------------------------------------
(* The steps of the executors, of the API and of time.                      *)

ChildCalls(w, c) ==
  /\ [NextQ]_queueVars
  /\ last_id' = last_id
  /\ job_json' \in [Child -> Status]
  /\ UNCHANGED <<group_json, main, api, faults>>
  /\ run[w][c].pc # "none"
  /\ run' = [run EXCEPT ![w][c] = run'[w][c]]
  /\ run'[w][c] \in Run

LEMMA RunFields ==
  ASSUME CallInv, NEW w \in Worker, NEW c \in Child
  PROVE  /\ c \in Item
         /\ run[w][c] \in Run /\ run[w][c].mem \in Status
         /\ job_json[c] \in Status
         /\ run \in [Worker -> [Child -> Run]]
         /\ job_json \in [Child -> Status]
BY GroupExecutionAssumption DEF CallInv, ThreadTypes, FileTypes, Run

\* Every step of a child is a step of the store.
LEMMA ChildQueue ==
  ASSUME CallInv, NEW w \in Worker, NEW c \in Child, ChildStep(w, c)
  PROVE  [NextQ]_queueVars /\ last_id' = last_id
<1>1. c \in Item
  BY RunFields
<1>2. CASE UNCHANGED queueVars
  BY <1>2 DEF queueVars
<1>3. CASE BeginExecution(c) \/ FinishExecution(c)
  BY <1>1, <1>3 DEF NextQ, BeginExecution, FinishExecution
<1> QED BY <1>2, <1>3
        DEF ChildStep, LoadChild, BeginChild, AcquireSlot, Process, SlotBoundStages,
            UpdateAfterStages, HandOver, FinishChild, ReleaseSlot, StartDocuments,
            MakeDocuments, FinishDocuments, FinishJob

\* ... and writes a status.
LEMMA ChildFile ==
  ASSUME CallInv, NEW w \in Worker, NEW c \in Child, ChildStep(w, c)
  PROVE  job_json' \in [Child -> Status]
<1>1. run[w][c].mem \in Status /\ job_json[c] \in Status /\ job_json \in [Child -> Status]
  BY RunFields
<1>2. CASE UNCHANGED job_json
  BY <1>1, <1>2
<1>3. CASE \E status \in Status : UpdateJob(c, status)
  BY <1>3, UpdateJobFacts
<1>4. CASE \E status \in Status : job_json' = [job_json EXCEPT ![c] = status]
  BY <1>1, <1>4
<1>5. CASE \E status \in Status : FinishJob(c, status)
  BY <1>1, <1>5 DEF FinishJob, FinishedStatus, Status, Terminal
<1>6. {"RUNNING", "SUCCEEDED", "FAILED"} \subseteq Status
  BY DEF Status, Terminal
<1> QED BY <1>1, <1>2, <1>3, <1>4, <1>5, <1>6
        DEF ChildStep, LoadChild, BeginChild, AcquireSlot, Process, SlotBoundStages,
            UpdateAfterStages, HandOver, FinishChild, ReleaseSlot, StartDocuments,
            MakeDocuments, FinishDocuments, fileVars

\* ... and changes its own record only.
LEMMA ChildRun ==
  ASSUME CallInv, NEW w \in Worker, NEW c \in Child, ChildStep(w, c)
  PROVE  /\ run[w][c].pc # "none"
         /\ run' = [run EXCEPT ![w][c] = run'[w][c]]
         /\ run'[w][c] \in Run
<1>1. run[w][c] \in Run /\ run \in [Worker -> [Child -> Run]]
  BY RunFields
<1>2. ASSUME NEW pc \in RunPc, RunTo(w, c, pc)
      PROVE  run' = [run EXCEPT ![w][c] = run'[w][c]] /\ run'[w][c] \in Run
  BY <1>1, <1>2 DEF RunTo, Run
<1>3. ASSUME NEW n \in Run, run' = [run EXCEPT ![w][c] = n]
      PROVE  run' = [run EXCEPT ![w][c] = run'[w][c]] /\ run'[w][c] \in Run
  BY <1>1, <1>3
<1>4. run[w][c].pc # "none"
  BY DEF ChildStep, LoadChild, BeginChild, AcquireSlot, Process, SlotBoundStages,
         UpdateAfterStages, HandOver, FinishChild, ReleaseSlot, StartDocuments,
         MakeDocuments, FinishDocuments
<1>5. CASE LoadChild(w, c) \/ BeginChild(w, c) \/ AcquireSlot(w, c) \/ HandOver(w, c)
           \/ FinishChild(w, c) \/ ReleaseSlot(w, c) \/ StartDocuments(w, c)
  <2>1. \E pc \in RunPc : RunTo(w, c, pc)
    BY <1>5 DEF LoadChild, BeginChild, AcquireSlot, HandOver, FinishChild, ReleaseSlot,
                StartDocuments, RunPc, HoldingPc
  <2> QED BY <1>2, <1>4, <2>1
<1>6. CASE Process(w, c) \/ SlotBoundStages(w, c)
  <2>1. (\E pc \in RunPc : RunTo(w, c, pc)) \/ \E n \in Run : run' = [run EXCEPT ![w][c] = n]
    BY <1>6 DEF Process, SlotBoundStages, Run, RunPc, HoldingPc, Status, Terminal
  <2> QED BY <1>2, <1>3, <1>4, <2>1
<1>7. CASE UpdateAfterStages(w, c)
  <2>1. job_json'[c] \in Status
    BY ChildFile DEF ChildStep
  <2>2. [pc |-> "boundary", mem |-> job_json'[c]] \in Run
    BY <1>7, <2>1, ChildFile DEF ChildStep, Run, RunPc, HoldingPc
  <2> QED BY <1>3, <1>4, <1>7, <2>2 DEF UpdateAfterStages
<1>8. CASE MakeDocuments(w, c) \/ FinishDocuments(w, c)
  <2>1. \E n \in Run : run' = [run EXCEPT ![w][c] = n]
    BY <1>8 DEF MakeDocuments, FinishDocuments, NotRunning, Run, RunPc, Status, Terminal
  <2> QED BY <1>3, <1>4, <2>1
<1> QED BY <1>4, <1>5, <1>6, <1>7, <1>8 DEF ChildStep

LEMMA ChildStepCalls ==
  ASSUME CallInv, NEW w \in Worker, NEW c \in Child, ChildStep(w, c)
  PROVE  ChildCalls(w, c)
<1>1. UNCHANGED <<group_json, main, api, faults>>
  BY DEF ChildStep, LoadChild, BeginChild, AcquireSlot, Process, SlotBoundStages,
         UpdateAfterStages, HandOver, FinishChild, ReleaseSlot, StartDocuments,
         MakeDocuments, FinishDocuments, fileVars
<1> QED BY <1>1, ChildQueue, ChildFile, ChildRun DEF ChildCalls

ApiCalls(g) ==
  /\ [NextQ]_queueVars
  /\ last_id' = last_id \/ Enqueue(g)
  /\ FileTypes'
  /\ UNCHANGED <<main, run, faults>>
  /\ api' = [api EXCEPT ![g] = api'[g]]
  /\ ApiSound(api'[g])

LEMMA ApiFields ==
  ASSUME CallInv, NEW g \in Group
  PROVE  /\ ApiSound(api[g]) /\ api[g] \in Api
         /\ api[g].mem \in Live \cup {Missing}
         /\ api[g].todo \in Seq(Child)
         /\ api[g].todo # <<>> =>
              /\ Head(api[g].todo) \in Child /\ Head(api[g].todo) \in Item
              /\ Tail(api[g].todo) \in Seq(Child)
<1>1. ApiSound(api[g]) /\ api[g] \in Api /\ api[g].mem \in Live \cup {Missing}
      /\ api[g].todo \in Seq(Child)
  BY DEF CallInv, ThreadTypes, ApiSound, Api
<1> QED BY <1>1, LoopFacts, GroupExecutionAssumption

LEMMA ApiStepCalls ==
  ASSUME CallInv, NEW g \in Group, ApiStep(g) \/ CancelCheck(g)
  PROVE  ApiCalls(g)
<1> DEFINE a == api[g]
           c == Head(a.todo)
<1> USE DEF ApiPc
<1>0. /\ api \in [Group -> Api] /\ FileTypes
      /\ g \in Item /\ Missing \in Record /\ Live \subseteq Record
  BY ChildFacts DEF CallInv, ThreadTypes, Missing, Live, Record
<1>1. ASSUME NEW n, ApiSound(n), api' = [api EXCEPT ![g] = n]
      PROVE  api' = [api EXCEPT ![g] = api'[g]] /\ ApiSound(api'[g])
  BY <1>0, <1>1
<1>2. ASSUME NEW pc \in ApiPc, pc # "request", pc = "childSave" => a.todo # <<>>,
             ApiTo(g, pc)
      PROVE  api' = [api EXCEPT ![g] = api'[g]] /\ ApiSound(api'[g])
  <2>1. ApiSound([a EXCEPT !.pc = pc])
    BY <1>2, ApiFields DEF ApiSound, Api
  <2> QED BY <1>0, <1>1, <1>2, <2>1 DEF ApiTo
<1>3. ASSUME a.todo # <<>>, NEW pc \in {"child"},
             api' = [api EXCEPT ![g].pc = pc, ![g].todo = Tail(@)]
      PROVE  api' = [api EXCEPT ![g] = api'[g]] /\ ApiSound(api'[g])
  <2>1. ApiSound([a EXCEPT !.pc = pc, !.todo = Tail(a.todo)])
    BY <1>3, ApiFields DEF ApiSound, Api
  <2> QED BY <1>0, <1>1, <1>3, <2>1
<1>4. CASE EnqueueGroup(g)
  <2>1. [NextQ]_queueVars
    BY <1>0, <1>4 DEF EnqueueGroup, NextQ
  <2> QED BY <1>0, <1>2, <1>4, <2>1 DEF EnqueueGroup, ApiCalls, fileVars, FileTypes
<1>5. CASE CancelCheck(g)
  <2>1. ApiSound([a EXCEPT !.pc = "request", !.mem = group_json[g]])
    BY <1>0, GroupFields, ApiFields DEF ApiSound, Api
  <2>2. api' = [api EXCEPT ![g] = [a EXCEPT !.pc = "request", !.mem = group_json[g]]]
    BY <1>0, <1>5 DEF CancelCheck
  <2> QED BY <1>0, <1>1, <1>5, <2>1, <2>2
          DEF CancelCheck, ApiCalls, fileVars, FileTypes, queueVars
<1>6. CASE CancelRequest(g)
  <2>1. [NextQ]_queueVars /\ last_id' = last_id
    BY <1>0, <1>6 DEF CancelRequest, NextQ, RequestExecutionCancel
  <2>2. PICK pc \in {"ready", "child"}, mem \in {a.mem, Missing} :
          api' = [api EXCEPT ![g].pc = pc, ![g].mem = mem, ![g].todo = Children(g)]
    BY <1>0, <1>6 DEF CancelRequest
  <2>3. ApiSound([a EXCEPT !.pc = pc, !.mem = mem, !.todo = Children(g)])
    <3>1. mem \in Live \cup {Missing} /\ mem \in Record
      BY <1>0, ApiFields
    <3> QED BY <3>1, ApiFields, ChildrenFacts DEF ApiSound, Api
  <2>4. api' = [api EXCEPT ![g] = [a EXCEPT !.pc = pc, !.mem = mem, !.todo = Children(g)]]
    BY <1>0, <2>2
  <2> QED BY <1>0, <1>1, <1>6, <2>1, <2>3, <2>4 DEF CancelRequest, ApiCalls, fileVars, FileTypes
<1>7. CASE CancelChild(g)
  <2>1. [NextQ]_queueVars /\ last_id' = last_id
    BY <1>7, ApiFields DEF CancelChild, NextQ, RequestExecutionCancel, queueVars
  <2>2. a.pc = "child"
    BY <1>7 DEF CancelChild
  <2>3. CASE ApiTo(g, "save") \/ (a.todo # <<>> /\ ApiTo(g, "childSave"))
    BY <1>0, <1>2, <1>7, <2>1, <2>3 DEF CancelChild, ApiCalls, fileVars, FileTypes
  <2>4. CASE a.todo # <<>> /\ api' = [api EXCEPT ![g].todo = Tail(@)]
    <3>1. ApiSound([a EXCEPT !.todo = Tail(a.todo)])
      BY <2>2, <2>4, ApiFields DEF ApiSound, Api
    <3> QED BY <1>0, <1>1, <1>7, <2>1, <2>4, <3>1 DEF CancelChild, ApiCalls, fileVars, FileTypes
  <2> QED BY <1>7, <2>3, <2>4 DEF CancelChild
<1>8. CASE SaveCancelledChild(g)
  <2>1. a.todo # <<>>
    BY <1>8, ApiFields DEF SaveCancelledChild, ApiSound
  <2>2. FileTypes'
    BY <1>0, <1>8, <2>1, ApiFields, UpdateJobFacts
    DEF SaveCancelledChild, FileTypes, Status, Terminal
  <2> QED BY <1>3, <1>8, <2>1, <2>2 DEF SaveCancelledChild, ApiCalls, queueVars
<1>9. CASE AnswerCancel(g)
  <2>1. FileTypes'
    <3>1. CASE UNCHANGED group_json
      BY <1>0, <1>9, <3>1 DEF AnswerCancel, FileTypes
    <3>2. CASE /\ a.mem # Missing
               /\ UpdateGroup(g, a.mem, [a.mem.value EXCEPT !.status = "CANCELLED"])
      <4>1. Bumped(a.mem, [a.mem.value EXCEPT !.status = "CANCELLED"]) \in Live
        BY <3>2, ApiFields, LiveFacts DEF Status, Terminal
      <4> QED BY <1>0, <1>9, <3>2, <4>1 DEF AnswerCancel, UpdateGroup, FileTypes
    <3> QED BY <1>9, <3>1, <3>2 DEF AnswerCancel
  <2> QED BY <1>2, <1>9, <2>1 DEF AnswerCancel, ApiCalls, queueVars
<1> QED BY <1>4, <1>5, <1>6, <1>7, <1>8, <1>9 DEF ApiStep

LEMMA CrashTypes ==
  ASSUME CallInv, NEW w \in Worker, Crash(w)
  PROVE  /\ UNCHANGED <<queueVars, fileVars, api>>
         /\ main' = [main EXCEPT ![w] = main'[w]]
         /\ main'[w].pc = "dead"
         /\ MainSound(main'[w])
         /\ run' \in [Worker -> [Child -> Run]]
         /\ faults' \in 0 .. MaxFaults
<1>1. MainSound([Idle EXCEPT !.pc = "dead"])
  BY IdleSound
<1>2. NoRuns \in [Child -> Run]
  BY DEF NoRuns, NotRunning, Run, RunPc, Status
<1>3. faults' \in 0 .. MaxFaults
  BY GroupExecutionAssumption DEF Crash, CallInv
<1> QED BY <1>1, <1>2, <1>3 DEF Crash, CallInv, ThreadTypes, Idle

LEMMA ExpireTypes ==
  ASSUME CallInv, NEW r \in RowIds, Expire(r)
  PROVE  /\ [NextQ]_queueVars /\ last_id' = last_id
         /\ UNCHANGED <<fileVars, main, run, slots, api>>
         /\ faults' \in 0 .. MaxFaults
<1>1. ExpireClaim(r) /\ UNCHANGED <<fileVars, main, run, slots, api>>
  BY DEF Expire
<1>2. faults' \in 0 .. MaxFaults
  BY GroupExecutionAssumption DEF Expire, CallInv
<1> QED BY <1>1, <1>2 DEF ExpireClaim, NextQ

-------------------------------------------------------------------------------
(* The queue under every step.                                              *)

\* The rows keep their items, and no control goes back.
QueueStays ==
  /\ RowIds \subseteq RowIds'
  /\ \A r \in RowIds : queue_items'[r].item = queue_items[r].item
  /\ \A g \in Group : (Begun(g) => Begun(g)') /\ (Ended(g) => Ended(g)')

LEMMA ControlsStay ==
  ASSUME ControlInv, ControlStep
  PROVE  \A g \in Group : (Begun(g) => Begun(g)') /\ (Ended(g) => Ended(g)')
<1> SUFFICES ASSUME NEW g \in Group
             PROVE  (Begun(g) => Begun(g)') /\ (Ended(g) => Ended(g)')
  OBVIOUS
<1> USE DEF Begun, Ended
<1>1. /\ g \in Item /\ execution_controls[g] \in Control
      /\ ControlSound(execution_controls[g])
      /\ execution_controls \in [Item -> Control]
  BY ChildFacts DEF ControlInv
<1>2. CASE UNCHANGED execution_controls
  BY <1>2
<1>3. ASSUME NEW i \in Item, execution_controls[i].state = "absent",
             execution_controls' = [execution_controls EXCEPT ![i].state = "running"]
      PROVE  (Begun(g) => Begun(g)') /\ (Ended(g) => Ended(g)')
  BY <1>1, <1>3 DEF Control
<1>4. ASSUME NEW i \in Item,
             execution_controls' =
               [execution_controls EXCEPT ![i] = ControlAfterCancel(execution_controls[i])]
      PROVE  (Begun(g) => Begun(g)') /\ (Ended(g) => Ended(g)')
  BY <1>1, <1>4 DEF Control, ControlAfterCancel
<1>5. ASSUME NEW i \in Item,
             execution_controls' =
               [execution_controls EXCEPT ![i] = ControlAfterFinish(execution_controls[i])]
      PROVE  (Begun(g) => Begun(g)') /\ (Ended(g) => Ended(g)')
  BY <1>1, <1>5 DEF Control, ControlAfterFinish, ControlSound
<1> QED BY <1>2, <1>3, <1>4, <1>5 DEF ControlStep

LEMMA QueueStep ==
  ASSUME CallInv, [NextQ]_queueVars, last_id' = last_id \/ \E g \in Group : Enqueue(g)
  PROVE  /\ RowInv' /\ ControlInv' /\ QueueStays
         /\ \A r \in RowIds' : queue_items'[r].item \in Group
<1>1. RowInv' /\ ControlInv'
  BY NextRows, RowInvStep, NextIsControlStep, ControlInvStep DEF CallInv, RowInv
<1>2. \A g \in Group : (Begun(g) => Begun(g)') /\ (Ended(g) => Ended(g)')
  BY NextIsControlStep, ControlsStay DEF CallInv
<1>3. CASE RowsUpdated
  BY <1>1, <1>2, <1>3 DEF RowsUpdated, QueueStays, CallInv, RowIds
<1>4. CASE ~RowsUpdated
  <2>1. RowInserted
    BY <1>4, NextRows DEF CallInv, RowInv
  <2>2. last_id' = last_id + 1 /\ last_id \in Nat
    BY <2>1 DEF RowInserted, Insert, CallInv, RowInv, RowTypes
  <2>3. PICK g \in Group : Enqueue(g)
    BY <2>2
  <2>4. PICK status \in RowStatus : Insert(g, status)
    BY <2>2, <2>3 DEF Enqueue, RowStatus
  <2>5. /\ RowIds' = RowIds \cup {last_id + 1}
        /\ \A r \in RowIds : queue_items'[r] = queue_items[r]
        /\ queue_items'[last_id + 1] = NewRow(g, status)
    BY <2>4, ChildFacts, InsertedRow DEF CallInv, RowInv
  <2> QED BY <1>1, <1>2, <2>5 DEF QueueStays, CallInv, NewRow
<1> QED BY <1>3, <1>4

\* The threads that a step leaves alone keep their types.
LEMMA CallInvStep ==
  ASSUME CallInv, [Next]_vars
  PROVE  CallInv' /\ [NextQ]_queueVars /\ QueueStays
<1> DEFINE Queue == [NextQ]_queueVars /\ (last_id' = last_id \/ \E g \in Group : Enqueue(g))
           Threads ==
             /\ main' = main \/ \E w \in Worker : /\ main' = [main EXCEPT ![w] = main'[w]]
                                                  /\ MainSound(main'[w])
             /\ run' \in [Worker -> [Child -> Run]]
             /\ api' = api \/ \E g \in Group : /\ api' = [api EXCEPT ![g] = api'[g]]
                                               /\ ApiSound(api'[g])
<1>1. ASSUME Queue, Threads, FileTypes', faults' \in 0 .. MaxFaults
      PROVE  CallInv' /\ [NextQ]_queueVars /\ QueueStays
  <2>1. /\ RowInv' /\ ControlInv' /\ QueueStays
        /\ \A r \in RowIds' : queue_items'[r].item \in Group
    BY <1>1, QueueStep
  <2>2. \A w \in Worker : MainSound(main'[w])
    BY <1>1 DEF CallInv, ThreadTypes
  <2>3. \A w \in Worker : MainSound(main[w])'
    BY <2>1, <2>2 DEF QueueStays, MainSound
  <2>4. main' \in [Worker -> Main]
    BY <1>1 DEF CallInv, ThreadTypes, MainSound
  <2>5. api' \in [Group -> Api] /\ \A g \in Group : ApiSound(api[g])'
    BY <1>1 DEF CallInv, ThreadTypes, ApiSound
  <2> QED BY <1>1, <2>1, <2>3, <2>4, <2>5 DEF CallInv, ThreadTypes
<1>2. CASE UNCHANGED vars
  BY <1>1, <1>2 DEF vars, CallInv, ThreadTypes, FileTypes, queueVars
<1>3. ASSUME NEW w \in Worker, MainStep(w) \/ GiveUpWaiting(w)
      PROVE  CallInv' /\ [NextQ]_queueVars /\ QueueStays
  BY <1>1, <1>3, MainStepCalls DEF MainCalls
<1>4. ASSUME NEW w \in Worker, Crash(w)
      PROVE  CallInv' /\ [NextQ]_queueVars /\ QueueStays
  BY <1>1, <1>4, CrashTypes DEF queueVars, fileVars, CallInv, FileTypes
<1>5. ASSUME NEW w \in Worker, NEW c \in Child, ChildStep(w, c)
      PROVE  CallInv' /\ [NextQ]_queueVars /\ QueueStays
  <2>1. ChildCalls(w, c)
    BY <1>5, ChildStepCalls
  <2>2. run' \in [Worker -> [Child -> Run]]
    BY <2>1, RunFields DEF ChildCalls
  <2> QED BY <1>1, <2>1, <2>2 DEF ChildCalls, CallInv, FileTypes
<1>6. ASSUME NEW g \in Group, ApiStep(g) \/ CancelCheck(g)
      PROVE  CallInv' /\ [NextQ]_queueVars /\ QueueStays
  BY <1>1, <1>6, ApiStepCalls DEF ApiCalls, CallInv, ThreadTypes
<1>7. ASSUME NEW r \in RowIds, Expire(r)
      PROVE  CallInv' /\ [NextQ]_queueVars /\ QueueStays
  BY <1>1, <1>7, ExpireTypes DEF fileVars, CallInv, ThreadTypes, FileTypes
<1> QED BY <1>2, <1>3, <1>4, <1>5, <1>6, <1>7 DEF Next

LEMMA CallInvInit ==
  ASSUME Init
  PROVE  CallInv
<1>1. RowInv /\ ControlInv /\ RowIds = {}
  BY RowInvInit, ControlInvInit DEF Init, InitQ, RowIds
<1>2. FileTypes
  BY GroupExecutionAssumption DEF Init, FileTypes, Live, GroupValue, Status
<1>3. ThreadTypes
  <2>1. MainSound(Idle)
    <3>1. 0 \in 0 .. MaxRows /\ Missing \in Record /\ <<>> \in Seq(Child)
      BY QueueAssumption DEF Missing, Record
    <3> QED BY <3>1
            DEF Idle, MainSound, Main, MainPc, RestPc, TodoPc, WorkPc, EarlyPc, BetweenPc
  <2>2. NoRuns \in [Child -> Run]
    BY DEF NoRuns, NotRunning, Run, RunPc, Status
  <2>3. ApiSound([pc |-> "new", mem |-> Missing, todo |-> <<>>])
    <3>1. Missing \in Record /\ <<>> \in Seq(Child)
      BY DEF Missing, Record
    <3> QED BY <3>1 DEF ApiSound, Api, ApiPc
  <2> QED BY <2>1, <2>2, <2>3 DEF Init, ThreadTypes, MainSound, ApiSound
<1>4. faults \in 0 .. MaxFaults
  BY GroupExecutionAssumption DEF Init
<1> QED BY <1>1, <1>2, <1>3, <1>4 DEF CallInv

-------------------------------------------------------------------------------
(* group.json under every step: the end of a group stands.                  *)

\* A file is left alone, or gets the next version, of the same kind of group; an
\* end is kept, and a group is cancelled only as the database says so.
DiskStep ==
  \A g \in Group :
    \/ group_json'[g] = group_json[g]
    \/ /\ group_json'[g].version = group_json[g].version + 1
       /\ group_json'[g].value.replacing = group_json[g].value.replacing
       /\ group_json[g].value.status \in {"INTERRUPTED", "CANCELLED"} =>
            group_json'[g].value.status = group_json[g].value.status
       /\ group_json'[g].value.status = "CANCELLED" => Ended(g)'

\* An object that follows its file still follows it after a step.
LEMMA FollowsStays ==
  ASSUME CallInv, DiskStep, NEW g \in Group, NEW rec \in Live
  PROVE  /\ Follows(g, rec) => Follows(g, rec)'
         /\ Follows(g, rec) /\ Current(g, rec)' => group_json'[g] = group_json[g]
<1>1. group_json[g].version \in Nat /\ rec.version \in Nat
  BY GroupFields DEF Live
<1>2. CASE group_json'[g] = group_json[g]
  BY <1>2 DEF Follows, Saved
<1>3. CASE /\ group_json'[g].version = group_json[g].version + 1
           /\ group_json'[g].value.replacing = group_json[g].value.replacing
  BY <1>1, <1>3 DEF Follows, Saved, Current
<1> QED BY <1>2, <1>3 DEF DiskStep

\* The same for whole threads that a step leaves alone.
LEMMA MainFollowsStays ==
  ASSUME CallInv, QueueStays, DiskStep, NEW w \in Worker, MainFollows(w),
         main'[w] = main[w]
  PROVE  MainFollows(w)'
<1>1. CASE main[w].pc \notin WorkPc \cup {"mark"}
  BY <1>1 DEF MainFollows
<1>2. CASE main[w].pc \in WorkPc \cup {"mark"}
  <2>1. PICK g \in Group : g = TheGroup(w) /\ g = TheGroup(w)'
    BY <1>2, MainFields DEF RestPc, WorkPc, EarlyPc, BetweenPc, QueueStays, TheGroup
  <2>2. PICK rec \in Live : rec = main[w].mem /\ rec = main'[w].mem
    BY <1>2, MainFields
  <2>3. /\ Follows(g, rec) => Follows(g, rec)'
        /\ Follows(g, rec) /\ Current(g, rec)' => group_json'[g] = group_json[g]
    BY FollowsStays
  <2>4. Ended(g) => Ended(g)'
    BY DEF QueueStays
  <2> QED BY <2>1, <2>2, <2>3, <2>4
          DEF MainFollows, FollowsOpen, Follows, Current, GroupStatus, Saved
<1> QED BY <1>1, <1>2

LEMMA ApiFollowsStays ==
  ASSUME CallInv, QueueStays, DiskStep, NEW g \in Group, ApiFollows(g), api'[g] = api[g]
  PROVE  ApiFollows(g)'
<1> DEFINE rec == api[g].mem
<1>1. CASE rec = Missing
  BY <1>1 DEF ApiFollows
<1>2. CASE rec # Missing
  <2>1. rec \in Live
    BY <1>2, ApiFields
  <2>2. /\ Follows(g, rec) => Follows(g, rec)'
        /\ Follows(g, rec) /\ Current(g, rec)' => group_json'[g] = group_json[g]
    BY <2>1, FollowsStays
  <2> QED BY <1>2, <2>2
          DEF ApiFollows, FollowsOpen, Follows, Current, GroupStatus, Saved, QueueStays
<1> QED BY <1>1, <1>2

LEMMA FollowStep ==
  ASSUME CallInv, QueueStays, FollowInv, DiskStep,
         \A w \in Worker : main'[w] = main[w] \/ MainFollows(w)',
         \A g \in Group : api'[g] = api[g] \/ ApiFollows(g)'
  PROVE  FollowInv'
<1>1. \A w \in Worker : MainFollows(w)'
  BY MainFollowsStays DEF FollowInv
<1>2. \A g \in Group : ApiFollows(g)'
  BY ApiFollowsStays DEF FollowInv
<1>3. \A g \in Group : GroupStatus(g)' = "CANCELLED" => Ended(g)'
  BY DEF FollowInv, DiskStep, QueueStays, GroupStatus, Saved
<1> QED BY <1>1, <1>2, <1>3 DEF FollowInv

\* What the theorems need of a step of thread w.
FollowsOn(w) == DiskStep /\ MainFollows(w)'

\* The thread has no object in hand that it is going to save.
LEMMA EmptyHanded ==
  ASSUME NEW w \in Worker, UNCHANGED group_json,
         main'[w].pc \notin WorkPc \cup {"mark"}
  PROVE  FollowsOn(w)
BY DEF FollowsOn, DiskStep, MainFollows

\* The thread goes on with the object, or with another status that it may save.
LEMMA SameObject ==
  ASSUME CallInv, FollowInv, QueueStays, NEW w \in Worker, UNCHANGED group_json,
         main[w].pc \in WorkPc, main'[w].pc \in WorkPc,
         main'[w].row = main[w].row,
         main'[w].mem.version = main[w].mem.version,
         main'[w].mem.value.replacing = main[w].mem.value.replacing,
         main'[w].mem.value.status = "CANCELLED" =>
            main'[w].pc = "save" /\ Ended(TheGroup(w))'
  PROVE  FollowsOn(w)
<1> DEFINE g == TheGroup(w)
<1>1. g \in Group /\ TheGroup(w)' = g
  BY MainFields DEF RestPc, WorkPc, EarlyPc, BetweenPc, QueueStays, TheGroup
<1>2. FollowsOpen(g, main[w].mem) /\ main'[w].pc # "mark"
  BY DEF FollowInv, MainFollows, WorkPc, EarlyPc, BetweenPc
<1> HIDE DEF g
<1>3. g = TheGroup(w)
  BY DEF g
<1> QED BY <1>1, <1>2, <1>3
        DEF FollowsOn, DiskStep, MainFollows, FollowsOpen, Follows, Current, GroupStatus, Saved

\* The thread saves the object as RUNNING and goes on with what it saved.
LEMMA SavedObject ==
  ASSUME CallInv, FollowInv, QueueStays, NEW w \in Worker, SaveGroup(w, "RUNNING"),
         main[w].pc \in WorkPc, main'[w].pc \in WorkPc \ {"save"},
         main'[w].row = main[w].row,
         main'[w].mem = group_json'[TheGroup(w)]
  PROVE  FollowsOn(w)
<1> DEFINE g == TheGroup(w)
           rec == main[w].mem
<1>1. g \in Group /\ TheGroup(w)' = g /\ rec \in Live
  BY MainFields DEF RestPc, WorkPc, EarlyPc, BetweenPc, QueueStays, TheGroup
<1>2. FollowsOpen(g, rec)
  BY DEF FollowInv, MainFollows
<1>3. /\ group_json'[g] = [version |-> rec.version + 1,
                           value |-> [rec.value EXCEPT !.status = "RUNNING"]]
      /\ Current(g, rec)
      /\ \A h \in Group : h # g => group_json'[h] = group_json[h]
  BY SaveFacts DEF Status
<1>4. /\ group_json'[g].version = rec.version + 1 /\ rec.version \in Nat
      /\ group_json'[g].value.status = "RUNNING"
      /\ group_json'[g].value.replacing = rec.value.replacing
  BY <1>1, <1>3 DEF Live, GroupValue
<1> HIDE DEF g
<1>5. DiskStep
  BY <1>1, <1>2, <1>3, <1>4
  DEF DiskStep, FollowsOpen, Follows, Current, GroupStatus, Saved
<1>6. g = TheGroup(w)
  BY DEF g
<1>7. main'[w].pc # "mark" /\ main'[w].pc # "save"
  BY DEF WorkPc, EarlyPc, BetweenPc
<1>8. MainFollows(w)'
  BY <1>1, <1>4, <1>6, <1>7
  DEF MainFollows, FollowsOpen, Follows, Current, GroupStatus, Saved
<1> QED BY <1>5, <1>8 DEF FollowsOn

\* The record of a main thread after a step, field by field.
LEMMA RestingFollows ==
  ASSUME CallInv, FollowInv, QueueStays, NEW w \in Worker,
         \/ RunOnce(w) \/ MarkConflicts(w) \/ RecoverChild(w) \/ MarkChild(w)
         \/ Acknowledge(w) \/ Claim(w) \/ Complete(w) \/ Crash(w)
  PROVE  FollowsOn(w)
<1>1. main \in [Worker -> Main] /\ main[w] \in Main
  BY DEF CallInv, ThreadTypes
<1>2. /\ Idle.pc = "idle" /\ [Idle EXCEPT !.pc = "dead"].pc = "dead"
      /\ \A rows : [Idle EXCEPT !.pc = "recover", !.rows = rows].pc = "recover"
      /\ \A rows : [Idle EXCEPT !.pc = "recover", !.rows = rows, !.late = TRUE].pc = "recover"
  BY DEF Idle
<1> DEFINE Resting == {"idle", "dead", "recover", "acknowledge", "markChild", "recoverChild",
                       "load"}
<1>3. main'[w].pc \in Resting
  <2>1. CASE RunOnce(w) \/ RecoverChild(w) \/ MarkChild(w)
    BY <1>1, <2>1 DEF RunOnce, RecoverChild, MarkChild, At, Goto, Main
  <2>2. Reconciled(w).pc \in Resting
    BY <1>2 DEF Reconciled
  <2>3. CASE MarkConflicts(w) \/ Acknowledge(w)
    BY <1>1, <2>2, <2>3 DEF MarkConflicts, Acknowledge
  <2>4. CASE Claim(w)
    BY <1>1, <1>2, <2>4 DEF Claim, Main
  <2>5. CASE Complete(w)
    <3> DEFINE late == [Idle EXCEPT !.pc = "recover", !.rows = {main[w].row}, !.late = TRUE]
    <3>1. main' = [main EXCEPT ![w] = Idle] \/ main' = [main EXCEPT ![w] = late]
      BY <2>5 DEF Complete
    <3>2. late.pc = "recover"
      BY DEF Idle
    <3> HIDE DEF late
    <3> QED BY <1>1, <1>2, <3>1, <3>2
  <2>6. CASE Crash(w)
    BY <1>1, <1>2, <2>6 DEF Crash
  <2> QED BY <2>1, <2>3, <2>4, <2>5, <2>6
<1>4. UNCHANGED group_json
  BY DEF RunOnce, MarkConflicts, RecoverChild, MarkChild, Acknowledge, Claim, Complete, Crash,
         fileVars
<1> QED BY <1>3, <1>4, EmptyHanded DEF WorkPc, EarlyPc, BetweenPc

LEMMA RecoverGroupFollows ==
  ASSUME CallInv, FollowInv, QueueStays, NEW w \in Worker, NEW r \in RowIds,
         RecoverGroup(w, r)
  PROVE  FollowsOn(w)
<1>0. PICK g \in Group : g = queue_items[r].item /\ g = queue_items'[r].item
  BY DEF CallInv, QueueStays
<1> DEFINE pc == IF GroupStatus(g) = "INTERRUPTED" THEN "recoverChild" ELSE "mark"
           status == FinishedStatus(g, "INTERRUPTED")
           rec == [group_json[g] EXCEPT !.value.status = status]
<1>1. /\ group_json[g] \in Live /\ g \in Item /\ ControlSound(execution_controls[g])
      /\ execution_controls[g] \in Control /\ execution_controls \in [Item -> Control]
  BY GroupFields, ChildFacts DEF CallInv, ControlInv
<1>2. /\ main'[w].pc = pc /\ main'[w].row = r /\ main'[w].mem = rec
      /\ UNCHANGED group_json
  BY <1>0 DEF RecoverGroup, CallInv, ThreadTypes, Main, fileVars
<1>3. rec.version = group_json[g].version /\ rec.value.status = status
      /\ rec.value.replacing = group_json[g].value.replacing
  BY <1>1, LiveFacts DEF Live, GroupValue, FinishedStatus, Status, Terminal
<1>4. status = IF Ended(g)' THEN "CANCELLED" ELSE "INTERRUPTED"
  BY <1>0, <1>1 DEF RecoverGroup, FinishExecution, FinishedStatus, Ended
<1>5. /\ Ended(g) => Ended(g)'
      /\ GroupStatus(g) = "CANCELLED" => Ended(g)
  BY DEF QueueStays, FollowInv
<1>6. DiskStep
  BY <1>2 DEF DiskStep
<1>7. g = TheGroup(w)'
  BY <1>0, <1>2 DEF TheGroup
<1>8. group_json[g].version \in Nat
  BY <1>1 DEF Live
<1> HIDE DEF rec, status
<1>9. MainFollows(w)'
  BY <1>2, <1>3, <1>4, <1>5, <1>7, <1>8
  DEF MainFollows, WorkPc, EarlyPc, BetweenPc, Follows, Current, GroupStatus, Saved
<1> QED BY <1>6, <1>9 DEF FollowsOn

\* The interruption is saved over an open group only, a cancellation over itself.
LEMMA MarkGroupFollows ==
  ASSUME CallInv, FollowInv, QueueStays, NEW w \in Worker, MarkGroup(w)
  PROVE  FollowsOn(w)
<1>0. main[w].pc = "mark" /\ main[w].mem.value.status \in Status
  BY MainFields DEF MarkGroup, At
<1>1. PICK g \in Group : g = TheGroup(w)
  BY <1>0, MainFields DEF RestPc
<1>2. PICK rec \in Live : rec = main[w].mem
  BY <1>0, MainFields
<1>3. /\ group_json'[g] = [version |-> rec.version + 1,
                           value |-> [rec.value EXCEPT !.status = rec.value.status]]
      /\ Current(g, rec)
      /\ \A h \in Group : h # g => group_json'[h] = group_json[h]
  BY <1>0, <1>1, <1>2, SaveFacts DEF MarkGroup
<1>4. /\ group_json'[g].version = rec.version + 1
      /\ group_json'[g].value.status = rec.value.status
      /\ group_json'[g].value.replacing = rec.value.replacing
  BY <1>3 DEF Live, GroupValue
<1>5. /\ Follows(g, rec)
      /\ GroupStatus(g) # "INTERRUPTED"
      /\ GroupStatus(g) = "CANCELLED" => rec.value.status = "CANCELLED"
      /\ rec.value.status = "CANCELLED" => Ended(g)'
  BY <1>0, <1>1, <1>2, <1>3 DEF FollowInv, MainFollows, QueueStays
<1>6. DiskStep
  BY <1>3, <1>4, <1>5 DEF DiskStep, Follows, Current, GroupStatus, Saved
<1>7. main'[w].pc = "recoverChild"
  BY DEF MarkGroup, Goto, CallInv, ThreadTypes, Main
<1> QED BY <1>6, <1>7 DEF FollowsOn, MainFollows, WorkPc, EarlyPc, BetweenPc

LEMMA LoadFollows ==
  ASSUME CallInv, FollowInv, QueueStays, NEW w \in Worker, Load(w)
  PROVE  FollowsOn(w)
<1>1. main[w].pc = "load" /\ UNCHANGED group_json
  BY DEF Load, At, fileVars
<1>2. PICK g \in Group : g = TheGroup(w) /\ g = queue_items'[main[w].row].item
  BY <1>1, MainFields DEF RestPc, QueueStays, TheGroup
<1>3. CASE main'[w].pc = "complete"
  BY <1>1, <1>3, EmptyHanded DEF WorkPc, EarlyPc, BetweenPc
<1>4. CASE /\ GroupStatus(g) = "QUEUED"
           /\ main' = [main EXCEPT ![w].pc = "begin", ![w].mem = group_json[g]]
  <2>1. /\ main'[w].pc = "begin" /\ main'[w].mem = group_json[g]
        /\ main'[w].row = main[w].row
    BY <1>4 DEF CallInv, ThreadTypes, Main
  <2>2. TheGroup(w)' = g /\ group_json[g].version \in Nat
    BY <1>2, <2>1, GroupFields DEF TheGroup, Live
  <2> QED BY <1>1, <1>4, <2>1, <2>2
          DEF FollowsOn, DiskStep, MainFollows, FollowsOpen, Follows, Current, GroupStatus, Saved
<1> QED BY <1>2, <1>3, <1>4 DEF Load, CallInv, ThreadTypes, Main

\* The steps in between leave the object as it is, or make it FAILED.
LEMMA FailFollows ==
  ASSUME CallInv, FollowInv, QueueStays, NEW w \in Worker, UNCHANGED group_json,
         main[w].pc \in WorkPc, Fail(w)
  PROVE  FollowsOn(w)
<1>1. main[w].mem \in Live /\ main \in [Worker -> Main]
  BY MainFields DEF CallInv, ThreadTypes
<1>2. /\ main'[w].pc = "finish" /\ main'[w].row = main[w].row
      /\ main'[w].mem = [main[w].mem EXCEPT !.value.status = "FAILED"]
  BY <1>1 DEF Fail, Main
<1>3. /\ main'[w].mem.version = main[w].mem.version
      /\ main'[w].mem.value.replacing = main[w].mem.value.replacing
      /\ main'[w].mem.value.status = "FAILED"
  BY <1>1, <1>2 DEF Live, GroupValue
<1> QED BY <1>2, <1>3, SameObject DEF WorkPc

LEMMA WorkingFollows ==
  ASSUME CallInv, FollowInv, QueueStays, NEW w \in Worker,
         \/ Begin(w) \/ UpdateChildren(w) \/ WaitForChild(w) \/ GiveUpWaiting(w)
         \/ FailDeliverable(w) \/ StartDeliverable(w)
         \/ Prepare(w, "prepare", "shared") \/ Prepare(w, "prepareNext", "nextSave")
  PROVE  FollowsOn(w)
<1>1. /\ main[w].pc \in WorkPc \ {"save"} /\ UNCHANGED group_json
      /\ main \in [Worker -> Main] /\ main[w] \in Main
  BY DEF Begin, UpdateChildren, WaitForChild, GiveUpWaiting, FailDeliverable,
         StartDeliverable, Prepare, At, fileVars, WorkPc, EarlyPc, BetweenPc, CallInv,
         ThreadTypes
<1>2. CASE Fail(w)
  BY <1>1, <1>2, FailFollows
<1>3. CASE ~Fail(w)
  <2>1. /\ main'[w].pc \in WorkPc \cup {"complete"} /\ main'[w].pc # "save"
        /\ main'[w].row = main[w].row
        /\ main'[w].mem = main[w].mem
    BY <1>1, <1>3
    DEF Begin, UpdateChildren, WaitForChild, AfterReplacement, GiveUpWaiting,
        FailDeliverable, StartDeliverable, Prepare, Goto, At, WorkPc, EarlyPc, BetweenPc, Main
  <2>2. main[w].mem.value.status # "CANCELLED"
    BY <1>1 DEF FollowInv, MainFollows, WorkPc, EarlyPc, BetweenPc
  <2>3. CASE main'[w].pc \in WorkPc
    BY <1>1, <2>1, <2>2, <2>3, SameObject
  <2>4. CASE main'[w].pc = "complete"
    BY <1>1, <2>4, EmptyHanded DEF WorkPc, EarlyPc, BetweenPc
  <2> QED BY <2>1, <2>3, <2>4
<1> QED BY <1>2, <1>3

LEMMA SavingFollows ==
  ASSUME CallInv, FollowInv, QueueStays, NEW w \in Worker,
         \/ SaveProgress(w, "start", "prepare") \/ SaveProgress(w, "shared", "children")
         \/ SaveProgress(w, "nextSave", "next") \/ StartChildren(w)
  PROVE  FollowsOn(w)
<1>1. main[w].pc \in WorkPc /\ main \in [Worker -> Main] /\ main[w] \in Main
  BY DEF SaveProgress, StartChildren, At, WorkPc, EarlyPc, BetweenPc, CallInv, ThreadTypes
<1>2. CASE UNCHANGED group_json /\ Fail(w)
  BY <1>1, <1>2, FailFollows
<1>3. CASE SaveGroup(w, "RUNNING") /\ ~Fail(w)
  <2>1. /\ main'[w].pc \in WorkPc \ {"save"} /\ main'[w].row = main[w].row
        /\ main'[w].mem = group_json'[TheGroup(w)]
    BY <1>1, <1>3 DEF SaveProgress, StartChildren, WorkPc, EarlyPc, BetweenPc, Main
  <2> QED BY <1>1, <1>3, <2>1, SavedObject
<1>4. CASE SaveGroup(w, "RUNNING") /\ Fail(w)
  <2>1. main'[w].pc = "finish"
    BY <1>1, <1>4 DEF Fail, Main
  <2>2. main'[w].pc # "finish"
    BY <1>1, <1>4 DEF SaveProgress, StartChildren, Conflict, SaveGroup, UpdateGroup, Main
  <2> QED BY <2>1, <2>2
<1> QED BY <1>2, <1>3, <1>4 DEF SaveProgress, StartChildren

LEMMA ConcludeFollows ==
  ASSUME CallInv, FollowInv, QueueStays, NEW w \in Worker, Conclude(w)
  PROVE  FollowsOn(w)
<1>1. /\ main[w].mem \in Live /\ main \in [Worker -> Main] /\ main[w].pc = "conclude"
      /\ UNCHANGED group_json
  BY MainFields DEF Conclude, At, WorkPc, CallInv, ThreadTypes, fileVars
<1>2. PICK status \in {"RUNNING", "FAILED", "SUCCEEDED"} :
        main' = [main EXCEPT ![w].pc = "finish", ![w].mem.value.status = status]
  BY DEF Conclude
<1>3. /\ main'[w].pc = "finish" /\ main'[w].row = main[w].row
      /\ main'[w].mem = [main[w].mem EXCEPT !.value.status = status]
  BY <1>1, <1>2 DEF Main
<1>4. /\ main'[w].mem.version = main[w].mem.version
      /\ main'[w].mem.value.replacing = main[w].mem.value.replacing
      /\ main'[w].mem.value.status = status
  BY <1>1, <1>3 DEF Live, GroupValue
<1> QED BY <1>1, <1>3, <1>4, SameObject DEF WorkPc

\* The object becomes CANCELLED when finish_execution says so.
LEMMA FinishFollows ==
  ASSUME CallInv, FollowInv, QueueStays, NEW w \in Worker, Finish(w)
  PROVE  FollowsOn(w)
<1>1. /\ main[w].mem \in Live /\ main \in [Worker -> Main] /\ main[w].pc = "finish"
      /\ UNCHANGED group_json
  BY MainFields DEF Finish, At, WorkPc, CallInv, ThreadTypes, fileVars
<1>2. PICK g \in Group : g = TheGroup(w)
  BY <1>1, MainFields DEF RestPc
<1>3. PICK status : status = FinishedStatus(g, main[w].mem.value.status)
  OBVIOUS
<1>4. /\ main'[w].pc = "save" /\ main'[w].row = main[w].row
      /\ main'[w].mem = [main[w].mem EXCEPT !.value.status = status]
  BY <1>1, <1>2, <1>3 DEF Finish, Main
<1>5. /\ main'[w].mem.version = main[w].mem.version
      /\ main'[w].mem.value.replacing = main[w].mem.value.replacing
      /\ main'[w].mem.value.status = status
  BY <1>1, <1>4 DEF Live, GroupValue
<1>6. main[w].mem.value.status # "CANCELLED"
  BY <1>1 DEF FollowInv, MainFollows, WorkPc
<1>7. status = "CANCELLED" => Ended(g)'
  <2>1. g \in Item /\ execution_controls \in [Item -> Control]
    BY ChildFacts DEF CallInv, ControlInv
  <2> QED BY <1>2, <1>3, <1>6, <2>1 DEF Finish, FinishExecution, FinishedStatus, Ended
<1>8. Ended(TheGroup(w))' <=> Ended(g)'
  BY <1>1, <1>2, <1>4, MainFields DEF QueueStays, TheGroup, Ended, RestPc
<1> QED BY <1>1, <1>4, <1>5, <1>7, <1>8, SameObject DEF WorkPc

LEMMA SaveOutcomeFollows ==
  ASSUME CallInv, FollowInv, QueueStays, NEW w \in Worker, SaveOutcome(w)
  PROVE  FollowsOn(w)
<1>0. main[w].pc = "save" /\ main[w].mem.value.status \in Status
  BY MainFields DEF SaveOutcome, At, WorkPc
<1>1. main'[w].pc = "complete"
  BY DEF SaveOutcome, Goto, CallInv, ThreadTypes, Main
<1>2. CASE UNCHANGED group_json
  BY <1>1, <1>2, EmptyHanded DEF WorkPc, EarlyPc, BetweenPc
<1>3. CASE SaveGroup(w, main[w].mem.value.status)
  <2>1. PICK g \in Group : g = TheGroup(w)
    BY <1>0, MainFields DEF RestPc
  <2>2. PICK rec \in Live : rec = main[w].mem
    BY <1>0, MainFields DEF WorkPc
  <2>3. /\ group_json'[g] = [version |-> rec.version + 1,
                             value |-> [rec.value EXCEPT !.status = rec.value.status]]
        /\ Current(g, rec)
        /\ \A h \in Group : h # g => group_json'[h] = group_json[h]
    BY <1>0, <1>3, <2>1, <2>2, SaveFacts DEF WorkPc
  <2>4. /\ group_json'[g].version = rec.version + 1
        /\ group_json'[g].value.status = rec.value.status
        /\ group_json'[g].value.replacing = rec.value.replacing
    BY <2>3 DEF Live, GroupValue
  <2>5. /\ FollowsOpen(g, rec)
        /\ rec.value.status = "CANCELLED" => Ended(g)'
    BY <1>0, <2>1, <2>2 DEF FollowInv, MainFollows, QueueStays, WorkPc
  <2>6. DiskStep
    BY <2>3, <2>4, <2>5 DEF DiskStep, FollowsOpen, Follows, Current, GroupStatus, Saved
  <2> QED BY <1>1, <2>6 DEF FollowsOn, MainFollows, WorkPc, EarlyPc, BetweenPc
<1> QED BY <1>2, <1>3 DEF SaveOutcome

LEMMA MainStepFollows ==
  ASSUME CallInv, FollowInv, QueueStays, NEW w \in Worker,
         MainStep(w) \/ GiveUpWaiting(w) \/ Crash(w)
  PROVE  FollowsOn(w)
BY RestingFollows, RecoverGroupFollows, MarkGroupFollows, LoadFollows, WorkingFollows,
   SavingFollows, ConcludeFollows, FinishFollows, SaveOutcomeFollows
DEF MainStep

LEMMA ApiStepFollows ==
  ASSUME CallInv, FollowInv, QueueStays, NEW g \in Group, ApiStep(g) \/ CancelCheck(g)
  PROVE  DiskStep /\ ApiFollows(g)'
<1> DEFINE rec == api[g].mem
<1>0. /\ api \in [Group -> Api] /\ api[g] \in Api /\ group_json \in [Group -> Live]
      /\ group_json[g] \in Live /\ group_json[g].version \in Nat /\ g \in Item
      /\ rec # Missing => rec \in Live
      /\ execution_controls \in [Item -> Control]
  BY ApiFields, GroupFields, ChildFacts
  DEF CallInv, ThreadTypes, FileTypes, ControlInv, Live
<1>1. CASE CancelCheck(g)
  <2>1. api'[g].mem = group_json[g] /\ api'[g].pc = "request" /\ UNCHANGED group_json
    BY <1>0, <1>1 DEF CancelCheck, fileVars, Api
  <2>2. GroupStatus(g) \in {"QUEUED", "RUNNING"}
    BY <1>1 DEF CancelCheck
  <2> QED BY <1>0, <2>1, <2>2
          DEF DiskStep, ApiFollows, FollowsOpen, Follows, Current, GroupStatus, Saved
<1>2. ASSUME UNCHANGED group_json, api'[g].mem \in {Missing, rec},
             api'[g].mem # Missing /\ api'[g].pc \in {"child", "childSave", "save"} => Ended(g)'
      PROVE  DiskStep /\ ApiFollows(g)'
  BY <1>0, <1>2
  DEF DiskStep, FollowInv, ApiFollows, FollowsOpen, Follows, Current, GroupStatus, Saved
<1>3. CASE EnqueueGroup(g)
  <2>1. api'[g].mem = rec /\ api'[g].pc = "ready" /\ UNCHANGED group_json
    BY <1>0, <1>3 DEF EnqueueGroup, ApiTo, fileVars, Api
  <2> QED BY <1>2, <2>1
<1>4. CASE CancelRequest(g)
  <2>1. /\ UNCHANGED group_json
        /\ api'[g].mem = IF execution_controls'[g].state = "cancelled" THEN rec ELSE Missing
    BY <1>0, <1>4 DEF CancelRequest, fileVars, Api
  <2> QED BY <1>2, <2>1 DEF Ended
<1>5. CASE CancelChild(g) \/ SaveCancelledChild(g)
  <2>1. UNCHANGED group_json /\ api'[g].mem = rec
    BY <1>0, <1>5 DEF CancelChild, SaveCancelledChild, ApiTo, fileVars, Api
  <2>2. api[g].pc \in {"child", "childSave"}
    BY <1>5 DEF CancelChild, SaveCancelledChild
  <2>3. rec # Missing => Ended(g)'
    BY <2>2 DEF FollowInv, ApiFollows, QueueStays
  <2> QED BY <1>2, <2>1, <2>3
<1>6. CASE AnswerCancel(g)
  <2>1. api[g].pc = "save" /\ api'[g].mem = rec /\ api'[g].pc = "answered"
    BY <1>0, <1>6 DEF AnswerCancel, ApiTo, Api
  <2>2. CASE UNCHANGED group_json
    BY <1>2, <2>1, <2>2
  <2>3. CASE /\ rec # Missing
             /\ UpdateGroup(g, rec, [rec.value EXCEPT !.status = "CANCELLED"])
    <3>1. rec \in Live /\ FollowsOpen(g, rec) /\ Ended(g)'
      BY <1>0, <2>1, <2>3 DEF FollowInv, ApiFollows, QueueStays
    <3>2. /\ group_json'[g].version = rec.version + 1 /\ rec.version \in Nat
          /\ group_json'[g].value.status = "CANCELLED"
          /\ group_json'[g].value.replacing = rec.value.replacing
          /\ Current(g, rec)
          /\ \A h \in Group : h # g => group_json'[h] = group_json[h]
      BY <1>0, <2>3, <3>1 DEF UpdateGroup, Bumped, Live, GroupValue
    <3> QED BY <2>1, <3>1, <3>2
            DEF DiskStep, ApiFollows, FollowsOpen, Follows, Current, GroupStatus, Saved
  <2> QED BY <1>6, <2>2, <2>3 DEF AnswerCancel
<1> QED BY <1>1, <1>3, <1>4, <1>5, <1>6 DEF ApiStep

LEMMA FollowInvStep ==
  ASSUME CallInv, FollowInv, [Next]_vars
  PROVE  DiskStep /\ FollowInv'
<1>0. QueueStays
  BY CallInvStep
<1>1. ASSUME UNCHANGED <<group_json, main, api>>
      PROVE  DiskStep /\ FollowInv'
  BY <1>0, <1>1, FollowStep DEF DiskStep
<1>2. CASE UNCHANGED vars
  BY <1>1, <1>2 DEF vars
<1>3. ASSUME NEW w \in Worker, MainStep(w) \/ GiveUpWaiting(w) \/ Crash(w)
      PROVE  DiskStep /\ FollowInv'
  <2>1. DiskStep /\ MainFollows(w)'
    BY <1>0, <1>3, MainStepFollows DEF FollowsOn
  <2>2. UNCHANGED api /\ main' = [main EXCEPT ![w] = main'[w]]
    BY <1>3, MainStepCalls, CrashTypes DEF MainCalls
  <2>3. \A v \in Worker : main'[v] = main[v] \/ MainFollows(v)'
    BY <2>1, <2>2 DEF CallInv, ThreadTypes
  <2> QED BY <1>0, <2>1, <2>2, <2>3, FollowStep
<1>4. ASSUME NEW w \in Worker, NEW c \in Child, ChildStep(w, c)
      PROVE  DiskStep /\ FollowInv'
  BY <1>1, <1>4, ChildStepCalls DEF ChildCalls
<1>5. ASSUME NEW g \in Group, ApiStep(g) \/ CancelCheck(g)
      PROVE  DiskStep /\ FollowInv'
  <2>1. DiskStep /\ ApiFollows(g)'
    BY <1>0, <1>5, ApiStepFollows
  <2>2. UNCHANGED main /\ api' = [api EXCEPT ![g] = api'[g]]
    BY <1>5, ApiStepCalls DEF ApiCalls
  <2>3. \A h \in Group : api'[h] = api[h] \/ ApiFollows(h)'
    BY <2>1, <2>2 DEF CallInv, ThreadTypes
  <2> QED BY <1>0, <2>1, <2>2, <2>3, FollowStep
<1>6. ASSUME NEW r \in RowIds, Expire(r)
      PROVE  DiskStep /\ FollowInv'
  BY <1>1, <1>6, ExpireTypes DEF fileVars
<1> QED BY <1>2, <1>3, <1>4, <1>5, <1>6 DEF Next

LEMMA FollowInvInit ==
  ASSUME Init
  PROVE  FollowInv
<1>1. \A w \in Worker : main[w].pc \notin WorkPc \cup {"mark"}
  BY DEF Init, Idle, WorkPc, EarlyPc, BetweenPc
<1>2. \A g \in Group : api[g].mem = Missing /\ GroupStatus(g) = "QUEUED"
  BY DEF Init, GroupStatus, Saved
<1> QED BY <1>1, <1>2 DEF FollowInv, MainFollows, ApiFollows

\* The records in hand follow the files in every reachable state.
THEOREM ObjectsFollowFiles == Spec => [](CallInv /\ FollowInv)
<1>1. Init => CallInv /\ FollowInv
  BY CallInvInit, FollowInvInit
<1>2. CallInv /\ FollowInv /\ [Next]_vars => CallInv' /\ FollowInv'
  BY CallInvStep, FollowInvStep
<1> QED BY <1>1, <1>2, PTL DEF Spec

\* StoppedStays: however late a worker or the API saves the object it has had
\* since before a recovery or a cancellation, the interruption or the
\* cancellation on disk is not replaced.
THEOREM StoppedStaysHolds == Spec => StoppedStays
<1>1. CallInv /\ FollowInv /\ [Next]_vars
        => [\A g \in Group, status \in {"INTERRUPTED", "CANCELLED"} :
              GroupStatus(g) = status => GroupStatus(g)' = status]_vars
  <2> SUFFICES ASSUME CallInv, FollowInv, [Next]_vars,
                      NEW g \in Group, NEW status \in {"INTERRUPTED", "CANCELLED"},
                      GroupStatus(g) = status
               PROVE  GroupStatus(g)' = status
    OBVIOUS
  <2>1. DiskStep
    BY FollowInvStep
  <2> QED BY <2>1 DEF DiskStep, GroupStatus, Saved
<1> QED BY <1>1, ObjectsFollowFiles, PTL DEF Spec, StoppedStays

-------------------------------------------------------------------------------
(* Children enter the executors of a worker once.                           *)

\* A child enters the executors only after its group's fence is closed.
RunStep ==
  \A w \in Worker, g \in Group :
    \/ Begun(g)
    \/ \A c \in {DeliverableOf[g], AuditOf[g]} : Unsubmitted(w, c) => Unsubmitted(w, c)'

\* The threads of w that are not concerned.
LEMMA MainFreshStays ==
  ASSUME CallInv, QueueStays, DiskStep, NEW w \in Worker, MainFresh(w),
         main'[w] = main[w],
         \A c \in Child : Unsubmitted(w, c) => Unsubmitted(w, c)'
  PROVE  MainFresh(w)'
<1>1. CASE main[w].pc \notin EarlyPc \cup BetweenPc \cup {"wait"}
  BY <1>1 DEF MainFresh
<1>2. CASE main[w].pc \in EarlyPc \cup BetweenPc \cup {"wait"}
  <2>1. PICK g \in Group : g = TheGroup(w) /\ g = TheGroup(w)'
    BY <1>2, MainFields DEF RestPc, EarlyPc, BetweenPc, QueueStays, TheGroup
  <2>2. /\ Begun(g) => Begun(g)'
        /\ Saved(g)'.replacing = Saved(g).replacing
        /\ DeliverableOf[g] \in Child /\ AuditOf[g] \in Child
    BY ChildFacts DEF QueueStays, DiskStep, Saved
  <2> QED BY <1>2, <2>1, <2>2 DEF MainFresh
<1> QED BY <1>1, <1>2

LEMMA FreshStep ==
  ASSUME CallInv, QueueStays, DiskStep, FreshInv, RunStep,
         \A w \in Worker : \/ MainFresh(w)'
                           \/ /\ main'[w] = main[w]
                              /\ \A c \in Child : Unsubmitted(w, c) => Unsubmitted(w, c)'
  PROVE  FreshInv'
<1>1. \A w \in Worker : MainFresh(w)'
  BY MainFreshStays DEF FreshInv
<1>2. ASSUME NEW w \in Worker, NEW g \in Group, ~Begun(g)'
      PROVE  Unsubmitted(w, AuditOf[g])' /\ Unsubmitted(w, DeliverableOf[g])'
  BY <1>2 DEF FreshInv, RunStep, QueueStays
<1> QED BY <1>1, <1>2 DEF FreshInv

\* The main thread is not on its way to a submission.
LEMMA NotSubmitting ==
  ASSUME NEW w \in Worker, main'[w].pc \notin EarlyPc \cup BetweenPc \cup {"wait"}
  PROVE  MainFresh(w)'
BY DEF MainFresh

\* The main thread comes nearer to a submission.
LEMMA NearerSubmission ==
  ASSUME CallInv, QueueStays, FreshInv, NEW w \in Worker, UNCHANGED run,
         main'[w].row = main[w].row,
         \/ main[w].pc \in EarlyPc /\ main'[w].pc \in EarlyPc
         \/ main[w].pc \in BetweenPc /\ main'[w].pc \in BetweenPc
  PROVE  MainFresh(w)'
<1>1. PICK g \in Group : g = TheGroup(w) /\ g = TheGroup(w)'
  BY MainFields DEF RestPc, EarlyPc, BetweenPc, QueueStays, TheGroup
<1>2. /\ Begun(g)
      /\ main[w].pc \in EarlyPc => Unsubmitted(w, AuditOf[g])
      /\ Unsubmitted(w, DeliverableOf[g])
  BY <1>1 DEF FreshInv, MainFresh
<1>3. Begun(g)'
  BY <1>2 DEF QueueStays
<1>4. main'[w].pc # "wait" /\ (main'[w].pc \in EarlyPc => main[w].pc \in EarlyPc)
  BY DEF EarlyPc, BetweenPc
<1> QED BY <1>1, <1>2, <1>3, <1>4 DEF MainFresh, Unsubmitted

\* begin_execution is granted once, and never after a child was submitted.
LEMMA BeginIsFresh ==
  ASSUME CallInv, FreshInv, QueueStays, NEW w \in Worker, Begin(w)
  PROVE  MainFresh(w)'
<1>1. main[w].pc = "begin" /\ main \in [Worker -> Main] /\ UNCHANGED run
  BY DEF Begin, At, CallInv, ThreadTypes
<1>2. PICK g \in Group : g = TheGroup(w) /\ g = queue_items'[main[w].row].item
  BY <1>1, MainFields DEF RestPc, QueueStays, TheGroup
<1>3. CASE BeginGranted(g)
  <2>1. main'[w].pc = "start" /\ main'[w].row = main[w].row
    BY <1>1, <1>2, <1>3 DEF Begin, Goto, Main
  <2>2. Begun(g)'
    <3>1. g \in Item /\ execution_controls \in [Item -> Control]
      BY ChildFacts DEF CallInv, ControlInv
    <3> QED BY <1>2, <1>3, <3>1 DEF Begin, BeginExecution, Begun, Control
  <2>3. Unsubmitted(w, AuditOf[g]) /\ Unsubmitted(w, DeliverableOf[g])
    BY <1>3 DEF BeginGranted, Begun, FreshInv
  <2>4. TheGroup(w)' = g
    BY <1>2, <2>1 DEF TheGroup
  <2> QED BY <1>1, <2>1, <2>2, <2>3, <2>4 DEF MainFresh, Unsubmitted, EarlyPc, BetweenPc
<1>4. CASE ~BeginGranted(g)
  <2>1. main'[w].pc = "complete"
    BY <1>1, <1>2, <1>4 DEF Begin, Goto, Main
  <2> QED BY <2>1, NotSubmitting DEF EarlyPc, BetweenPc
<1> QED BY <1>3, <1>4

\* The wait for the replacement leads to the deliverable, no other wait does.
LEMMA WaitIsFresh ==
  ASSUME CallInv, FreshInv, QueueStays, DiskStep, NEW w \in Worker, WaitForChild(w)
  PROVE  MainFresh(w)'
<1>1. main[w].pc = "wait" /\ main \in [Worker -> Main] /\ UNCHANGED run
  BY DEF WaitForChild, At, CallInv, ThreadTypes
<1>2. PICK g \in Group : g = TheGroup(w) /\ g = queue_items'[main[w].row].item
  BY <1>1, MainFields DEF RestPc, QueueStays, TheGroup
<1> DEFINE first == Saved(g).replacing /\ ~IsDeliverable(Head(main[w].todo))
<1>3. /\ main'[w].row = main[w].row
      /\ main'[w].todo = Tail(main[w].todo)
      /\ main'[w].pc \in {"prepareNext", "nextChild", "finish", "conclude", "wait"}
      /\ main'[w].pc = "prepareNext" => first
      /\ main'[w].pc = "wait" => ~first /\ Tail(main[w].todo) # <<>>
  BY <1>1, <1>2 DEF WaitForChild, AfterReplacement, Main, Saved
<1>4. /\ Begun(g) /\ Begun(g)'
      /\ Saved(g).replacing =>
           \/ main[w].todo = <<AuditOf[g]>> /\ Unsubmitted(w, DeliverableOf[g])
           \/ main[w].todo = <<DeliverableOf[g]>>
      /\ Saved(g)'.replacing = Saved(g).replacing
  BY <1>1, <1>2 DEF FreshInv, MainFresh, QueueStays, DiskStep, Saved
<1>5. IsDeliverable(DeliverableOf[g]) /\ ~IsDeliverable(AuditOf[g])
  BY ChildFacts
<1>6. TheGroup(w)' = g
  BY <1>2, <1>3 DEF TheGroup
<1>7. CASE main'[w].pc = "prepareNext"
  BY <1>1, <1>3, <1>4, <1>5, <1>6, <1>7 DEF MainFresh, Unsubmitted, EarlyPc, BetweenPc
<1>8. CASE main'[w].pc = "wait"
  <2>1. ~Saved(g).replacing
    <3> SUFFICES ASSUME Saved(g).replacing
                 PROVE  FALSE
      BY DEF GroupValue
    <3>1. PICK c \in Child : main[w].todo = <<c>>
      BY <1>4, ChildFacts
    <3>2. Tail(<<c>>) = <<>>
      <4>1. <<c>> \in Seq(Child) /\ Len(<<c>>) = 1
        OBVIOUS
      <4>2. Tail(<<c>>) \in Seq(Child) /\ Len(Tail(<<c>>)) = 0
        BY <4>1, HeadTailProperties, EmptySeq
      <4> QED BY <4>2, EmptySeq
    <3> QED BY <1>3, <1>8, <3>1, <3>2
  <2> QED BY <1>4, <1>6, <1>8, <2>1 DEF MainFresh, EarlyPc, BetweenPc
<1>9. CASE main'[w].pc \in {"nextChild", "finish", "conclude"}
  BY <1>9, NotSubmitting DEF EarlyPc, BetweenPc
<1> QED BY <1>3, <1>7, <1>8, <1>9

\* What a submission does to the executors of all workers.
LEMMA SubmitFacts ==
  ASSUME CallInv, NEW w \in Worker, NEW cs, Submit(w, cs)
  PROVE  \A v \in Worker, c \in Child :
           run'[v][c] = IF v = w /\ c \in cs THEN [NotRunning EXCEPT !.pc = "heavy"]
                        ELSE run[v][c]
BY DEF Submit, CallInv, ThreadTypes

\* The children that are enqueued first.
LEMMA BatchFacts ==
  ASSUME NEW g \in Group
  PROVE  {FirstBatch(g)[i] : i \in DOMAIN FirstBatch(g)}
           = IF Saved(g).replacing THEN {AuditOf[g]} ELSE {DeliverableOf[g], AuditOf[g]}
<1>1. CASE Saved(g).replacing
  <2>1. FirstBatch(g) = <<AuditOf[g]>>
    BY <1>1 DEF FirstBatch, Saved
  <2> QED BY <1>1, <2>1
<1>2. CASE ~Saved(g).replacing
  <2>1. FirstBatch(g) = <<DeliverableOf[g], AuditOf[g]>>
    BY <1>2 DEF FirstBatch, Children, Saved
  <2> QED BY <1>2, <2>1
<1> QED BY <1>1, <1>2

LEMMA StartChildrenIsFresh ==
  ASSUME CallInv, FreshInv, QueueStays, DiskStep, NEW w \in Worker, StartChildren(w)
  PROVE  MainFresh(w)'
<1>1. main[w].pc = "progress" /\ main \in [Worker -> Main]
  BY DEF StartChildren, At, CallInv, ThreadTypes
<1>2. PICK g \in Group : g = TheGroup(w) /\ g = queue_items'[main[w].row].item
  BY <1>1, MainFields DEF RestPc, QueueStays, TheGroup
<1>3. CASE Fail(w)
  <2>1. main'[w].pc = "finish"
    BY <1>1, <1>3 DEF Fail, Main
  <2> QED BY <2>1, NotSubmitting DEF EarlyPc, BetweenPc
<1>4. CASE ~Fail(w)
  <2>1. /\ main'[w].pc = "wait" /\ main'[w].row = main[w].row
        /\ main'[w].todo = FirstBatch(g)
        /\ Submit(w, {FirstBatch(g)[i] : i \in DOMAIN FirstBatch(g)})
    BY <1>1, <1>2, <1>4 DEF StartChildren, Main
  <2>2. /\ Begun(g)' /\ Unsubmitted(w, DeliverableOf[g])
        /\ Saved(g)'.replacing = Saved(g).replacing
    BY <1>1, <1>2 DEF FreshInv, MainFresh, EarlyPc, QueueStays, DiskStep, Saved
  <2>3. TheGroup(w)' = g
    BY <1>2, <2>1 DEF TheGroup
  <2>4. ASSUME Saved(g).replacing
        PROVE  main'[w].todo = <<AuditOf[g]>> /\ Unsubmitted(w, DeliverableOf[g])'
    <3>1. Submit(w, {AuditOf[g]})
      BY <2>1, <2>4, BatchFacts
    <3>2. run'[w][DeliverableOf[g]] = run[w][DeliverableOf[g]]
      BY <3>1, SubmitFacts, ChildFacts
    <3> QED BY <2>1, <2>2, <2>4, <3>2 DEF FirstBatch, Saved, Unsubmitted
  <2> QED BY <2>1, <2>2, <2>3, <2>4 DEF MainFresh, EarlyPc, BetweenPc
<1> QED BY <1>3, <1>4

LEMMA StartDeliverableIsFresh ==
  ASSUME CallInv, FreshInv, QueueStays, NEW w \in Worker, StartDeliverable(w)
  PROVE  MainFresh(w)'
<1>1. main[w].pc = "next" /\ main \in [Worker -> Main]
  BY DEF StartDeliverable, At, CallInv, ThreadTypes
<1>2. PICK g \in Group : g = TheGroup(w) /\ g = queue_items'[main[w].row].item
  BY <1>1, MainFields DEF RestPc, QueueStays, TheGroup
<1>3. /\ main'[w].pc = "wait" /\ main'[w].row = main[w].row
      /\ main'[w].todo = <<DeliverableOf[g]>>
  BY <1>1, <1>2 DEF StartDeliverable, Main
<1>4. Begun(g)'
  BY <1>1, <1>2 DEF FreshInv, MainFresh, BetweenPc, QueueStays
<1>5. TheGroup(w)' = g
  BY <1>2, <1>3 DEF TheGroup
<1> QED BY <1>3, <1>4, <1>5 DEF MainFresh, EarlyPc, BetweenPc

\* The steps between the start and the submissions.
LEMMA ApproachIsFresh ==
  ASSUME CallInv, FreshInv, QueueStays, NEW w \in Worker,
         \/ SaveProgress(w, "start", "prepare")
         \/ Prepare(w, "prepare", "shared")
         \/ SaveProgress(w, "shared", "children")
         \/ UpdateChildren(w)
         \/ Prepare(w, "prepareNext", "nextSave")
         \/ SaveProgress(w, "nextSave", "next")
  PROVE  MainFresh(w)'
<1>1. main \in [Worker -> Main] /\ UNCHANGED run
  BY DEF SaveProgress, Prepare, UpdateChildren, CallInv, ThreadTypes
<1>2. main'[w].row = main[w].row
  BY <1>1 DEF SaveProgress, Prepare, UpdateChildren, Fail, Goto, Main
<1>3. \/ main'[w].pc = "finish"
      \/ main[w].pc \in EarlyPc /\ main'[w].pc \in EarlyPc
      \/ main[w].pc \in BetweenPc /\ main'[w].pc \in BetweenPc
  BY <1>1 DEF SaveProgress, Prepare, UpdateChildren, Fail, Goto, At, Main, EarlyPc, BetweenPc
<1>4. CASE main'[w].pc = "finish"
  BY <1>4, NotSubmitting DEF EarlyPc, BetweenPc
<1> QED BY <1>1, <1>2, <1>3, <1>4, NearerSubmission

\* All the others lead to no submission.
LEMMA OtherwiseFresh ==
  ASSUME CallInv, NEW w \in Worker,
         \/ RunOnce(w) \/ (\E r \in RowIds : RecoverGroup(w, r))
         \/ MarkGroup(w) \/ MarkConflicts(w) \/ RecoverChild(w) \/ MarkChild(w)
         \/ Acknowledge(w) \/ Claim(w) \/ Load(w) \/ GiveUpWaiting(w)
         \/ FailDeliverable(w) \/ Conclude(w) \/ Finish(w) \/ SaveOutcome(w)
         \/ Complete(w) \/ Crash(w)
  PROVE  MainFresh(w)'
<1>1. main \in [Worker -> Main]
  BY DEF CallInv, ThreadTypes
<1> USE DEF EarlyPc, BetweenPc
<1>2. CASE RunOnce(w) \/ Load(w) \/ \E r \in RowIds : RecoverGroup(w, r)
  <2>1. CASE RunOnce(w) \/ Load(w)
    <3>1. main'[w].pc \in {"recover", "begin", "complete"}
      BY <1>1, <2>1 DEF RunOnce, Load, Main
    <3> QED BY <3>1, NotSubmitting
  <2>2. ASSUME NEW r \in RowIds, RecoverGroup(w, r)
        PROVE  main'[w].pc \in {"recoverChild", "mark"}
    BY <1>1, <2>2 DEF RecoverGroup, Main
  <2> QED BY <1>2, <2>1, <2>2, NotSubmitting
<1>3. CASE \/ MarkGroup(w) \/ MarkConflicts(w) \/ RecoverChild(w) \/ MarkChild(w)
           \/ Acknowledge(w) \/ Complete(w)
  <2>1. CASE MarkConflicts(w) \/ Acknowledge(w) \/ Complete(w)
    <3>1. Reconciled(w).pc \in {"idle", "recover"} /\ Idle.pc = "idle"
      BY DEF Reconciled, Idle
    <3>2. MarkConflicts(w) \/ Acknowledge(w) => main'[w] = Reconciled(w)
      BY <1>1 DEF MarkConflicts, Acknowledge
    <3>3. ASSUME NEW r, [Idle EXCEPT !.pc = "recover", !.rows = {r}, !.late = TRUE] = main'[w]
          PROVE  main'[w].pc = "recover"
      BY <3>3 DEF Idle
    <3>4. Complete(w) =>
            main'[w] \in {Idle, [Idle EXCEPT !.pc = "recover", !.rows = {main[w].row}, !.late = TRUE]}
      BY <1>1 DEF Complete
    <3>5. main'[w].pc \in {"idle", "recover"}
      BY <2>1, <3>1, <3>2, <3>3, <3>4
    <3> QED BY <3>5, NotSubmitting
  <2>2. CASE MarkGroup(w) \/ RecoverChild(w) \/ MarkChild(w)
    <3>1. main'[w].pc \in {"recoverChild", "markChild", "acknowledge"}
      BY <1>1, <2>2 DEF MarkGroup, RecoverChild, MarkChild, Goto, At, Main
    <3> QED BY <3>1, NotSubmitting
  <2> QED BY <1>3, <2>1, <2>2
<1>4. CASE \/ Claim(w) \/ GiveUpWaiting(w) \/ FailDeliverable(w) \/ Conclude(w)
           \/ Finish(w) \/ SaveOutcome(w) \/ Crash(w)
  <2>1. main'[w].pc \in {"idle", "load", "finish", "conclude", "save", "complete", "dead"}
    BY <1>1, <1>4
    DEF Claim, GiveUpWaiting, FailDeliverable, Conclude, Finish, SaveOutcome, Crash, Fail,
        Goto, Idle, Main
  <2> QED BY <2>1, NotSubmitting
<1> QED BY <1>2, <1>3, <1>4

LEMMA MainStepIsFresh ==
  ASSUME CallInv, FreshInv, QueueStays, DiskStep, NEW w \in Worker,
         MainStep(w) \/ GiveUpWaiting(w) \/ Crash(w)
  PROVE  MainFresh(w)'
BY BeginIsFresh, WaitIsFresh, StartChildrenIsFresh, StartDeliverableIsFresh, ApproachIsFresh,
   OtherwiseFresh
DEF MainStep

\* w gives children of g, which has begun, to its executors for the first time.
Submits(w, g, cs) ==
  /\ Begun(g)
  /\ cs \subseteq {DeliverableOf[g], AuditOf[g]}
  /\ \A c \in cs : Unsubmitted(w, c)
  /\ Submit(w, cs)

\* What the main thread does to the executors and the slots.
LEMMA MainRun ==
  ASSUME CallInv, FreshInv, NEW w \in Worker, MainStep(w) \/ GiveUpWaiting(w)
  PROVE  /\ slots' = slots
         /\ UNCHANGED run \/ \E g \in Group : \E cs : Submits(w, g, cs)
<1>1. CASE StartChildren(w)
  <2>1. main[w].pc = "progress" /\ slots' = slots
    BY <1>1 DEF StartChildren, At
  <2>2. PICK g \in Group : g = TheGroup(w)
    BY <2>1, MainFields DEF RestPc
  <2> DEFINE cs == {FirstBatch(g)[i] : i \in DOMAIN FirstBatch(g)}
  <2>3. Begun(g) /\ Unsubmitted(w, AuditOf[g]) /\ Unsubmitted(w, DeliverableOf[g])
    BY <2>1, <2>2 DEF FreshInv, MainFresh, EarlyPc
  <2>4. cs \subseteq {DeliverableOf[g], AuditOf[g]}
    BY BatchFacts
  <2>5. UNCHANGED run \/ Submit(w, cs)
    BY <1>1, <2>2 DEF StartChildren
  <2> HIDE DEF cs
  <2> QED BY <2>1, <2>3, <2>4, <2>5 DEF Submits
<1>2. CASE StartDeliverable(w)
  <2>1. main[w].pc = "next" /\ slots' = slots
    BY <1>2 DEF StartDeliverable, At
  <2>2. PICK g \in Group : g = TheGroup(w)
    BY <2>1, MainFields DEF RestPc
  <2>3. Begun(g) /\ Unsubmitted(w, DeliverableOf[g])
    BY <2>1, <2>2 DEF FreshInv, MainFresh, BetweenPc
  <2>4. Submits(w, g, {DeliverableOf[g]})
    BY <1>2, <2>2, <2>3 DEF StartDeliverable, Submits
  <2> QED BY <2>1, <2>4
<1>3. CASE ~StartChildren(w) /\ ~StartDeliverable(w)
  BY <1>3
  DEF MainStep, RunOnce, RecoverGroup, MarkGroup, MarkConflicts, RecoverChild, MarkChild,
      Acknowledge, Claim, Load, Begin, SaveProgress, Prepare, UpdateChildren, WaitForChild,
      GiveUpWaiting, FailDeliverable, Conclude, Finish, SaveOutcome, Complete
<1> QED BY <1>1, <1>2, <1>3

LEMMA FreshInvStep ==
  ASSUME CallInv, FollowInv, FreshInv, [Next]_vars
  PROVE  FreshInv'
<1>0. QueueStays /\ DiskStep
  BY CallInvStep, FollowInvStep
<1>1. ASSUME UNCHANGED <<main, run>>
      PROVE  FreshInv'
  <2>1. RunStep
    BY <1>1 DEF RunStep, Unsubmitted
  <2> QED BY <1>0, <1>1, <2>1, FreshStep DEF Unsubmitted
<1>2. CASE UNCHANGED vars
  BY <1>1, <1>2 DEF vars
<1>3. ASSUME NEW w \in Worker, MainStep(w) \/ GiveUpWaiting(w)
      PROVE  FreshInv'
  <2>1. main' = [main EXCEPT ![w] = main'[w]] /\ MainFresh(w)'
    BY <1>0, <1>3, MainStepCalls, MainStepIsFresh DEF MainCalls
  <2>2. CASE UNCHANGED run
    <3>1. RunStep
      BY <2>2 DEF RunStep, Unsubmitted
    <3>2. \A v \in Worker : v # w => main'[v] = main[v]
      BY <2>1 DEF CallInv, ThreadTypes
    <3> QED BY <1>0, <2>1, <2>2, <3>1, <3>2, FreshStep DEF Unsubmitted
  <2>3. ASSUME NEW g \in Group, NEW cs, Submits(w, g, cs)
        PROVE  FreshInv'
    <3>1. \A v \in Worker, c \in Child : v # w \/ c \notin cs => run'[v][c] = run[v][c]
      BY <2>3, SubmitFacts DEF Submits
    <3>2. \A v \in Worker : v # w => main'[v] = main[v]
      BY <2>1 DEF CallInv, ThreadTypes
    <3>3. \A h \in Group : h # g => DeliverableOf[h] \notin cs /\ AuditOf[h] \notin cs
      BY <2>3, GroupExecutionAssumption DEF Submits
    <3>4. RunStep
      BY <2>3, <3>1, <3>3, ChildFacts DEF RunStep, Unsubmitted, Submits
    <3> QED BY <1>0, <2>1, <3>1, <3>2, <3>4, FreshStep DEF Unsubmitted
  <2> QED BY <1>3, <2>2, <2>3, MainRun
<1>4. ASSUME NEW w \in Worker, Crash(w)
      PROVE  FreshInv'
  <2>1. main' = [main EXCEPT ![w] = main'[w]] /\ MainFresh(w)'
    BY <1>0, <1>4, CrashTypes, MainStepIsFresh
  <2>2. \A v \in Worker : v # w => main'[v] = main[v]
    BY <2>1 DEF CallInv, ThreadTypes
  <2>3. \A v \in Worker, c \in Child : Unsubmitted(v, c) => Unsubmitted(v, c)'
    BY <1>4 DEF Crash, Unsubmitted, NoRuns, NotRunning, CallInv, ThreadTypes
  <2>4. RunStep
    BY <2>3, ChildFacts DEF RunStep
  <2> QED BY <1>0, <2>1, <2>2, <2>3, <2>4, FreshStep
<1>5. ASSUME NEW w \in Worker, NEW c \in Child, ChildStep(w, c)
      PROVE  FreshInv'
  <2>1. /\ run[w][c].pc # "none" /\ UNCHANGED main
        /\ run' = [run EXCEPT ![w][c] = run'[w][c]]
    BY <1>5, ChildStepCalls DEF ChildCalls
  <2>2. \A v \in Worker, d \in Child : Unsubmitted(v, d) => Unsubmitted(v, d)'
    BY <2>1, RunFields DEF Unsubmitted
  <2>3. RunStep
    BY <2>2, ChildFacts DEF RunStep
  <2> QED BY <1>0, <2>1, <2>2, <2>3, FreshStep
<1>6. ASSUME NEW g \in Group, ApiStep(g) \/ CancelCheck(g)
      PROVE  FreshInv'
  BY <1>1, <1>6, ApiStepCalls DEF ApiCalls
<1>7. ASSUME NEW r \in RowIds, Expire(r)
      PROVE  FreshInv'
  BY <1>1, <1>7, ExpireTypes
<1> QED BY <1>2, <1>3, <1>4, <1>5, <1>6, <1>7 DEF Next

LEMMA FreshInvInit ==
  ASSUME Init
  PROVE  FreshInv
<1>1. \A w \in Worker : main[w].pc \notin EarlyPc \cup BetweenPc \cup {"wait"}
  BY DEF Init, Idle, EarlyPc, BetweenPc
<1>2. \A w \in Worker, c \in Child : Unsubmitted(w, c)
  BY DEF Init, NoRuns, NotRunning, Unsubmitted
<1> QED BY <1>1, <1>2, ChildFacts DEF FreshInv, MainFresh

-------------------------------------------------------------------------------
(* The slots are counted.                                                   *)

\* How a child moves through the threads and the slots of its worker.
ChildMoves(w, c) ==
  LET before == run[w][c].pc
      after == run'[w][c].pc
  IN
  \/ /\ before = "heavy" /\ after \in {"begin", "none"}
     /\ Cardinality(HeavyThreads(w)) < Slots
     /\ slots' = slots
  \/ /\ before = "begin" /\ after \in {"acquire", "none"}
     /\ slots' = slots
  \/ /\ before = "acquire" /\ after \in HoldingPc
     /\ slots[w] > 0
     /\ slots' = [slots EXCEPT ![w] = @ - 1]
  \/ /\ before \in HoldingPc /\ after \in HoldingPc
     /\ slots' = slots
  \/ /\ before \in HoldingPc /\ after \in {"doc", "none"}
     /\ slots' = [slots EXCEPT ![w] = @ + 1]
  \/ /\ before \in {"doc", "docRun", "docFinish"} /\ after \in {"docRun", "docFinish", "none"}
     /\ slots' = slots

LEMMA ChildStepMoves ==
  ASSUME CallInv, NEW w \in Worker, NEW c \in Child, ChildStep(w, c)
  PROVE  ChildMoves(w, c)
<1>1. run[w][c] \in Run /\ run \in [Worker -> [Child -> Run]]
  BY RunFields
<1>2. ASSUME NEW pc, RunTo(w, c, pc)
      PROVE  run'[w][c].pc = pc
  BY <1>1, <1>2 DEF RunTo, Run
<1> USE DEF HoldingPc
<1>3. CASE LoadChild(w, c) \/ BeginChild(w, c)
  BY <1>2, <1>3 DEF LoadChild, BeginChild, ChildMoves
<1>4. CASE AcquireSlot(w, c) \/ HandOver(w, c)
  BY <1>2, <1>4 DEF AcquireSlot, HandOver, ChildMoves
<1>5. CASE FinishChild(w, c) \/ ReleaseSlot(w, c) \/ StartDocuments(w, c)
  BY <1>2, <1>5 DEF FinishChild, ReleaseSlot, StartDocuments, ChildMoves
<1>6. CASE Process(w, c) \/ SlotBoundStages(w, c) \/ UpdateAfterStages(w, c)
  BY <1>1, <1>2, <1>6 DEF Process, SlotBoundStages, UpdateAfterStages, ChildMoves
<1>7. CASE MakeDocuments(w, c) \/ FinishDocuments(w, c)
  BY <1>1, <1>7 DEF MakeDocuments, FinishDocuments, NotRunning, ChildMoves
<1> QED BY <1>3, <1>4, <1>5, <1>6, <1>7 DEF ChildStep

\* One element more or less.
LEMMA OneMoreOrLess ==
  ASSUME NEW S, IsFiniteSet(S), NEW c
  PROVE  /\ Cardinality(S) \in Nat
         /\ IsFiniteSet(S \cup {c})
         /\ Cardinality(S \cup {c}) = IF c \in S THEN Cardinality(S) ELSE Cardinality(S) + 1
         /\ IsFiniteSet(S \ {c})
         /\ Cardinality(S \ {c}) = IF c \in S THEN Cardinality(S) - 1 ELSE Cardinality(S)
BY FS_AddElement, FS_RemoveElement, FS_CardinalityType

\* The slots of one worker.
SlotsOf(w) ==
  /\ IsFiniteSet(HeavyThreads(w))
  /\ Cardinality(HeavyThreads(w)) <= Slots
  /\ slots[w] + Cardinality(Holding(w)) = Slots

\* The holders of slots are among the heavy threads.
LEMMA HoldersAreHeavy ==
  ASSUME NEW w \in Worker, IsFiniteSet(HeavyThreads(w))
  PROVE  /\ Holding(w) \subseteq HeavyThreads(w)
         /\ IsFiniteSet(Holding(w))
         /\ Cardinality(Holding(w)) \in Nat /\ Cardinality(HeavyThreads(w)) \in Nat
         /\ Cardinality(Holding(w)) <= Cardinality(HeavyThreads(w))
<1>1. Holding(w) \subseteq HeavyThreads(w)
  BY DEF Holding, HeavyThreads
<1> QED BY <1>1, FS_Subset, FS_CardinalityType

LEMMA ChildStepSlots ==
  ASSUME CallInv, SlotInv, NEW w \in Worker, NEW c \in Child, ChildStep(w, c)
  PROVE  SlotInv'
<1> DEFINE H == HeavyThreads(w)
           K == Holding(w)
           before == run[w][c].pc
           after == run'[w][c].pc
           heavy == {"begin", "acquire"} \cup HoldingPc
<1>1. run' = [run EXCEPT ![w][c] = run'[w][c]]
  BY ChildStepCalls DEF ChildCalls
<1>2. /\ slots \in [Worker -> 0 .. Slots] /\ Slots \in Nat
      /\ IsFiniteSet(H) /\ Cardinality(H) <= Slots
      /\ slots[w] + Cardinality(K) = Slots /\ slots[w] \in Nat
  BY GroupExecutionAssumption DEF SlotInv
<1>3. \A v \in Worker : v # w => /\ HeavyThreads(v)' = HeavyThreads(v)
                                 /\ Holding(v)' = Holding(v)
  BY <1>1, RunFields DEF HeavyThreads, Holding
<1>4. /\ HeavyThreads(w)' = IF after \in heavy THEN H \cup {c} ELSE H \ {c}
      /\ c \in H <=> before \in heavy
  BY <1>1, RunFields DEF HeavyThreads
<1>5. /\ Holding(w)' = IF after \in HoldingPc THEN K \cup {c} ELSE K \ {c}
      /\ c \in K <=> before \in HoldingPc
  BY <1>1, RunFields DEF Holding
<1>6. /\ K \subseteq H /\ IsFiniteSet(K)
      /\ Cardinality(K) \in Nat /\ Cardinality(H) \in Nat
      /\ Cardinality(K) <= Cardinality(H)
  BY <1>2, HoldersAreHeavy
<1> HIDE DEF H, K, before, after, heavy
<1>7. /\ IsFiniteSet(HeavyThreads(w)')
      /\ Cardinality(HeavyThreads(w)') =
           Cardinality(H) + (IF after \in heavy THEN 1 ELSE 0)
                          - (IF before \in heavy THEN 1 ELSE 0)
  <2>1. /\ IsFiniteSet(H \cup {c}) /\ IsFiniteSet(H \ {c})
        /\ Cardinality(H \cup {c}) = IF c \in H THEN Cardinality(H) ELSE Cardinality(H) + 1
        /\ Cardinality(H \ {c}) = IF c \in H THEN Cardinality(H) - 1 ELSE Cardinality(H)
    BY <1>2, OneMoreOrLess
  <2> QED BY <1>4, <1>6, <2>1
<1>8. /\ Cardinality(Holding(w)') =
           Cardinality(K) + (IF after \in HoldingPc THEN 1 ELSE 0)
                          - (IF before \in HoldingPc THEN 1 ELSE 0)
      /\ before \in HoldingPc => Cardinality(K) - 1 \in Nat
  <2>1. /\ Cardinality(K \cup {c}) = IF c \in K THEN Cardinality(K) ELSE Cardinality(K) + 1
        /\ Cardinality(K \ {c}) = IF c \in K THEN Cardinality(K) - 1 ELSE Cardinality(K)
        /\ Cardinality(K \ {c}) \in Nat
    <3>1. IsFiniteSet(K \ {c})
      BY <1>6, OneMoreOrLess
    <3> QED BY <1>6, <3>1, OneMoreOrLess, FS_CardinalityType
  <2> QED BY <1>5, <1>6, <2>1
<1>9. ChildMoves(w, c)
  BY ChildStepMoves
<1>10. Cardinality(HeavyThreads(w)') <= Slots
  <2>1. before \in heavy \/ after \notin heavy \/ Cardinality(H) < Slots
    BY <1>9 DEF ChildMoves, HoldingPc, H, before, after, heavy
  <2> QED BY <1>2, <1>6, <1>7, <2>1
<1>11. /\ slots'[w] + Cardinality(Holding(w)') = Slots
       /\ slots'[w] \in 0 .. Slots
       /\ slots' = [slots EXCEPT ![w] = slots'[w]]
  <2>1. CASE /\ (before \in HoldingPc <=> after \in HoldingPc)
             /\ slots' = slots
    BY <1>2, <1>6, <1>8, <2>1
  <2>2. CASE /\ before \notin HoldingPc /\ after \in HoldingPc
             /\ slots[w] > 0 /\ slots' = [slots EXCEPT ![w] = @ - 1]
    BY <1>2, <1>6, <1>8, <2>2
  <2>3. CASE /\ before \in HoldingPc /\ after \notin HoldingPc
             /\ slots' = [slots EXCEPT ![w] = @ + 1]
    BY <1>2, <1>6, <1>8, <2>3
  <2> QED BY <1>9, <2>1, <2>2, <2>3 DEF ChildMoves, HoldingPc, before, after
<1>12. slots' \in [Worker -> 0 .. Slots] /\ \A v \in Worker : v # w => slots'[v] = slots[v]
  BY <1>2, <1>11
<1> QED BY <1>3, <1>7, <1>10, <1>11, <1>12 DEF SlotInv

\* The other steps leave the heavy threads and the holders as they are.
LEMMA SameThreads ==
  ASSUME SlotInv, slots' = slots,
         \A w \in Worker, c \in Child :
           \/ run'[w][c].pc = run[w][c].pc
           \/ run[w][c].pc = "none" /\ run'[w][c].pc = "heavy"
  PROVE  SlotInv'
<1>1. \A w \in Worker : HeavyThreads(w)' = HeavyThreads(w) /\ Holding(w)' = Holding(w)
  BY DEF HeavyThreads, Holding, HoldingPc
<1> QED BY <1>1 DEF SlotInv

\* A worker starts with nothing in its executors and all its slots.
LEMMA NoRunsSlots ==
  ASSUME NEW w \in Worker, \A c \in Child : run[w][c].pc = "none"
  PROVE  /\ IsFiniteSet(HeavyThreads(w)) /\ Cardinality(HeavyThreads(w)) = 0
         /\ IsFiniteSet(Holding(w)) /\ Cardinality(Holding(w)) = 0
<1>1. HeavyThreads(w) = {} /\ Holding(w) = {}
  BY DEF HeavyThreads, Holding, HoldingPc
<1> QED BY <1>1, FS_EmptySet

LEMMA CrashSlots ==
  ASSUME CallInv, SlotInv, NEW w \in Worker, Crash(w)
  PROVE  SlotInv'
<1>1. /\ slots \in [Worker -> 0 .. Slots] /\ Slots \in 0 .. Slots
      /\ run \in [Worker -> [Child -> Run]]
  BY GroupExecutionAssumption DEF SlotInv, CallInv, ThreadTypes
<1>2. \A v \in Worker : v # w => /\ slots'[v] = slots[v]
                                 /\ HeavyThreads(v)' = HeavyThreads(v)
                                 /\ Holding(v)' = Holding(v)
  BY <1>1 DEF Crash, HeavyThreads, Holding
<1>3. \A c \in Child : run'[w][c].pc = "none"
  BY <1>1 DEF Crash, NoRuns, NotRunning
<1>4. HeavyThreads(w)' = {} /\ Holding(w)' = {}
  BY <1>3 DEF HeavyThreads, Holding, HoldingPc
<1>5. slots' \in [Worker -> 0 .. Slots] /\ slots'[w] = Slots
  BY <1>1 DEF Crash
<1>6. Cardinality({}) = 0 /\ IsFiniteSet({})
  BY FS_EmptySet
<1>7. /\ IsFiniteSet(HeavyThreads(w)') /\ Cardinality(HeavyThreads(w)') = 0
      /\ Cardinality(Holding(w)') = 0
  BY <1>4, <1>6
<1>8. /\ Cardinality(HeavyThreads(w)') <= Slots
      /\ slots'[w] + Cardinality(Holding(w)') = Slots
  BY <1>1, <1>5, <1>7, GroupExecutionAssumption
<1> QED BY <1>2, <1>5, <1>7, <1>8 DEF SlotInv

LEMMA SlotInvStep ==
  ASSUME CallInv, FreshInv, SlotInv, [Next]_vars
  PROVE  SlotInv'
<1>1. CASE UNCHANGED <<run, slots>>
  BY <1>1, SameThreads
<1>2. ASSUME NEW w \in Worker, MainStep(w) \/ GiveUpWaiting(w)
      PROVE  SlotInv'
  <2>1. slots' = slots /\ (UNCHANGED run \/ \E g \in Group : \E cs : Submits(w, g, cs))
    BY <1>2, MainRun
  <2>2. ASSUME NEW g \in Group, NEW cs, Submits(w, g, cs)
        PROVE  SlotInv'
    <3>1. \A v \in Worker, c \in Child :
            \/ run'[v][c].pc = run[v][c].pc
            \/ run[v][c].pc = "none" /\ run'[v][c].pc = "heavy"
      BY <2>2, SubmitFacts DEF Submits, Unsubmitted, NotRunning
    <3> QED BY <2>1, <3>1, SameThreads
  <2> QED BY <1>1, <2>1, <2>2
<1>3. ASSUME NEW w \in Worker, Crash(w)
      PROVE  SlotInv'
  BY <1>3, CrashSlots
<1>4. ASSUME NEW w \in Worker, NEW c \in Child, ChildStep(w, c)
      PROVE  SlotInv'
  BY <1>4, ChildStepSlots
<1>5. ASSUME NEW g \in Group, ApiStep(g) \/ CancelCheck(g)
      PROVE  SlotInv'
  BY <1>1, <1>5
  DEF ApiStep, EnqueueGroup, CancelCheck, CancelRequest, CancelChild, SaveCancelledChild,
      AnswerCancel
<1>6. ASSUME NEW r \in RowIds, Expire(r)
      PROVE  SlotInv'
  BY <1>1, <1>6 DEF Expire
<1>7. CASE UNCHANGED vars
  BY <1>1, <1>7 DEF vars
<1> QED BY <1>2, <1>3, <1>4, <1>5, <1>6, <1>7 DEF Next

LEMMA SlotInvInit ==
  ASSUME Init
  PROVE  SlotInv
<1>1. Slots \in Nat /\ Slots \in 0 .. Slots /\ slots \in [Worker -> 0 .. Slots]
  BY GroupExecutionAssumption DEF Init
<1>2. \A w \in Worker, c \in Child : run[w][c].pc = "none"
  BY DEF Init, NoRuns, NotRunning
<1>3. \A w \in Worker : slots[w] = Slots
  BY DEF Init
<1> QED BY <1>1, <1>2, <1>3, NoRunsSlots DEF SlotInv

-------------------------------------------------------------------------------
(* The theorems.                                                            *)

\* The inductive invariant holds in every reachable state.
THEOREM Invariance == Spec => []IInv
<1>1. Init => IInv
  BY CallInvInit, FollowInvInit, FreshInvInit, SlotInvInit DEF IInv
<1>2. IInv /\ [Next]_vars => IInv'
  BY CallInvStep, FollowInvStep, FreshInvStep, SlotInvStep DEF IInv
<1> QED BY <1>1, <1>2, PTL DEF Spec

\* TypeOK: rows, controls, files, threads and slots keep their types, whatever
\* the workers, the executors, the API and the faults do.
THEOREM TypeCorrect == Spec => []TypeOK
<1>1. IInv => TypeOK
  <2> SUFFICES ASSUME IInv
               PROVE  TypeOK
    OBVIOUS
  <2>1. TypeOKQ
    BY DEF IInv, CallInv, TypeOKQ, RowInv, ControlInv, RowTypes
  <2>2. group_json \in [Group -> Record]
    BY DEF IInv, CallInv, FileTypes, Live, Record
  <2> QED BY <2>1, <2>2 DEF IInv, CallInv, FileTypes, ThreadTypes, SlotInv, TypeOK
<1> QED BY <1>1, Invariance, PTL

\* SlotsConserved: the slots that are idle and those that are held add up to the
\* size of the pool, and a thread that comes to acquire finds one.
THEOREM SlotsConservedHolds == Spec => []SlotsConserved
<1>1. IInv => SlotsConserved
  <2> SUFFICES ASSUME IInv, NEW w \in Worker
               PROVE  /\ slots[w] + Cardinality(Holding(w)) = Slots
                      /\ \A c \in Child : run[w][c].pc = "acquire" => slots[w] > 0
    BY DEF SlotsConserved, Holding
  <2> DEFINE H == HeavyThreads(w)
             K == Holding(w)
  <2>1. /\ IsFiniteSet(H) /\ Cardinality(H) <= Slots
        /\ slots[w] + Cardinality(K) = Slots /\ slots[w] \in Nat
    BY GroupExecutionAssumption DEF IInv, SlotInv
  <2>2. /\ K \subseteq H /\ IsFiniteSet(K) /\ Slots \in Nat
        /\ Cardinality(K) \in Nat /\ Cardinality(H) \in Nat
    BY <2>1, HoldersAreHeavy, GroupExecutionAssumption
  <2>3. ASSUME NEW c \in Child, run[w][c].pc = "acquire"
        PROVE  slots[w] > 0
    <3>1. c \in H /\ c \notin K
      BY <2>3 DEF HeavyThreads, Holding, HoldingPc
    <3> HIDE DEF H, K
    <3>2. IsFiniteSet(H \ {c}) /\ Cardinality(H \ {c}) = Cardinality(H) - 1
      BY <2>1, <3>1, FS_RemoveElement
    <3>3. K \subseteq H \ {c}
      BY <2>2, <3>1
    <3>4. Cardinality(K) <= Cardinality(H) - 1
      BY <3>2, <3>3, FS_Subset
    <3> QED BY <2>1, <2>2, <3>4
  <2> QED BY <2>1, <2>3
<1> QED BY <1>1, Invariance, PTL

\* The workers and the API use the store as SpecQ allows, for groups and for
\* the children, which have no rows.
THEOREM GroupsUseTheStore == Spec => SpecQ
<1>1. Init => InitQ
  BY DEF Init
<1>2. CallInv /\ [Next]_vars => [NextQ]_queueVars
  BY CallInvStep
<1>3. IInv => CallInv
  BY DEF IInv
<1> QED BY <1>1, <1>2, <1>3, Invariance, PTL DEF Spec, SpecQ

\* So the promises of the store hold of the groups and children that are
\* executed.
THEOREM GroupsKeepTheLifecycle ==
  Spec => []UniqueUnfinished /\ []OutcomeMatchesFlag /\ ImplementsLifecycle
BY GroupsUseTheStore, UnfinishedRowsUnique, OutcomeAgrees, StoreImplementsLifecycle, PTL
===============================================================================
