--------------------------- MODULE SQLiteQueueProofs --------------------------
(***************************************************************************)
(* The store of SQLiteQueue for any items, any workers and any number of   *)
(* rows: its type, the uniqueness of unfinished rows, the agreement of the *)
(* published outcome with the cancellation flag, the frozen history, and   *)
(* the refinement of ExecutionLifecycle.                                   *)
(***************************************************************************)
EXTENDS SQLiteQueue, TLAPS

-------------------------------------------------------------------------------
(* The control rows.                                                        *)

\* What ControlAfterCancel and ControlAfterFinish preserve of a control row.
ControlSound(c) ==
  /\ c.state = "absent" => ~c.cancel_requested
  /\ c.state = "completed" => ~c.cancel_requested
  /\ c.state = "cancelled" => c.cancel_requested

ControlInv ==
  /\ execution_controls \in [Item -> Control]
  /\ \A i \in Item : ControlSound(execution_controls[i])

\* A cancellation keeps a control row sound.
LEMMA CancelSound ==
  ASSUME NEW c \in Control, ControlSound(c)
  PROVE  /\ ControlAfterCancel(c) \in Control
         /\ ControlSound(ControlAfterCancel(c))
BY DEF Control, ControlState, ControlSound, ControlAfterCancel

\* The end of an execution keeps a control row sound.
LEMMA FinishSound ==
  ASSUME NEW c \in Control, ControlSound(c)
  PROVE  /\ ControlAfterFinish(c) \in Control
         /\ ControlSound(ControlAfterFinish(c))
BY DEF Control, ControlState, ControlSound, ControlAfterFinish

\* What a step of the store may do to the control rows.
ControlStep ==
  \/ UNCHANGED execution_controls
  \/ \E i \in Item :
       \/ /\ execution_controls[i].state = "absent"
          /\ execution_controls' = [execution_controls EXCEPT ![i].state = "running"]
       \/ execution_controls' =
            [execution_controls EXCEPT ![i] = ControlAfterCancel(execution_controls[i])]
       \/ execution_controls' =
            [execution_controls EXCEPT ![i] = ControlAfterFinish(execution_controls[i])]

\* Every step of the store is one of these on the control rows.
LEMMA NextIsControlStep ==
  ASSUME [NextQ]_queueVars
  PROVE  ControlStep
BY DEF NextQ, queueVars, ControlStep, BeginExecution, BeginGranted,
       RequestExecutionCancel, FinishExecution, Enqueue, HeartbeatClaim, ClaimNext,
       AcknowledgeInterruptedClaim, CompleteClaim, ExpireClaim, RecoverStaleClaims

\* Every step keeps the control rows sound.
LEMMA ControlInvStep ==
  ASSUME ControlInv, ControlStep
  PROVE  ControlInv'
<1>1. CASE UNCHANGED execution_controls
  BY <1>1 DEF ControlInv
<1>2. ASSUME NEW i \in Item,
             execution_controls[i].state = "absent",
             execution_controls' = [execution_controls EXCEPT ![i].state = "running"]
      PROVE  ControlInv'
  BY <1>2 DEF ControlInv, ControlSound, Control, ControlState
<1>3. ASSUME NEW i \in Item,
             execution_controls' =
               [execution_controls EXCEPT ![i] = ControlAfterCancel(execution_controls[i])]
      PROVE  ControlInv'
  <2>1. /\ ControlAfterCancel(execution_controls[i]) \in Control
        /\ ControlSound(ControlAfterCancel(execution_controls[i]))
    BY CancelSound DEF ControlInv
  <2>2. QED
    BY <1>3, <2>1 DEF ControlInv
<1>4. ASSUME NEW i \in Item,
             execution_controls' =
               [execution_controls EXCEPT ![i] = ControlAfterFinish(execution_controls[i])]
      PROVE  ControlInv'
  <2>1. /\ ControlAfterFinish(execution_controls[i]) \in Control
        /\ ControlSound(ControlAfterFinish(execution_controls[i]))
    BY FinishSound DEF ControlInv
  <2>2. QED
    BY <1>4, <2>1 DEF ControlInv
<1>5. QED
  BY <1>1, <1>2, <1>3, <1>4 DEF ControlStep

\* The empty table is sound.
LEMMA ControlInvInit ==
  ASSUME InitQ
  PROVE  ControlInv
BY DEF InitQ, ControlInv, ControlSound, Control, ControlState

\* The control rows are sound in every reachable state.
THEOREM ControlsSound == SpecQ => []ControlInv
<1>1. ControlInv /\ [NextQ]_queueVars => ControlInv'
  BY NextIsControlStep, ControlInvStep
<1>2. QED
  BY ControlInvInit, <1>1, PTL DEF SpecQ

\* The outcome that finish_execution or request_execution_cancel published
\* agrees with the cancellation flag, so computing it again changes nothing.
THEOREM OutcomeAgrees == SpecQ => []OutcomeMatchesFlag
<1>1. ControlInv => OutcomeMatchesFlag
  BY DEF ControlInv, ControlSound, OutcomeMatchesFlag, CancelRequested
<1>2. QED
  BY <1>1, ControlsSound, PTL

-------------------------------------------------------------------------------
(* The refinement of ExecutionLifecycle.                                    *)

phaseBar == [i \in Item |-> PhaseOf(i)]

\* A step on the control rows is a step of the lifecycle, or none.
LEMMA LifecycleStep ==
  ASSUME ControlInv, ControlStep
  PROVE  [Lifecycle!LifecycleNext]_phaseBar
<1> USE DEF phaseBar, PhaseOf, CancelRequested
<1>1. CASE UNCHANGED execution_controls
  BY <1>1
<1>2. ASSUME NEW i \in Item,
             execution_controls[i].state = "absent",
             execution_controls' = [execution_controls EXCEPT ![i].state = "running"]
      PROVE  Lifecycle!Start(i)
  BY <1>2 DEF ControlInv, ControlSound, Control, ControlState,
              Lifecycle!Start, Lifecycle!Move
<1>3. ASSUME NEW i \in Item,
             execution_controls' =
               [execution_controls EXCEPT ![i] = ControlAfterCancel(execution_controls[i])]
      PROVE  \/ UNCHANGED phaseBar
             \/ Lifecycle!CancelUnstarted(i)
             \/ Lifecycle!AskToStop(i)
  BY <1>3 DEF ControlInv, ControlSound, Control, ControlState, ControlAfterCancel,
              Lifecycle!CancelUnstarted, Lifecycle!AskToStop, Lifecycle!Move
<1>4. ASSUME NEW i \in Item,
             execution_controls' =
               [execution_controls EXCEPT ![i] = ControlAfterFinish(execution_controls[i])]
      PROVE  \/ UNCHANGED phaseBar
             \/ Lifecycle!Complete(i)
             \/ Lifecycle!StopSafely(i)
  BY <1>4 DEF ControlInv, ControlSound, Control, ControlState, ControlAfterFinish,
              Lifecycle!Complete, Lifecycle!StopSafely, Lifecycle!Move
<1>5. QED
  BY <1>1, <1>2, <1>3, <1>4 DEF ControlStep, Lifecycle!LifecycleNext

\* No control row means that every item is waiting.
LEMMA LifecycleInitially ==
  ASSUME InitQ
  PROVE  Lifecycle!LifecycleInit
BY DEF InitQ, PhaseOf, Lifecycle!LifecycleInit

\* Whoever calls the store, and in whatever order, an item is started at most
\* once, no cancellation is lost and no outcome is revised.
THEOREM StoreImplementsLifecycle == SpecQ => ImplementsLifecycle
<1>1. ControlInv /\ [NextQ]_queueVars => [Lifecycle!LifecycleNext]_phaseBar
  BY NextIsControlStep, LifecycleStep
<1>2. QED
  BY LifecycleInitially, ControlsSound, <1>1, PTL
  DEF SpecQ, ImplementsLifecycle, Lifecycle!LifecycleSpec, phaseBar

-------------------------------------------------------------------------------
(* The rows of queue_items.                                                 *)

RowTypes ==
  /\ last_id \in 0 .. MaxRows
  /\ queue_items \in [RowIds -> Row]

RowInv == RowTypes /\ UniqueUnfinished

\* An update keeps the rows and their items, never reopens a row, leaves history
\* alone but for an acknowledgement, and never takes a claim from its owner.
RowsUpdated ==
  /\ last_id' = last_id
  /\ queue_items' \in [RowIds -> Row]
  /\ \A r \in RowIds :
       /\ queue_items'[r].item = queue_items[r].item
       /\ ~Unfinished(r) =>
            \/ queue_items'[r] = queue_items[r]
            \/ /\ AwaitsAcknowledgement(r)
               /\ queue_items'[r] = [queue_items[r] EXCEPT !.claimed_by = NoWorker]
       /\ queue_items[r].status = "claimed" =>
            queue_items'[r].claimed_by = queue_items[r].claimed_by

RowInserted ==
  \E i \in Item :
    \/ Insert(i, "cancelled")
    \/ ~HasUnfinished(i) /\ Insert(i, "queued")

\* Leaving the rows alone is an update.
LEMMA UnchangedUpdates ==
  ASSUME RowTypes, UNCHANGED <<last_id, queue_items>>
  PROVE  RowsUpdated
BY DEF RowTypes, RowsUpdated

\* request_execution_cancel closes unfinished rows only.
LEMMA CancelUpdates ==
  ASSUME RowTypes, NEW i \in Item, RequestExecutionCancel(i)
  PROVE  RowsUpdated
BY DEF RowTypes, RowsUpdated, RequestExecutionCancel, RowsCancelled, RowIds, Row,
       RowStatus, Unfinished

\* claim_next gives a queued row an owner.
LEMMA ClaimUpdates ==
  ASSUME RowTypes, NEW r \in RowIds, NEW w \in Worker, ClaimNext(r, w)
  PROVE  RowsUpdated
<1>1. queue_items[r] \in Row /\ queue_items[r].status = "queued"
  BY DEF RowTypes, ClaimNext, Claimable, QueuedRows
<1> DEFINE claimed == [queue_items[r] EXCEPT !.status = "claimed",
                                            !.claimed_by = w,
                                            !.expired = FALSE]
<1>2. queue_items' = [queue_items EXCEPT ![r] = claimed]
  BY <1>1 DEF RowTypes, ClaimNext
<1>3. claimed \in Row /\ claimed.item = queue_items[r].item
  BY <1>1 DEF Row, RowStatus
<1>4. last_id' = last_id
  BY DEF ClaimNext
<1> HIDE DEF claimed
<1>5. QED
  BY <1>1, <1>2, <1>3, <1>4 DEF RowTypes, RowsUpdated, Unfinished

\* heartbeat_claim only makes a claim fresh.
LEMMA HeartbeatUpdates ==
  ASSUME RowTypes, NEW w \in Worker, NEW i \in Item, HeartbeatClaim(w, i)
  PROVE  RowsUpdated
BY DEF RowTypes, RowsUpdated, HeartbeatClaim, OwnedClaim, Row, RowStatus, Unfinished

\* Time only makes a claim stale.
LEMMA ExpireUpdates ==
  ASSUME RowTypes, NEW r \in RowIds, ExpireClaim(r)
  PROVE  RowsUpdated
BY DEF RowTypes, RowsUpdated, ExpireClaim, Row, RowStatus, Unfinished

\* recover_stale_claims ends claims and keeps their owners.
LEMMA RecoverUpdates ==
  ASSUME RowTypes, RecoverStaleClaims
  PROVE  RowsUpdated
BY DEF RowTypes, RowsUpdated, RecoverStaleClaims, Stale, Row, RowStatus, Unfinished

\* Acknowledging clears the owner of an interrupted row.
LEMMA AcknowledgeUpdates ==
  ASSUME RowTypes, NEW r \in RowIds, NEW w, AcknowledgeInterruptedClaim(r, w)
  PROVE  RowsUpdated
BY DEF RowTypes, RowsUpdated, AcknowledgeInterruptedClaim, AwaitsAcknowledgement,
       Row, RowStatus, Unfinished

\* complete_claim ends an open claim.
LEMMA CompleteUpdates ==
  ASSUME RowTypes, NEW r \in RowIds, NEW w \in Worker,
         NEW status \in {"done", "failed", "cancelled"}, CompleteClaim(r, w, status)
  PROVE  RowsUpdated
BY DEF RowTypes, RowsUpdated, CompleteClaim, OwnedClaim, Row, RowStatus, Unfinished

\* enqueue inserts a row or returns the one that is unfinished.
LEMMA EnqueueInserts ==
  ASSUME RowTypes, NEW i \in Item, Enqueue(i)
  PROVE  RowInserted \/ RowsUpdated
<1>1. CASE UNCHANGED <<last_id, queue_items>>
  BY <1>1, UnchangedUpdates
<1>2. CASE ~UNCHANGED <<last_id, queue_items>>
  BY <1>2 DEF Enqueue, RowInserted
<1>3. QED
  BY <1>1, <1>2

\* Every step of the store is an update or an insertion.
LEMMA NextRows ==
  ASSUME RowTypes, [NextQ]_queueVars
  PROVE  RowInserted \/ RowsUpdated
<1>1. CASE UNCHANGED <<last_id, queue_items>>
  BY <1>1, UnchangedUpdates
<1>2. CASE \E i \in Item : RequestExecutionCancel(i)
  BY <1>2, CancelUpdates
<1>3. CASE \E i \in Item : Enqueue(i)
  BY <1>3, EnqueueInserts
<1>4. CASE \E w \in Worker, i \in Item : HeartbeatClaim(w, i)
  BY <1>4, HeartbeatUpdates
<1>5. CASE \E r \in RowIds, w \in Worker : ClaimNext(r, w)
  BY <1>5, ClaimUpdates
<1>6. CASE \E r \in RowIds, w \in Worker : AcknowledgeInterruptedClaim(r, w)
  BY <1>6, AcknowledgeUpdates
<1>7. CASE \E r \in RowIds, w \in Worker, status \in {"done", "failed", "cancelled"} :
             CompleteClaim(r, w, status)
  BY <1>7, CompleteUpdates
<1>8. CASE \E r \in RowIds : ExpireClaim(r)
  BY <1>8, ExpireUpdates
<1>9. CASE RecoverStaleClaims
  BY <1>9, RecoverUpdates
<1>10. QED
  BY <1>1, <1>2, <1>3, <1>4, <1>5, <1>6, <1>7, <1>8, <1>9
  DEF NextQ, queueVars, BeginExecution, FinishExecution

\* An insertion adds the next id and leaves the other rows alone.
LEMMA InsertedRow ==
  ASSUME RowTypes, NEW i \in Item, NEW status \in RowStatus, Insert(i, status)
  PROVE  /\ RowTypes'
         /\ RowIds' = RowIds \cup {last_id + 1}
         /\ last_id + 1 \notin RowIds
         /\ \A r \in RowIds : queue_items'[r] = queue_items[r]
         /\ queue_items'[last_id + 1] = NewRow(i, status)
<1>1. /\ last_id \in Nat /\ MaxRows \in Nat
      /\ last_id' = last_id + 1 /\ last_id + 1 \in 0 .. MaxRows
      /\ RowIds' = 1 .. last_id + 1
  BY QueueAssumption DEF RowTypes, Insert, RowIds
<1>2. NewRow(i, status) \in Row
  BY DEF NewRow, Row
<1>3. QED
  BY <1>1, <1>2 DEF RowTypes, Insert, RowIds

\* Every step keeps the rows typed and unfinished rows unique.
LEMMA RowInvStep ==
  ASSUME RowInv, RowInserted \/ RowsUpdated
  PROVE  RowInv'
<1>1. CASE RowsUpdated
  <2>1. RowTypes' /\ RowIds' = RowIds
    BY <1>1 DEF RowInv, RowTypes, RowsUpdated, RowIds
  <2>2. \A r \in RowIds : Unfinished(r)' => Unfinished(r)
    BY <1>1 DEF RowInv, RowTypes, RowsUpdated, Unfinished, AwaitsAcknowledgement, Row
  <2>3. QED
    BY <1>1, <2>1, <2>2 DEF RowInv, RowsUpdated, UniqueUnfinished
<1>2. ASSUME NEW i \in Item, NEW status \in {"queued", "cancelled"}, Insert(i, status),
             status = "queued" => ~HasUnfinished(i)
      PROVE  RowInv'
  <2>1. /\ RowTypes'
        /\ RowIds' = RowIds \cup {last_id + 1}
        /\ last_id + 1 \notin RowIds
        /\ \A r \in RowIds : queue_items'[r] = queue_items[r]
        /\ queue_items'[last_id + 1] = NewRow(i, status)
    BY <1>2, InsertedRow DEF RowInv, RowStatus
  <2>2. \A r \in RowIds : Unfinished(r)' <=> Unfinished(r)
    BY <2>1 DEF Unfinished
  <2>3. queue_items'[last_id + 1].status \in {"queued", "claimed"} => ~HasUnfinished(i)
    BY <1>2, <2>1 DEF NewRow
  <2>4. queue_items'[last_id + 1].item = i
    BY <2>1 DEF NewRow
  <2>5. UniqueUnfinished'
    <3> SUFFICES ASSUME NEW r \in RowIds', NEW q \in RowIds',
                        Unfinished(r)', Unfinished(q)',
                        queue_items'[r].item = queue_items'[q].item
                 PROVE  r = q
      BY DEF UniqueUnfinished
    <3>1. CASE r \in RowIds /\ q \in RowIds
      BY <3>1, <2>1, <2>2 DEF RowInv, UniqueUnfinished
    <3>2. CASE r = last_id + 1 /\ q \in RowIds
      <4>1. Unfinished(q) /\ queue_items[q].item = i
        BY <3>2, <2>1, <2>2, <2>4
      <4>2. queue_items'[last_id + 1].status \in {"queued", "claimed"}
        BY <3>2 DEF Unfinished
      <4>3. QED
        BY <3>2, <4>1, <4>2, <2>3 DEF HasUnfinished
    <3>3. CASE q = last_id + 1 /\ r \in RowIds
      <4>1. Unfinished(r) /\ queue_items[r].item = i
        BY <3>3, <2>1, <2>2, <2>4
      <4>2. queue_items'[last_id + 1].status \in {"queued", "claimed"}
        BY <3>3 DEF Unfinished
      <4>3. QED
        BY <3>3, <4>1, <4>2, <2>3 DEF HasUnfinished
    <3>4. QED
      BY <3>1, <3>2, <3>3, <2>1
  <2>6. QED
    BY <2>1, <2>5 DEF RowInv
<1>3. QED
  BY <1>1, <1>2 DEF RowInserted

\* The empty table is typed.
LEMMA RowInvInit ==
  ASSUME InitQ
  PROVE  RowInv
<1>1. last_id \in 0 .. MaxRows /\ RowIds = {}
  BY QueueAssumption DEF InitQ, RowIds
<1>2. queue_items \in [RowIds -> Row]
  BY <1>1 DEF InitQ
<1>3. QED
  BY <1>1, <1>2 DEF RowInv, RowTypes, UniqueUnfinished

\* The rows are typed and unfinished rows are unique in every reachable state.
THEOREM RowsSound == SpecQ => []RowInv
<1>1. RowInv /\ [NextQ]_queueVars => RowInv'
  BY NextRows, RowInvStep DEF RowInv
<1>2. QED
  BY RowInvInit, <1>1, PTL DEF SpecQ

-------------------------------------------------------------------------------
(* The properties of SQLiteQueue.                                           *)

\* Type correctness of the two tables.
THEOREM QueueTypes == SpecQ => []TypeOKQ
<1>1. RowInv /\ ControlInv => TypeOKQ
  BY DEF RowInv, RowTypes, ControlInv, TypeOKQ
<1>2. QED
  BY <1>1, RowsSound, ControlsSound, PTL

\* Two rows of one item are never unfinished together, for any interleaving of
\* enqueue, claim, recovery, cancellation and completion.
THEOREM UnfinishedRowsUnique == SpecQ => []UniqueUnfinished
<1>1. RowInv => UniqueUnfinished
  BY DEF RowInv
<1>2. QED
  BY <1>1, RowsSound, PTL

\* No late completion, heartbeat, cancellation or recovery rewrites history.
THEOREM HistoryFrozen == SpecQ => FinishedRowsFrozen
<1>1. ASSUME RowInv, [NextQ]_queueVars
      PROVE  [\A r \in RowIds :
                ~Unfinished(r) =>
                  \/ queue_items'[r] = queue_items[r]
                  \/ /\ AwaitsAcknowledgement(r)
                     /\ queue_items'[r] = [queue_items[r] EXCEPT !.claimed_by = NoWorker]
             ]_queueVars
  <2>1. RowInserted \/ RowsUpdated
    BY <1>1, NextRows DEF RowInv
  <2>2. CASE RowsUpdated
    BY <2>2 DEF RowsUpdated
  <2>3. CASE RowInserted
    <3>1. \A r \in RowIds : queue_items'[r] = queue_items[r]
      BY <1>1, <2>3, InsertedRow DEF RowInv, RowInserted, RowStatus
    <3>2. QED
      BY <3>1
  <2>4. QED
    BY <2>1, <2>2, <2>3
<1>2. QED
  BY <1>1, RowsSound, PTL DEF SpecQ, FinishedRowsFrozen

\* A claim that somebody holds is never handed to another worker.
THEOREM ClaimsKept == SpecQ => ClaimNeverChangesHands
<1>1. ASSUME RowInv, [NextQ]_queueVars
      PROVE  [\A r \in RowIds, w \in Worker :
                OwnedClaim(r, w) => queue_items'[r].claimed_by = w]_queueVars
  <2>1. RowInserted \/ RowsUpdated
    BY <1>1, NextRows DEF RowInv
  <2>2. CASE RowsUpdated
    BY <2>2 DEF RowsUpdated, OwnedClaim
  <2>3. CASE RowInserted
    <3>1. \A r \in RowIds : queue_items'[r] = queue_items[r]
      BY <1>1, <2>3, InsertedRow DEF RowInv, RowInserted, RowStatus
    <3>2. QED
      BY <3>1 DEF OwnedClaim
  <2>4. QED
    BY <2>1, <2>2, <2>3
<1>2. QED
  BY <1>1, RowsSound, PTL DEF SpecQ, ClaimNeverChangesHands
===============================================================================
