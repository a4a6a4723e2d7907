----------------------------- MODULE SQLiteQueue ------------------------------
(***************************************************************************)
(* The part of SQLiteQueueStore that schedules work: the queue_items table *)
(* and the execution_controls table.  Every action is one SQLite           *)
(* transaction (BEGIN IMMEDIATE, or a single statement), so it is atomic   *)
(* for all API threads and worker processes that share the database file.  *)
(* SpecQ is the store under its most general client: any process may call  *)
(* any operation at any time, as the store itself cannot tell its callers  *)
(* apart.  JobExecution composes these operations with the real callers.   *)
(***************************************************************************)
EXTENDS Integers

CONSTANTS
  Item,       \* jobs and task groups: the (item_type, item_id) pairs
  Worker,     \* worker process identities, never reused (pid plus uuid4)
  NoWorker,   \* claimed_by IS NULL
  MaxRows     \* bound on the rows ever inserted

ASSUME QueueAssumption ==
  /\ NoWorker \notin Worker
  /\ MaxRows \in Nat

VARIABLES
  last_id,             \* the AUTOINCREMENT high-water mark of queue_items
  queue_items,         \* queue_items[r]: the row whose id is r
  execution_controls   \* execution_controls[i]: the fence of item i

queueVars == <<last_id, queue_items, execution_controls>>

RowStatus == {"queued", "claimed", "done", "failed", "cancelled"}

\* expired:     the last heartbeat of the claim is older than the claim timeout
\* interrupted: last_error = worker_interrupted_before_completion
Row ==
  [item : Item, status : RowStatus, claimed_by : Worker \cup {NoWorker},
   expired : BOOLEAN, interrupted : BOOLEAN]

\* "absent" stands for no row of execution_controls.
ControlState == {"absent", "running", "completed", "cancelled"}
Control == [state : ControlState, cancel_requested : BOOLEAN]

RowIds == 1 .. last_id

TypeOKQ ==
  /\ last_id \in 0 .. MaxRows
  /\ queue_items \in [RowIds -> Row]
  /\ execution_controls \in [Item -> Control]

InitQ ==
  /\ last_id = 0
  /\ queue_items = <<>>
  /\ execution_controls =
       [i \in Item |-> [state |-> "absent", cancel_requested |-> FALSE]]

-------------------------------------------------------------------------------
(* Reading the tables.                                                      *)

Unfinished(r) == queue_items[r].status \in {"queued", "claimed"}
HasUnfinished(i) == \E r \in RowIds : queue_items[r].item = i /\ Unfinished(r)
QueuedRows == {r \in RowIds : queue_items[r].status = "queued"}
CancelRequested(i) == execution_controls[i].cancel_requested

HasNewerQueueItem(r) ==
  \E q \in RowIds : q > r /\ queue_items[q].item = queue_items[r].item

\* Interrupted claims whose JSON state may still need reconciliation.
AwaitsAcknowledgement(r) ==
  /\ queue_items[r].status = "failed"
  /\ queue_items[r].interrupted
  /\ queue_items[r].claimed_by # NoWorker

OwnedClaim(r, w) ==
  /\ queue_items[r].status = "claimed"
  /\ queue_items[r].claimed_by = w

-------------------------------------------------------------------------------
(* execution_controls: the fence around the execution of an item.           *)

\* Mistake: the fence only keeps out a second concurrent execution.
BeginGrantedAgain(i) == execution_controls[i].state # "running"

\* INSERT OR IGNORE succeeds, and begin_execution returns True, only when no
\* control row exists yet.
BeginGranted(i) == execution_controls[i].state = "absent"

BeginExecution(i) ==
  /\ execution_controls' =
       IF BeginGranted(i)
       THEN [execution_controls EXCEPT ![i].state = "running"]
       ELSE execution_controls
  /\ UNCHANGED <<last_id, queue_items>>

\* Mistake: the flag is set even when the execution is already completed.
ControlAfterLateCancel(c) ==
  IF c.state = "absent"
  THEN [state |-> "cancelled", cancel_requested |-> TRUE]
  ELSE [c EXCEPT !.cancel_requested = TRUE]

\* INSERT ... ON CONFLICT DO UPDATE of request_execution_cancel.
ControlAfterCancel(c) ==
  IF c.state = "absent"
  THEN [state |-> "cancelled", cancel_requested |-> TRUE]
  ELSE [c EXCEPT !.cancel_requested = @ \/ c.state # "completed"]

\* Close the unfinished rows of i; claimed_by keeps the owner of a claim.
RowsCancelled(i) ==
  [r \in RowIds |->
     IF queue_items[r].item = i /\ Unfinished(r)
     THEN [queue_items[r] EXCEPT !.status = "cancelled"]
     ELSE queue_items[r]]

RequestExecutionCancel(i) ==
  LET c == ControlAfterCancel(execution_controls[i]) IN
  /\ execution_controls' = [execution_controls EXCEPT ![i] = c]
  /\ queue_items' = IF c.state = "cancelled" THEN RowsCancelled(i) ELSE queue_items
  /\ UNCHANGED last_id

\* UPDATE of finish_execution: it touches an existing control row only, and it
\* decides from cancel_requested whatever the state was before.
ControlAfterFinish(c) ==
  IF c.state = "absent"
  THEN c
  ELSE [c EXCEPT !.state = IF c.cancel_requested THEN "cancelled" ELSE "completed"]

FinishExecution(i) ==
  /\ execution_controls' =
       [execution_controls EXCEPT ![i] = ControlAfterFinish(execution_controls[i])]
  /\ UNCHANGED <<last_id, queue_items>>

-------------------------------------------------------------------------------
(* queue_items: at most one unfinished row for an item, claimed in order.   *)

NewRow(i, status) ==
  [item |-> i, status |-> status, claimed_by |-> NoWorker,
   expired |-> FALSE, interrupted |-> FALSE]

Insert(i, status) ==
  /\ last_id < MaxRows
  /\ last_id' = last_id + 1
  /\ queue_items' =
       [r \in 1 .. last_id + 1 |->
          IF r = last_id + 1 THEN NewRow(i, status) ELSE queue_items[r]]

\* Mistake: the partial unique index covers the queued rows only.
EnqueueBesideClaim(i) ==
  /\ \/ /\ CancelRequested(i)
        /\ Insert(i, "cancelled")
     \/ /\ ~CancelRequested(i)
        /\ \E r \in QueuedRows : queue_items[r].item = i
        /\ UNCHANGED <<last_id, queue_items>>
     \/ /\ ~CancelRequested(i)
        /\ \A r \in QueuedRows : queue_items[r].item # i
        /\ Insert(i, "queued")
  /\ UNCHANGED execution_controls

\* A row for an item with a cancellation request is born cancelled, and as
\* such it is outside the partial unique index.  Otherwise the index refuses a
\* second unfinished row and the existing one is returned unchanged.
Enqueue(i) ==
  /\ \/ /\ CancelRequested(i)
        /\ Insert(i, "cancelled")
     \/ /\ ~CancelRequested(i)
        /\ HasUnfinished(i)
        /\ UNCHANGED <<last_id, queue_items>>
     \/ /\ ~CancelRequested(i)
        /\ ~HasUnfinished(i)
        /\ Insert(i, "queued")
  /\ UNCHANGED execution_controls

\* ORDER BY priority DESC, id ASC LIMIT 1: no caller passes a priority or a
\* run_after, so the order is that of the ids.
Claimable(r) == r \in QueuedRows /\ \A q \in QueuedRows : r <= q

ClaimNext(r, w) ==
  /\ Claimable(r)
  /\ queue_items' = [queue_items EXCEPT ![r].status = "claimed",
                                        ![r].claimed_by = w,
                                        ![r].expired = FALSE]
  /\ UNCHANGED <<last_id, execution_controls>>

HeartbeatClaim(w, i) ==
  /\ queue_items' =
       [r \in RowIds |->
          IF queue_items[r].item = i /\ OwnedClaim(r, w)
          THEN [queue_items[r] EXCEPT !.expired = FALSE]
          ELSE queue_items[r]]
  /\ UNCHANGED <<last_id, execution_controls>>

\* Time: the claim timeout passes without a heartbeat being written.
ExpireClaim(r) ==
  /\ queue_items[r].status = "claimed"
  /\ queue_items' = [queue_items EXCEPT ![r].expired = TRUE]
  /\ UNCHANGED <<last_id, execution_controls>>

Stale(r) == queue_items[r].status = "claimed" /\ queue_items[r].expired

\* Mistake: the stale claim goes back to the queue and is replayed.
RequeueStaleClaims ==
  /\ queue_items' =
       [r \in RowIds |->
          IF Stale(r)
          THEN [queue_items[r] EXCEPT !.status = "queued", !.claimed_by = NoWorker]
          ELSE queue_items[r]]
  /\ UNCHANGED <<last_id, execution_controls>>

RecoverStaleClaims ==
  /\ queue_items' =
       [r \in RowIds |->
          IF Stale(r)
          THEN [queue_items[r] EXCEPT !.status = "failed", !.interrupted = TRUE]
          ELSE queue_items[r]]
  /\ UNCHANGED <<last_id, execution_controls>>

\* The caller passes the owner it read earlier; the row must still carry it.
AcknowledgeInterruptedClaim(r, owner) ==
  /\ AwaitsAcknowledgement(r)
  /\ queue_items[r].claimed_by = owner
  /\ queue_items' = [queue_items EXCEPT ![r].claimed_by = NoWorker]
  /\ UNCHANGED <<last_id, execution_controls>>

\* Mistake: the owner is compared, but not that the claim is still open.
CompleteRecoveredClaim(r, w, status) ==
  /\ queue_items[r].claimed_by = w
  /\ queue_items' = [queue_items EXCEPT ![r].status = status]
  /\ UNCHANGED <<last_id, execution_controls>>

\* Completes only the exact claim owned by w.
CompleteClaim(r, w, status) ==
  /\ OwnedClaim(r, w)
  /\ queue_items' = [queue_items EXCEPT ![r].status = status]
  /\ UNCHANGED <<last_id, execution_controls>>

-------------------------------------------------------------------------------
NextQ ==
  \/ \E i \in Item :
       \/ BeginExecution(i)
       \/ RequestExecutionCancel(i)
       \/ FinishExecution(i)
       \/ Enqueue(i)
       \/ \E w \in Worker : HeartbeatClaim(w, i)
  \/ \E r \in RowIds, w \in Worker :
       \/ ClaimNext(r, w)
       \/ AcknowledgeInterruptedClaim(r, w)
       \/ \E status \in {"done", "failed", "cancelled"} : CompleteClaim(r, w, status)
  \/ \E r \in RowIds : ExpireClaim(r)
  \/ RecoverStaleClaims

SpecQ == InitQ /\ [][NextQ]_queueVars

-------------------------------------------------------------------------------
(* Properties.                                                              *)

\* At most one unfinished row for an item, whatever the interleaving of
\* enqueue, claim, recovery and cancellation (uq_queue_items_unfinished).
UniqueUnfinished ==
  \A r, q \in RowIds :
    /\ Unfinished(r)
    /\ Unfinished(q)
    /\ queue_items[r].item = queue_items[q].item
    => r = q

\* The published outcome agrees with the cancellation flag, so that a second
\* finish_execution (a late worker after a recovery, or the reverse) recomputes
\* the same outcome instead of turning a completion into a cancellation.
OutcomeMatchesFlag ==
  \A i \in Item :
    /\ execution_controls[i].state = "completed" => ~CancelRequested(i)
    /\ execution_controls[i].state = "cancelled" => CancelRequested(i)

\* A row that left the queue is history: no late completion, heartbeat, cancel
\* or recovery rewrites it; acknowledging an interruption only clears the owner.
FinishedRowsFrozen ==
  [][\A r \in RowIds :
       ~Unfinished(r) =>
         \/ queue_items'[r] = queue_items[r]
         \/ /\ AwaitsAcknowledgement(r)
            /\ queue_items'[r] = [queue_items[r] EXCEPT !.claimed_by = NoWorker]
    ]_queueVars

\* A claim that somebody holds is never handed to another worker.
ClaimNeverChangesHands ==
  [][\A r \in RowIds, w \in Worker :
       OwnedClaim(r, w) => queue_items'[r].claimed_by = w]_queueVars

\* Each item lives the lifecycle of ExecutionLifecycle: the control row is read
\* as its phase.
PhaseOf(i) ==
  LET c == execution_controls[i] IN
  IF c.state = "absent" THEN "waiting"
  ELSE IF c.state = "running" /\ c.cancel_requested THEN "stopping"
  ELSE c.state

Lifecycle == INSTANCE ExecutionLifecycle
               WITH phase <- [i \in Item |-> PhaseOf(i)]

\* The store implements the lifecycle: started at most once, a cancellation
\* never lost, an outcome never revised, for any sequence of calls by anybody.
ImplementsLifecycle == Lifecycle!LifecycleSpec
===============================================================================
