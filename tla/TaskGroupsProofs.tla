--------------------------- MODULE TaskGroupsProofs ---------------------------
(***************************************************************************)
(* Task groups for any number of groups, approval nodes, requests and      *)
(* faults: their type, and that the group files, the summaries and the     *)
(* tombstones implement the task board.                                    *)
(***************************************************************************)
EXTENDS TaskGroups, TLAPS

-------------------------------------------------------------------------------
(* Records.                                                                 *)

\* A workflow in review waits for an approval, and a group whose predecessor is
\* to be deleted has one.
SoundValue ==
  {v \in GroupValue :
     /\ v.workflow = "in_review" => v.approvals < Nodes
     /\ v.pending_delete => v.replaced \in Group}

Live == [version : Nat \ {0}, value : SoundValue]
OnDisk == Live \cup {Missing}

\* A live record is a record, and differs from a missing one.
LEMMA LiveIsRecord ==
  /\ OnDisk \subseteq Record
  /\ Missing \notin Live
  /\ Missing.version = 0
BY DEF OnDisk, Live, Record, Missing, SoundValue

LEMMA LiveFields ==
  ASSUME NEW rec \in Live
  PROVE  rec.version \in Nat \ {0} /\ rec.value \in SoundValue
BY DEF Live

LEMMA OnDiskFields ==
  ASSUME NEW rec \in OnDisk
  PROVE  /\ rec.version \in Nat
         /\ rec = Missing \/ rec \in Live
BY DEF OnDisk, Live, Missing

\* The edits of the writers keep a value sound.
LEMMA EditsAreSound ==
  ASSUME NEW v \in SoundValue
  PROVE  /\ Marked(v) \in SoundValue
         /\ Unmarked(v) \in SoundValue
         /\ ArchiveFailed(v) \in SoundValue
         /\ ArchiveSucceeded(v) \in SoundValue
         /\ Settled(v) \in SoundValue
         /\ [v EXCEPT !.status = "FAILED"] \in SoundValue
         /\ [v EXCEPT !.pending_delete = FALSE] \in SoundValue
         /\ \A n \in Nat : [v EXCEPT !.claim = n] \in SoundValue
         /\ v.claim \in Nat
         /\ v.replaced \in Group \cup {NoGroup}
<1> v \in GroupValue
  BY DEF SoundValue
<1>1. Marked(v) \in SoundValue
  BY DEF Marked, SoundValue, GroupValue
<1>2. Unmarked(v) \in SoundValue
  BY DEF Unmarked, SoundValue, GroupValue
<1>3. ArchiveFailed(v) \in SoundValue
  BY DEF ArchiveFailed, SoundValue, GroupValue, WorkflowStatus
<1>4. ArchiveSucceeded(v) \in SoundValue
  BY DEF ArchiveSucceeded, SoundValue, GroupValue, WorkflowStatus
<1>5. Settled(v) \in SoundValue
  BY DEF Settled, SoundValue, GroupValue
<1>6. [v EXCEPT !.status = "FAILED"] \in SoundValue
  BY DEF SoundValue, GroupValue
<1>7. [v EXCEPT !.pending_delete = FALSE] \in SoundValue
  BY DEF SoundValue, GroupValue
<1>8. ASSUME NEW n \in Nat
      PROVE  [v EXCEPT !.claim = n] \in SoundValue
  BY DEF SoundValue, GroupValue
<1>9. v.claim \in Nat /\ v.replaced \in Group \cup {NoGroup}
  BY DEF GroupValue
<1> QED BY <1>1, <1>2, <1>3, <1>4, <1>5, <1>6, <1>7, <1>8, <1>9

\* An approval of a group in review keeps its value sound.
LEMMA ApprovalIsSound ==
  ASSUME NEW v \in SoundValue, v.workflow = "in_review"
  PROVE  LET next == [v EXCEPT !.approvals = @ + 1] IN
         /\ next.approvals = Nodes
              => [next EXCEPT !.workflow = "three_review_approved"] \in SoundValue
         /\ next.approvals # Nodes => next \in SoundValue
<1> DEFINE next == [v EXCEPT !.approvals = @ + 1]
<1>1. /\ v \in GroupValue
      /\ v.approvals \in 0 .. Nodes
      /\ v.approvals < Nodes
      /\ Nodes \in Nat
  BY TaskAssumption DEF SoundValue, GroupValue
<1>2. next \in GroupValue
  BY <1>1 DEF GroupValue
<1>3. [next EXCEPT !.workflow = "three_review_approved"] \in SoundValue
  BY <1>2, <1>1 DEF SoundValue, GroupValue, WorkflowStatus
<1>4. next.approvals # Nodes => next \in SoundValue
  BY <1>2, <1>1 DEF SoundValue, GroupValue
<1> QED BY <1>3, <1>4

\* So does the start of the review, for a group that replaces p or nothing.
LEMMA StartIsSound ==
  ASSUME NEW v \in SoundValue, NEW p \in Group \cup {NoGroup}
  PROVE  Started(v, p) \in SoundValue
<1> DEFINE next == [v EXCEPT !.workflow = "in_review", !.status = "RUNNING",
                             !.approvals = 0, !.replaced = p]
           pending == p # NoGroup
<1>0. v \in GroupValue /\ 0 \in 0 .. Nodes /\ "in_review" \in WorkflowStatus
  BY TaskAssumption DEF SoundValue, WorkflowStatus
<1>1. next \in GroupValue /\ next.approvals = 0 /\ next.replaced = p
  BY <1>0 DEF GroupValue
<1>2. ASSUME NEW b \in BOOLEAN, b => p \in Group
      PROVE  [next EXCEPT !.pending_delete = b] \in SoundValue
  <2>1. [next EXCEPT !.pending_delete = b] \in GroupValue
    BY <1>1 DEF GroupValue
  <2>2. /\ [next EXCEPT !.pending_delete = b].approvals < Nodes
        /\ [next EXCEPT !.pending_delete = b].replaced = p
        /\ [next EXCEPT !.pending_delete = b].pending_delete = b
    BY <1>1, TaskAssumption DEF GroupValue
  <2> HIDE DEF next
  <2> QED BY <2>1, <2>2, <1>2 DEF SoundValue
<1>3. pending \in BOOLEAN /\ (pending => p \in Group)
  OBVIOUS
<1>4. Started(v, p) = [next EXCEPT !.pending_delete = pending]
  BY DEF Started, SoundValue, GroupValue
<1> HIDE DEF next, pending
<1> QED BY <1>2, <1>3, <1>4

\* A save produces a live record.
LEMMA BumpedIsLive ==
  ASSUME NEW rec \in Live, NEW v \in SoundValue
  PROVE  /\ Bumped(rec, v) \in Live
         /\ Bumped(rec, v).version = rec.version + 1
         /\ [rec EXCEPT !.value = v] \in Live
BY DEF Bumped, Live

\* The choice of the newest group is a member of the set.
LEMMA NewestIsMember ==
  ASSUME NEW S \in SUBSET Group
  PROVE  /\ NewestOf(S) \in Group \cup {NoGroup}
         /\ S # {} => NewestOf(S) \in S
<1>1. CASE S = {}
  BY <1>1 DEF NewestOf
<1>2. CASE S # {}
  <2>1. \E g \in S : (\E h \in S : IsNewest(h, S)) => IsNewest(g, S)
    BY <1>2
  <2>2. NewestOf(S) \in S
    BY <1>2, <2>1 DEF NewestOf
  <2> QED BY <1>2, <2>2
<1> QED BY <1>1, <1>2

-------------------------------------------------------------------------------
(* The store: what a step may do to it, and what a reader may rely on.      *)

\* A record that was read of g is not ahead of the file, and is the file when
\* the versions agree; after the deletion of g it does not matter any more.
Follows(g, rec, files, gone) ==
  g \notin gone =>
    /\ rec.version <= files[g].version
    /\ rec.version = files[g].version => rec = files[g]

StoreInv ==
  /\ group_json \in [Group -> OnDisk]
  /\ summaries \in [Group -> OnDisk]
  /\ tombstones \subseteq Group
  /\ \A g \in Group : group_json[g] = Missing => g \in tombstones
  /\ \A g \in Group : Follows(g, summaries[g], group_json, tombstones)
  /\ \A g \in Group : g \in tombstones => summaries[g] = Missing

\* The five things a step does to the store.
StoreStep ==
  \/ UNCHANGED storeVars
  \/ \E g \in Group, rec \in Live, v \in SoundValue :
       UpdateGroup(g, rec, v) /\ UNCHANGED <<summaries, tombstones>>
  \/ \E g \in Group, rec \in Live :
       /\ Follows(g, rec, group_json, tombstones)
       /\ UpsertSummary(g, rec)
       /\ UNCHANGED group_json
  \/ \E g \in Group : DeleteSummary(g) /\ UNCHANGED group_json
  \/ \E g \in tombstones : DeleteGroup(g) /\ UNCHANGED <<summaries, tombstones>>

\* Files get newer, or go for ever.
Evolves(files, gone, newFiles, nowGone) ==
  /\ gone \subseteq nowGone
  /\ \A g \in Group : \/ g \in nowGone
                      \/ newFiles[g] = files[g]
                      \/ newFiles[g].version > files[g].version

\* What was read stays behind what is on disk.
LEMMA FollowsOn ==
  ASSUME NEW g \in Group, NEW rec \in OnDisk,
         NEW files \in [Group -> OnDisk], NEW gone,
         NEW newFiles \in [Group -> OnDisk], NEW nowGone,
         Evolves(files, gone, newFiles, nowGone), Follows(g, rec, files, gone)
  PROVE  Follows(g, rec, newFiles, nowGone)
<1>1. /\ rec.version \in Nat /\ files[g].version \in Nat
      /\ newFiles[g].version \in Nat
  BY LiveIsRecord, LiveFields DEF OnDisk
<1> QED BY <1>1 DEF Evolves, Follows

\* A step of the store keeps the invariant.
LEMMA StoreInvStep ==
  ASSUME StoreInv, StoreStep
  PROVE  StoreInv' /\ Evolves(group_json, tombstones, group_json', tombstones')
<1>0. \A g \in Group : group_json[g].version \in Nat /\ summaries[g].version \in Nat
  BY OnDiskFields DEF StoreInv
<1>1. CASE UNCHANGED storeVars
  BY <1>1 DEF storeVars, StoreInv, Evolves
<1>2. ASSUME NEW g \in Group, NEW rec \in Live, NEW v \in SoundValue,
             UpdateGroup(g, rec, v), UNCHANGED <<summaries, tombstones>>
      PROVE  StoreInv' /\ Evolves(group_json, tombstones, group_json', tombstones')
  <2>1. /\ group_json' = [group_json EXCEPT ![g] = Bumped(rec, v)]
        /\ Bumped(rec, v) \in Live
        /\ Bumped(rec, v).version = group_json[g].version + 1
    BY <1>2, BumpedIsLive DEF UpdateGroup, Current
  <2>2. group_json' \in [Group -> OnDisk]
    BY <2>1 DEF StoreInv, OnDisk
  <2>3. Evolves(group_json, tombstones, group_json', tombstones')
    BY <1>0, <1>2, <2>1 DEF StoreInv, Evolves
  <2>4. \A h \in Group : Follows(h, summaries[h], group_json', tombstones')
    BY <2>2, <2>3, FollowsOn DEF StoreInv
  <2>5. \A h \in Group : group_json'[h] = Missing => h \in tombstones'
    BY <1>2, <2>1, LiveIsRecord DEF StoreInv
  <2> QED BY <1>2, <2>2, <2>3, <2>4, <2>5 DEF StoreInv
<1>3. ASSUME NEW g \in Group, NEW rec \in Live,
             Follows(g, rec, group_json, tombstones), UpsertSummary(g, rec),
             UNCHANGED group_json
      PROVE  StoreInv' /\ Evolves(group_json, tombstones, group_json', tombstones')
  <2>1. summaries' \in [Group -> OnDisk]
    BY <1>3 DEF UpsertSummary, StoreInv, OnDisk
  <2>2. \A h \in Group : Follows(h, summaries'[h], group_json', tombstones')
    BY <1>3 DEF UpsertSummary, StoreInv
  <2>3. \A h \in Group : h \in tombstones' => summaries'[h] = Missing
    BY <1>3 DEF UpsertSummary, StoreInv
  <2>4. Evolves(group_json, tombstones, group_json', tombstones')
    BY <1>3 DEF UpsertSummary, Evolves
  <2> QED BY <1>3, <2>1, <2>2, <2>3, <2>4 DEF StoreInv, UpsertSummary
<1>4. ASSUME NEW g \in Group, DeleteSummary(g), UNCHANGED group_json
      PROVE  StoreInv' /\ Evolves(group_json, tombstones, group_json', tombstones')
  <2>1. summaries' \in [Group -> OnDisk]
    BY <1>4 DEF DeleteSummary, StoreInv, OnDisk
  <2>2. \A h \in Group : Follows(h, summaries'[h], group_json', tombstones')
    BY <1>4 DEF DeleteSummary, StoreInv, Follows
  <2>3. \A h \in Group : h \in tombstones' => summaries'[h] = Missing
    BY <1>4 DEF DeleteSummary, StoreInv
  <2>4. Evolves(group_json, tombstones, group_json', tombstones')
    BY <1>4 DEF DeleteSummary, Evolves
  <2> QED BY <1>4, <2>1, <2>2, <2>3, <2>4 DEF StoreInv, DeleteSummary
<1>5. ASSUME NEW g \in tombstones, DeleteGroup(g), UNCHANGED <<summaries, tombstones>>
      PROVE  StoreInv' /\ Evolves(group_json, tombstones, group_json', tombstones')
  <2>1. group_json' \in [Group -> OnDisk]
    BY <1>5 DEF DeleteGroup, StoreInv, OnDisk
  <2>2. \A h \in Group : h # g => group_json'[h] = group_json[h]
    BY <1>5 DEF DeleteGroup, StoreInv
  <2>3. \A h \in Group : Follows(h, summaries'[h], group_json', tombstones')
    BY <1>5, <2>2 DEF StoreInv, Follows
  <2>4. Evolves(group_json, tombstones, group_json', tombstones')
    BY <1>5, <2>2 DEF Evolves
  <2> QED BY <1>5, <2>1, <2>2, <2>3, <2>4 DEF StoreInv
<1> QED BY <1>1, <1>2, <1>3, <1>4, <1>5 DEF StoreStep

\* Every step of the store is a step of the task board, or changes nothing.
LEMMA StoreStepIsBoardStep ==
  ASSUME StoreInv, StoreStep
  PROVE  [Board!BoardNext]_(Board!boardVars)
<1>0. \A g \in Group : group_json[g].version \in Nat /\ summaries[g].version \in Nat
  BY OnDiskFields DEF StoreInv
<1>c. OnDisk \subseteq Board!Card
  BY DEF OnDisk, Live, SoundValue, Missing, Board!Card
<1>1. CASE UNCHANGED storeVars
  BY <1>1 DEF storeVars, Board!boardVars
<1>2. ASSUME NEW g \in Group, NEW rec \in Live, NEW v \in SoundValue,
             UpdateGroup(g, rec, v), UNCHANGED <<summaries, tombstones>>
      PROVE  Board!Save(g)
  <2>0. group_json[g].version > 0
    <3>1. rec.version = group_json[g].version
      BY <1>2 DEF UpdateGroup, Current
    <3>2. rec.version \in Nat \ {0}
      BY LiveFields
    <3> QED BY <3>1, <3>2
  <2>1. /\ group_json' = [group_json EXCEPT ![g] = Bumped(rec, v)]
        /\ Bumped(rec, v) \in Live
        /\ Bumped(rec, v).version = group_json[g].version + 1
    BY <1>2, BumpedIsLive DEF UpdateGroup, Current
  <2>2. group_json'[g] = Bumped(rec, v) /\ Bumped(rec, v) \in Board!Card
    BY <2>1, <1>c DEF StoreInv, OnDisk
  <2> QED BY <1>2, <2>0, <2>1, <2>2 DEF Board!Save, Board!OnlyAt
<1>3. ASSUME NEW g \in Group, NEW rec \in Live,
             Follows(g, rec, group_json, tombstones), UpsertSummary(g, rec),
             UNCHANGED group_json
      PROVE  Board!Publish(g) \/ UNCHANGED storeVars
  <2>1. CASE g \in tombstones \/ Stale(g, rec)
    BY <1>3, <2>1 DEF UpsertSummary, storeVars
  <2>2. CASE g \notin tombstones /\ ~Stale(g, rec)
    <3>1. /\ summaries' = [summaries EXCEPT ![g] = rec]
          /\ summaries'[g] = rec
          /\ rec \in Board!Card
      BY <1>3, <2>2, <1>c DEF UpsertSummary, StoreInv, OnDisk
    <3>2. rec.version \in summaries[g].version .. group_json[g].version
      BY <1>0, <1>3, <2>2, LiveFields DEF Stale, Follows
    <3> QED BY <1>3, <2>2, <3>1, <3>2 DEF Board!Publish, Board!OnlyAt, Follows, UpsertSummary
  <2> QED BY <2>1, <2>2
<1>4. ASSUME NEW g \in Group, DeleteSummary(g), UNCHANGED group_json
      PROVE  Board!Withdraw(g)
  BY <1>4 DEF DeleteSummary, Board!Withdraw, Board!Blank, Missing
<1>5. ASSUME NEW g \in tombstones, DeleteGroup(g), UNCHANGED <<summaries, tombstones>>
      PROVE  g \in Group /\ Board!Remove(g)
  BY <1>5 DEF StoreInv, DeleteGroup, Board!Remove, Board!Blank, Missing
<1> QED BY <1>1, <1>2, <1>3, <1>4, <1>5 DEF StoreStep, Board!BoardNext, Board!boardVars, storeVars

-------------------------------------------------------------------------------
(* Threads: what a thread has in memory.                                    *)

RestPc == {"new", "done", "idle", "restart"}
PassTask == {"edit", "archive", "publish", "cleanup", "backfill"}

SoundState ==
  [pc : Pc, task : Task, group : Group \cup {NoGroup}, mem : OnDisk, read : OnDisk,
   token : Nat, then : {"end", "cleanup", "reject"}, victim : Group \cup {NoGroup},
   snap : [Group -> OnDisk]]

\* A thread at work has a live object of an existing group; what it will
\* publish, now or later in its pass, is not ahead of the file; what it deletes
\* is a group, withdrawn before its file is.
ThreadGood(s, files, gone) ==
  /\ s \in SoundState
  /\ s.pc \notin RestPc => s.group \in Group /\ s.mem \in Live
  /\ s.pc = "inspect" => s.task = "submit"
  /\ s.pc = "upsert" => Follows(s.group, s.read, files, gone)
  /\ s.pc \in {"delSummary", "delJobs", "delGroup"} => s.victim \in Group
  /\ s.pc \in {"delJobs", "delGroup"} => s.victim \in gone
  /\ s.pc \in {"lock", "receipt"} => s.mem.value.replaced \in Group
  /\ s.pc \in {"delSummary", "delJobs", "delGroup"} /\ s.task # "submit"
       => s.mem.value.replaced \in Group
  /\ \A g \in Group :
       s.snap[g] # Missing => s.task \in PassTask /\ Follows(g, s.snap[g], files, gone)

ThreadsGood ==
  /\ thread \in [Thread -> SoundState]
  /\ \A t \in Thread : ThreadGood(thread[t], group_json, tombstones)

LocksOK == op_lock \in [Group -> Thread \cup {NoThread}]

OthersOK ==
  /\ archive_dir \in [exists : BOOLEAN, files : SUBSET Group]
  /\ artifacts \subseteq Group
  /\ receipts \subseteq Group
  /\ lapsed \in [Group -> Nat]
  /\ faults \in 0 .. MaxFaults

IInv == StoreInv /\ ThreadsGood /\ LocksOK /\ OthersOK

\* The invariant contains the type invariant.
LEMMA IInvIsTyped ==
  ASSUME IInv
  PROVE  TypeOK
<1>1. OnDisk \subseteq Record
  BY LiveIsRecord
<1>2. SoundState \subseteq ThreadState
  BY <1>1 DEF SoundState, ThreadState
<1>3. thread \in [Thread -> ThreadState]
  BY <1>2 DEF IInv, ThreadsGood
<1>4. group_json \in [Group -> Record] /\ summaries \in [Group -> Record]
  BY <1>1 DEF IInv, StoreInv
<1> QED BY <1>3, <1>4 DEF IInv, StoreInv, LocksOK, OthersOK, TypeOK

\* A thread at rest.
LEMMA ParkedIsGood ==
  ASSUME NEW pc \in RestPc, NEW files, NEW gone
  PROVE  ThreadGood(Parked(pc), files, gone)
BY DEF ThreadGood, Parked, RestPc, SoundState, Pc, Task, Nothing, OnDisk

\* A thread that goes on with its pass, or is through with it.
LEMMA NextIsGood ==
  ASSUME NEW s, NEW files, NEW gone, NEW resting \in RestPc,
         s.snap \in [Group -> OnDisk],
         \A g \in Group :
           s.snap[g] # Missing => s.task \in PassTask /\ Follows(g, s.snap[g], files, gone)
  PROVE  ThreadGood(NextOf(s, resting), files, gone)
<1> DEFINE left == {g \in Group : s.snap[g] # Missing}
           g == NewestOf(left)
           next == [Parked(FirstPc[s.task]) EXCEPT
                      !.task = s.task, !.group = g, !.mem = s.snap[g],
                      !.read = IF s.task = "backfill" THEN s.snap[g] ELSE Missing,
                      !.snap = [s.snap EXCEPT ![g] = Missing]]
<1>1. CASE left = {}
  BY <1>1, ParkedIsGood DEF NextOf
<1>2. CASE left # {}
  <2>1. g \in Group /\ s.snap[g] \in Live /\ s.snap[g] \in OnDisk
    BY <1>2, NewestIsMember, OnDiskFields
  <2>2. s.task \in PassTask /\ Follows(g, s.snap[g], files, gone)
    BY <1>2, NewestIsMember
  <2>3. /\ FirstPc[s.task] \in Pc \ RestPc
        /\ FirstPc[s.task] \notin {"inspect", "lock", "delSummary", "delJobs", "delGroup", "receipt"}
        /\ FirstPc[s.task] = "upsert" => s.task = "backfill"
    BY <2>2 DEF FirstPc, PassTask, Pc, RestPc
  <2>4. [s.snap EXCEPT ![g] = Missing] \in [Group -> OnDisk]
    BY DEF OnDisk
  <2>5. Missing \in OnDisk
    BY DEF OnDisk
  <2>6. NextOf(s, resting) = next
    BY <1>2 DEF NextOf
  <2> HIDE DEF g
  <2>7. next \in SoundState
    BY <2>1, <2>2, <2>3, <2>4, <2>5 DEF SoundState, Parked, Task, PassTask
  <2>8. /\ next.pc = FirstPc[s.task] /\ next.task = s.task /\ next.group = g
        /\ next.mem = s.snap[g]
        /\ next.read = IF s.task = "backfill" THEN s.snap[g] ELSE Missing
        /\ next.snap = [s.snap EXCEPT ![g] = Missing]
    BY DEF Parked
  <2>9. \A h \in Group :
          next.snap[h] # Missing
            => next.task \in PassTask /\ Follows(h, next.snap[h], files, gone)
    BY <2>1, <2>8
  <2> HIDE DEF next
  <2> QED BY <2>1, <2>2, <2>3, <2>6, <2>7, <2>8, <2>9 DEF ThreadGood
<1> QED BY <1>1, <1>2

\* A step of another thread does not disturb it.
LEMMA ThreadGoodOn ==
  ASSUME NEW s, NEW files \in [Group -> OnDisk], NEW gone,
         NEW newFiles \in [Group -> OnDisk], NEW nowGone,
         Evolves(files, gone, newFiles, nowGone), ThreadGood(s, files, gone)
  PROVE  ThreadGood(s, newFiles, nowGone)
<1>1. gone \subseteq nowGone
  BY DEF Evolves
<1>2. s.pc = "upsert" => s.group \in Group /\ s.read \in OnDisk
  BY DEF ThreadGood, SoundState, RestPc
<1>3. \A g \in Group : s.snap[g] \in OnDisk
  BY DEF ThreadGood, SoundState
<1> QED BY <1>1, <1>2, <1>3, FollowsOn DEF ThreadGood

\* The places of a thread that ask nothing more of what it has in memory.
PlainPc ==
  {"save", "publish", "clear", "retain", "archive", "copy", "cleanup",
   "unclaim", "persist", "failed", "completed"}

\* A thread goes to such a place, perhaps with another live object in hand.
LEMMA PlainIsGood ==
  ASSUME NEW s, NEW files, NEW gone, ThreadGood(s, files, gone),
         NEW n \in SoundState, n.pc \in PlainPc, n.group = s.group, n.group \in Group,
         n.mem \in Live, n.task = s.task, n.snap = s.snap
  PROVE  ThreadGood(n, files, gone)
BY DEF ThreadGood, PlainPc

LEMMA PlainMoveIsGood ==
  ASSUME NEW s, NEW files, NEW gone, ThreadGood(s, files, gone), s.pc \notin RestPc,
         NEW pc \in PlainPc
  PROVE  /\ ThreadGood([s EXCEPT !.pc = pc], files, gone)
         /\ ThreadGood([s EXCEPT !.pc = pc, !.victim = NoGroup], files, gone)
         /\ ThreadGood([s EXCEPT !.pc = pc, !.read = Missing], files, gone)
<1>0. s \in SoundState /\ s.group \in Group /\ s.mem \in Live /\ pc \in Pc /\ Missing \in OnDisk
  BY DEF ThreadGood, PlainPc, Pc, OnDisk
<1>1. ThreadGood([s EXCEPT !.pc = pc], files, gone)
  <2>1. [s EXCEPT !.pc = pc] \in SoundState
    BY <1>0 DEF SoundState
  <2> QED BY <1>0, <2>1, PlainIsGood DEF SoundState
<1>2. ThreadGood([s EXCEPT !.pc = pc, !.victim = NoGroup], files, gone)
  <2>1. [s EXCEPT !.pc = pc, !.victim = NoGroup] \in SoundState
    BY <1>0 DEF SoundState
  <2> QED BY <1>0, <2>1, PlainIsGood DEF SoundState
<1>3. ThreadGood([s EXCEPT !.pc = pc, !.read = Missing], files, gone)
  <2>1. [s EXCEPT !.pc = pc, !.read = Missing] \in SoundState
    BY <1>0 DEF SoundState
  <2> QED BY <1>0, <2>1, PlainIsGood DEF SoundState
<1> QED BY <1>1, <1>2, <1>3

LEMMA PlainWithIsGood ==
  ASSUME NEW s, NEW files, NEW gone, ThreadGood(s, files, gone), s.pc \notin RestPc,
         NEW pc \in PlainPc, NEW rec \in Live
  PROVE  /\ ThreadGood([s EXCEPT !.pc = pc, !.mem = rec], files, gone)
         /\ \A then \in {"end", "cleanup"} :
              ThreadGood([s EXCEPT !.pc = pc, !.then = then, !.mem = rec], files, gone)
<1>0. s \in SoundState /\ s.group \in Group /\ pc \in Pc /\ rec \in OnDisk
  BY DEF ThreadGood, PlainPc, Pc, OnDisk
<1>1. ThreadGood([s EXCEPT !.pc = pc, !.mem = rec], files, gone)
  <2>1. [s EXCEPT !.pc = pc, !.mem = rec] \in SoundState
    BY <1>0 DEF SoundState
  <2> QED BY <1>0, <2>1, PlainIsGood DEF SoundState
<1>2. ASSUME NEW then \in {"end", "cleanup"}
      PROVE  ThreadGood([s EXCEPT !.pc = pc, !.then = then, !.mem = rec], files, gone)
  <2>1. [s EXCEPT !.pc = pc, !.then = then, !.mem = rec] \in SoundState
    BY <1>0 DEF SoundState
  <2> QED BY <1>0, <2>1, PlainIsGood DEF SoundState
<1> QED BY <1>1, <1>2

\* What a step of thread t keeps, apart from the store.
OnlyThread(t) == thread' = [thread EXCEPT ![t] = thread'[t]]
NextState(t) ==
  OnlyThread(t) /\ ThreadGood(thread'[t], group_json', tombstones') /\ LocksOK'

LEMMA AfterStore ==
  ASSUME IInv, StoreStep, NEW t \in Thread
  PROVE  /\ ThreadGood(thread[t], group_json, tombstones)
         /\ ThreadGood(thread[t], group_json', tombstones')
         /\ thread[t] \in SoundState
         /\ StoreInv'
<1>1. ThreadGood(thread[t], group_json, tombstones) /\ thread[t] \in SoundState
  BY DEF IInv, ThreadsGood
<1>2. /\ StoreInv'
      /\ Evolves(group_json, tombstones, group_json', tombstones')
      /\ group_json \in [Group -> OnDisk]
      /\ group_json' \in [Group -> OnDisk]
  BY StoreInvStep DEF IInv, StoreInv
<1> QED BY <1>1, <1>2, ThreadGoodOn

\* The three ways in which an action ends for its thread.
LEMMA EnterIsGood ==
  ASSUME IInv, NEW t \in Thread, NEW s, Enter(t, s),
         ThreadGood(s, group_json', tombstones')
  PROVE  NextState(t)
BY DEF Enter, IInv, ThreadsGood, LocksOK, NextState, OnlyThread

LEMMA FinishIsGood ==
  ASSUME IInv, StoreStep, NEW t \in Thread, Finish(t)
  PROVE  NextState(t)
<1>1. ThreadGood(NextOf(thread[t], Resting(t)), group_json', tombstones')
  <2>1. ThreadGood(thread[t], group_json', tombstones')
    BY AfterStore
  <2>2. Resting(t) \in RestPc
    BY DEF Resting, RestPc
  <2> QED BY <2>1, <2>2, NextIsGood DEF ThreadGood, SoundState
<1>2. LocksOK'
  BY DEF Finish, Unlocked, IInv, LocksOK
<1> QED BY <1>1, <1>2 DEF Finish, IInv, ThreadsGood, NextState, OnlyThread

LEMMA RaiseIsGood ==
  ASSUME IInv, StoreStep, NEW t \in Thread, Raise(t)
  PROVE  NextState(t)
<1>1. CASE Finish(t)
  BY <1>1, FinishIsGood
<1>2. CASE /\ thread' = [thread EXCEPT ![t] = Parked("done")]
           /\ op_lock' = Unlocked(t)
  <2>1. ThreadGood(Parked("done"), group_json', tombstones')
    BY ParkedIsGood DEF RestPc
  <2>2. LocksOK'
    BY <1>2 DEF Unlocked, IInv, LocksOK
  <2> QED BY <1>2, <2>1, <2>2 DEF IInv, ThreadsGood, NextState, OnlyThread
<1> QED BY <1>1, <1>2 DEF Raise

\* A step of one thread that ends well keeps the invariant.
StepGood(t) == StoreStep /\ NextState(t) /\ OthersOK'

LEMMA StepGoodInv ==
  ASSUME IInv, NEW t \in Thread, StepGood(t)
  PROVE  IInv'
<1>1. StoreInv'
  BY StoreInvStep DEF StepGood, IInv
<1>2. \A u \in Thread : ThreadGood(thread'[u], group_json', tombstones')
  <2>1. \A u \in Thread : u # t => thread'[u] = thread[u]
    BY DEF StepGood, NextState, OnlyThread, IInv, ThreadsGood
  <2>2. \A u \in Thread : ThreadGood(thread[u], group_json', tombstones')
    BY AfterStore DEF StepGood
  <2> QED BY <2>1, <2>2 DEF StepGood, NextState
<1>3. thread' \in [Thread -> SoundState]
  <2>1. thread'[t] \in SoundState
    BY <1>2 DEF ThreadGood
  <2> QED BY <2>1 DEF StepGood, NextState, OnlyThread, IInv, ThreadsGood
<1> QED BY <1>1, <1>2, <1>3 DEF StepGood, NextState, IInv, ThreadsGood

-------------------------------------------------------------------------------
(* The actions of a thread, one lemma each.                                 *)

LEMMA AtWork ==
  ASSUME IInv, NEW t \in Thread, thread[t].pc \notin RestPc
  PROVE  /\ ThreadGood(thread[t], group_json, tombstones)
         /\ Subject(t) \in Group
         /\ Mem(t) \in Live
         /\ Mem(t).value \in SoundValue
         /\ Mem(t).version \in Nat
         /\ group_json[Subject(t)] \in OnDisk
BY LiveFields DEF IInv, ThreadsGood, StoreInv, ThreadGood, Subject, Mem

\* A step that leaves the store alone, to a place that asks nothing more.
LEMMA GotoIsGood ==
  ASSUME IInv, NEW t \in Thread, thread[t].pc \notin RestPc, UNCHANGED storeVars,
         NEW pc \in PlainPc, Goto(t, pc)
  PROVE  StoreStep /\ NextState(t)
<1>1. StoreStep
  BY DEF StoreStep
<1>2. ThreadGood(thread[t], group_json', tombstones')
  BY <1>1, AfterStore
<1> QED BY <1>1, <1>2, PlainMoveIsGood, EnterIsGood DEF Goto

LEMMA GotoWithIsGood ==
  ASSUME IInv, NEW t \in Thread, thread[t].pc \notin RestPc, StoreStep,
         NEW pc \in PlainPc, NEW rec \in Live, GotoWith(t, pc, rec)
  PROVE  NextState(t)
<1>2. ThreadGood(thread[t], group_json', tombstones')
  BY AfterStore
<1> QED BY <1>2, PlainWithIsGood, EnterIsGood DEF GotoWith

LEMMA WriteThenIsGood ==
  ASSUME IInv, NEW t \in Thread, thread[t].pc \notin RestPc, UNCHANGED storeVars,
         NEW v \in SoundValue, NEW then \in {"end", "cleanup"}, WriteThen(t, v, then)
  PROVE  StoreStep /\ NextState(t)
<1>1. StoreStep
  BY DEF StoreStep
<1>2. ThreadGood(thread[t], group_json', tombstones')
  BY <1>1, AfterStore
<1>3. [Mem(t) EXCEPT !.value = v] \in Live
  BY AtWork, BumpedIsLive
<1>4. thread[t] \in SoundState
  BY <1>1, AfterStore
<1>5. [thread[t] EXCEPT !.pc = "save", !.mem.value = v, !.then = then]
        = [thread[t] EXCEPT !.pc = "save", !.then = then, !.mem = [Mem(t) EXCEPT !.value = v]]
  BY <1>4 DEF Mem, SoundState
<1>6. ThreadGood([thread[t] EXCEPT !.pc = "save", !.then = then,
                                   !.mem = [Mem(t) EXCEPT !.value = v]],
                 group_json', tombstones')
  BY <1>2, <1>3, PlainWithIsGood DEF PlainPc
<1> QED BY <1>1, <1>5, <1>6, EnterIsGood DEF WriteThen

\* A save: the next version of the object in hand, or a conflict.
LEMMA SaveAsIsGood ==
  ASSUME IInv, NEW t \in Thread, NEW v \in SoundValue, NEW pc \in {"publish"},
         thread[t].pc \notin RestPc, SaveAs(t, v, pc),
         UNCHANGED <<summaries, tombstones>>
  PROVE  StoreStep /\ NextState(t)
<1>0. /\ thread[t] \in SoundState
      /\ thread[t].group \in Group
      /\ thread[t].mem \in Live
      /\ ThreadGood(thread[t], group_json, tombstones)
  BY DEF IInv, ThreadsGood, ThreadGood
<1>1. CASE /\ UpdateGroup(Subject(t), Mem(t), v)
           /\ GotoWith(t, pc, Bumped(Mem(t), v))
  <2>1. StoreStep
    BY <1>0, <1>1 DEF StoreStep, Subject, Mem
  <2>2. ThreadGood(thread[t], group_json', tombstones')
    BY <2>1, AfterStore
  <2>3. Bumped(Mem(t), v) \in Live
    BY <1>0, BumpedIsLive DEF Mem
  <2>4. ThreadGood([thread[t] EXCEPT !.pc = pc, !.mem = Bumped(Mem(t), v)],
                   group_json', tombstones')
    BY <1>0, <2>2, <2>3 DEF ThreadGood, SoundState, OnDisk, Pc, RestPc
  <2> QED BY <1>1, <2>1, <2>4, EnterIsGood DEF GotoWith
<1>2. CASE Raise(t) /\ UNCHANGED group_json
  <2>1. StoreStep
    BY <1>2 DEF StoreStep, storeVars
  <2> QED BY <1>2, <2>1, RaiseIsGood
<1> QED BY <1>1, <1>2 DEF SaveAs

LEMMA SaveGroupIsGood ==
  ASSUME IInv, NEW t \in Thread, SaveGroup(t)
  PROVE  StepGood(t)
<1>1. thread[t].pc \notin RestPc
  BY DEF SaveGroup, At, RestPc
<1>2. thread[t].mem \in Live
  BY <1>1 DEF IInv, ThreadsGood, ThreadGood
<1>3. Marked(Mem(t).value) \in SoundValue
  BY <1>2, LiveFields, EditsAreSound DEF Mem
<1>4. StoreStep /\ NextState(t)
  BY <1>1, <1>3, SaveAsIsGood DEF SaveGroup
<1> QED BY <1>4 DEF SaveGroup, StepGood, OthersOK, IInv, diskVars

\* The publisher reads the file: what it will publish is the file as it is.
LEMMA ReloadForSummaryIsGood ==
  ASSUME IInv, NEW t \in Thread, ReloadForSummary(t)
  PROVE  StepGood(t)
<1>1. StoreStep
  BY DEF ReloadForSummary, StoreStep
<1>2. ThreadGood(thread[t], group_json', tombstones') /\ thread[t].pc = "publish"
  BY <1>1, AfterStore DEF ReloadForSummary, At
<1>3. Subject(t) \in Group /\ group_json[Subject(t)] \in OnDisk /\ group_json' = group_json
  BY <1>2 DEF ThreadGood, RestPc, Subject, IInv, StoreInv, ReloadForSummary, storeVars
<1>4. ThreadGood([thread[t] EXCEPT !.pc = "upsert", !.read = group_json[Subject(t)]],
                 group_json', tombstones')
  <2>1. Follows(Subject(t), group_json[Subject(t)], group_json', tombstones')
    BY <1>3, OnDiskFields DEF Follows
  <2> QED BY <1>2, <1>3, <2>1 DEF ThreadGood, SoundState, Pc, RestPc, Subject
<1> QED BY <1>1, <1>4, EnterIsGood
       DEF ReloadForSummary, StepGood, OthersOK, IInv, diskVars

\* The publication: one transaction, and the thread goes on.
LEMMA PublishSummaryIsGood ==
  ASSUME IInv, NEW t \in Thread, PublishSummary(t)
  PROVE  StepGood(t)
<1>0. /\ ThreadGood(thread[t], group_json, tombstones)
      /\ thread[t].pc = "upsert"
  BY DEF IInv, ThreadsGood, PublishSummary, At
<1>1. StoreStep
  <2>1. thread[t].group \in Group /\ thread[t].read \in OnDisk
    BY <1>0 DEF ThreadGood, SoundState, RestPc
  <2>2. CASE thread[t].read = Missing
    BY <2>1, <2>2 DEF PublishSummary, StoreStep, Subject
  <2>3. CASE thread[t].read # Missing
    <3>1. thread[t].read \in Live /\ Follows(thread[t].group, thread[t].read, group_json, tombstones)
      BY <1>0, <2>1, <2>3, OnDiskFields DEF ThreadGood
    <3> QED BY <2>1, <2>3, <3>1 DEF PublishSummary, StoreStep, Subject
  <2> QED BY <2>2, <2>3
<1>2. NextState(t)
  <2>1. CASE Finish(t)
    BY <1>1, <2>1, FinishIsGood
  <2>2. CASE Enter(t, [thread[t] EXCEPT !.pc = "clear", !.read = Missing])
    <3>1. ThreadGood([thread[t] EXCEPT !.pc = "clear", !.read = Missing],
                     group_json', tombstones')
      BY <1>0, <1>1, AfterStore DEF ThreadGood, SoundState, Pc, RestPc, OnDisk
    <3> QED BY <2>2, <3>1, EnterIsGood
  <2> QED BY <2>1, <2>2 DEF PublishSummary
<1> QED BY <1>1, <1>2 DEF PublishSummary, StepGood, OthersOK, IInv, diskVars

LEMMA ClearMarkIsGood ==
  ASSUME IInv, NEW t \in Thread, ClearMark(t)
  PROVE  StepGood(t)
<1> DEFINE v == Unmarked(Mem(t).value)
<1>0. /\ thread[t].pc = "clear"
      /\ thread[t].group \in Group
      /\ thread[t].mem \in Live
  BY DEF IInv, ThreadsGood, ThreadGood, ClearMark, At, RestPc
<1>1. v \in SoundValue /\ Bumped(Mem(t), v) \in Live
  BY <1>0, LiveFields, EditsAreSound, BumpedIsLive DEF Mem
<1>2. StoreStep
  <2>1. CASE UpdateGroup(Subject(t), Mem(t), v)
    BY <1>0, <1>1, <2>1 DEF StoreStep, Subject, Mem, ClearMark
  <2>2. CASE UNCHANGED group_json
    BY <2>2 DEF StoreStep, storeVars, ClearMark
  <2> QED BY <2>1, <2>2 DEF ClearMark
<1>3. NextState(t)
  <2>1. CASE Finish(t)
    BY <1>2, <2>1, FinishIsGood
  <2>2. CASE Raise(t)
    BY <1>2, <2>2, RaiseIsGood
  <2>3. CASE Enter(t, [thread[t] EXCEPT !.pc = "cleanup", !.then = "end",
                                        !.mem = Bumped(Mem(t), v)])
    <3>1. ThreadGood([thread[t] EXCEPT !.pc = "cleanup", !.then = "end",
                                       !.mem = Bumped(Mem(t), v)],
                     group_json', tombstones')
      <4> HIDE DEF v
      <4>1. ThreadGood(thread[t], group_json', tombstones')
        BY <1>2, AfterStore
      <4> QED BY <1>0, <1>1, <4>1, PlainWithIsGood DEF PlainPc, RestPc
    <3> QED BY <2>3, <3>1, EnterIsGood
  <2> QED BY <2>1, <2>2, <2>3 DEF ClearMark
<1> QED BY <1>2, <1>3 DEF ClearMark, StepGood, OthersOK, IInv, diskVars

LEMMA RetainMarkIsGood ==
  ASSUME IInv, NEW t \in Thread, RetainMark(t)
  PROVE  StepGood(t)
<1>0. thread[t].pc \notin RestPc
  BY DEF RetainMark, At, RestPc
<1>1. /\ Marked(Mem(t).value) \in SoundValue
      /\ Subject(t) \in Group /\ Mem(t) \in Live
  BY <1>0, AtWork, EditsAreSound
<1>2. StoreStep
  <2>1. CASE UpdateGroup(Subject(t), Mem(t), Marked(Mem(t).value))
    BY <1>1, <2>1 DEF StoreStep, RetainMark
  <2>2. CASE UNCHANGED group_json
    BY <2>2 DEF StoreStep, storeVars, RetainMark
  <2> QED BY <2>1, <2>2 DEF RetainMark
<1> QED BY <1>2, RaiseIsGood DEF RetainMark, StepGood, OthersOK, IInv, diskVars

LEMMA PublicationFailsIsGood ==
  ASSUME IInv, NEW t \in Thread, PublicationFails(t)
  PROVE  StepGood(t)
<1>1. StoreStep /\ NextState(t)
  BY GotoIsGood DEF PublicationFails, At, RestPc, PlainPc
<1>2. faults' \in 0 .. MaxFaults
  BY TaskAssumption DEF PublicationFails, Fault, IInv, OthersOK
<1> QED BY <1>1, <1>2 DEF PublicationFails, StepGood, OthersOK, IInv, diskVars

LEMMA ArchiveIsGood ==
  ASSUME IInv, NEW t \in Thread, Archive(t)
  PROVE  StepGood(t)
<1>0. thread[t].pc \notin RestPc /\ UNCHANGED storeVars
  BY DEF Archive, At, RestPc
<1>1. Mem(t).value \in SoundValue
  BY <1>0, AtWork
<1>2. StoreStep /\ NextState(t)
  <2>1. CASE WriteCompleted(t, Mem(t).value)
    BY <1>0, <1>1, <2>1, EditsAreSound, WriteThenIsGood DEF WriteCompleted
  <2>2. CASE Goto(t, "copy")
    BY <1>0, <2>2, GotoIsGood DEF PlainPc
  <2>3. CASE WriteFailed(t)
    BY <1>0, <1>1, <2>3, EditsAreSound, WriteThenIsGood DEF WriteFailed
  <2> QED BY <2>1, <2>2, <2>3 DEF Archive
<1>3. archive_dir' \in [exists : BOOLEAN, files : SUBSET Group]
  <2>1. [exists |-> TRUE, files |-> {}] \in [exists : BOOLEAN, files : SUBSET Group]
    OBVIOUS
  <2>2. archive_dir' = archive_dir \/ archive_dir' = [exists |-> TRUE, files |-> {}]
    BY DEF Archive
  <2> QED BY <2>1, <2>2 DEF IInv, OthersOK
<1> QED BY <1>2, <1>3 DEF Archive, StepGood, OthersOK, IInv

\* The files of one more group.
LEMMA CopiedFiles ==
  ASSUME IInv, NEW g \in Group
  PROVE  [archive_dir EXCEPT !.files = @ \cup {g}] \in [exists : BOOLEAN, files : SUBSET Group]
BY DEF IInv, OthersOK

LEMMA CopyFilesIsGood ==
  ASSUME IInv, NEW t \in Thread, CopyFiles(t)
  PROVE  StepGood(t)
<1>0. thread[t].pc \notin RestPc /\ UNCHANGED storeVars
  BY DEF CopyFiles, At, RestPc
<1>1. Mem(t).value \in SoundValue /\ Subject(t) \in Group
  BY <1>0, AtWork
<1>2. StoreStep /\ NextState(t)
  <2>1. CASE WriteCompleted(t, ArchiveSucceeded(Mem(t).value))
    <3>1. Settled(ArchiveSucceeded(Mem(t).value)) \in SoundValue
      BY <1>1, EditsAreSound
    <3> QED BY <1>0, <2>1, <3>1, WriteThenIsGood DEF WriteCompleted
  <2>2. CASE WriteFailed(t)
    BY <1>0, <1>1, <2>2, EditsAreSound, WriteThenIsGood DEF WriteFailed
  <2> QED BY <2>1, <2>2 DEF CopyFiles
<1>3. archive_dir' \in [exists : BOOLEAN, files : SUBSET Group]
  BY <1>1, CopiedFiles DEF CopyFiles, IInv, OthersOK
<1> QED BY <1>2, <1>3 DEF CopyFiles, StepGood, OthersOK, IInv

LEMMA ArchiveFailsIsGood ==
  ASSUME IInv, NEW t \in Thread, ArchiveFails(t)
  PROVE  StepGood(t)
<1>0. thread[t].pc \notin RestPc /\ UNCHANGED storeVars
  BY DEF ArchiveFails, At, RestPc
<1>1. ArchiveFailed(Mem(t).value) \in SoundValue
  BY <1>0, AtWork, EditsAreSound
<1>2. StoreStep /\ NextState(t)
  BY <1>0, <1>1, WriteThenIsGood DEF ArchiveFails, WriteFailed
<1>3. faults' \in 0 .. MaxFaults
  BY TaskAssumption DEF ArchiveFails, Fault, IInv, OthersOK
<1> QED BY <1>2, <1>3 DEF ArchiveFails, StepGood, OthersOK, IInv, diskVars

LEMMA SettlementFailsIsGood ==
  ASSUME IInv, NEW t \in Thread, SettlementFails(t)
  PROVE  StepGood(t)
<1>0. thread[t].pc \notin RestPc /\ UNCHANGED storeVars
  BY DEF SettlementFails, At, RestPc
<1>1. /\ [ArchiveSucceeded(Mem(t).value) EXCEPT !.status = "FAILED"] \in SoundValue
      /\ Subject(t) \in Group
  BY <1>0, AtWork, EditsAreSound
<1>2. StoreStep /\ NextState(t)
  BY <1>0, <1>1, WriteThenIsGood DEF SettlementFails
<1>3. faults' \in 0 .. MaxFaults
  BY TaskAssumption DEF SettlementFails, Fault, IInv, OthersOK
<1>4. archive_dir' \in [exists : BOOLEAN, files : SUBSET Group]
  BY <1>1, CopiedFiles DEF SettlementFails
<1> QED BY <1>2, <1>3, <1>4 DEF SettlementFails, StepGood, OthersOK, IInv

LEMMA ClaimCleanupIsGood ==
  ASSUME IInv, NEW t \in Thread, ClaimCleanup(t)
  PROVE  StepGood(t)
<1> DEFINE n == Mem(t).version + 1
           v == [Mem(t).value EXCEPT !.claim = n]
           s == [thread[t] EXCEPT !.pc = "lock", !.token = v.claim, !.mem = Bumped(Mem(t), v)]
<1>0. thread[t].pc \notin RestPc
  BY DEF ClaimCleanup, At, RestPc
<1>1. /\ Mem(t) \in Live /\ Mem(t).value \in SoundValue /\ Subject(t) \in Group
      /\ n \in Nat /\ v \in SoundValue /\ Bumped(Mem(t), v) \in Live
  <2>1. /\ Mem(t) \in Live /\ Mem(t).value \in SoundValue /\ Subject(t) \in Group
        /\ n \in Nat
    BY <1>0, AtWork
  <2>2. v \in SoundValue
    BY <2>1, EditsAreSound
  <2> QED BY <2>1, <2>2, BumpedIsLive
<1>2. CASE /\ ClaimableCleanup(Subject(t), Mem(t).value)
           /\ UpdateGroup(Subject(t), Mem(t), v)
           /\ Enter(t, s)
  <2>1. StoreStep
    BY <1>1, <1>2 DEF StoreStep, ClaimCleanup
  <2>2. ThreadGood(thread[t], group_json', tombstones') /\ thread[t] \in SoundState
    BY <2>1, AfterStore
  <2>3. v.claim = n /\ v.replaced \in Group /\ Bumped(Mem(t), v).value = v
    BY <1>1, <1>2 DEF ClaimableCleanup, SoundValue, GroupValue, Bumped
  <2>4. s \in SoundState /\ s.pc = "lock" /\ s.group = Subject(t) /\ s.mem = Bumped(Mem(t), v)
        /\ s.task = thread[t].task /\ s.snap = thread[t].snap
    <3> HIDE DEF v, n
    <3> QED BY <1>1, <2>2, <2>3 DEF SoundState, OnDisk, Pc, Subject
  <2>5. ThreadGood(s, group_json', tombstones')
    <3> HIDE DEF v, n, s
    <3> QED BY <1>1, <2>2, <2>3, <2>4 DEF ThreadGood
  <2>6. NextState(t)
    BY <1>2, <2>5, EnterIsGood
  <2> QED BY <2>1, <2>6 DEF ClaimCleanup, StepGood, OthersOK, IInv, diskVars
<1>3. CASE Finish(t) /\ UNCHANGED group_json
  <2>1. StoreStep
    BY <1>3 DEF StoreStep, storeVars, ClaimCleanup
  <2> QED BY <1>3, <2>1, FinishIsGood DEF ClaimCleanup, StepGood, OthersOK, IInv, diskVars
<1> QED BY <1>2, <1>3 DEF ClaimCleanup

LEMMA LockTimeoutIsGood ==
  ASSUME IInv, NEW t \in Thread, LockTimeout(t)
  PROVE  StepGood(t)
<1>1. StoreStep /\ NextState(t)
  BY GotoIsGood DEF LockTimeout, At, RestPc, PlainPc
<1>2. faults' \in 0 .. MaxFaults
  BY TaskAssumption DEF LockTimeout, Fault, IInv, OthersOK
<1> QED BY <1>1, <1>2 DEF LockTimeout, StepGood, OthersOK, IInv, diskVars

\* What is left of a record when the own claim is taken out.
LEMMA ReleasedIsSound ==
  ASSUME NEW t, NEW v \in SoundValue
  PROVE  Released(t, v) \in SoundValue
<1>1. \A n \in Nat : [v EXCEPT !.claim = n] \in SoundValue
  BY EditsAreSound
<1>2. v.claim \in Nat
  BY EditsAreSound
<1> QED BY <1>1, <1>2 DEF Released

LEMMA ReloadClaimIsGood ==
  ASSUME IInv, NEW t \in Thread, ReloadClaim(t)
  PROVE  StepGood(t)
<1> DEFINE rec == group_json[Subject(t)]
<1>0. thread[t].pc \notin RestPc
  BY DEF ReloadClaim, At, RestPc
<1>1. StoreStep
  BY DEF ReloadClaim, StoreStep
<1>2. CASE Finish(t)
  BY <1>1, <1>2, FinishIsGood DEF ReloadClaim, StepGood, OthersOK, IInv, diskVars
<1>3. CASE /\ OwnClaim(t, rec)
           /\ GotoWith(t, "persist", [rec EXCEPT !.value = Released(t, rec.value)])
  <2>1. rec \in Live
    BY <1>0, <1>3, AtWork, OnDiskFields DEF OwnClaim
  <2>2. [rec EXCEPT !.value = Released(t, rec.value)] \in Live
    BY <2>1, LiveFields, ReleasedIsSound, BumpedIsLive
  <2>3. NextState(t)
    BY <1>0, <1>1, <1>3, <2>2, GotoWithIsGood DEF PlainPc
  <2> QED BY <1>1, <2>3 DEF ReloadClaim, StepGood, OthersOK, IInv, diskVars
<1> QED BY <1>2, <1>3 DEF ReloadClaim

LEMMA PersistReleaseIsGood ==
  ASSUME IInv, NEW t \in Thread, PersistRelease(t)
  PROVE  StepGood(t)
<1>0. thread[t].pc \notin RestPc
  BY DEF PersistRelease, At, RestPc
<1>1. Mem(t).value \in SoundValue /\ Subject(t) \in Group /\ Mem(t) \in Live
  BY <1>0, AtWork
<1>2. StoreStep
  <2>1. CASE UpdateGroup(Subject(t), Mem(t), Mem(t).value)
    BY <1>1, <2>1 DEF StoreStep, PersistRelease
  <2>2. CASE UNCHANGED group_json
    BY <2>2 DEF StoreStep, storeVars, PersistRelease
  <2> QED BY <2>1, <2>2 DEF PersistRelease
<1> QED BY <1>2, FinishIsGood DEF PersistRelease, StepGood, OthersOK, IInv, diskVars

LEMMA TakeOperationLockIsGood ==
  ASSUME IInv, NEW t \in Thread, TakeOperationLock(t)
  PROVE  StepGood(t)
<1> DEFINE rec == group_json[Subject(t)]
           p == Mem(t).value.replaced
           s == [thread[t] EXCEPT !.pc = IF p \in receipts THEN "completed" ELSE "delSummary",
                                  !.victim = IF p \in receipts THEN NoGroup ELSE p]
<1>0. thread[t].pc = "lock" /\ thread[t].pc \notin RestPc
  BY DEF TakeOperationLock, At, RestPc
<1>1. StoreStep
  BY DEF TakeOperationLock, StoreStep
<1>2. CASE Finish(t)
  BY <1>1, <1>2, FinishIsGood DEF TakeOperationLock, StepGood, OthersOK, IInv, diskVars
<1>3. CASE /\ OwnClaim(t, rec)
           /\ GotoWith(t, "persist", [rec EXCEPT !.value = Released(t, rec.value)])
  <2>1. rec \in Live
    BY <1>0, <1>3, AtWork, OnDiskFields DEF OwnClaim
  <2>2. [rec EXCEPT !.value = Released(t, rec.value)] \in Live
    BY <2>1, LiveFields, ReleasedIsSound, BumpedIsLive
  <2>3. NextState(t)
    BY <1>0, <1>1, <1>3, <2>2, GotoWithIsGood DEF PlainPc
  <2> QED BY <1>1, <2>3 DEF TakeOperationLock, StepGood, OthersOK, IInv, diskVars
<1>4. CASE /\ op_lock' = [op_lock EXCEPT ![p] = t]
           /\ thread' = [thread EXCEPT ![t].pc = IF p \in receipts THEN "completed" ELSE "delSummary",
                                        ![t].victim = IF p \in receipts THEN NoGroup ELSE p]
  <2>1. ThreadGood(thread[t], group_json', tombstones') /\ thread[t] \in SoundState
    BY <1>1, AfterStore
  <2>2. p \in Group
    BY <1>0, <2>1 DEF ThreadGood, Mem
  <2>3. /\ s \in SoundState /\ s.group = Subject(t) /\ s.mem = Mem(t)
        /\ s.task = thread[t].task /\ s.snap = thread[t].snap
        /\ s.pc \in {"completed", "delSummary"}
        /\ s.pc = "delSummary" => s.victim = p
    <3> HIDE DEF p
    <3> QED BY <2>1, <2>2 DEF SoundState, Pc, Subject, Mem
  <2>4. ThreadGood(s, group_json', tombstones')
    <3>1. s.group \in Group /\ s.mem \in Live /\ s.mem.value.replaced \in Group
      BY <1>0, <2>2, <2>3, AtWork
    <3> HIDE DEF s
    <3> QED BY <2>1, <2>2, <2>3, <3>1 DEF ThreadGood
  <2>5. thread' = [thread EXCEPT ![t] = s] /\ thread'[t] = s
    BY <1>4 DEF IInv, ThreadsGood
  <2>6. LocksOK'
    BY <1>4 DEF IInv, LocksOK
  <2>7. NextState(t)
    <3> HIDE DEF s
    <3> QED BY <2>4, <2>5, <2>6 DEF NextState, OnlyThread
  <2> QED BY <1>1, <2>7 DEF TakeOperationLock, StepGood, OthersOK, IInv, diskVars
<1> QED BY <1>2, <1>3, <1>4 DEF TakeOperationLock

\* The end of a cleanup: the state on disk without the own claim is written.
LEMMA ReloadAndWriteIsGood ==
  ASSUME IInv, NEW t \in Thread, thread[t].pc \notin RestPc, UNCHANGED storeVars,
         NEW edit, group_json[Subject(t)] \in Live => edit \in SoundValue,
         ReloadAndWrite(t, edit)
  PROVE  StoreStep /\ NextState(t)
<1> DEFINE rec == group_json[Subject(t)]
<1>1. StoreStep
  BY DEF StoreStep
<1>2. CASE Raise(t)
  BY <1>1, <1>2, RaiseIsGood
<1>3. CASE rec # Missing /\ GotoWith(t, "save", [rec EXCEPT !.value = Released(t, edit)])
  <2>1. rec \in Live
    BY <1>3, AtWork, OnDiskFields
  <2>2. [rec EXCEPT !.value = Released(t, edit)] \in Live
    BY <2>1, ReleasedIsSound, BumpedIsLive
  <2> QED BY <1>1, <1>3, <2>2, GotoWithIsGood DEF PlainPc
<1> QED BY <1>2, <1>3 DEF ReloadAndWrite

LEMMA ReportCleanupFailureIsGood ==
  ASSUME IInv, NEW t \in Thread, ReportCleanupFailure(t)
  PROVE  StepGood(t)
<1>1. thread[t].pc \notin RestPc /\ UNCHANGED storeVars
  BY DEF ReportCleanupFailure, At, RestPc
<1>2. StoreStep /\ NextState(t)
  BY <1>1, LiveFields, ReloadAndWriteIsGood DEF ReportCleanupFailure
<1> QED BY <1>2 DEF ReportCleanupFailure, StepGood, OthersOK, IInv, diskVars

LEMMA CompleteCleanupIsGood ==
  ASSUME IInv, NEW t \in Thread, CompleteCleanup(t)
  PROVE  StepGood(t)
<1>1. thread[t].pc \notin RestPc /\ UNCHANGED storeVars
  BY DEF CompleteCleanup, At, RestPc
<1>2. StoreStep /\ NextState(t)
  <2>1. group_json[Subject(t)] \in Live
          => [group_json[Subject(t)].value EXCEPT !.pending_delete = FALSE] \in SoundValue
    BY LiveFields, EditsAreSound
  <2> QED BY <1>1, <2>1, ReloadAndWriteIsGood DEF CompleteCleanup
<1> QED BY <1>2 DEF CompleteCleanup, StepGood, OthersOK, IInv, diskVars

LEMMA RecordDeletionIsGood ==
  ASSUME IInv, NEW t \in Thread, RecordDeletion(t)
  PROVE  StepGood(t)
<1>0. thread[t].pc = "receipt" /\ UNCHANGED storeVars
  BY DEF RecordDeletion, At
<1>1. StoreStep /\ NextState(t)
  BY <1>0, GotoIsGood DEF RecordDeletion, RestPc, PlainPc
<1>2. receipts' \subseteq Group
  <2>1. Mem(t).value.replaced \in Group
    BY <1>0 DEF IInv, ThreadsGood, ThreadGood, Mem
  <2> QED BY <2>1 DEF RecordDeletion, IInv, OthersOK
<1> QED BY <1>1, <1>2 DEF RecordDeletion, StepGood, OthersOK, IInv

\* The tombstone comes first, then the jobs, then the file.
LEMMA DeleteVictimSummaryIsGood ==
  ASSUME IInv, NEW t \in Thread, DeleteVictimSummary(t)
  PROVE  StepGood(t)
<1> DEFINE n == [thread[t] EXCEPT !.pc = "delJobs"]
<1>0. /\ thread[t].pc = "delSummary"
      /\ Victim(t) \in Group
      /\ Victim(t) \in tombstones'
  BY DEF DeleteVictimSummary, At, Victim, DeleteSummary, IInv, ThreadsGood, ThreadGood
<1>1. StoreStep
  BY <1>0 DEF DeleteVictimSummary, StoreStep
<1>2. ThreadGood(thread[t], group_json', tombstones') /\ thread[t] \in SoundState
  BY <1>1, AfterStore
<1>3. /\ n \in SoundState /\ n.pc = "delJobs" /\ n.victim = Victim(t) /\ n.mem = thread[t].mem
      /\ n.task = thread[t].task /\ n.snap = thread[t].snap /\ n.group = thread[t].group
  BY <1>2 DEF SoundState, Pc, Victim
<1>4. ThreadGood(n, group_json', tombstones')
  <2> HIDE DEF n
  <2> QED BY <1>0, <1>2, <1>3 DEF ThreadGood, RestPc
<1> QED BY <1>1, <1>4, EnterIsGood
       DEF DeleteVictimSummary, Goto, StepGood, OthersOK, IInv, diskVars

LEMMA DeleteVictimJobsIsGood ==
  ASSUME IInv, NEW t \in Thread, DeleteVictimJobs(t)
  PROVE  StepGood(t)
<1> DEFINE n == [thread[t] EXCEPT !.pc = "delGroup"]
<1>0. thread[t].pc = "delJobs"
  BY DEF DeleteVictimJobs, At
<1>1. StoreStep
  BY <1>0 DEF DeleteVictimJobs, StoreStep
<1>2. ThreadGood(thread[t], group_json', tombstones') /\ thread[t] \in SoundState
  BY <1>1, AfterStore
<1>3. /\ n \in SoundState /\ n.pc = "delGroup" /\ n.victim = thread[t].victim
      /\ n.mem = thread[t].mem /\ n.task = thread[t].task /\ n.snap = thread[t].snap
      /\ n.group = thread[t].group
  BY <1>2 DEF SoundState, Pc
<1>4. ThreadGood(n, group_json', tombstones')
  <2> HIDE DEF n
  <2> QED BY <1>0, <1>2, <1>3 DEF ThreadGood, RestPc
<1> QED BY <1>1, <1>4, EnterIsGood
       DEF DeleteVictimJobs, Goto, StepGood, OthersOK, IInv

LEMMA DeleteVictimIsGood ==
  ASSUME IInv, NEW t \in Thread, DeleteVictim(t)
  PROVE  StepGood(t)
<1> DEFINE pc == IF thread[t].task = "submit" THEN "save" ELSE "receipt"
           n == [thread[t] EXCEPT !.pc = pc, !.victim = NoGroup]
<1>0. /\ thread[t].pc = "delGroup"
      /\ Victim(t) \in tombstones
  BY DEF DeleteVictim, At, Victim, IInv, ThreadsGood, ThreadGood
<1>1. StoreStep
  BY <1>0 DEF DeleteVictim, StoreStep
<1>2. ThreadGood(thread[t], group_json', tombstones') /\ thread[t] \in SoundState
  BY <1>1, AfterStore
<1>3. CASE Raise(t)
  BY <1>1, <1>3, RaiseIsGood DEF DeleteVictim, StepGood, OthersOK, IInv, diskVars
<1>4. CASE Enter(t, n)
  <2>1. /\ n \in SoundState /\ n.pc = pc /\ n.mem = thread[t].mem
        /\ n.task = thread[t].task /\ n.snap = thread[t].snap
        /\ n.group = thread[t].group
    BY <1>2 DEF SoundState, Pc
  <2>2. ThreadGood(n, group_json', tombstones')
    <3> HIDE DEF n
    <3> QED BY <1>0, <1>2, <2>1 DEF ThreadGood, RestPc
  <2> QED BY <1>1, <1>4, <2>2, EnterIsGood
         DEF DeleteVictim, StepGood, OthersOK, IInv, diskVars
<1> QED BY <1>3, <1>4 DEF DeleteVictim

LEMMA DeletionFailsIsGood ==
  ASSUME IInv, NEW t \in Thread, DeletionFails(t)
  PROVE  StepGood(t)
<1>0. thread[t].pc \notin RestPc
  BY DEF DeletionFails, RestPc
<1>1. StoreStep
  BY DEF DeletionFails, StoreStep
<1>2. NextState(t)
  <2>1. CASE Raise(t)
    BY <1>1, <2>1, RaiseIsGood
  <2>2. CASE Enter(t, [thread[t] EXCEPT !.pc = "failed", !.victim = NoGroup])
    <3>1. ThreadGood([thread[t] EXCEPT !.pc = "failed", !.victim = NoGroup],
                     group_json', tombstones')
      BY <1>0, <1>1, AfterStore, PlainMoveIsGood DEF PlainPc
    <3> QED BY <2>2, <3>1, EnterIsGood
  <2> QED BY <2>1, <2>2 DEF DeletionFails
<1>3. faults' \in 0 .. MaxFaults
  BY TaskAssumption DEF DeletionFails, Fault, IInv, OthersOK
<1> QED BY <1>1, <1>2, <1>3 DEF DeletionFails, StepGood, OthersOK, IInv, diskVars

\* A submission that passes the guards, deletes a rival first, or is refused.
LEMMA GuardSubmissionIsGood ==
  ASSUME IInv, NEW t \in Thread, NEW overwrite \in BOOLEAN, NEW cancel \in BOOLEAN,
         GuardSubmission(t, overwrite, cancel)
  PROVE  StepGood(t)
<1> DEFINE g == Subject(t)
           blocked == archive_dir.exists /\ ~overwrite
           p == IF archive_dir.exists THEN NewestOf(ArchivedRivals(g)) ELSE NoGroup
           started == [Mem(t) EXCEPT !.value = Started(@, p)]
           victim == NewestOf(RivalsInProgress(g))
           then == IF blocked THEN "reject" ELSE "end"
           n == [thread[t] EXCEPT !.pc = "delSummary", !.victim = victim,
                                  !.mem = started, !.then = then]
<1>0. thread[t].pc = "inspect" /\ thread[t].task = "submit" /\ UNCHANGED storeVars
  BY DEF GuardSubmission, At, IInv, ThreadsGood, ThreadGood
<1>1. StoreStep
  BY <1>0 DEF StoreStep
<1>2. started \in Live
  <2>1. p \in Group \cup {NoGroup}
    <3>1. ArchivedRivals(g) \in SUBSET Group
      BY DEF ArchivedRivals, Rivals
    <3> QED BY <3>1, NewestIsMember
  <2> HIDE DEF p
  <2>2. Mem(t) \in Live /\ Mem(t).value \in SoundValue
    BY <1>0, AtWork DEF RestPc
  <2>3. Started(Mem(t).value, p) \in SoundValue
    BY <2>1, <2>2, StartIsSound
  <2> QED BY <2>2, <2>3, BumpedIsLive
<1>3. CASE GotoWith(t, "save", started)
  <2> HIDE DEF started
  <2>1. NextState(t)
    BY <1>0, <1>1, <1>2, <1>3, GotoWithIsGood DEF RestPc, PlainPc
  <2> QED BY <1>1, <2>1 DEF GuardSubmission, StepGood, OthersOK, IInv, diskVars
<1>4. CASE Raise(t)
  BY <1>1, <1>4, RaiseIsGood DEF GuardSubmission, StepGood, OthersOK, IInv, diskVars
<1>5. CASE RivalsInProgress(g) # {} /\ Enter(t, n)
  <2>1. victim \in Group
    <3>1. RivalsInProgress(g) \in SUBSET Group
      BY DEF RivalsInProgress, Rivals
    <3> QED BY <1>5, <3>1, NewestIsMember
  <2>2. ThreadGood(thread[t], group_json', tombstones') /\ thread[t] \in SoundState
    BY <1>1, AfterStore
  <2>3. /\ n \in SoundState /\ n.pc = "delSummary" /\ n.victim = victim /\ n.mem = started
        /\ n.task = thread[t].task /\ n.snap = thread[t].snap /\ n.group = thread[t].group
    <3>1. then \in {"end", "reject"}
      OBVIOUS
    <3> HIDE DEF victim, started, then
    <3> QED BY <1>2, <2>1, <2>2, <3>1 DEF SoundState, Pc, OnDisk
  <2>4. ThreadGood(n, group_json', tombstones')
    <3> HIDE DEF n, started, victim
    <3> QED BY <1>0, <1>2, <1>5, <2>1, <2>2, <2>3 DEF ThreadGood, RestPc
  <2>5. NextState(t)
    <3> HIDE DEF n
    <3> QED BY <1>5, <2>4, EnterIsGood
  <2> QED BY <1>1, <2>5 DEF GuardSubmission, StepGood, OthersOK, IInv, diskVars
<1> QED BY <1>3, <1>4, <1>5 DEF GuardSubmission

-------------------------------------------------------------------------------
(* Requests, passes, time and crashes.                                      *)

\* A new request has nothing in memory but its group as it is on disk.
LEMMA StartRequestIsGood ==
  ASSUME IInv, NEW t \in Thread, UNCHANGED storeVars,
         NEW task \in Task, NEW g \in Group, NEW pc \in {"inspect", "save", "archive"},
         pc = "inspect" => task = "submit",
         NEW rec \in Live, StartRequest(t, task, g, pc, rec)
  PROVE  StoreStep /\ NextState(t)
<1> DEFINE n == [Parked(pc) EXCEPT !.task = task, !.group = g, !.mem = rec]
<1>1. StoreStep
  BY DEF StoreStep
<1>2. /\ n \in SoundState /\ n.pc = pc /\ n.group = g /\ n.mem = rec /\ n.task = task
      /\ n.snap = Nothing
  <2>1. Nothing \in [Group -> OnDisk] /\ rec \in OnDisk /\ Missing \in OnDisk
    BY DEF Nothing, OnDisk
  <2> QED BY <2>1 DEF Parked, SoundState, Pc
<1>3. ThreadGood(n, group_json', tombstones')
  <2> HIDE DEF n
  <2> QED BY <1>2 DEF ThreadGood, Nothing
<1> QED BY <1>1, <1>3, EnterIsGood DEF StartRequest

LEMMA SubmitIsGood ==
  ASSUME IInv, NEW t \in Thread, NEW g \in Group, Submit(t, g)
  PROVE  StepGood(t)
<1>1. group_json[g] \in Live
  BY OnDiskFields, LiveIsRecord DEF Submit, ReadyToSubmit, Exists, IInv, StoreInv
<1>2. StoreStep /\ NextState(t)
  BY <1>1, StartRequestIsGood DEF Submit, Task
<1> QED BY <1>2 DEF Submit, StepGood, OthersOK, IInv, diskVars

LEMMA ApproveIsGood ==
  ASSUME IInv, NEW t \in Thread, NEW g \in Group, Approve(t, g)
  PROVE  StepGood(t)
<1> DEFINE v == [Saved(g) EXCEPT !.approvals = @ + 1]
           last == v.approvals = Nodes
           next == IF last THEN [v EXCEPT !.workflow = "three_review_approved"] ELSE v
           rec == [group_json[g] EXCEPT !.value = next]
           pc == IF last THEN "archive" ELSE "save"
<1>1. group_json[g] \in Live /\ Saved(g) \in SoundValue /\ Saved(g).workflow = "in_review"
  BY OnDiskFields, LiveFields, LiveIsRecord DEF Approve, Exists, Saved, IInv, StoreInv
<1>2. next \in SoundValue
  BY <1>1, ApprovalIsSound
<1>3. rec \in Live
  <2> HIDE DEF next
  <2> QED BY <1>1, <1>2, BumpedIsLive
<1>4. StartRequest(t, "approve", g, pc, rec) /\ UNCHANGED storeVars
  BY DEF Approve
<1>5. pc \in {"save", "archive"}
  OBVIOUS
<1>6. StoreStep /\ NextState(t)
  <2> HIDE DEF rec, pc
  <2> QED BY <1>3, <1>4, <1>5, StartRequestIsGood DEF Task
<1> QED BY <1>6 DEF Approve, StepGood, OthersOK, IInv, diskVars

\* A pass starts with what is on disk.
LEMMA StartPassIsGood ==
  ASSUME IInv, NEW t \in Thread, NEW task \in PassTask, NEW S, StartPass(t, task, S)
  PROVE  StepGood(t)
<1> DEFINE s == [thread[t] EXCEPT !.task = task, !.snap = SnapshotOf(S)]
<1>1. StoreStep
  BY DEF StartPass, StoreStep
<1>2. thread[t] \in SoundState
  BY <1>1, AfterStore
<1>3. s.task = task /\ s.snap = SnapshotOf(S)
  BY <1>2 DEF SoundState
<1>4. SnapshotOf(S) \in [Group -> OnDisk]
  BY DEF SnapshotOf, IInv, StoreInv, OnDisk
<1>5. \A g \in Group : SnapshotOf(S)[g] # Missing => Follows(g, SnapshotOf(S)[g], group_json', tombstones')
  BY OnDiskFields DEF SnapshotOf, StartPass, storeVars, Follows, IInv, StoreInv
<1>6. ThreadGood(NextOf(s, "idle"), group_json', tombstones')
  <2> HIDE DEF s
  <2> QED BY <1>3, <1>4, <1>5, NextIsGood DEF RestPc
<1>7. NextState(t)
  BY <1>6, EnterIsGood DEF StartPass
<1> QED BY <1>1, <1>7 DEF StartPass, StepGood, OthersOK, IInv, diskVars

\* The death of the process empties every memory.
LEMMA CrashIsGood ==
  ASSUME IInv, Crash
  PROVE  StoreStep /\ IInv'
<1>1. StoreStep
  BY DEF Crash, StoreStep
<1>2. \A t \in Thread : ThreadGood(thread'[t], group_json', tombstones')
  <2> TAKE t \in Thread
  <2>1. CASE thread'[t] = thread[t]
    BY <1>1, <2>1, AfterStore
  <2>2. CASE \E pc \in RestPc : thread'[t] = Parked(pc)
    BY <2>2, ParkedIsGood
  <2> QED BY <2>1, <2>2 DEF Crash, RestPc
<1>3. thread' \in [Thread -> SoundState]
  BY <1>2 DEF Crash, ThreadGood
<1>4. LocksOK'
  BY DEF Crash, LocksOK
<1>5. faults' \in 0 .. MaxFaults
  BY TaskAssumption DEF Crash, Fault, IInv, OthersOK
<1> QED BY <1>1, <1>2, <1>3, <1>4, <1>5, StoreInvStep
       DEF IInv, ThreadsGood, OthersOK, Crash, diskVars

LEMMA LapseClaimIsGood ==
  ASSUME IInv, NEW g \in Group, LapseClaim(g)
  PROVE  StoreStep /\ IInv'
<1>1. StoreStep
  BY DEF LapseClaim, StoreStep
<1>2. lapsed' \in [Group -> Nat]
  <2>1. group_json[g] \in Live
    BY OnDiskFields, LiveIsRecord DEF LapseClaim, Exists, IInv, StoreInv
  <2>2. group_json[g].value.claim \in Nat
    BY <2>1, LiveFields, EditsAreSound
  <2> QED BY <2>2 DEF LapseClaim, IInv, OthersOK
<1>3. faults' \in 0 .. MaxFaults
  BY TaskAssumption DEF LapseClaim, Fault, IInv, OthersOK
<1> QED BY <1>1, <1>2, <1>3, StoreInvStep
       DEF IInv, StoreInv, ThreadsGood, LocksOK, OthersOK, LapseClaim, diskVars, storeVars

-------------------------------------------------------------------------------
(* The initial states.                                                      *)

LEMMA InitIsGood ==
  ASSUME Init
  PROVE  IInv
<1>1. PICK b \in Beginnings :
        /\ group_json =
            [g \in Group |->
               [version |-> 1,
                value |-> Begun(b[g], NewestOf({h \in Group : b[h] = "archived"}))]]
        /\ archive_dir = [exists |-> \E g \in Group : b[g] = "archived",
                          files |-> {g \in Group : b[g] = "archived"}]
  BY DEF Init
<1> DEFINE old == {h \in Group : b[h] = "archived"}
<1>2. \A g \in Group : Begun(b[g], NewestOf(old)) \in SoundValue
  <2> TAKE g \in Group
  <2>1. b[g] \in {"draft", "in_review", "replacing", "archived"}
    BY TaskAssumption
  <2>2. Draft \in GroupValue /\ Nodes - 1 \in 0 .. Nodes /\ Nodes \in 0 .. Nodes
    BY TaskAssumption DEF Draft, GroupValue, WorkflowStatus
  <2> DEFINE reviewed == [Draft EXCEPT !.status = "RUNNING", !.workflow = "in_review",
                                       !.approvals = Nodes - 1]
  <2>3. reviewed \in SoundValue
    <3>1. reviewed \in GroupValue
      BY <2>2 DEF GroupValue, WorkflowStatus
    <3>2. reviewed.approvals = Nodes - 1 /\ reviewed.pending_delete = FALSE
      BY DEF Draft
    <3>3. Nodes - 1 < Nodes
      BY TaskAssumption
    <3> HIDE DEF reviewed
    <3> QED BY <3>1, <3>2, <3>3 DEF SoundValue
  <2>4. CASE b[g] = "draft"
    BY <2>2, <2>4 DEF Begun, Draft, SoundValue
  <2>5. CASE b[g] = "in_review"
    BY <2>3, <2>5 DEF Begun
  <2>6. CASE b[g] = "replacing"
    <3>1. NewestOf(old) \in Group
      <4>1. old # {} /\ old \in SUBSET Group
        BY <2>6, TaskAssumption
      <4> HIDE DEF old
      <4> QED BY <4>1, NewestIsMember
    <3>2. Begun(b[g], NewestOf(old))
            = [reviewed EXCEPT !.replaced = NewestOf(old), !.pending_delete = TRUE]
      BY <2>6 DEF Begun
    <3>3. ASSUME NEW p \in Group
          PROVE  [reviewed EXCEPT !.replaced = p, !.pending_delete = TRUE] \in SoundValue
      <4> HIDE DEF reviewed
      <4> QED BY <2>3 DEF SoundValue, GroupValue
    <3> QED BY <3>1, <3>2, <3>3
  <2>7. CASE b[g] = "archived"
    BY <2>2, <2>7 DEF Begun, Draft, SoundValue, GroupValue, WorkflowStatus
  <2> QED BY <2>1, <2>4, <2>5, <2>6, <2>7
<1>3. \A g \in Group : group_json[g] \in Live
  <2> TAKE g \in Group
  <2> DEFINE v == Begun(b[g], NewestOf(old))
  <2>1. group_json[g] = [version |-> 1, value |-> v]
    BY <1>1
  <2>2. v \in SoundValue
    BY <1>2
  <2> HIDE DEF v
  <2> QED BY <2>1, <2>2 DEF Live
<1>4. StoreInv
  <2>1. group_json \in [Group -> OnDisk]
    BY <1>1, <1>3 DEF OnDisk
  <2>2. summaries = group_json /\ tombstones = {}
    BY DEF Init
  <2>3. \A g \in Group : group_json[g] # Missing
    BY <1>3, LiveIsRecord
  <2>4. \A g \in Group : Follows(g, summaries[g], group_json, tombstones)
    BY <2>1, <2>2, OnDiskFields DEF Follows
  <2> QED BY <2>1, <2>2, <2>3, <2>4 DEF StoreInv
<1>5. ThreadsGood
  <2>1. \A t \in Thread : ThreadGood(thread[t], group_json, tombstones)
    BY ParkedIsGood DEF Init, RestPc
  <2>2. thread \in [Thread -> SoundState]
    BY <2>1 DEF Init, ThreadGood
  <2> QED BY <2>1, <2>2 DEF ThreadsGood
<1>6. archive_dir \in [exists : BOOLEAN, files : SUBSET Group]
  BY <1>1
<1>7. LocksOK /\ artifacts = Group /\ receipts = {} /\ lapsed \in [Group -> Nat]
  BY DEF Init, LocksOK
<1>8. faults \in 0 .. MaxFaults
  <2>1. faults = 0 /\ MaxFaults \in Nat
    BY TaskAssumption DEF Init
  <2> QED BY <2>1
<1> QED BY <1>4, <1>5, <1>6, <1>7, <1>8 DEF IInv, OthersOK

-------------------------------------------------------------------------------
(* Every step, and the theorems.                                            *)

\* Every step is a step of the store that keeps the invariant.
LEMMA EveryActionIsGood ==
  ASSUME IInv, Next
  PROVE  StoreStep /\ IInv'
<1>1. ASSUME NEW t \in Thread, ThreadStep(t)
      PROVE  StepGood(t)
  BY <1>1, SaveGroupIsGood, ReloadForSummaryIsGood, PublishSummaryIsGood, ClearMarkIsGood,
     RetainMarkIsGood, ArchiveIsGood, CopyFilesIsGood, ClaimCleanupIsGood,
     TakeOperationLockIsGood, ReloadClaimIsGood, PersistReleaseIsGood, RecordDeletionIsGood,
     ReportCleanupFailureIsGood, CompleteCleanupIsGood, DeleteVictimSummaryIsGood,
     DeleteVictimJobsIsGood, DeleteVictimIsGood, GuardSubmissionIsGood DEF ThreadStep
<1>2. ASSUME NEW t \in Thread, FaultStep(t)
      PROVE  StepGood(t)
  BY <1>2, PublicationFailsIsGood, ArchiveFailsIsGood, SettlementFailsIsGood,
     LockTimeoutIsGood, DeletionFailsIsGood DEF FaultStep
<1>3. ASSUME NEW t \in Request, RequestArrives(t)
      PROVE  t \in Thread /\ StepGood(t)
  <2>1. t \in Thread
    BY DEF Thread
  <2>2. ASSUME NEW g \in Group, Submit(t, g) \/ Approve(t, g)
        PROVE  StepGood(t)
    BY <2>1, <2>2, SubmitIsGood, ApproveIsGood
  <2>3. ASSUME NEW S \in SUBSET Group, EditAccounts(t, S)
        PROVE  StepGood(t)
    BY <2>1, <2>3, StartPassIsGood DEF EditAccounts, PassTask
  <2> QED BY <1>3, <2>1, <2>2, <2>3 DEF RequestArrives
<1>4. ASSUME ScanArchives \/ ScanPublications \/ ScanCleanups \/ ScanBackfill
      PROVE  \E t \in Thread : StepGood(t)
  <2>1. Archiver \in Thread /\ Reconciler \in Thread /\ Backfill \in Thread
    BY DEF Thread
  <2>2. CASE ScanArchives
    BY <2>1, <2>2, StartPassIsGood DEF ScanArchives, PassTask
  <2>3. CASE ScanPublications
    BY <2>1, <2>3, StartPassIsGood DEF ScanPublications, PassTask
  <2>4. CASE ScanCleanups
    BY <2>1, <2>4, StartPassIsGood DEF ScanCleanups, PassTask
  <2>5. CASE ScanBackfill
    BY <2>1, <2>5, StartPassIsGood DEF ScanBackfill, PassTask
  <2> QED BY <1>4, <2>2, <2>3, <2>4, <2>5
<1>5. ASSUME NEW t \in Thread, StepGood(t)
      PROVE  StoreStep /\ IInv'
  BY <1>5, StepGoodInv DEF StepGood
<1> QED BY <1>1, <1>2, <1>3, <1>4, <1>5, CrashIsGood, LapseClaimIsGood DEF Next

LEMMA StepIsGood ==
  ASSUME IInv, [Next]_vars
  PROVE  StoreStep /\ IInv'
<1>1. CASE UNCHANGED vars
  BY <1>1 DEF vars, StoreStep, storeVars, IInv, StoreInv, ThreadsGood, LocksOK, OthersOK
<1> QED BY <1>1, EveryActionIsGood

THEOREM Invariance == Spec => []IInv
<1>1. Init => IInv
  BY InitIsGood
<1>2. IInv /\ [Next]_vars => IInv'
  BY StepIsGood
<1> QED BY <1>1, <1>2, PTL DEF Spec

\* TypeOK: no thread ever holds or writes an object outside the workflow's
\* states, and no more nodes are approved than there are.
THEOREM TypeCorrect == Spec => []TypeOK
<1>1. IInv => TypeOK
  BY IInvIsTyped
<1> QED BY <1>1, Invariance, PTL

\* ImplementsTaskBoard: every interleaving of requests, passes, failures and
\* restarts leaves readers of the task list with a saved state of each group
\* that only moves forward, and brings no deleted group back.
THEOREM Refinement == Spec => ImplementsTaskBoard
<1>1. Init => Board!BoardInit
  <2> SUFFICES ASSUME Init
               PROVE  Board!BoardInit
    OBVIOUS
  <2>1. IInv /\ summaries = group_json /\ tombstones = {}
    BY InitIsGood DEF Init
  <2>2. OnDisk \subseteq Board!Card
    BY DEF OnDisk, Live, SoundValue, Missing, Board!Card
  <2>3. \A g \in Group : group_json[g].version > 0
    <3>1. \A g \in Group : group_json[g] \in Live
      BY <2>1, OnDiskFields DEF IInv, StoreInv
    <3> TAKE g \in Group
    <3>2. group_json[g].version \in Nat \ {0}
      BY <3>1, LiveFields
    <3> QED BY <3>2
  <2>4. group_json \in [Group -> Board!Card]
    BY <2>1, <2>2 DEF IInv, StoreInv
  <2> QED BY <2>1, <2>3, <2>4 DEF Board!BoardInit
<1>2. IInv /\ [Next]_vars => [Board!BoardNext]_(Board!boardVars)
  BY StepIsGood, StoreStepIsBoardStep DEF IInv
<1> QED BY <1>1, <1>2, Invariance, PTL DEF Spec, ImplementsTaskBoard, Board!BoardSpec
===============================================================================
