------------------------- MODULE TaskGroupsSafetyProofs -------------------------
(***************************************************************************)
(* What the threads of the API may do to each other's groups, for any      *)
(* number of groups, approval nodes, requests and faults: no save undoes   *)
(* another one, a claim is honoured, an unmarked group is shown as it is,  *)
(* a successor comes first, and a finished cleanup is complete.            *)
(***************************************************************************)
EXTENDS TaskGroupsProofs

-------------------------------------------------------------------------------
(* The strengthening of IInv.                                               *)

\* What a later value keeps of an earlier one, see NoProgressLost.
Advances(old, new) ==
  /\ old.approvals <= new.approvals
  /\ WorkflowRank[old.workflow] <= WorkflowRank[new.workflow]
  /\ old.archive = "succeeded" => new.archive = "succeeded"
  /\ old.settled => new.settled
  /\ old.replaced # NoGroup =>
       /\ new.replaced = old.replaced
       /\ new.pending_delete => old.pending_delete

\* Nothing is left of p but its tombstone, which StoreInv promises.
Gone(p, files, arts) == files[p] = Missing /\ p \notin arts

\* A draft has made no progress yet, only an archived group has an archive, and
\* a cleanup that is not pending any more is over.
WellKept(v, files, arts) ==
  /\ v.workflow = "draft" => v.approvals = 0 /\ v.replaced = NoGroup
  /\ v.workflow = "archived" <=> v.archive = "succeeded"
  /\ v.replaced # NoGroup /\ ~v.pending_delete => Gone(v.replaced, files, arts)

\* As long as the file exists, what was read of it is not ahead of it, and is
\* the file when the versions agree.
Tracks(rec, file) ==
  file # Missing =>
    /\ rec.version <= file.version
    /\ rec.version = file.version => rec = file

\* A record that may still become the summary of g shows what is on disk, unless
\* the mark tells that there will be another publication.
Abreast(g, rec, files, sums, gone) ==
  /\ g \notin gone
  /\ files[g] # Missing
  /\ ~files[g].value.publication_pending
  /\ sums[g].version <= rec.version
  => Visible(rec) = Visible(files[g])

\* Where the object in hand is the file as it was read or saved.
ExactPc == {"inspect", "publish", "upsert", "clear", "retain", "cleanup", "lock"}

\* The object in hand, at the version on disk: a save of it loses no progress,
\* takes no claim but the own one, and a release changes nothing but the claim.
Handled(s, file) ==
  /\ Advances(file.value, s.mem.value)
  /\ \/ s.mem.value.claim = file.value.claim
     \/ s.pc \in {"save", "persist"} /\ file.value.claim = s.token
  /\ s.pc \in ExactPc => s.mem = file
  /\ s.pc = "persist" =>
       /\ s.mem.value.publication_pending = file.value.publication_pending
       /\ Visible(s.mem) = Visible(file)

\* The records of g that thread state s may publish, now or later in its pass.
KnownOf(s, g) ==
  ({s.snap[g]} \ {Missing}) \cup (IF s.pc = "upsert" /\ s.group = g THEN {s.read} ELSE {})

DelPc == {"delSummary", "delJobs", "delGroup"}
Cleaning(s) == s.pc \in DelPc /\ s.task # "submit"

\* The object in hand of a thread at work.
MemSafe(s, files, arts) ==
  LET file == files[s.group] IN
  /\ WellKept(s.mem.value, files, arts)
  /\ file # Missing => s.mem.version <= file.version
  /\ s.mem.version = file.version => Handled(s, file)

\* The publication under way.
PublicationSafe(s, files, sums, gone) ==
  LET file == files[s.group] IN
  /\ s.pc = "upsert" /\ s.task # "backfill" /\ file # Missing
       => s.mem.version <= s.read.version
  /\ s.pc = "clear" /\ s.group \notin gone /\ s.mem.version = file.version
       => sums[s.group].version = file.version

\* The deletion under way: a cleanup deletes what the group on disk replaces.
DeletionSafe(s, files, arts) ==
  LET p == s.mem.value.replaced
      file == files[s.group]
  IN
  /\ s.victim # NoGroup => s.pc \in DelPc
  /\ Cleaning(s) => s.victim = p
  /\ Cleaning(s) \/ s.pc \in {"lock", "receipt", "completed"} =>
       /\ p \in Group
       /\ file # Missing => file.value.replaced = p
  /\ s.pc = "delGroup" => s.victim \notin arts
  /\ s.pc \in {"receipt", "completed"} => Gone(p, files, arts)

\* What is left of a snapshot, and what is about to be published.
RecordsSafe(s, files, sums, gone, arts) ==
  \A g \in Group :
    /\ s.snap[g] # Missing =>
         /\ WellKept(s.snap[g].value, files, arts)
         /\ Tracks(s.snap[g], files[g])
    /\ \A rec \in KnownOf(s, g) : Abreast(g, rec, files, sums, gone)

ThreadSafe(s, files, sums, gone, arts) ==
  /\ s.pc \notin RestPc => MemSafe(s, files, arts)
  /\ s.pc = "inspect" => s.mem.value.workflow = "draft"
  /\ s.pc = "copy" => s.mem.value.archive # "succeeded"
  /\ PublicationSafe(s, files, sums, gone)
  /\ DeletionSafe(s, files, arts)
  /\ RecordsSafe(s, files, sums, gone, arts)

ThreadsSafe ==
  \A t \in Thread : ThreadSafe(thread[t], group_json, summaries, tombstones, artifacts)

\* The files and the summaries.
DiskSafe ==
  \A g \in Group :
    /\ Exists(g) => WellKept(Saved(g), group_json, artifacts)
    /\ Abreast(g, summaries[g], group_json, summaries, tombstones)
    /\ g \in receipts => Gone(g, group_json, artifacts)

Done(v) == v.workflow = "archived" /\ v.settled

\* g is archived and settled, and stays so in the list whatever is published.
Lasting(g, files, sums, gone, threads) ==
  g \notin gone =>
    /\ Done(files[g].value)
    /\ Done(sums[g].value)
    /\ \A u \in Thread : \A rec \in KnownOf(threads[u], g) :
         sums[g].version <= rec.version => Done(rec.value)

CleanersLast ==
  \A t \in Thread :
    Cleaning(thread[t])
      => Lasting(thread[t].group, group_json, summaries, tombstones, thread)

SInv == IInv /\ DiskSafe /\ ThreadsSafe /\ CleanersLast

-------------------------------------------------------------------------------
(* Values: what the edits of the writers keep.                              *)

LEMMA RankOf ==
  ASSUME NEW w \in WorkflowStatus
  PROVE  /\ WorkflowRank[w] \in 0 .. 3
         /\ WorkflowRank[w] = 3 <=> w = "archived"
         /\ WorkflowRank[w] = 0 <=> w = "draft"
         /\ w = "in_review" => WorkflowRank[w] = 1
         /\ w \in {"three_review_approved", "archive_failed"} => WorkflowRank[w] = 2
BY DEF WorkflowStatus, WorkflowRank

LEMMA ValueFields ==
  ASSUME NEW v \in SoundValue
  PROVE  /\ v \in GroupValue
         /\ v.approvals \in 0 .. Nodes
         /\ v.approvals \in Nat
         /\ v.workflow \in WorkflowStatus
         /\ WorkflowRank[v.workflow] \in 0 .. 3
         /\ v.settled \in BOOLEAN
         /\ v.pending_delete \in BOOLEAN
         /\ v.publication_pending \in BOOLEAN
         /\ v.claim \in Nat
         /\ v.replaced \in Group \cup {NoGroup}
         /\ Nodes \in Nat
BY RankOf, TaskAssumption DEF SoundValue, GroupValue

LEMMA AdvancesRefl ==
  ASSUME NEW v \in SoundValue
  PROVE  Advances(v, v)
BY ValueFields DEF Advances

LEMMA AdvancesTrans ==
  ASSUME NEW u \in SoundValue, NEW v \in SoundValue, NEW w \in SoundValue,
         Advances(u, v), Advances(v, w)
  PROVE  Advances(u, w)
<1>1. /\ u.approvals \in Nat /\ v.approvals \in Nat /\ w.approvals \in Nat
      /\ WorkflowRank[u.workflow] \in 0 .. 3
      /\ WorkflowRank[v.workflow] \in 0 .. 3
      /\ WorkflowRank[w.workflow] \in 0 .. 3
  BY ValueFields
<1> QED BY <1>1 DEF Advances

\* An archived and settled group stays so.
LEMMA DoneStays ==
  ASSUME NEW u \in SoundValue, NEW v \in SoundValue, Advances(u, v), Done(u)
  PROVE  Done(v)
<1>1. WorkflowRank[u.workflow] = 3 /\ WorkflowRank[v.workflow] \in 0 .. 3
  BY ValueFields, RankOf DEF Done
<1>2. WorkflowRank[v.workflow] = 3
  BY <1>1 DEF Advances
<1> QED BY <1>2, ValueFields, RankOf DEF Done, Advances

\* An edit that touches none of the fields that matter.
LEMMA SameFields ==
  ASSUME NEW v \in SoundValue, NEW w \in SoundValue, NEW files, NEW arts,
         w.workflow = v.workflow, w.approvals = v.approvals, w.archive = v.archive,
         w.replaced = v.replaced, v.settled => w.settled,
         w.pending_delete = v.pending_delete
  PROVE  /\ Advances(v, w)
         /\ WellKept(v, files, arts) => WellKept(w, files, arts)
BY ValueFields DEF Advances, WellKept

LEMMA EditsKeep ==
  ASSUME NEW v \in SoundValue, NEW files, NEW arts, WellKept(v, files, arts)
  PROVE  /\ WellKept(Marked(v), files, arts) /\ Advances(v, Marked(v))
         /\ WellKept(Unmarked(v), files, arts) /\ Advances(v, Unmarked(v))
         /\ WellKept(Settled(v), files, arts) /\ Advances(v, Settled(v))
         /\ \A n \in Nat : /\ WellKept([v EXCEPT !.claim = n], files, arts)
                           /\ Advances(v, [v EXCEPT !.claim = n])
<1> v \in GroupValue
  BY DEF SoundValue
<1>1. WellKept(Marked(v), files, arts) /\ Advances(v, Marked(v))
  <2>1. Marked(v) \in SoundValue
    BY EditsAreSound
  <2>2. /\ Marked(v).workflow = v.workflow /\ Marked(v).approvals = v.approvals
        /\ Marked(v).archive = v.archive /\ Marked(v).replaced = v.replaced
        /\ Marked(v).settled = v.settled /\ Marked(v).pending_delete = v.pending_delete
    BY DEF Marked, GroupValue
  <2> QED BY <2>1, <2>2, SameFields
<1>2. WellKept(Unmarked(v), files, arts) /\ Advances(v, Unmarked(v))
  <2>1. Unmarked(v) \in SoundValue
    BY EditsAreSound
  <2>2. /\ Unmarked(v).workflow = v.workflow /\ Unmarked(v).approvals = v.approvals
        /\ Unmarked(v).archive = v.archive /\ Unmarked(v).replaced = v.replaced
        /\ Unmarked(v).settled = v.settled /\ Unmarked(v).pending_delete = v.pending_delete
    BY DEF Unmarked, GroupValue
  <2> QED BY <2>1, <2>2, SameFields
<1>3. WellKept(Settled(v), files, arts) /\ Advances(v, Settled(v))
  <2>1. Settled(v) \in SoundValue
    BY EditsAreSound
  <2>2. /\ Settled(v).workflow = v.workflow /\ Settled(v).approvals = v.approvals
        /\ Settled(v).archive = v.archive /\ Settled(v).replaced = v.replaced
        /\ Settled(v).settled /\ Settled(v).pending_delete = v.pending_delete
    BY DEF Settled, GroupValue
  <2> QED BY <2>1, <2>2, SameFields
<1>4. ASSUME NEW n \in Nat
      PROVE  /\ WellKept([v EXCEPT !.claim = n], files, arts)
             /\ Advances(v, [v EXCEPT !.claim = n])
  <2> DEFINE w == [v EXCEPT !.claim = n]
  <2>1. w \in SoundValue
    BY EditsAreSound
  <2>2. /\ w.workflow = v.workflow /\ w.approvals = v.approvals
        /\ w.archive = v.archive /\ w.replaced = v.replaced
        /\ w.settled = v.settled /\ w.pending_delete = v.pending_delete
    BY DEF GroupValue
  <2> HIDE DEF w
  <2>3. WellKept(w, files, arts) /\ Advances(v, w)
    BY <2>1, <2>2, SameFields
  <2> QED BY <2>3 DEF w
<1> QED BY <1>1, <1>2, <1>3, <1>4

\* The archive fails, or is copied: only of a group that is not archived yet.
LEMMA ArchivingKeeps ==
  ASSUME NEW v \in SoundValue, NEW files, NEW arts, WellKept(v, files, arts),
         v.archive # "succeeded",
         NEW w \in {ArchiveFailed(v), ArchiveSucceeded(v),
                    [ArchiveSucceeded(v) EXCEPT !.status = "FAILED"]}
  PROVE  w \in SoundValue /\ WellKept(w, files, arts) /\ Advances(v, w)
<1>0. v \in GroupValue /\ w \in SoundValue
  <2>1. ArchiveFailed(v) \in SoundValue /\ ArchiveSucceeded(v) \in SoundValue
    BY EditsAreSound
  <2>2. [ArchiveSucceeded(v) EXCEPT !.status = "FAILED"] \in SoundValue
    BY <2>1, EditsAreSound
  <2> QED BY <2>1, <2>2 DEF SoundValue
<1>1. /\ w.approvals = v.approvals /\ w.replaced = v.replaced
      /\ w.settled = v.settled /\ w.pending_delete = v.pending_delete
      /\ \/ w.workflow = "archive_failed" /\ w.archive = "failed"
         \/ w.workflow = "archived" /\ w.archive = "succeeded"
  BY <1>0 DEF ArchiveFailed, ArchiveSucceeded, GroupValue
<1>2. WorkflowRank[v.workflow] \in 0 .. 2
  BY RankOf, ValueFields DEF WellKept
<1>3. WorkflowRank[w.workflow] \in {2, 3}
  BY <1>1, RankOf DEF WorkflowStatus
<1>4. WorkflowRank[v.workflow] <= WorkflowRank[w.workflow]
  BY <1>2, <1>3
<1> QED BY <1>0, <1>1, <1>4, ValueFields DEF WellKept, Advances

\* A finished cleanup is not pending any more.
LEMMA FinishingKeeps ==
  ASSUME NEW v \in SoundValue, NEW files, NEW arts, WellKept(v, files, arts),
         v.replaced # NoGroup => Gone(v.replaced, files, arts)
  PROVE  LET w == [v EXCEPT !.pending_delete = FALSE] IN
         w \in SoundValue /\ WellKept(w, files, arts) /\ Advances(v, w)
<1> DEFINE w == [v EXCEPT !.pending_delete = FALSE]
<1>0. v \in GroupValue /\ w \in SoundValue
  BY EditsAreSound DEF SoundValue
<1>1. /\ w.workflow = v.workflow /\ w.approvals = v.approvals /\ w.archive = v.archive
      /\ w.replaced = v.replaced /\ w.settled = v.settled /\ w.pending_delete = FALSE
  BY <1>0 DEF GroupValue
<1> HIDE DEF w
<1>2. WellKept(w, files, arts) /\ Advances(v, w)
  BY <1>1, ValueFields DEF WellKept, Advances
<1> QED BY <1>0, <1>2 DEF w

\* A draft is submitted, a group in review is approved.
LEMMA StartKeeps ==
  ASSUME NEW v \in SoundValue, NEW files, NEW arts, WellKept(v, files, arts),
         v.workflow = "draft", NEW p \in Group \cup {NoGroup}
  PROVE  WellKept(Started(v, p), files, arts) /\ Advances(v, Started(v, p))
<1>0. v \in GroupValue /\ Started(v, p) \in SoundValue
  BY StartIsSound DEF SoundValue
<1>1. /\ Started(v, p).workflow = "in_review" /\ Started(v, p).approvals = 0
      /\ Started(v, p).archive = v.archive /\ Started(v, p).settled = v.settled
      /\ Started(v, p).replaced = p /\ Started(v, p).pending_delete = (p # NoGroup)
  BY <1>0 DEF Started, GroupValue
<1>2. WorkflowRank[v.workflow] = 0 /\ WorkflowRank[Started(v, p).workflow] = 1
  BY <1>1, RankOf DEF WorkflowStatus
<1>3. WorkflowRank[v.workflow] <= WorkflowRank[Started(v, p).workflow]
  BY <1>2
<1> QED BY <1>0, <1>1, <1>3, ValueFields DEF WellKept, Advances

LEMMA ApprovalKeeps ==
  ASSUME NEW v \in SoundValue, NEW files, NEW arts, WellKept(v, files, arts),
         v.workflow = "in_review",
         NEW w \in SoundValue,
         LET next == [v EXCEPT !.approvals = @ + 1] IN
         w = next \/ w = [next EXCEPT !.workflow = "three_review_approved"]
  PROVE  WellKept(w, files, arts) /\ Advances(v, w)
<1>0. v \in GroupValue /\ v.approvals \in Nat
  BY ValueFields
<1>1. /\ w.approvals = v.approvals + 1 /\ w.archive = v.archive
      /\ w.settled = v.settled /\ w.replaced = v.replaced
      /\ w.pending_delete = v.pending_delete
      /\ w.workflow \in {"in_review", "three_review_approved"}
  BY <1>0 DEF GroupValue
<1>2. WorkflowRank[v.workflow] = 1 /\ WorkflowRank[w.workflow] \in {1, 2}
  BY <1>1, RankOf DEF WorkflowStatus
<1>3. /\ v.approvals <= w.approvals
      /\ WorkflowRank[v.workflow] <= WorkflowRank[w.workflow]
  BY <1>0, <1>1, <1>2
<1> QED BY <1>1, <1>3 DEF WellKept, Advances

-------------------------------------------------------------------------------
(* The world around a thread: what a step may do to the files, summaries,   *)
(* tombstones and artifacts, and why that disturbs no other thread.         *)

\* A file stays, goes, or gets its next version, which loses no progress and
\* drops the mark only when the summary shows the rest of it.
FileStep(g) ==
  \/ group_json'[g] = group_json[g]
  \/ group_json'[g] = Missing
  \/ /\ group_json[g] # Missing
     /\ group_json'[g].version = group_json[g].version + 1
     /\ Advances(group_json[g].value, group_json'[g].value)
     /\ WellKept(group_json'[g].value, group_json', artifacts')
     /\ ~group_json'[g].value.publication_pending /\ g \notin tombstones =>
          /\ Visible(group_json'[g]) = Visible(group_json[g])
          /\ \/ ~group_json[g].value.publication_pending
             \/ summaries[g].version = group_json[g].version

\* A summary stays, goes for ever, or becomes a newer record that some thread had.
SummaryStep(g) ==
  \/ g \in tombstones'
  \/ summaries'[g] = summaries[g]
  \/ /\ summaries[g].version <= summaries'[g].version
     /\ group_json'[g] = group_json[g]
     /\ \E u \in Thread : summaries'[g] \in KnownOf(thread[u], g)

WorldStep ==
  /\ tombstones \subseteq tombstones'
  /\ artifacts' \subseteq artifacts
  /\ \A g \in Group : FileStep(g) /\ SummaryStep(g)
  /\ \A g \in receipts' : Gone(g, group_json', artifacts')

LEMMA StoreTypes ==
  ASSUME StoreInv, NEW g \in Group
  PROVE  /\ group_json[g] \in OnDisk /\ summaries[g] \in OnDisk
         /\ group_json[g].version \in Nat /\ summaries[g].version \in Nat
         /\ group_json[g] = Missing => g \in tombstones /\ group_json[g].version = 0
         /\ group_json[g] # Missing =>
              /\ group_json[g] \in Live
              /\ group_json[g].version > 0
              /\ group_json[g].value \in SoundValue
<1>1. group_json[g] \in OnDisk /\ summaries[g] \in OnDisk
  BY DEF StoreInv
<1>2. group_json[g] # Missing => group_json[g] \in Live
  BY <1>1, OnDiskFields
<1>3. group_json[g] # Missing => group_json[g].version > 0 /\ group_json[g].value \in SoundValue
  <2>1. CASE group_json[g] # Missing
    <3>1. group_json[g].version \in Nat \ {0} /\ group_json[g].value \in SoundValue
      BY <1>2, <2>1, LiveFields
    <3> QED BY <3>1
  <2> QED BY <2>1
<1> QED BY <1>1, <1>2, <1>3, OnDiskFields, LiveIsRecord DEF StoreInv

LEMMA StoreTypesNext ==
  ASSUME StoreInv', NEW g \in Group
  PROVE  /\ group_json'[g] \in OnDisk /\ summaries'[g] \in OnDisk
         /\ group_json'[g].version \in Nat /\ summaries'[g].version \in Nat
         /\ group_json'[g] = Missing => g \in tombstones' /\ group_json'[g].version = 0
         /\ group_json'[g] # Missing =>
              /\ group_json'[g] \in Live
              /\ group_json'[g].version > 0
              /\ group_json'[g].value \in SoundValue
<1>1. group_json'[g] \in OnDisk /\ summaries'[g] \in OnDisk
  BY DEF StoreInv
<1>2. group_json'[g] # Missing => group_json'[g] \in Live
  BY <1>1, OnDiskFields
<1>3. group_json'[g] # Missing => group_json'[g].version > 0 /\ group_json'[g].value \in SoundValue
  <2>1. CASE group_json'[g] # Missing
    <3>1. group_json'[g].version \in Nat \ {0} /\ group_json'[g].value \in SoundValue
      BY <1>2, <2>1, LiveFields
    <3> QED BY <3>1
  <2> QED BY <2>1
<1> QED BY <1>1, <1>2, <1>3, OnDiskFields, LiveIsRecord DEF StoreInv

\* What is gone stays gone.
LEMMA GoneOn ==
  ASSUME WorldStep, NEW p \in Group, Gone(p, group_json, artifacts)
  PROVE  Gone(p, group_json', artifacts')
BY DEF WorldStep, FileStep, Gone

LEMMA WellKeptOn ==
  ASSUME WorldStep, NEW v \in SoundValue, WellKept(v, group_json, artifacts)
  PROVE  WellKept(v, group_json', artifacts')
<1>1. v.replaced # NoGroup => v.replaced \in Group
  BY ValueFields
<1> QED BY <1>1, GoneOn DEF WellKept

\* A file that was read stays behind the file.
LEMMA TracksOn ==
  ASSUME StoreInv, StoreInv', WorldStep, NEW g \in Group, NEW rec \in OnDisk,
         Tracks(rec, group_json[g])
  PROVE  Tracks(rec, group_json'[g])
<1>1. /\ rec.version \in Nat /\ group_json[g].version \in Nat
      /\ FileStep(g)
  BY OnDiskFields, StoreTypes DEF WorldStep
<1> QED BY <1>1 DEF FileStep, Tracks

LEMMA AbreastOn ==
  ASSUME StoreInv, StoreInv', WorldStep, NEW g \in Group, NEW rec \in OnDisk,
         Follows(g, rec, group_json, tombstones),
         Abreast(g, rec, group_json, summaries, tombstones)
  PROVE  Abreast(g, rec, group_json', summaries', tombstones')
<1> SUFFICES ASSUME g \notin tombstones', group_json'[g] # Missing,
                    ~group_json'[g].value.publication_pending,
                    summaries'[g].version <= rec.version
             PROVE  Visible(rec) = Visible(group_json'[g])
  BY DEF Abreast
<1>1. /\ rec.version \in Nat /\ group_json[g].version \in Nat
      /\ summaries[g].version \in Nat /\ summaries'[g].version \in Nat
      /\ g \notin tombstones
  BY OnDiskFields, StoreTypes, StoreTypesNext DEF WorldStep
<1>2. summaries[g].version <= rec.version
  BY <1>1 DEF WorldStep, SummaryStep
<1>3. CASE group_json'[g] = group_json[g]
  BY <1>1, <1>2, <1>3 DEF Abreast
<1>4. CASE group_json'[g] # group_json[g]
  <2>1. /\ group_json[g] # Missing
        /\ Visible(group_json'[g]) = Visible(group_json[g])
        /\ \/ ~group_json[g].value.publication_pending
           \/ summaries[g].version = group_json[g].version
    BY <1>1, <1>4 DEF WorldStep, FileStep
  <2>2. CASE ~group_json[g].value.publication_pending
    BY <1>1, <1>2, <2>1, <2>2 DEF Abreast
  <2>3. CASE summaries[g].version = group_json[g].version
    <3>1. rec = group_json[g]
      BY <1>1, <1>2, <2>3 DEF Follows
    <3> QED BY <2>1, <3>1
  <2> QED BY <2>1, <2>2, <2>3
<1> QED BY <1>3, <1>4

\* What a thread knows are records.
LEMMA KnownIsRecord ==
  ASSUME NEW s, NEW files, NEW gone, ThreadGood(s, files, gone),
         NEW g \in Group, NEW rec \in KnownOf(s, g)
  PROVE  rec \in OnDisk /\ Follows(g, rec, files, gone)
BY DEF ThreadGood, KnownOf, SoundState

\* A step of another thread does not disturb this one.
LEMMA ThreadSafeOn ==
  ASSUME StoreInv, StoreInv', WorldStep, NEW s,
         ThreadGood(s, group_json, tombstones),
         ThreadSafe(s, group_json, summaries, tombstones, artifacts)
  PROVE  ThreadSafe(s, group_json', summaries', tombstones', artifacts')
<1>1. s \in SoundState
  BY DEF ThreadGood
<1>2. ASSUME s.pc \notin RestPc
      PROVE  /\ s.group \in Group /\ s.mem \in Live /\ s.mem.value \in SoundValue
             /\ s.mem.version \in Nat /\ s.mem.version > 0
             /\ FileStep(s.group)
             /\ group_json[s.group].version \in Nat
  <2>1. s.group \in Group /\ s.mem \in Live
    BY <1>2 DEF ThreadGood
  <2>2. s.mem.version \in Nat \ {0} /\ s.mem.value \in SoundValue
    BY <2>1, LiveFields
  <2>3. s.mem.version \in Nat /\ s.mem.version > 0
    BY <2>2
  <2> QED BY <2>1, <2>2, <2>3, StoreTypes DEF WorldStep
\* A version in hand is the version on disk only if the file did not change.
<1>3. ASSUME s.pc \notin RestPc, s.mem.version = group_json'[s.group].version
      PROVE  group_json'[s.group] = group_json[s.group]
  <2>1. group_json'[s.group] # Missing
    BY <1>2, <1>3, LiveIsRecord
  <2>2. group_json[s.group] # Missing => s.mem.version <= group_json[s.group].version
    BY <1>3 DEF ThreadSafe, MemSafe
  <2> QED BY <1>2, <1>3, <2>1, <2>2 DEF FileStep
<1>4. s.pc \notin RestPc => MemSafe(s, group_json', artifacts')
  <2> SUFFICES ASSUME s.pc \notin RestPc
               PROVE  MemSafe(s, group_json', artifacts')
    OBVIOUS
  <2>1. WellKept(s.mem.value, group_json', artifacts')
    BY <1>2, WellKeptOn DEF ThreadSafe, MemSafe
  <2>2. group_json'[s.group] # Missing => s.mem.version <= group_json'[s.group].version
    BY <1>2 DEF FileStep, ThreadSafe, MemSafe
  <2>3. s.mem.version = group_json'[s.group].version => Handled(s, group_json'[s.group])
    BY <1>3 DEF ThreadSafe, MemSafe
  <2> QED BY <2>1, <2>2, <2>3 DEF MemSafe
<1>5. PublicationSafe(s, group_json', summaries', tombstones')
  <2>1. ASSUME s.pc = "upsert", s.task # "backfill", group_json'[s.group] # Missing
        PROVE  s.mem.version <= s.read.version
    <3>1. group_json[s.group] # Missing
      BY <1>2, <2>1 DEF FileStep, RestPc
    <3> QED BY <2>1, <3>1 DEF ThreadSafe, PublicationSafe
  <2>2. ASSUME s.pc = "clear", s.group \notin tombstones',
               s.mem.version = group_json'[s.group].version
        PROVE  summaries'[s.group].version = group_json'[s.group].version
    <3>1. s.group \in Group /\ group_json'[s.group] = group_json[s.group]
      BY <1>2, <1>3, <2>2 DEF RestPc
    <3>2. summaries[s.group].version = group_json[s.group].version
      BY <2>2, <3>1 DEF ThreadSafe, PublicationSafe, WorldStep
    <3>3. summaries'[s.group].version <= group_json'[s.group].version
      BY <2>2, <3>1 DEF StoreInv, Follows
    <3>4. summaries[s.group].version <= summaries'[s.group].version
      BY <2>2, <3>1, StoreTypes DEF WorldStep, SummaryStep
    <3> QED BY <3>1, <3>2, <3>3, <3>4, StoreTypes, StoreTypesNext
  <2> QED BY <2>1, <2>2 DEF PublicationSafe
<1>6. DeletionSafe(s, group_json', artifacts')
  <2>1. s.pc = "delGroup" => s.victim \notin artifacts'
    BY DEF ThreadSafe, DeletionSafe, WorldStep
  <2>2. ASSUME Cleaning(s) \/ s.pc \in {"lock", "receipt", "completed"}
        PROVE  /\ s.mem.value.replaced \in Group
               /\ group_json'[s.group] # Missing
                    => group_json'[s.group].value.replaced = s.mem.value.replaced
    <3>1. /\ s.mem.value.replaced \in Group
          /\ group_json[s.group] # Missing
               => group_json[s.group].value.replaced = s.mem.value.replaced
      BY <2>2 DEF ThreadSafe, DeletionSafe
    <3>2. s.mem.value.replaced # NoGroup
      BY <3>1, TaskAssumption, GroupAssumption DEF NoGroup
    <3> QED BY <1>2, <2>2, <3>1, <3>2 DEF FileStep, Advances, Cleaning, DelPc, RestPc
  <2>3. ASSUME s.pc \in {"receipt", "completed"}
        PROVE  Gone(s.mem.value.replaced, group_json', artifacts')
    BY <2>2, <2>3, GoneOn DEF ThreadSafe, DeletionSafe
  <2> QED BY <2>1, <2>2, <2>3 DEF ThreadSafe, DeletionSafe
<1>7. RecordsSafe(s, group_json', summaries', tombstones', artifacts')
  <2> SUFFICES ASSUME NEW g \in Group
               PROVE  /\ s.snap[g] # Missing =>
                           /\ WellKept(s.snap[g].value, group_json', artifacts')
                           /\ Tracks(s.snap[g], group_json'[g])
                      /\ \A rec \in KnownOf(s, g) :
                           Abreast(g, rec, group_json', summaries', tombstones')
    BY DEF RecordsSafe
  <2>1. ASSUME NEW rec \in KnownOf(s, g)
        PROVE  Abreast(g, rec, group_json', summaries', tombstones')
    BY <2>1, KnownIsRecord, AbreastOn DEF ThreadSafe, RecordsSafe
  <2>2. ASSUME s.snap[g] # Missing
        PROVE  /\ WellKept(s.snap[g].value, group_json', artifacts')
               /\ Tracks(s.snap[g], group_json'[g])
    <3>1. s.snap[g] \in OnDisk /\ s.snap[g] \in Live /\ s.snap[g].value \in SoundValue
      BY <1>1, <2>2, OnDiskFields, LiveFields DEF SoundState
    <3> QED BY <2>2, <3>1, WellKeptOn, TracksOn DEF ThreadSafe, RecordsSafe
  <2> QED BY <2>1, <2>2
<1> QED BY <1>4, <1>5, <1>6, <1>7 DEF ThreadSafe

LEMMA DiskSafeOn ==
  ASSUME SInv, StoreInv', WorldStep
  PROVE  DiskSafe'
<1> SUFFICES ASSUME NEW g \in Group
             PROVE  /\ group_json'[g].version > 0
                         => WellKept(group_json'[g].value, group_json', artifacts')
                    /\ Abreast(g, summaries'[g], group_json', summaries', tombstones')
                    /\ g \in receipts' => Gone(g, group_json', artifacts')
  BY DEF DiskSafe, Exists, Saved
<1>0. StoreInv /\ FileStep(g) /\ SummaryStep(g)
  BY DEF SInv, IInv, WorldStep
<1>1. ASSUME group_json'[g].version > 0
      PROVE  WellKept(group_json'[g].value, group_json', artifacts')
  <2>1. CASE group_json'[g] = group_json[g]
    <3>1. group_json[g] # Missing
      BY <1>1, <2>1, LiveIsRecord
    <3>2. WellKept(group_json[g].value, group_json, artifacts)
      BY <1>0, <3>1, StoreTypes DEF SInv, DiskSafe, Exists, Saved
    <3>3. group_json[g].value \in SoundValue
      BY <1>0, <3>1, StoreTypes
    <3> QED BY <2>1, <3>2, <3>3, WellKeptOn
  <2>2. group_json'[g] # Missing
    BY <1>1, LiveIsRecord
  <2> QED BY <1>0, <2>1, <2>2 DEF FileStep
<1>2. Abreast(g, summaries'[g], group_json', summaries', tombstones')
  <2>1. CASE g \in tombstones'
    BY <2>1 DEF Abreast
  <2>2. CASE g \notin tombstones' /\ summaries'[g] = summaries[g]
    <3>1. /\ Abreast(g, summaries[g], group_json, summaries, tombstones)
          /\ Follows(g, summaries[g], group_json, tombstones)
      BY <1>0 DEF SInv, DiskSafe, StoreInv
    <3> QED BY <1>0, <2>2, <3>1, StoreTypes, AbreastOn
  <2>3. ASSUME NEW u \in Thread, summaries'[g] \in KnownOf(thread[u], g)
        PROVE  Abreast(g, summaries'[g], group_json', summaries', tombstones')
    <3>1. /\ ThreadGood(thread[u], group_json, tombstones)
          /\ RecordsSafe(thread[u], group_json, summaries, tombstones, artifacts)
      BY DEF SInv, IInv, ThreadsGood, ThreadsSafe, ThreadSafe
    <3>2. summaries'[g] \in OnDisk /\ Follows(g, summaries'[g], group_json, tombstones)
      BY <2>3, <3>1, KnownIsRecord
    <3>3. Abreast(g, summaries'[g], group_json, summaries, tombstones)
      BY <2>3, <3>1 DEF RecordsSafe
    <3> QED BY <1>0, <3>2, <3>3, AbreastOn
  <2> QED BY <1>0, <2>1, <2>2, <2>3 DEF SummaryStep
<1> QED BY <1>1, <1>2 DEF WorldStep

\* No thread learns a record of a group but the one on disk.
NothingNew ==
  \A u \in Thread, g \in Group :
    KnownOf(thread'[u], g) \subseteq KnownOf(thread[u], g) \cup {group_json[g]}

LEMMA LastingOn ==
  ASSUME SInv, StoreInv', WorldStep, NothingNew, NEW g \in Group,
         Lasting(g, group_json, summaries, tombstones, thread)
  PROVE  Lasting(g, group_json', summaries', tombstones', thread')
<1> SUFFICES ASSUME g \notin tombstones'
             PROVE  /\ Done(group_json'[g].value)
                    /\ Done(summaries'[g].value)
                    /\ \A u \in Thread : \A rec \in KnownOf(thread'[u], g) :
                         summaries'[g].version <= rec.version => Done(rec.value)
  BY DEF Lasting
<1>0. StoreInv /\ FileStep(g) /\ SummaryStep(g) /\ g \notin tombstones
  BY DEF SInv, IInv, WorldStep
<1>1. /\ Done(group_json[g].value)
      /\ Done(summaries[g].value)
      /\ \A u \in Thread : \A rec \in KnownOf(thread[u], g) :
           summaries[g].version <= rec.version => Done(rec.value)
  BY <1>0 DEF Lasting
<1>2. group_json[g] # Missing /\ group_json'[g] # Missing
  BY <1>0, StoreTypes, StoreTypesNext
<1>3. Done(group_json'[g].value)
  <2>1. CASE group_json'[g] = group_json[g]
    BY <1>1, <2>1
  <2>2. CASE Advances(group_json[g].value, group_json'[g].value)
    BY <1>0, <1>1, <1>2, <2>2, StoreTypes, StoreTypesNext, DoneStays
  <2> QED BY <1>0, <1>2, <2>1, <2>2 DEF FileStep
<1>4. Done(summaries'[g].value) /\ summaries[g].version <= summaries'[g].version
  BY <1>0, <1>1, StoreTypes DEF SummaryStep
<1>5. ASSUME NEW u \in Thread, NEW rec \in KnownOf(thread'[u], g),
             summaries'[g].version <= rec.version
      PROVE  Done(rec.value)
  <2>1. CASE rec = group_json[g]
    BY <1>1, <2>1
  <2>2. CASE rec \in KnownOf(thread[u], g)
    <3>1. rec \in OnDisk
      BY <2>2, KnownIsRecord DEF SInv, IInv, ThreadsGood
    <3>2. rec.version \in Nat
      BY <3>1, OnDiskFields
    <3>3. summaries[g].version <= rec.version
      BY <1>0, <1>4, <1>5, <3>2, StoreTypes, StoreTypesNext
    <3> QED BY <1>1, <2>2, <3>3
  <2> QED BY <2>1, <2>2 DEF NothingNew
<1> QED BY <1>3, <1>4, <1>5

\* As long as a cleanup claim has not lapsed, only its owner removes it.
ClaimKept ==
  \A g \in Group :
    LET claim == Saved(g).claim IN
    /\ Exists(g) /\ ActiveClaim(g, Saved(g))
    /\ group_json'[g] # Missing
    /\ group_json'[g].value.claim # claim
    => \E t \in Thread : /\ Subject(t) = g
                         /\ thread[t].token = claim
                         /\ thread'[t] # thread[t]

\* A thread that will delete a predecessor has a successor that lasts.
NewCleaners ==
  \A u \in Thread :
    Cleaning(thread'[u])
      => Lasting(thread'[u].group, group_json, summaries, tombstones, thread)

\* What has to be shown of every step.
SafeStep ==
  /\ WorldStep
  /\ NothingNew
  /\ NewCleaners
  /\ ClaimKept
  /\ ThreadsSafe'

LEMMA SafeStepKeeps ==
  ASSUME SInv, IInv', SafeStep
  PROVE  SInv'
<1>1. StoreInv'
  BY DEF IInv
<1>2. DiskSafe'
  BY <1>1, DiskSafeOn DEF SafeStep
<1>3. CleanersLast'
  <2> SUFFICES ASSUME NEW t \in Thread, Cleaning(thread'[t])
               PROVE  Lasting(thread'[t].group, group_json', summaries', tombstones', thread')
    BY DEF CleanersLast
  <2>1. thread'[t].group \in Group
    BY DEF IInv, ThreadsGood, ThreadGood, Cleaning, DelPc, RestPc
  <2>2. Lasting(thread'[t].group, group_json, summaries, tombstones, thread)
    BY DEF SafeStep, NewCleaners
  <2> QED BY <1>1, <2>1, <2>2, LastingOn DEF SafeStep
<1> QED BY <1>2, <1>3 DEF SInv, SafeStep

\* What has to be shown of a step of one thread.
ThreadGoes(t) ==
  /\ OnlyThread(t)
  /\ ThreadSafe(thread'[t], group_json', summaries', tombstones', artifacts')
  /\ \A g \in Group :
       KnownOf(thread'[t], g) \subseteq KnownOf(thread[t], g) \cup {group_json[g]}
  /\ Cleaning(thread'[t])
       => Lasting(thread'[t].group, group_json, summaries, tombstones, thread)

ThreadStepSafe(t) == WorldStep /\ ClaimKept /\ ThreadGoes(t)

LEMMA ThreadStepIsSafe ==
  ASSUME SInv, IInv', NEW t \in Thread, ThreadStepSafe(t)
  PROVE  SafeStep
<1>1. \A u \in Thread : u # t => thread'[u] = thread[u]
  BY DEF ThreadStepSafe, ThreadGoes, OnlyThread, SInv, IInv, ThreadsGood
<1>2. ThreadsSafe'
  <2> SUFFICES ASSUME NEW u \in Thread, u # t
               PROVE  ThreadSafe(thread[u], group_json', summaries', tombstones', artifacts')
    BY <1>1 DEF ThreadsSafe, ThreadStepSafe, ThreadGoes
  <2> QED BY ThreadSafeOn DEF SInv, IInv, ThreadsGood, ThreadsSafe, ThreadStepSafe
<1>3. NothingNew
  BY <1>1 DEF NothingNew, ThreadStepSafe, ThreadGoes
<1>4. NewCleaners
  BY <1>1 DEF NewCleaners, ThreadStepSafe, ThreadGoes, SInv, CleanersLast
<1> QED BY <1>2, <1>3, <1>4 DEF SafeStep, ThreadStepSafe

-------------------------------------------------------------------------------
(* The kinds of world steps.                                                *)

\* The files and the summaries stay; job directories and receipts may not.
LEMMA QuietWorld ==
  ASSUME SInv, UNCHANGED storeVars, artifacts' \subseteq artifacts,
         \A g \in receipts' : Gone(g, group_json, artifacts)
  PROVE  WorldStep /\ ClaimKept
<1>1. group_json' = group_json /\ summaries' = summaries /\ tombstones' = tombstones
  BY DEF storeVars
<1>2. \A g \in receipts' : Gone(g, group_json', artifacts')
  BY <1>1 DEF Gone
<1> QED BY <1>1, <1>2 DEF WorldStep, FileStep, SummaryStep, ClaimKept, Saved

LEMMA StillWorld ==
  ASSUME SInv, UNCHANGED storeVars, UNCHANGED <<artifacts, receipts>>
  PROVE  WorldStep /\ ClaimKept
<1>1. \A g \in receipts' : Gone(g, group_json, artifacts)
  BY DEF SInv, IInv, OthersOK, DiskSafe
<1> QED BY <1>1, QuietWorld

\* What a thread at work has in hand.
LEMMA InHand ==
  ASSUME SInv, NEW t \in Thread, thread[t].pc \notin RestPc
  PROVE  /\ thread[t] \in SoundState /\ thread[t].group = Subject(t)
         /\ thread[t].mem = Mem(t)
         /\ Subject(t) \in Group
         /\ Mem(t) \in Live /\ Mem(t).value \in SoundValue /\ Mem(t).value \in GroupValue
         /\ Mem(t).version \in Nat /\ Mem(t).version > 0
         /\ ThreadGood(thread[t], group_json, tombstones)
         /\ ThreadSafe(thread[t], group_json, summaries, tombstones, artifacts)
         /\ MemSafe(thread[t], group_json, artifacts)
         /\ WellKept(Mem(t).value, group_json, artifacts)
<1>1. Mem(t) \in Live
  BY AtWork DEF SInv
<1>2. Mem(t).version \in Nat \ {0}
  BY <1>1, LiveFields
<1>3. ThreadSafe(thread[t], group_json, summaries, tombstones, artifacts)
  BY DEF SInv, ThreadsSafe
<1>4. MemSafe(thread[t], group_json, artifacts)
  BY <1>3 DEF ThreadSafe
<1>5. Mem(t).version > 0
  BY <1>2
<1> QED BY <1>1, <1>2, <1>3, <1>4, <1>5, AtWork, ValueFields
       DEF SInv, IInv, ThreadsGood, Subject, Mem, MemSafe

\* The object in hand is current: there is a file, which it is an edit of.
LEMMA CurrentInHand ==
  ASSUME SInv, NEW t \in Thread, thread[t].pc \notin RestPc, Current(Subject(t), Mem(t))
  PROVE  /\ Mem(t).version = group_json[Subject(t)].version
         /\ group_json[Subject(t)] # Missing
         /\ group_json[Subject(t)] \in Live
         /\ Saved(Subject(t)) \in SoundValue
         /\ Exists(Subject(t))
         /\ Handled(thread[t], group_json[Subject(t)])
<1>1. Mem(t).version = group_json[Subject(t)].version
  BY DEF Current
<1>2. group_json[Subject(t)] # Missing
  BY <1>1, InHand, LiveIsRecord
<1> QED BY <1>1, <1>2, InHand, StoreTypes DEF SInv, IInv, MemSafe, Exists, Saved

\* Nothing that is gone comes back by a save.
LEMMA WellKeptSaved ==
  ASSUME StoreInv, NEW g \in Group, NEW rec, NEW v \in SoundValue,
         group_json[g] # Missing, group_json' = [group_json EXCEPT ![g] = rec],
         artifacts' = artifacts, WellKept(v, group_json, artifacts)
  PROVE  WellKept(v, group_json', artifacts')
<1>1. \A p \in Group : Gone(p, group_json, artifacts) => Gone(p, group_json', artifacts')
  BY DEF Gone, StoreInv
<1>2. v.replaced # NoGroup => v.replaced \in Group
  BY ValueFields
<1> QED BY <1>1, <1>2 DEF WellKept

\* A save of the object in hand, edited to v.
LEMMA SaveWorld ==
  ASSUME SInv, NEW t \in Thread, thread[t].pc \notin RestPc, NEW v \in SoundValue,
         UpdateGroup(Subject(t), Mem(t), v),
         UNCHANGED <<summaries, tombstones, artifacts, receipts>>,
         Advances(Mem(t).value, v), WellKept(v, group_json, artifacts),
         \/ v.publication_pending
         \/ Subject(t) \in tombstones
         \/ /\ Visible(Bumped(Mem(t), v)) = Visible(group_json[Subject(t)])
            /\ \/ ~Saved(Subject(t)).publication_pending
               \/ summaries[Subject(t)].version = group_json[Subject(t)].version,
         \/ v.claim = Saved(Subject(t)).claim
         \/ ~ActiveClaim(Subject(t), Saved(Subject(t)))
         \/ Saved(Subject(t)).claim = thread[t].token /\ thread'[t] # thread[t]
  PROVE  /\ WorldStep
         /\ ClaimKept
         /\ group_json'[Subject(t)] = Bumped(Mem(t), v)
         /\ Bumped(Mem(t), v) \in Live
         /\ WellKept(v, group_json', artifacts')
<1> DEFINE g == Subject(t)
           rec == Bumped(Mem(t), v)
<1>0. /\ StoreInv /\ g \in Group /\ Mem(t) \in Live /\ Mem(t).value \in SoundValue
      /\ Current(g, Mem(t))
  BY InHand DEF SInv, IInv, UpdateGroup
<1>1. /\ Mem(t).version = group_json[g].version
      /\ group_json[g] # Missing
      /\ group_json[g].value \in SoundValue
      /\ Advances(group_json[g].value, Mem(t).value)
      /\ group_json[g].version \in Nat
  BY <1>0, CurrentInHand, StoreTypes DEF Handled, Saved, Mem
<1>2. /\ group_json' = [group_json EXCEPT ![g] = rec]
      /\ group_json'[g] = rec
      /\ \A h \in Group : h # g => group_json'[h] = group_json[h]
  BY <1>0 DEF UpdateGroup, StoreInv
<1>3. rec \in Live /\ rec.version = Mem(t).version + 1 /\ rec.value = v
  BY <1>0, BumpedIsLive DEF Bumped
<1>4. Advances(group_json[g].value, v)
  BY <1>0, <1>1, AdvancesTrans
<1>5. WellKept(v, group_json', artifacts')
  BY <1>0, <1>1, <1>2, WellKeptSaved
<1> HIDE DEF g, rec
<1>6. FileStep(g)
  BY <1>1, <1>2, <1>3, <1>4, <1>5 DEF FileStep, g, rec, Saved
<1>7. WorldStep
  <2>1. \A h \in Group : FileStep(h) /\ SummaryStep(h)
    BY <1>2, <1>6 DEF FileStep, SummaryStep
  <2>2. \A h \in receipts' : h \in Group /\ Gone(h, group_json, artifacts)
    BY DEF SInv, IInv, OthersOK, DiskSafe
  <2>3. \A h \in receipts' : Gone(h, group_json', artifacts')
    BY <1>1, <1>2, <2>2 DEF Gone
  <2> QED BY <2>1, <2>3 DEF WorldStep
<1>8. ClaimKept
  BY <1>2, <1>3 DEF ClaimKept, g, Saved
<1> QED BY <1>2, <1>3, <1>5, <1>7, <1>8 DEF g, rec

-------------------------------------------------------------------------------
(* Where a thread goes next.                                                *)

\* An object that is just what is on disk is safe in every place.
LEMMA FreshMem ==
  ASSUME NEW n, NEW files, NEW arts, n.mem = files[n.group],
         n.mem \in Live, WellKept(n.mem.value, files, arts)
  PROVE  MemSafe(n, files, arts)
BY LiveFields, AdvancesRefl DEF MemSafe, Handled

\* The same object, or an edit of it, in another place.
LEMMA EditedMem ==
  ASSUME NEW s, NEW n, NEW files, NEW arts, MemSafe(s, files, arts),
         files[s.group] \in OnDisk,
         n.group = s.group, n.mem.version = s.mem.version,
         s.mem \in Live, n.mem.value \in SoundValue,
         Advances(s.mem.value, n.mem.value), n.mem.value.claim = s.mem.value.claim,
         WellKept(n.mem.value, files, arts),
         s.pc \notin {"save", "persist"}, n.pc # "persist", n.pc \notin ExactPc
  PROVE  MemSafe(n, files, arts)
<1>1. s.mem.value \in SoundValue /\ s.mem.version \in Nat \ {0}
  BY LiveFields
<1>2. ASSUME s.mem.version = files[s.group].version
      PROVE  Advances(files[s.group].value, n.mem.value)
  <2>1. files[s.group] # Missing
    BY <1>1, <1>2, LiveIsRecord
  <2>2. files[s.group].value \in SoundValue
    BY <2>1, OnDiskFields, LiveFields
  <2> QED BY <1>1, <1>2, <2>2, AdvancesTrans DEF MemSafe, Handled
<1> QED BY <1>2 DEF MemSafe, Handled

LEMMA MovedMem ==
  ASSUME NEW s, NEW n, NEW files, NEW arts, MemSafe(s, files, arts),
         n.group = s.group, n.mem = s.mem,
         s.pc \notin {"save", "persist"}, n.pc # "persist",
         n.pc \in ExactPc => s.pc \in ExactPc
  PROVE  MemSafe(n, files, arts)
BY DEF MemSafe, Handled

LEMMA ReleasedCases ==
  ASSUME NEW t, NEW v \in SoundValue
  PROVE  Released(t, v) \in {v, [v EXCEPT !.claim = 0]} /\ 0 \in Nat
BY DEF Released, SoundValue, GroupValue

\* The file without the own claim, as it is about to be written back.
LEMMA ReleasedMem ==
  ASSUME NEW t, NEW n, NEW files, NEW arts, NEW edit \in SoundValue,
         files[n.group] \in Live, n.token = thread[t].token,
         n.mem = [files[n.group] EXCEPT !.value = Released(t, edit)],
         Advances(files[n.group].value, edit), edit.claim = files[n.group].value.claim,
         WellKept(edit, files, arts),
         n.pc \in {"save", "persist"}, n.pc = "persist" => edit = files[n.group].value
  PROVE  MemSafe(n, files, arts)
<1> DEFINE file == files[n.group]
           v == Released(t, edit)
<1>1. v \in SoundValue /\ n.mem = [version |-> file.version, value |-> v]
  BY ReleasedIsSound DEF Live
<1>2. Advances(edit, v) /\ WellKept(v, files, arts)
  BY ReleasedCases, EditsKeep, AdvancesRefl
<1>3. Advances(file.value, v)
  BY <1>1, <1>2, LiveFields, AdvancesTrans
<1>4. v.claim = file.value.claim \/ file.value.claim = n.token
  BY DEF Released, SoundValue, GroupValue
<1>5. v.publication_pending = edit.publication_pending
  BY DEF Released, SoundValue, GroupValue
<1>6. n.pc = "persist" => Visible(n.mem) = Visible(file)
  <2>1. CASE v = edit
    BY <1>1, <2>1 DEF Visible
  <2>2. CASE v = [edit EXCEPT !.claim = 0]
    <3>1. [v EXCEPT !.claim = 0, !.publication_pending = FALSE]
            = [edit EXCEPT !.claim = 0, !.publication_pending = FALSE]
      BY <2>2 DEF SoundValue, GroupValue
    <3> QED BY <1>1, <3>1 DEF Visible
  <2> QED BY <2>1, <2>2, ReleasedCases
<1>7. n.mem.version = file.version /\ n.mem.value = v /\ file.version \in Nat
  BY <1>1, LiveFields
<1> HIDE DEF v
<1> QED BY <1>2, <1>3, <1>4, <1>5, <1>6, <1>7 DEF MemSafe, Handled, ExactPc

LEMMA ParkedIsSafe ==
  ASSUME NEW pc \in RestPc, NEW files, NEW sums, NEW gone, NEW arts
  PROVE  /\ ThreadSafe(Parked(pc), files, sums, gone, arts)
         /\ \A g \in Group : KnownOf(Parked(pc), g) = {}
         /\ ~Cleaning(Parked(pc))
<1> DEFINE n == Parked(pc)
<1>1. n.pc = pc /\ n.victim = NoGroup /\ \A g \in Group : n.snap[g] = Missing
  BY DEF Parked, Nothing
<1> HIDE DEF n
<1>2. \A g \in Group : KnownOf(n, g) = {}
  BY <1>1 DEF KnownOf, RestPc
<1>3. ThreadSafe(n, files, sums, gone, arts) /\ ~Cleaning(n)
  BY <1>1, <1>2 DEF ThreadSafe, PublicationSafe, DeletionSafe, RecordsSafe, Cleaning,
                    DelPc, RestPc
<1> QED BY <1>2, <1>3 DEF n

\* A thread that goes on with its pass, or is through with it.
LEMMA NextIsSafe ==
  ASSUME NEW s, NEW files, NEW sums, NEW gone, NEW arts, NEW resting \in RestPc,
         files \in [Group -> OnDisk],
         s.snap \in [Group -> OnDisk],
         \A g \in Group : s.snap[g] # Missing => s.task \in PassTask,
         RecordsSafe(s, files, sums, gone, arts)
  PROVE  /\ ThreadSafe(NextOf(s, resting), files, sums, gone, arts)
         /\ \A g \in Group : KnownOf(NextOf(s, resting), g) \subseteq KnownOf(s, g)
         /\ ~Cleaning(NextOf(s, resting))
<1> DEFINE left == {g \in Group : s.snap[g] # Missing}
           g == NewestOf(left)
           n == NextOf(s, resting)
<1>1. CASE left = {}
  BY <1>1, ParkedIsSafe DEF NextOf
<1>2. CASE left # {}
  <2>1. g \in Group /\ s.snap[g] \in Live /\ s.snap[g] # Missing /\ s.task \in PassTask
    BY <1>2, NewestIsMember, OnDiskFields
  <2>2. n = [Parked(FirstPc[s.task]) EXCEPT
               !.task = s.task, !.group = g, !.mem = s.snap[g],
               !.read = IF s.task = "backfill" THEN s.snap[g] ELSE Missing,
               !.snap = [s.snap EXCEPT ![g] = Missing]]
    BY <1>2 DEF NextOf
  <2> HIDE DEF n, g
  <2>3. /\ n.pc = FirstPc[s.task] /\ n.task = s.task /\ n.group = g
        /\ n.mem = s.snap[g] /\ n.victim = NoGroup
        /\ n.read = IF s.task = "backfill" THEN s.snap[g] ELSE Missing
        /\ n.snap = [s.snap EXCEPT ![g] = Missing]
    BY <2>2 DEF Parked
  <2>4. /\ n.pc \in {"save", "archive", "publish", "cleanup", "upsert"}
        /\ n.pc = "upsert" => s.task = "backfill"
    BY <2>1, <2>3 DEF FirstPc, PassTask
  <2>5. \A h \in Group : KnownOf(n, h) \subseteq KnownOf(s, h)
    BY <2>1, <2>3, <2>4 DEF KnownOf
  <2>6. MemSafe(n, files, arts)
    <3>1. WellKept(n.mem.value, files, arts) /\ Tracks(n.mem, files[g])
      BY <2>1, <2>3 DEF RecordsSafe
    <3>2. n.mem \in Live /\ n.mem.version \in Nat \ {0} /\ n.mem.value \in SoundValue
      BY <2>1, <2>3, LiveFields
    <3>3. ASSUME n.mem.version = files[g].version
          PROVE  n.mem = files[g]
      <4>1. files[g] # Missing
        BY <3>2, <3>3, LiveIsRecord
      <4> QED BY <3>1, <3>3, <4>1 DEF Tracks
    <3>4. n.mem.version = files[g].version => Handled(n, files[g])
      BY <2>4, <3>2, <3>3, AdvancesRefl DEF Handled
    <3> QED BY <2>3, <3>1, <3>4 DEF MemSafe, Tracks
  <2>7. RecordsSafe(n, files, sums, gone, arts)
    BY <2>1, <2>3, <2>5 DEF RecordsSafe
  <2>8. PublicationSafe(n, files, sums, gone) /\ DeletionSafe(n, files, arts) /\ ~Cleaning(n)
    BY <2>3, <2>4 DEF PublicationSafe, DeletionSafe, Cleaning, DelPc
  <2>9. ThreadSafe(n, files, sums, gone, arts)
    BY <2>4, <2>6, <2>7, <2>8 DEF ThreadSafe
  <2> QED BY <2>5, <2>8, <2>9 DEF n
<1> QED BY <1>1, <1>2

\* The thread as it is, in the next world.
LEMMA SafeNext ==
  ASSUME SInv, IInv', WorldStep, NEW t \in Thread
  PROVE  /\ ThreadSafe(thread[t], group_json', summaries', tombstones', artifacts')
         /\ thread[t] \in SoundState
         /\ group_json' \in [Group -> OnDisk]
BY ThreadSafeOn DEF SInv, IInv, ThreadsGood, ThreadsSafe, StoreInv

\* The three ways in which an action ends for its thread.
LEMMA FinishIsSafe ==
  ASSUME SInv, IInv', WorldStep, NEW t \in Thread, Finish(t)
  PROVE  ThreadGoes(t)
<1> DEFINE n == NextOf(thread[t], Resting(t))
<1>1. thread' = [thread EXCEPT ![t] = n] /\ thread'[t] = n
  BY DEF Finish, SInv, IInv, ThreadsGood
<1>2. ThreadGood(thread[t], group_json, tombstones) /\ thread[t] \in SoundState
  BY DEF SInv, IInv, ThreadsGood
<1>3. /\ RecordsSafe(thread[t], group_json', summaries', tombstones', artifacts')
      /\ group_json' \in [Group -> OnDisk]
  BY SafeNext DEF ThreadSafe
<1>4. Resting(t) \in RestPc
  BY DEF Resting, RestPc
<1>5. /\ ThreadSafe(n, group_json', summaries', tombstones', artifacts')
      /\ \A g \in Group : KnownOf(n, g) \subseteq KnownOf(thread[t], g)
      /\ ~Cleaning(n)
  BY <1>2, <1>3, <1>4, NextIsSafe DEF ThreadGood, SoundState
<1> HIDE DEF n
<1> QED BY <1>1, <1>5 DEF ThreadGoes, OnlyThread

LEMMA RaiseIsSafe ==
  ASSUME SInv, IInv', WorldStep, NEW t \in Thread, Raise(t)
  PROVE  ThreadGoes(t)
<1>1. CASE Finish(t)
  BY <1>1, FinishIsSafe
<1>2. CASE thread' = [thread EXCEPT ![t] = Parked("done")]
  <2>1. thread'[t] = Parked("done")
    BY <1>2 DEF SInv, IInv, ThreadsGood
  <2> QED BY <1>2, <2>1, ParkedIsSafe DEF ThreadGoes, OnlyThread, RestPc
<1> QED BY <1>1, <1>2 DEF Raise

\* The places of a thread that neither publishes nor deletes.
QuietPc ==
  {"save", "publish", "retain", "archive", "copy", "cleanup", "unclaim", "persist", "failed"}

LEMMA EnterIsSafe ==
  ASSUME SInv, IInv', WorldStep, NEW t \in Thread, NEW n,
         thread' = [thread EXCEPT ![t] = n],
         n.snap = thread[t].snap, n.pc \in QuietPc, n.victim = NoGroup,
         n.pc = "copy" => n.mem.value.archive # "succeeded",
         MemSafe(n, group_json', artifacts')
  PROVE  ThreadGoes(t)
<1>1. thread'[t] = n
  BY DEF SInv, IInv, ThreadsGood
<1>2. \A g \in Group : KnownOf(n, g) \subseteq KnownOf(thread[t], g)
  BY DEF KnownOf, QuietPc
<1>3. RecordsSafe(n, group_json', summaries', tombstones', artifacts')
  BY <1>2, SafeNext DEF ThreadSafe, RecordsSafe
<1>4. /\ PublicationSafe(n, group_json', summaries', tombstones')
      /\ DeletionSafe(n, group_json', artifacts') /\ ~Cleaning(n)
  BY DEF PublicationSafe, DeletionSafe, Cleaning, DelPc, QuietPc
<1>5. ThreadSafe(n, group_json', summaries', tombstones', artifacts')
  BY <1>3, <1>4 DEF ThreadSafe, QuietPc
<1> QED BY <1>1, <1>2, <1>4, <1>5 DEF ThreadGoes, OnlyThread

\* A thread that is not deleting has no victim.
LEMMA NoVictim ==
  ASSUME SInv, NEW t \in Thread, thread[t].pc \notin DelPc
  PROVE  thread[t].victim = NoGroup
BY DEF SInv, ThreadsSafe, ThreadSafe, DeletionSafe

-------------------------------------------------------------------------------
(* The writers: save with the mark, publish, save without it.               *)

LEMMA SaveGroupIsSafe ==
  ASSUME SInv, IInv', NEW t \in Thread, SaveGroup(t)
  PROVE  ThreadStepSafe(t)
<1> DEFINE v == Marked(Mem(t).value)
           n == [thread[t] EXCEPT !.pc = "publish", !.mem = Bumped(Mem(t), v)]
<1>0. thread[t].pc = "save" /\ thread[t].pc \notin RestPc /\ thread[t].pc \notin DelPc
  BY DEF SaveGroup, At, RestPc, DelPc
<1>1. CASE /\ UpdateGroup(Subject(t), Mem(t), v)
           /\ GotoWith(t, "publish", Bumped(Mem(t), v))
  <2>1. thread' = [thread EXCEPT ![t] = n] /\ thread'[t] = n
    BY <1>1 DEF GotoWith, Enter, SInv, IInv, ThreadsGood
  <2>2. /\ n.pc = "publish" /\ n.mem = Bumped(Mem(t), v) /\ n.group = Subject(t)
        /\ n.snap = thread[t].snap /\ n.victim = NoGroup
    BY <1>0, InHand, NoVictim DEF SoundState
  <2>3. /\ v \in SoundValue /\ Advances(Mem(t).value, v)
        /\ WellKept(v, group_json, artifacts)
        /\ v.publication_pending /\ v.claim = Mem(t).value.claim
    <3>1. Mem(t).value \in SoundValue /\ Mem(t).value \in GroupValue
      BY <1>0, InHand
    <3>2. v.publication_pending /\ v.claim = Mem(t).value.claim
      BY <3>1 DEF Marked, GroupValue
    <3> QED BY <1>0, <3>1, <3>2, InHand, EditsKeep, EditsAreSound
  <2> HIDE DEF n, v
  <2>4. \/ v.claim = Saved(Subject(t)).claim
        \/ Saved(Subject(t)).claim = thread[t].token /\ thread'[t] # thread[t]
    <3>1. Handled(thread[t], group_json[Subject(t)])
      BY <1>0, <1>1, CurrentInHand DEF UpdateGroup
    <3>2. thread'[t] # thread[t]
      BY <1>0, <2>1, <2>2
    <3> QED BY <2>3, <3>1, <3>2 DEF Handled, Mem, Saved
  <2>5. /\ WorldStep /\ ClaimKept
        /\ group_json'[Subject(t)] = Bumped(Mem(t), v)
        /\ Bumped(Mem(t), v) \in Live
        /\ WellKept(v, group_json', artifacts')
    BY <1>0, <1>1, <2>3, <2>4, SaveWorld DEF SaveGroup, diskVars
  <2>6. MemSafe(n, group_json', artifacts')
    BY <2>2, <2>5, FreshMem DEF Bumped
  <2>7. ThreadGoes(t)
    BY <2>1, <2>2, <2>5, <2>6, EnterIsSafe DEF QuietPc
  <2> QED BY <2>5, <2>7 DEF ThreadStepSafe
<1>2. CASE Raise(t) /\ UNCHANGED group_json
  <2>1. WorldStep /\ ClaimKept
    BY <1>2, StillWorld DEF SaveGroup, storeVars, diskVars
  <2> QED BY <1>2, <2>1, RaiseIsSafe DEF ThreadStepSafe
<1> QED BY <1>1, <1>2 DEF SaveGroup, SaveAs

\* What is on disk is abreast of itself.
LEMMA DiskIsAbreast ==
  ASSUME NEW g, NEW files, NEW sums, NEW gone
  PROVE  Abreast(g, files[g], files, sums, gone)
BY DEF Abreast

LEMMA ReloadForSummaryIsSafe ==
  ASSUME SInv, IInv', NEW t \in Thread, ReloadForSummary(t)
  PROVE  ThreadStepSafe(t)
<1> DEFINE n == [thread[t] EXCEPT !.pc = "upsert", !.read = group_json[Subject(t)]]
<1>0. thread[t].pc = "publish" /\ thread[t].pc \notin RestPc /\ thread[t].pc \notin DelPc
  BY DEF ReloadForSummary, At, RestPc, DelPc
<1>1. WorldStep /\ ClaimKept /\ group_json' = group_json
  BY StillWorld DEF ReloadForSummary, diskVars, storeVars
<1>2. thread' = [thread EXCEPT ![t] = n] /\ thread'[t] = n
  BY DEF ReloadForSummary, Enter, SInv, IInv, ThreadsGood
<1>3. /\ n.pc = "upsert" /\ n.read = group_json[Subject(t)] /\ n.group = Subject(t)
      /\ n.mem = thread[t].mem /\ n.snap = thread[t].snap /\ n.victim = NoGroup
  BY <1>0, InHand, NoVictim DEF SoundState
<1> HIDE DEF n
<1>4. \A g \in Group : KnownOf(n, g) \subseteq KnownOf(thread[t], g) \cup {group_json[g]}
  BY <1>3 DEF KnownOf
<1>5. RecordsSafe(n, group_json', summaries', tombstones', artifacts')
  <2>1. RecordsSafe(thread[t], group_json', summaries', tombstones', artifacts')
    BY <1>1, SafeNext DEF ThreadSafe
  <2>2. \A g \in Group : Abreast(g, group_json'[g], group_json', summaries', tombstones')
    BY DiskIsAbreast
  <2> QED BY <1>1, <1>3, <1>4, <2>1, <2>2 DEF RecordsSafe
<1>6. MemSafe(n, group_json', artifacts') /\ MemSafe(thread[t], group_json', artifacts')
  <2>1. MemSafe(thread[t], group_json', artifacts')
    BY <1>0, <1>1, SafeNext DEF ThreadSafe
  <2> QED BY <1>0, <1>3, <2>1, InHand, MovedMem DEF ExactPc
<1>7. PublicationSafe(n, group_json', summaries', tombstones')
  BY <1>0, <1>1, <1>3, <1>6, InHand DEF PublicationSafe, MemSafe
<1>8. DeletionSafe(n, group_json', artifacts') /\ ~Cleaning(n)
  BY <1>3 DEF DeletionSafe, Cleaning, DelPc
<1>9. ThreadSafe(n, group_json', summaries', tombstones', artifacts')
  BY <1>3, <1>5, <1>6, <1>7, <1>8 DEF ThreadSafe
<1> QED BY <1>1, <1>2, <1>4, <1>8, <1>9 DEF ThreadStepSafe, ThreadGoes, OnlyThread

\* The publication of what was read, or of a deletion.
LEMMA PublishSummaryIsSafe ==
  ASSUME SInv, IInv', NEW t \in Thread, PublishSummary(t)
  PROVE  ThreadStepSafe(t)
<1> DEFINE g == Subject(t)
           rec == thread[t].read
           n == [thread[t] EXCEPT !.pc = "clear", !.read = Missing]
<1>0. thread[t].pc = "upsert" /\ thread[t].pc \notin RestPc /\ thread[t].pc \notin DelPc
  BY DEF PublishSummary, At, RestPc, DelPc
<1>1. /\ StoreInv /\ StoreInv' /\ g \in Group /\ rec \in OnDisk
      /\ ThreadGood(thread[t], group_json, tombstones)
      /\ rec \in KnownOf(thread[t], g)
      /\ Follows(g, rec, group_json, tombstones)
      /\ group_json' = group_json
  <2>1. g \in Group /\ ThreadGood(thread[t], group_json, tombstones)
    BY <1>0, InHand
  <2>2. rec \in KnownOf(thread[t], g)
    BY <1>0 DEF KnownOf, Subject
  <2> QED BY <2>1, <2>2, KnownIsRecord DEF SInv, IInv, PublishSummary
<1>2. /\ \A h \in Group : SummaryStep(h)
      /\ tombstones \subseteq tombstones'
  <2>1. CASE rec = Missing
    BY <1>1, <2>1 DEF PublishSummary, DeleteSummary, SummaryStep, StoreInv
  <2>2. CASE rec # Missing
    <3>1. UpsertSummary(g, rec)
      BY <2>2 DEF PublishSummary
    <3>2. CASE summaries' = summaries
      BY <3>1, <3>2 DEF SummaryStep, UpsertSummary
    <3>3. CASE ~Stale(g, rec) /\ summaries' = [summaries EXCEPT ![g] = rec]
      <4>1. /\ summaries'[g] = rec
            /\ \A h \in Group : h # g => summaries'[h] = summaries[h]
        BY <1>1, <3>3 DEF StoreInv
      <4>2. summaries[g].version <= summaries'[g].version
        BY <1>1, <3>3, <4>1, StoreTypes, StoreTypesNext DEF Stale
      <4> HIDE DEF g, rec
      <4> QED BY <1>1, <3>1, <4>1, <4>2 DEF SummaryStep, UpsertSummary
    <3> QED BY <3>1, <3>2, <3>3 DEF UpsertSummary
  <2> QED BY <2>1, <2>2
<1>3. WorldStep /\ ClaimKept
  <2>1. \A h \in receipts' : Gone(h, group_json', artifacts')
    BY <1>1 DEF SInv, IInv, OthersOK, DiskSafe, PublishSummary, diskVars
  <2>2. WorldStep
    BY <1>1, <1>2, <2>1 DEF WorldStep, FileStep, PublishSummary, diskVars
  <2> QED BY <1>1, <2>2 DEF ClaimKept, Saved
<1>4. CASE Finish(t)
  BY <1>3, <1>4, FinishIsSafe DEF ThreadStepSafe
<1>5. CASE thread[t].task # "backfill" /\ Enter(t, n)
  <2>1. thread' = [thread EXCEPT ![t] = n] /\ thread'[t] = n
    BY <1>5 DEF Enter, SInv, IInv, ThreadsGood
  <2>2. /\ n.pc = "clear" /\ n.group = g /\ n.mem = thread[t].mem
        /\ n.snap = thread[t].snap /\ n.victim = NoGroup
    BY <1>0, InHand, NoVictim DEF SoundState
  <2> HIDE DEF n
  <2>3. \A h \in Group : KnownOf(n, h) \subseteq KnownOf(thread[t], h)
    BY <2>2 DEF KnownOf
  <2>4. RecordsSafe(n, group_json', summaries', tombstones', artifacts')
    BY <1>3, <2>2, <2>3, SafeNext DEF ThreadSafe, RecordsSafe
  <2>5. MemSafe(n, group_json', artifacts')
    <3>1. MemSafe(thread[t], group_json', artifacts')
      BY <1>0, <1>3, SafeNext DEF ThreadSafe
    <3> QED BY <1>0, <2>2, <3>1, InHand, MovedMem DEF ExactPc
  <2>6. ASSUME g \notin tombstones', n.mem.version = group_json'[g].version
        PROVE  summaries'[g].version = group_json'[g].version
    <3>1. Mem(t).version = group_json[g].version /\ group_json[g] # Missing
      BY <1>0, <1>1, <2>2, <2>6, InHand, LiveIsRecord
    <3>2. Mem(t).version <= rec.version
      BY <1>0, <1>5, <3>1, InHand DEF ThreadSafe, PublicationSafe
    <3>3. g \notin tombstones /\ rec.version <= group_json[g].version
      BY <1>1, <1>2, <2>6 DEF Follows
    <3>4. rec.version \in Nat /\ group_json[g].version \in Nat /\ Mem(t).version \in Nat
      BY <1>0, <1>1, StoreTypes, OnDiskFields, InHand
    <3>5. rec.version = group_json[g].version
      BY <3>1, <3>2, <3>3, <3>4
    <3>6. rec # Missing /\ ~Stale(g, rec)
      <4>1. rec # Missing
        BY <1>1, <3>1, <3>5, StoreTypes, LiveIsRecord
      <4>2. summaries[g].version <= group_json[g].version /\ summaries[g].version \in Nat
        BY <1>1, <3>3, StoreTypes DEF StoreInv, Follows
      <4> QED BY <3>4, <3>5, <4>1, <4>2 DEF Stale
    <3>7. summaries' = [summaries EXCEPT ![g] = rec]
      BY <3>3, <3>6 DEF PublishSummary, UpsertSummary
    <3> QED BY <1>1, <3>5, <3>7 DEF StoreInv
  <2>7. PublicationSafe(n, group_json', summaries', tombstones')
    BY <2>2, <2>6 DEF PublicationSafe
  <2>8. DeletionSafe(n, group_json', artifacts') /\ ~Cleaning(n)
    BY <2>2 DEF DeletionSafe, Cleaning, DelPc
  <2>9. ThreadSafe(n, group_json', summaries', tombstones', artifacts')
    BY <2>2, <2>4, <2>5, <2>7, <2>8 DEF ThreadSafe
  <2> QED BY <1>3, <2>1, <2>3, <2>8, <2>9 DEF ThreadStepSafe, ThreadGoes, OnlyThread
<1> QED BY <1>4, <1>5 DEF PublishSummary

\* The mark is dropped when the summary shows what is under it.
LEMMA ClearMarkIsSafe ==
  ASSUME SInv, IInv', NEW t \in Thread, ClearMark(t)
  PROVE  ThreadStepSafe(t)
<1> DEFINE g == Subject(t)
           v == Unmarked(Mem(t).value)
           n == [thread[t] EXCEPT !.pc = "cleanup", !.then = "end", !.mem = Bumped(Mem(t), v)]
<1>0. thread[t].pc = "clear" /\ thread[t].pc \notin RestPc /\ thread[t].pc \notin DelPc
  BY DEF ClearMark, At, RestPc, DelPc
<1>1. ASSUME UpdateGroup(g, Mem(t), v)
      PROVE  /\ WorldStep /\ ClaimKept
             /\ group_json'[g] = Bumped(Mem(t), v)
             /\ Bumped(Mem(t), v) \in Live
             /\ WellKept(v, group_json', artifacts')
  <2>1. /\ group_json[g] # Missing /\ Mem(t).version = group_json[g].version
        /\ Mem(t) = group_json[g]
    BY <1>0, <1>1, CurrentInHand DEF UpdateGroup, Handled, ExactPc, Mem
  <2>2. /\ v \in SoundValue /\ Advances(Mem(t).value, v)
        /\ WellKept(v, group_json, artifacts)
    BY <1>0, InHand, EditsKeep, EditsAreSound
  <2>3. v.claim = Saved(g).claim
    BY <1>0, <2>1, InHand DEF Unmarked, GroupValue, Saved
  <2>4. g \in tombstones \/ summaries[g].version = group_json[g].version
    BY <1>0, <2>1, InHand DEF ThreadSafe, PublicationSafe
  <2>5. Visible(Bumped(Mem(t), v)) = Visible(group_json[g])
    <3>1. Mem(t).value \in GroupValue
      BY <1>0, InHand
    <3>2. [v EXCEPT !.claim = 0, !.publication_pending = FALSE]
            = [Mem(t).value EXCEPT !.claim = 0, !.publication_pending = FALSE]
      BY <3>1 DEF Unmarked, GroupValue
    <3> QED BY <2>1, <3>2 DEF Visible, Bumped
  <2> HIDE DEF v
  <2> QED BY <1>0, <1>1, <2>2, <2>3, <2>4, <2>5, SaveWorld DEF ClearMark, diskVars
<1>2. CASE UpdateGroup(g, Mem(t), v) /\ Enter(t, n)
  <2>1. thread' = [thread EXCEPT ![t] = n]
    BY <1>2 DEF Enter
  <2>2. /\ n.pc = "cleanup" /\ n.mem = Bumped(Mem(t), v) /\ n.group = g
        /\ n.snap = thread[t].snap /\ n.victim = NoGroup
    BY <1>0, InHand, NoVictim DEF SoundState
  <2> HIDE DEF n, v
  <2>3. MemSafe(n, group_json', artifacts')
    BY <1>1, <1>2, <2>2, FreshMem DEF Bumped
  <2>4. ThreadGoes(t)
    BY <1>1, <1>2, <2>1, <2>2, <2>3, EnterIsSafe DEF QuietPc
  <2> QED BY <1>1, <1>2, <2>4 DEF ThreadStepSafe
<1>3. CASE UpdateGroup(g, Mem(t), v) /\ Finish(t)
  BY <1>1, <1>3, FinishIsSafe DEF ThreadStepSafe
<1>4. CASE Raise(t) /\ UNCHANGED group_json
  <2>1. WorldStep /\ ClaimKept
    BY <1>4, StillWorld DEF ClearMark, storeVars, diskVars
  <2> QED BY <1>4, <2>1, RaiseIsSafe DEF ThreadStepSafe
<1> QED BY <1>2, <1>3, <1>4 DEF ClearMark

LEMMA RetainMarkIsSafe ==
  ASSUME SInv, IInv', NEW t \in Thread, RetainMark(t)
  PROVE  ThreadStepSafe(t)
<1> DEFINE g == Subject(t)
           v == Marked(Mem(t).value)
<1>0. thread[t].pc = "retain" /\ thread[t].pc \notin RestPc
  BY DEF RetainMark, At, RestPc
<1>1. CASE UpdateGroup(g, Mem(t), v)
  <2>1. Mem(t) = group_json[g] /\ Mem(t).version = group_json[g].version
    BY <1>0, <1>1, CurrentInHand DEF UpdateGroup, Handled, ExactPc, Mem
  <2>2. /\ v \in SoundValue /\ Advances(Mem(t).value, v)
        /\ WellKept(v, group_json, artifacts)
    BY <1>0, InHand, EditsKeep, EditsAreSound
  <2>3. v.claim = Saved(g).claim /\ v.publication_pending
    BY <1>0, <2>1, InHand DEF Marked, GroupValue, Saved
  <2> HIDE DEF v
  <2>4. WorldStep /\ ClaimKept
    BY <1>0, <1>1, <2>2, <2>3, SaveWorld DEF RetainMark, diskVars
  <2> QED BY <2>4, RaiseIsSafe DEF RetainMark, ThreadStepSafe
<1>2. CASE UNCHANGED group_json
  <2>1. WorldStep /\ ClaimKept
    BY <1>2, StillWorld DEF RetainMark, storeVars, diskVars
  <2> QED BY <2>1, RaiseIsSafe DEF RetainMark, ThreadStepSafe
<1> QED BY <1>1, <1>2 DEF RetainMark

\* A thread goes to a quiet place with the object it has.
LEMMA GotoIsSafe ==
  ASSUME SInv, IInv', NEW t \in Thread, WorldStep,
         thread[t].pc \notin RestPc, thread[t].pc \notin {"save", "persist"},
         NEW pc \in QuietPc, pc # "persist", pc \in ExactPc => thread[t].pc \in ExactPc,
         NEW n, thread' = [thread EXCEPT ![t] = n],
         n.pc = pc, n.mem = thread[t].mem, n.group = thread[t].group,
         n.snap = thread[t].snap, n.victim = NoGroup,
         n.pc = "copy" => n.mem.value.archive # "succeeded"
  PROVE  ThreadGoes(t)
<1>1. MemSafe(thread[t], group_json', artifacts')
  BY SafeNext DEF ThreadSafe
<1>2. MemSafe(n, group_json', artifacts')
  BY <1>1, MovedMem
<1> QED BY <1>2, EnterIsSafe

LEMMA PublicationFailsIsSafe ==
  ASSUME SInv, IInv', NEW t \in Thread, PublicationFails(t)
  PROVE  ThreadStepSafe(t)
<1> DEFINE n == [thread[t] EXCEPT !.pc = "retain"]
<1>0. thread[t].pc = "publish" /\ thread[t].pc \notin RestPc /\ thread[t].pc \notin DelPc
  BY DEF PublicationFails, At, RestPc, DelPc
<1>1. WorldStep /\ ClaimKept
  BY StillWorld DEF PublicationFails, diskVars
<1>2. /\ thread' = [thread EXCEPT ![t] = n]
      /\ n.pc = "retain" /\ n.mem = thread[t].mem /\ n.group = thread[t].group
      /\ n.snap = thread[t].snap /\ n.victim = NoGroup
  BY <1>0, InHand, NoVictim DEF PublicationFails, Goto, Enter, SoundState
<1> HIDE DEF n
<1>3. ThreadGoes(t)
  BY <1>0, <1>1, <1>2, GotoIsSafe DEF QuietPc, ExactPc
<1> QED BY <1>1, <1>3 DEF ThreadStepSafe

-------------------------------------------------------------------------------
(* The archive coordinator.                                                 *)

LEMMA WriteThenIsSafe ==
  ASSUME SInv, IInv', NEW t \in Thread, thread[t].pc \in {"archive", "copy"},
         UNCHANGED <<storeVars, artifacts, receipts>>,
         NEW v \in SoundValue, NEW then, WriteThen(t, v, then),
         Advances(Mem(t).value, v), WellKept(v, group_json, artifacts),
         v.claim = Mem(t).value.claim
  PROVE  ThreadStepSafe(t)
<1> DEFINE n == [thread[t] EXCEPT !.pc = "save", !.mem.value = v, !.then = then]
<1>0. thread[t].pc \notin RestPc /\ thread[t].pc \notin DelPc
  BY DEF RestPc, DelPc
<1>1. WorldStep /\ ClaimKept /\ group_json' = group_json /\ artifacts' = artifacts
  BY StillWorld DEF storeVars
<1>2. /\ thread' = [thread EXCEPT ![t] = n]
      /\ n.pc = "save" /\ n.mem = [Mem(t) EXCEPT !.value = v] /\ n.group = thread[t].group
      /\ n.snap = thread[t].snap /\ n.victim = NoGroup
  BY <1>0, InHand, NoVictim DEF WriteThen, Enter, SoundState
<1>3. n.mem.version = thread[t].mem.version /\ n.mem.value = v
  BY <1>0, <1>2, InHand DEF Live
<1> HIDE DEF n
<1>4. group_json[thread[t].group] \in OnDisk
  BY <1>0, InHand, StoreTypes DEF SInv, IInv
<1>5. MemSafe(n, group_json', artifacts')
  BY <1>0, <1>1, <1>2, <1>3, <1>4, InHand, EditedMem DEF Mem, ExactPc
<1>6. ThreadGoes(t)
  BY <1>1, <1>2, <1>5, EnterIsSafe DEF QuietPc
<1> QED BY <1>1, <1>6 DEF ThreadStepSafe

\* The three writes of complete.
LEMMA WritesAreSafe ==
  ASSUME SInv, IInv', NEW t \in Thread, thread[t].pc \in {"archive", "copy"},
         UNCHANGED <<storeVars, artifacts, receipts>>
  PROVE  /\ WriteCompleted(t, Mem(t).value) => ThreadStepSafe(t)
         /\ Mem(t).value.archive # "succeeded" /\ WriteFailed(t) => ThreadStepSafe(t)
         /\ /\ Mem(t).value.archive # "succeeded"
            /\ \/ WriteCompleted(t, ArchiveSucceeded(Mem(t).value))
               \/ WriteThen(t, [ArchiveSucceeded(Mem(t).value) EXCEPT !.status = "FAILED"], "end")
            => ThreadStepSafe(t)
<1> DEFINE v == Mem(t).value
<1>0. v \in SoundValue /\ v \in GroupValue /\ WellKept(v, group_json, artifacts)
  BY InHand DEF RestPc
<1>1. ASSUME WriteCompleted(t, v)
      PROVE  ThreadStepSafe(t)
  <2>1. /\ Settled(v) \in SoundValue /\ Advances(v, Settled(v))
        /\ WellKept(Settled(v), group_json, artifacts) /\ Settled(v).claim = v.claim
    BY <1>0, EditsKeep, EditsAreSound DEF Settled, GroupValue
  <2> QED BY <1>1, <2>1, WriteThenIsSafe DEF WriteCompleted
<1>2. ASSUME v.archive # "succeeded", WriteFailed(t)
      PROVE  ThreadStepSafe(t)
  <2>1. ArchiveFailed(v).claim = v.claim
    BY <1>0 DEF ArchiveFailed, GroupValue
  <2> QED BY <1>0, <1>2, <2>1, ArchivingKeeps, WriteThenIsSafe DEF WriteFailed
<1>3. ASSUME v.archive # "succeeded", WriteCompleted(t, ArchiveSucceeded(v))
      PROVE  ThreadStepSafe(t)
  <2> DEFINE w == ArchiveSucceeded(v)
  <2>1. /\ w \in SoundValue /\ Advances(v, w) /\ WellKept(w, group_json, artifacts)
        /\ w.claim = v.claim /\ w \in GroupValue
    <3>1. w.claim = v.claim
      BY <1>0 DEF ArchiveSucceeded, GroupValue
    <3> QED BY <1>0, <1>3, <3>1, ArchivingKeeps, ValueFields
  <2> HIDE DEF w
  <2>2. /\ Settled(w) \in SoundValue /\ Advances(w, Settled(w))
        /\ WellKept(Settled(w), group_json, artifacts) /\ Settled(w).claim = w.claim
    BY <2>1, EditsKeep, EditsAreSound DEF Settled, GroupValue
  <2>3. Advances(v, Settled(w))
    BY <1>0, <2>1, <2>2, AdvancesTrans
  <2>4. WriteThen(t, Settled(w), "cleanup")
    BY <1>3 DEF WriteCompleted, w
  <2> QED BY <2>1, <2>2, <2>3, <2>4, WriteThenIsSafe
<1>4. ASSUME v.archive # "succeeded",
             WriteThen(t, [ArchiveSucceeded(v) EXCEPT !.status = "FAILED"], "end")
      PROVE  ThreadStepSafe(t)
  <2> DEFINE w == [ArchiveSucceeded(v) EXCEPT !.status = "FAILED"]
  <2>1. w.claim = v.claim
    BY <1>0 DEF ArchiveSucceeded, GroupValue
  <2>2. w \in SoundValue /\ Advances(v, w) /\ WellKept(w, group_json, artifacts)
    BY <1>0, <1>4, ArchivingKeeps
  <2>3. WriteThen(t, w, "end")
    BY <1>4
  <2> HIDE DEF w
  <2> QED BY <2>1, <2>2, <2>3, WriteThenIsSafe
<1> QED BY <1>1, <1>2, <1>3, <1>4

LEMMA ArchiveIsSafe ==
  ASSUME SInv, IInv', NEW t \in Thread, Archive(t)
  PROVE  ThreadStepSafe(t)
<1> DEFINE n == [thread[t] EXCEPT !.pc = "copy"]
<1>0. /\ thread[t].pc = "archive" /\ thread[t].pc \notin RestPc /\ thread[t].pc \notin DelPc
      /\ UNCHANGED <<storeVars, artifacts, receipts>>
  BY DEF Archive, At, RestPc, DelPc
<1>1. CASE Mem(t).value.archive = "succeeded" /\ WriteCompleted(t, Mem(t).value)
  BY <1>0, <1>1, WritesAreSafe
<1>2. CASE Mem(t).value.archive # "succeeded" /\ Goto(t, "copy")
  <2>1. WorldStep /\ ClaimKept
    BY <1>0, StillWorld
  <2>2. /\ thread' = [thread EXCEPT ![t] = n]
        /\ n.pc = "copy" /\ n.mem = thread[t].mem /\ n.group = thread[t].group
        /\ n.snap = thread[t].snap /\ n.victim = NoGroup
    BY <1>0, <1>2, InHand, NoVictim DEF Goto, Enter, SoundState
  <2> HIDE DEF n
  <2>3. ThreadGoes(t)
    BY <1>0, <1>2, <2>1, <2>2, GotoIsSafe DEF QuietPc, ExactPc, Mem
  <2> QED BY <2>1, <2>3 DEF ThreadStepSafe
<1>3. CASE Mem(t).value.archive # "succeeded" /\ WriteFailed(t)
  BY <1>0, <1>3, WritesAreSafe
<1> QED BY <1>1, <1>2, <1>3 DEF Archive

\* What is copied is not archived yet.
LEMMA NotYetArchived ==
  ASSUME SInv, NEW t \in Thread, thread[t].pc = "copy"
  PROVE  Mem(t).value.archive # "succeeded"
BY DEF SInv, ThreadsSafe, ThreadSafe, Mem

LEMMA CopyFilesIsSafe ==
  ASSUME SInv, IInv', NEW t \in Thread, CopyFiles(t)
  PROVE  ThreadStepSafe(t)
<1>1. /\ thread[t].pc = "copy" /\ thread[t].pc \in {"archive", "copy"}
      /\ UNCHANGED <<storeVars, artifacts, receipts>>
  BY DEF CopyFiles, At
<1>2. Mem(t).value.archive # "succeeded"
  BY <1>1, NotYetArchived
<1> QED BY <1>1, <1>2, WritesAreSafe DEF CopyFiles

LEMMA ArchiveFailsIsSafe ==
  ASSUME SInv, IInv', NEW t \in Thread, ArchiveFails(t)
  PROVE  ThreadStepSafe(t)
<1>1. thread[t].pc \in {"archive", "copy"} /\ UNCHANGED <<storeVars, artifacts, receipts>>
  BY DEF ArchiveFails, At, diskVars
<1>2. Mem(t).value.archive # "succeeded"
  BY NotYetArchived DEF ArchiveFails, At
<1> QED BY <1>1, <1>2, WritesAreSafe DEF ArchiveFails

LEMMA SettlementFailsIsSafe ==
  ASSUME SInv, IInv', NEW t \in Thread, SettlementFails(t)
  PROVE  ThreadStepSafe(t)
<1>1. /\ thread[t].pc = "copy" /\ thread[t].pc \in {"archive", "copy"}
      /\ UNCHANGED <<storeVars, artifacts, receipts>>
  BY DEF SettlementFails, At
<1>2. Mem(t).value.archive # "succeeded"
  BY <1>1, NotYetArchived
<1> QED BY <1>1, <1>2, WritesAreSafe DEF SettlementFails

-------------------------------------------------------------------------------
(* The cleanup: a claim, the operation lock, the deletion, the receipt.     *)

LEMMA ClaimCleanupIsSafe ==
  ASSUME SInv, IInv', NEW t \in Thread, ClaimCleanup(t)
  PROVE  ThreadStepSafe(t)
<1> DEFINE g == Subject(t)
           v == [Mem(t).value EXCEPT !.claim = Mem(t).version + 1]
           n == [thread[t] EXCEPT !.pc = "lock", !.token = v.claim, !.mem = Bumped(Mem(t), v)]
<1>0. /\ thread[t].pc = "cleanup" /\ thread[t].pc \notin RestPc /\ thread[t].pc \notin DelPc
      /\ UNCHANGED <<summaries, tombstones, artifacts, receipts>>
  BY DEF ClaimCleanup, At, RestPc, DelPc, diskVars
<1>1. CASE /\ ClaimableCleanup(g, Mem(t).value)
           /\ UpdateGroup(g, Mem(t), v)
           /\ Enter(t, n)
  <2>1. Mem(t) = group_json[g] /\ Mem(t).version = group_json[g].version
    BY <1>0, <1>1, CurrentInHand DEF UpdateGroup, Handled, ExactPc, Mem
  <2>2. /\ v \in SoundValue /\ Advances(Mem(t).value, v)
        /\ WellKept(v, group_json, artifacts)
        /\ v.replaced = Mem(t).value.replaced /\ v.replaced \in Group
        /\ v.publication_pending = Mem(t).value.publication_pending
        /\ ~Mem(t).value.publication_pending
    <3>1. /\ Mem(t).version + 1 \in Nat /\ Mem(t).value \in SoundValue
          /\ Mem(t).value \in GroupValue
      BY <1>0, InHand
    <3>2. /\ v.replaced = Mem(t).value.replaced
          /\ v.publication_pending = Mem(t).value.publication_pending
      BY <3>1 DEF GroupValue
    <3>3. Mem(t).value.replaced \in Group /\ ~Mem(t).value.publication_pending
      BY <1>1, <3>1 DEF ClaimableCleanup, CleanupReady, SoundValue
    <3> QED BY <1>0, <3>1, <3>2, <3>3, InHand, EditsKeep, EditsAreSound
  <2>3. ~ActiveClaim(g, Saved(g)) /\ ~Saved(g).publication_pending
    BY <1>1, <2>1, <2>2 DEF ClaimableCleanup, Saved
  <2>4. Visible(Bumped(Mem(t), v)) = Visible(group_json[g])
    <3>1. [v EXCEPT !.claim = 0, !.publication_pending = FALSE]
            = [Mem(t).value EXCEPT !.claim = 0, !.publication_pending = FALSE]
      BY <1>0, InHand DEF GroupValue
    <3> QED BY <2>1, <3>1 DEF Visible, Bumped
  <2>5. /\ n.pc = "lock" /\ n.mem = Bumped(Mem(t), v) /\ n.group = g
        /\ n.snap = thread[t].snap /\ n.victim = NoGroup
    BY <1>0, InHand, NoVictim DEF SoundState
  <2>6. thread' = [thread EXCEPT ![t] = n] /\ thread'[t] = n
    BY <1>1 DEF Enter, SInv, IInv, ThreadsGood
  <2> HIDE DEF n, v
  <2>7. /\ WorldStep /\ ClaimKept
        /\ group_json'[g] = Bumped(Mem(t), v)
        /\ Bumped(Mem(t), v) \in Live
        /\ WellKept(v, group_json', artifacts')
    BY <1>0, <1>1, <2>2, <2>3, <2>4, SaveWorld
  <2>8. MemSafe(n, group_json', artifacts')
    BY <2>5, <2>7, FreshMem DEF Bumped
  <2>9. \A h \in Group : KnownOf(n, h) \subseteq KnownOf(thread[t], h)
    BY <2>5 DEF KnownOf
  <2>10. RecordsSafe(n, group_json', summaries', tombstones', artifacts')
    BY <2>5, <2>7, <2>9, SafeNext DEF ThreadSafe, RecordsSafe
  <2>11. /\ PublicationSafe(n, group_json', summaries', tombstones')
         /\ DeletionSafe(n, group_json', artifacts') /\ ~Cleaning(n)
    BY <2>2, <2>5, <2>7 DEF PublicationSafe, DeletionSafe, Cleaning, DelPc, Bumped
  <2>12. ThreadSafe(n, group_json', summaries', tombstones', artifacts')
    BY <2>5, <2>8, <2>10, <2>11 DEF ThreadSafe
  <2> QED BY <2>6, <2>7, <2>9, <2>11, <2>12 DEF ThreadStepSafe, ThreadGoes, OnlyThread
<1>2. CASE Finish(t) /\ UNCHANGED group_json
  <2>1. WorldStep /\ ClaimKept
    BY <1>0, <1>2, StillWorld DEF storeVars
  <2> QED BY <1>2, <2>1, FinishIsSafe DEF ThreadStepSafe
<1> QED BY <1>1, <1>2 DEF ClaimCleanup

LEMMA LockTimeoutIsSafe ==
  ASSUME SInv, IInv', NEW t \in Thread, LockTimeout(t)
  PROVE  ThreadStepSafe(t)
<1> DEFINE n == [thread[t] EXCEPT !.pc = "unclaim"]
<1>0. thread[t].pc = "lock" /\ thread[t].pc \notin RestPc /\ thread[t].pc \notin DelPc
  BY DEF LockTimeout, At, RestPc, DelPc
<1>1. WorldStep /\ ClaimKept
  BY StillWorld DEF LockTimeout, diskVars
<1>2. /\ thread' = [thread EXCEPT ![t] = n]
      /\ n.pc = "unclaim" /\ n.mem = thread[t].mem /\ n.group = thread[t].group
      /\ n.snap = thread[t].snap /\ n.victim = NoGroup
  BY <1>0, InHand, NoVictim DEF LockTimeout, Goto, Enter, SoundState
<1> HIDE DEF n
<1>3. ThreadGoes(t)
  BY <1>0, <1>1, <1>2, GotoIsSafe DEF QuietPc, ExactPc
<1> QED BY <1>1, <1>3 DEF ThreadStepSafe

\* The file is taken in hand, edited and without the own claim.
LEMMA ReleaseIsSafe ==
  ASSUME SInv, IInv', NEW t \in Thread, UNCHANGED <<storeVars, artifacts, receipts>>,
         thread[t].pc \notin RestPc, thread[t].pc \notin DelPc,
         group_json[Subject(t)] # Missing, NEW edit \in SoundValue,
         Advances(group_json[Subject(t)].value, edit),
         edit.claim = group_json[Subject(t)].value.claim,
         WellKept(edit, group_json, artifacts),
         NEW pc \in {"save", "persist"},
         pc = "persist" => edit = group_json[Subject(t)].value,
         GotoWith(t, pc, [group_json[Subject(t)] EXCEPT !.value = Released(t, edit)])
  PROVE  ThreadStepSafe(t)
<1> DEFINE rec == [group_json[Subject(t)] EXCEPT !.value = Released(t, edit)]
           n == [thread[t] EXCEPT !.pc = pc, !.mem = rec]
<1>1. WorldStep /\ ClaimKept /\ group_json' = group_json /\ artifacts' = artifacts
  BY StillWorld DEF storeVars
<1>2. /\ thread' = [thread EXCEPT ![t] = n]
      /\ n.pc = pc /\ n.mem = rec /\ n.group = Subject(t) /\ n.token = thread[t].token
      /\ n.snap = thread[t].snap /\ n.victim = NoGroup
  BY InHand, NoVictim DEF GotoWith, Enter, SoundState
<1>3. group_json[Subject(t)] \in Live
  BY InHand, StoreTypes DEF SInv, IInv
<1> HIDE DEF n
<1>4. MemSafe(n, group_json', artifacts')
  <2>1. /\ n.mem = [group_json[n.group] EXCEPT !.value = Released(t, edit)]
        /\ group_json[n.group] \in Live
        /\ Advances(group_json[n.group].value, edit)
        /\ edit.claim = group_json[n.group].value.claim
        /\ n.pc \in {"save", "persist"}
        /\ n.pc = "persist" => edit = group_json[n.group].value
    BY <1>2, <1>3
  <2>2. MemSafe(n, group_json, artifacts)
    BY <1>2, <2>1, ReleasedMem
  <2> QED BY <1>1, <2>2
<1>5. ThreadGoes(t)
  BY <1>1, <1>2, <1>4, EnterIsSafe DEF QuietPc
<1> QED BY <1>1, <1>5 DEF ThreadStepSafe

LEMMA OnDiskIsWell ==
  ASSUME SInv, NEW g \in Group, group_json[g] # Missing
  PROVE  /\ group_json[g] \in Live
         /\ group_json[g].value \in SoundValue
         /\ WellKept(group_json[g].value, group_json, artifacts)
         /\ Advances(group_json[g].value, group_json[g].value)
BY StoreTypes, AdvancesRefl DEF SInv, IInv, DiskSafe, Exists, Saved

LEMMA ReloadClaimIsSafe ==
  ASSUME SInv, IInv', NEW t \in Thread, ReloadClaim(t)
  PROVE  ThreadStepSafe(t)
<1> DEFINE rec == group_json[Subject(t)]
<1>0. /\ thread[t].pc \notin RestPc /\ thread[t].pc \notin DelPc /\ Subject(t) \in Group
      /\ UNCHANGED <<storeVars, artifacts, receipts>>
  BY InHand DEF ReloadClaim, At, RestPc, DelPc, diskVars
<1>1. CASE Finish(t)
  BY <1>0, <1>1, StillWorld, FinishIsSafe DEF ThreadStepSafe
<1>2. CASE /\ OwnClaim(t, rec)
           /\ GotoWith(t, "persist", [rec EXCEPT !.value = Released(t, rec.value)])
  BY <1>0, <1>2, OnDiskIsWell, ReleaseIsSafe DEF OwnClaim
<1> QED BY <1>1, <1>2 DEF ReloadClaim

\* A thread that is through with a group is somewhere else.
LEMMA FinishMoves ==
  ASSUME SInv, NEW t \in Thread, thread[t].pc = "persist", Finish(t)
  PROVE  thread'[t] # thread[t]
<1> DEFINE s == thread[t]
           left == {g \in Group : s.snap[g] # Missing}
<1>1. thread'[t] = NextOf(s, Resting(t))
  BY DEF Finish, SInv, IInv, ThreadsGood
<1>2. CASE left = {}
  BY <1>1, <1>2 DEF NextOf, Parked, Resting
<1>3. CASE left # {}
  <2>1. s.task \in PassTask
    BY <1>3 DEF SInv, IInv, ThreadsGood, ThreadGood
  <2>2. NextOf(s, Resting(t)).pc = FirstPc[s.task]
    BY <1>3 DEF NextOf, Parked
  <2> QED BY <1>1, <2>1, <2>2 DEF FirstPc, PassTask
<1> QED BY <1>2, <1>3

LEMMA PersistReleaseIsSafe ==
  ASSUME SInv, IInv', NEW t \in Thread, PersistRelease(t)
  PROVE  ThreadStepSafe(t)
<1> DEFINE g == Subject(t)
           v == Mem(t).value
<1>0. /\ thread[t].pc = "persist" /\ thread[t].pc \notin RestPc
      /\ UNCHANGED <<summaries, tombstones, artifacts, receipts>> /\ Finish(t)
  BY DEF PersistRelease, At, RestPc, diskVars
<1>1. CASE UpdateGroup(g, Mem(t), v)
  <2>1. Handled(thread[t], group_json[g])
    BY <1>0, <1>1, CurrentInHand DEF UpdateGroup
  <2>2. /\ v.publication_pending = Saved(g).publication_pending
        /\ Visible(Mem(t)) = Visible(group_json[g])
        /\ v.claim = Saved(g).claim \/ Saved(g).claim = thread[t].token
    BY <1>0, <2>1 DEF Handled, Mem, Saved
  <2>3. v \in SoundValue /\ Advances(v, v) /\ WellKept(v, group_json, artifacts)
    BY <1>0, InHand, AdvancesRefl
  <2>4. Visible(Bumped(Mem(t), v)) = Visible(group_json[g])
    BY <2>2 DEF Visible, Bumped
  <2>5. thread'[t] # thread[t]
    BY <1>0, FinishMoves
  <2>6. v.publication_pending \/ ~Saved(g).publication_pending
    BY <2>2
  <2> HIDE DEF v
  <2>7. /\ \/ v.publication_pending
           \/ /\ Visible(Bumped(Mem(t), v)) = Visible(group_json[Subject(t)])
              /\ ~Saved(Subject(t)).publication_pending
        /\ \/ v.claim = Saved(Subject(t)).claim
           \/ Saved(Subject(t)).claim = thread[t].token /\ thread'[t] # thread[t]
    BY <2>2, <2>4, <2>5, <2>6
  <2>8. Advances(Mem(t).value, v)
    BY <2>3 DEF v
  <2>9. WorldStep /\ ClaimKept
    BY <1>0, <1>1, <2>3, <2>7, <2>8, SaveWorld
  <2> QED BY <1>0, <2>9, FinishIsSafe DEF ThreadStepSafe
<1>2. CASE UNCHANGED group_json
  <2>1. WorldStep /\ ClaimKept
    BY <1>0, <1>2, StillWorld DEF storeVars
  <2> QED BY <1>0, <2>1, FinishIsSafe DEF ThreadStepSafe
<1> QED BY <1>1, <1>2 DEF PersistRelease

\* What is abreast of an archived and settled group shows it like that.
LEMMA AbreastIsDone ==
  ASSUME NEW a, NEW b \in Live, Visible(a) = Visible(b), Done(b.value)
  PROVE  Done(a.value)
<1> DEFINE x == a.value
           y == b.value
<1>1. y \in GroupValue
  BY LiveFields DEF SoundValue
<1>2. [x EXCEPT !.claim = 0, !.publication_pending = FALSE]
        = [y EXCEPT !.claim = 0, !.publication_pending = FALSE]
  BY DEF Visible
<1>3. /\ DOMAIN y = DOMAIN x
      /\ "workflow" \in DOMAIN y /\ "settled" \in DOMAIN y
  BY <1>1, <1>2 DEF GroupValue
<1>4. x.workflow = y.workflow /\ x.settled = y.settled
  BY <1>1, <1>2, <1>3
<1> QED BY <1>4 DEF Done

\* A group that is due for its cleanup lasts.
LEMMA DueLasts ==
  ASSUME SInv, NEW g \in Group, group_json[g] # Missing, CleanupReady(group_json[g].value)
  PROVE  Lasting(g, group_json, summaries, tombstones, thread)
<1> SUFFICES ASSUME g \notin tombstones
             PROVE  /\ Done(group_json[g].value)
                    /\ Done(summaries[g].value)
                    /\ \A u \in Thread : \A rec \in KnownOf(thread[u], g) :
                         summaries[g].version <= rec.version => Done(rec.value)
  BY DEF Lasting
<1>1. /\ Done(group_json[g].value) /\ group_json[g] \in Live
      /\ ~group_json[g].value.publication_pending
      /\ summaries[g].version \in Nat
  BY StoreTypes DEF Done, CleanupReady, SInv, IInv
<1>2. ASSUME NEW rec, Abreast(g, rec, group_json, summaries, tombstones),
             summaries[g].version <= rec.version
      PROVE  Done(rec.value)
  BY <1>1, <1>2, AbreastIsDone DEF Abreast
<1>3. Done(summaries[g].value)
  BY <1>1, <1>2 DEF SInv, DiskSafe
<1>4. \A u \in Thread : \A rec \in KnownOf(thread[u], g) :
        Abreast(g, rec, group_json, summaries, tombstones)
  BY DEF SInv, ThreadsSafe, ThreadSafe, RecordsSafe
<1> QED BY <1>1, <1>2, <1>3, <1>4

\* A thread goes on with a deletion, or with the end of one.
LEMMA DeletionGoes ==
  ASSUME SInv, IInv', WorldStep, NEW t \in Thread, NEW n,
         thread' = [thread EXCEPT ![t] = n], n.snap = thread[t].snap,
         n.pc \in DelPc \cup {"receipt", "completed"},
         MemSafe(n, group_json', artifacts'), DeletionSafe(n, group_json', artifacts'),
         Cleaning(n) => Lasting(n.group, group_json, summaries, tombstones, thread)
  PROVE  ThreadGoes(t)
<1>1. thread'[t] = n
  BY DEF SInv, IInv, ThreadsGood
<1>2. \A g \in Group : KnownOf(n, g) \subseteq KnownOf(thread[t], g)
  BY DEF KnownOf, DelPc
<1>3. RecordsSafe(n, group_json', summaries', tombstones', artifacts')
  BY <1>2, SafeNext DEF ThreadSafe, RecordsSafe
<1>4. PublicationSafe(n, group_json', summaries', tombstones')
  BY DEF PublicationSafe, DelPc
<1>5. ThreadSafe(n, group_json', summaries', tombstones', artifacts')
  BY <1>3, <1>4 DEF ThreadSafe, DelPc
<1> QED BY <1>1, <1>2, <1>5 DEF ThreadGoes, OnlyThread

LEMMA TakeOperationLockIsSafe ==
  ASSUME SInv, IInv', NEW t \in Thread, TakeOperationLock(t)
  PROVE  ThreadStepSafe(t)
<1> DEFINE rec == group_json[Subject(t)]
           p == Mem(t).value.replaced
           n == [thread[t] EXCEPT !.pc = IF p \in receipts THEN "completed" ELSE "delSummary",
                                  !.victim = IF p \in receipts THEN NoGroup ELSE p]
<1>0. /\ thread[t].pc = "lock" /\ thread[t].pc \notin RestPc /\ thread[t].pc \notin DelPc
      /\ Subject(t) \in Group
      /\ UNCHANGED <<storeVars, artifacts, receipts>>
  BY InHand DEF TakeOperationLock, At, RestPc, DelPc, diskVars
<1>1. WorldStep /\ ClaimKept /\ group_json' = group_json /\ artifacts' = artifacts
  BY <1>0, StillWorld DEF storeVars
<1>2. CASE Finish(t)
  BY <1>1, <1>2, FinishIsSafe DEF ThreadStepSafe
<1>3. CASE /\ OwnClaim(t, rec)
           /\ GotoWith(t, "persist", [rec EXCEPT !.value = Released(t, rec.value)])
  BY <1>0, <1>3, OnDiskIsWell, ReleaseIsSafe DEF OwnClaim
<1>4. CASE /\ OwnClaim(t, rec) /\ CleanupReady(rec.value)
           /\ thread' = [thread EXCEPT
                           ![t].pc = IF p \in receipts THEN "completed" ELSE "delSummary",
                           ![t].victim = IF p \in receipts THEN NoGroup ELSE p]
  <2>1. thread' = [thread EXCEPT ![t] = n]
    BY <1>4 DEF SInv, IInv, ThreadsGood
  <2>2. /\ n.pc = IF p \in receipts THEN "completed" ELSE "delSummary"
        /\ n.victim = IF p \in receipts THEN NoGroup ELSE p
        /\ n.mem = thread[t].mem /\ n.group = Subject(t) /\ n.snap = thread[t].snap
        /\ n.task = thread[t].task
    BY <1>0, InHand DEF SoundState
  <2> HIDE DEF n
  <2>3. MemSafe(n, group_json', artifacts')
    BY <1>0, <1>1, <2>2, InHand, MovedMem DEF ExactPc
  <2>4. DeletionSafe(n, group_json', artifacts')
    <3>1. p \in Group /\ (rec # Missing => rec.value.replaced = p)
      BY <1>0, InHand DEF ThreadSafe, DeletionSafe, Mem, Subject
    <3>2. p \in receipts => Gone(p, group_json, artifacts)
      BY <3>1 DEF SInv, DiskSafe
    <3> QED BY <1>1, <2>2, <3>1, <3>2 DEF DeletionSafe, DelPc, Mem, Cleaning
  <2>5. Lasting(Subject(t), group_json, summaries, tombstones, thread)
    BY <1>0, <1>4, DueLasts DEF OwnClaim
  <2>6. ThreadGoes(t)
    BY <1>1, <2>1, <2>2, <2>3, <2>4, <2>5, DeletionGoes DEF DelPc
  <2> QED BY <1>1, <2>6 DEF ThreadStepSafe
<1> QED BY <1>2, <1>3, <1>4 DEF TakeOperationLock

LEMMA RecordDeletionIsSafe ==
  ASSUME SInv, IInv', NEW t \in Thread, RecordDeletion(t)
  PROVE  ThreadStepSafe(t)
<1> DEFINE n == [thread[t] EXCEPT !.pc = "completed"]
<1>0. /\ thread[t].pc = "receipt" /\ thread[t].pc \notin RestPc /\ thread[t].pc \notin DelPc
      /\ UNCHANGED <<storeVars, artifacts>> /\ group_json' = group_json
  BY DEF RecordDeletion, At, RestPc, DelPc, storeVars
<1>1. DeletionSafe(thread[t], group_json, artifacts)
  BY <1>0, InHand DEF ThreadSafe
<1>2. WorldStep /\ ClaimKept
  <2>1. Gone(Mem(t).value.replaced, group_json, artifacts)
    BY <1>0, <1>1 DEF DeletionSafe, Mem
  <2>2. \A g \in receipts' : Gone(g, group_json, artifacts)
    BY <2>1 DEF RecordDeletion, SInv, IInv, OthersOK, DiskSafe
  <2> QED BY <1>0, <2>2, QuietWorld
<1>3. /\ thread' = [thread EXCEPT ![t] = n]
      /\ n.pc = "completed" /\ n.mem = thread[t].mem /\ n.group = thread[t].group
      /\ n.snap = thread[t].snap /\ n.victim = NoGroup
  BY <1>0, InHand, NoVictim DEF RecordDeletion, Goto, Enter, SoundState
<1> HIDE DEF n
<1>4. MemSafe(n, group_json', artifacts')
  <2>1. MemSafe(thread[t], group_json', artifacts')
    BY <1>0, <1>2, SafeNext DEF ThreadSafe
  <2> QED BY <1>0, <1>3, <2>1, MovedMem DEF ExactPc
<1>5. DeletionSafe(n, group_json', artifacts')
  BY <1>0, <1>1, <1>3 DEF DeletionSafe, Cleaning, DelPc
<1>6. ThreadGoes(t)
  BY <1>2, <1>3, <1>4, <1>5, DeletionGoes DEF Cleaning, DelPc
<1> QED BY <1>2, <1>6 DEF ThreadStepSafe

\* The end of a cleanup writes the file without the own claim, if there is one.
LEMMA ReloadAndWriteIsSafe ==
  ASSUME SInv, IInv', NEW t \in Thread, UNCHANGED <<storeVars, artifacts, receipts>>,
         thread[t].pc \notin RestPc, thread[t].pc \notin DelPc,
         NEW edit, ReloadAndWrite(t, edit),
         group_json[Subject(t)] # Missing =>
           /\ edit \in SoundValue
           /\ Advances(group_json[Subject(t)].value, edit)
           /\ edit.claim = group_json[Subject(t)].value.claim
           /\ WellKept(edit, group_json, artifacts)
  PROVE  ThreadStepSafe(t)
<1>1. CASE group_json[Subject(t)] = Missing
  BY <1>1, StillWorld, RaiseIsSafe DEF ReloadAndWrite, ThreadStepSafe
<1>2. CASE group_json[Subject(t)] # Missing
  <2>1. GotoWith(t, "save", [group_json[Subject(t)] EXCEPT !.value = Released(t, edit)])
    BY <1>2 DEF ReloadAndWrite
  <2>2. /\ edit \in SoundValue
        /\ Advances(group_json[Subject(t)].value, edit)
        /\ edit.claim = group_json[Subject(t)].value.claim
        /\ WellKept(edit, group_json, artifacts)
    BY <1>2
  <2> QED BY <1>2, <2>1, <2>2, ReleaseIsSafe
<1> QED BY <1>1, <1>2

LEMMA ReportCleanupFailureIsSafe ==
  ASSUME SInv, IInv', NEW t \in Thread, ReportCleanupFailure(t)
  PROVE  ThreadStepSafe(t)
<1>1. /\ thread[t].pc \notin RestPc /\ thread[t].pc \notin DelPc /\ Subject(t) \in Group
      /\ UNCHANGED <<storeVars, artifacts, receipts>>
      /\ ReloadAndWrite(t, group_json[Subject(t)].value)
  BY InHand DEF ReportCleanupFailure, At, RestPc, DelPc, diskVars
<1> QED BY <1>1, OnDiskIsWell, ReloadAndWriteIsSafe

\* The cleanup that is recorded as finished is finished.
LEMMA CompleteCleanupIsSafe ==
  ASSUME SInv, IInv', NEW t \in Thread, CompleteCleanup(t)
  PROVE  ThreadStepSafe(t)
<1> DEFINE v == group_json[Subject(t)].value
           edit == [v EXCEPT !.pending_delete = FALSE]
<1>1. /\ thread[t].pc = "completed" /\ thread[t].pc \notin RestPc /\ thread[t].pc \notin DelPc
      /\ Subject(t) \in Group
      /\ UNCHANGED <<storeVars, artifacts, receipts>>
      /\ ReloadAndWrite(t, edit)
  BY InHand DEF CompleteCleanup, At, RestPc, DelPc, diskVars
<1>2. ASSUME group_json[Subject(t)] # Missing
      PROVE  /\ edit \in SoundValue /\ Advances(v, edit)
             /\ WellKept(edit, group_json, artifacts) /\ edit.claim = v.claim
  <2>1. Gone(v.replaced, group_json, artifacts)
    BY <1>1, <1>2, InHand DEF ThreadSafe, DeletionSafe, Subject
  <2>2. edit \in SoundValue /\ Advances(v, edit) /\ WellKept(edit, group_json, artifacts)
    BY <1>1, <1>2, <2>1, OnDiskIsWell, FinishingKeeps
  <2>3. edit.claim = v.claim
    BY <1>1, <1>2, OnDiskIsWell DEF SoundValue, GroupValue
  <2> QED BY <2>2, <2>3
<1> HIDE DEF edit
<1> QED BY <1>1, <1>2, ReloadAndWriteIsSafe

-------------------------------------------------------------------------------
(* The deletion of a group: summary, jobs, group.                           *)

\* The victim and the successor of a deletion under way.
LEMMA Deleting ==
  ASSUME SInv, NEW t \in Thread, thread[t].pc \in DelPc
  PROVE  /\ thread[t].pc \notin RestPc /\ thread[t].pc \notin {"save", "persist"}
         /\ thread[t].pc \notin ExactPc
         /\ Victim(t) \in Group /\ Victim(t) = thread[t].victim
         /\ thread[t].pc \in {"delJobs", "delGroup"} => Victim(t) \in tombstones
         /\ MemSafe(thread[t], group_json, artifacts)
         /\ DeletionSafe(thread[t], group_json, artifacts)
         /\ Cleaning(thread[t])
              => Lasting(thread[t].group, group_json, summaries, tombstones, thread)
<1>1. thread[t].pc \notin RestPc
  BY DEF DelPc, RestPc
<1> QED BY <1>1, InHand DEF DelPc, ExactPc, Victim, ThreadGood, ThreadSafe, SInv, CleanersLast

LEMMA DeleteVictimSummaryIsSafe ==
  ASSUME SInv, IInv', NEW t \in Thread, DeleteVictimSummary(t)
  PROVE  ThreadStepSafe(t)
<1> DEFINE n == [thread[t] EXCEPT !.pc = "delJobs"]
<1>0. /\ thread[t].pc = "delSummary" /\ thread[t].pc \in DelPc
      /\ UNCHANGED <<group_json, artifacts, receipts>> /\ DeleteSummary(Victim(t))
  BY DEF DeleteVictimSummary, At, DelPc, diskVars
<1>1. WorldStep /\ ClaimKept
  <2>1. \A g \in Group : FileStep(g) /\ SummaryStep(g)
    BY <1>0, Deleting DEF FileStep, SummaryStep, DeleteSummary, SInv, IInv, StoreInv
  <2>2. \A g \in receipts' : Gone(g, group_json', artifacts')
    BY <1>0 DEF SInv, IInv, OthersOK, DiskSafe
  <2> QED BY <1>0, <2>1, <2>2 DEF WorldStep, DeleteSummary, ClaimKept, Saved
<1>2. /\ thread' = [thread EXCEPT ![t] = n]
      /\ n.pc = "delJobs" /\ n.mem = thread[t].mem /\ n.group = thread[t].group
      /\ n.snap = thread[t].snap /\ n.victim = thread[t].victim /\ n.task = thread[t].task
  BY <1>0, Deleting, InHand DEF DeleteVictimSummary, Goto, Enter, SoundState
<1> HIDE DEF n
<1>3. MemSafe(n, group_json', artifacts')
  BY <1>0, <1>2, Deleting, MovedMem DEF ExactPc
<1>4. DeletionSafe(n, group_json', artifacts') /\ (Cleaning(n) <=> Cleaning(thread[t]))
  BY <1>0, <1>2, Deleting DEF DeletionSafe, Cleaning, DelPc
<1>5. ThreadGoes(t)
  BY <1>0, <1>1, <1>2, <1>3, <1>4, Deleting, DeletionGoes DEF DelPc
<1> QED BY <1>1, <1>5 DEF ThreadStepSafe

LEMMA DeleteVictimJobsIsSafe ==
  ASSUME SInv, IInv', NEW t \in Thread, DeleteVictimJobs(t)
  PROVE  ThreadStepSafe(t)
<1> DEFINE n == [thread[t] EXCEPT !.pc = "delGroup"]
<1>0. /\ thread[t].pc = "delJobs" /\ thread[t].pc \in DelPc
      /\ UNCHANGED storeVars /\ group_json' = group_json
      /\ receipts' = receipts /\ artifacts' = artifacts \ {Victim(t)}
  BY DEF DeleteVictimJobs, At, DelPc, storeVars
<1>1. WorldStep /\ ClaimKept
  <2>1. \A g \in receipts' : Gone(g, group_json, artifacts)
    BY <1>0 DEF SInv, IInv, OthersOK, DiskSafe
  <2> QED BY <1>0, <2>1, QuietWorld
<1>2. /\ thread' = [thread EXCEPT ![t] = n]
      /\ n.pc = "delGroup" /\ n.mem = thread[t].mem /\ n.group = thread[t].group
      /\ n.snap = thread[t].snap /\ n.victim = thread[t].victim /\ n.task = thread[t].task
  BY <1>0, Deleting, InHand DEF DeleteVictimJobs, Goto, Enter, SoundState
<1> HIDE DEF n
<1>3. MemSafe(n, group_json', artifacts')
  <2>1. MemSafe(thread[t], group_json', artifacts')
    BY <1>0, <1>1, Deleting, SafeNext DEF ThreadSafe
  <2> QED BY <1>0, <1>2, <2>1, Deleting, MovedMem DEF ExactPc
<1>4. DeletionSafe(n, group_json', artifacts') /\ (Cleaning(n) <=> Cleaning(thread[t]))
  BY <1>0, <1>2, Deleting DEF DeletionSafe, Cleaning, DelPc
<1>5. ThreadGoes(t)
  BY <1>0, <1>1, <1>2, <1>3, <1>4, Deleting, DeletionGoes DEF DelPc
<1> QED BY <1>1, <1>5 DEF ThreadStepSafe

\* What is left of the victim of a deletion goes with its file.
LEMMA DeleteVictimIsSafe ==
  ASSUME SInv, IInv', NEW t \in Thread, DeleteVictim(t)
  PROVE  ThreadStepSafe(t)
<1> DEFINE pc == IF thread[t].task = "submit" THEN "save" ELSE "receipt"
           n == [thread[t] EXCEPT !.pc = pc, !.victim = NoGroup]
<1>0. /\ thread[t].pc = "delGroup" /\ thread[t].pc \in DelPc
      /\ UNCHANGED <<summaries, tombstones, artifacts, receipts>> /\ DeleteGroup(Victim(t))
  BY DEF DeleteVictim, At, DelPc, diskVars
<1>1. /\ Victim(t) \in Group
      /\ \A g \in Group :
           group_json'[g] = IF g = Victim(t) THEN Missing ELSE group_json[g]
  BY <1>0, Deleting DEF DeleteGroup, SInv, IInv, StoreInv
<1>2. WorldStep /\ ClaimKept
  <2>1. \A g \in Group : FileStep(g) /\ SummaryStep(g)
    BY <1>0, <1>1 DEF FileStep, SummaryStep
  <2>2. \A g \in receipts' : Gone(g, group_json', artifacts')
    BY <1>0, <1>1 DEF SInv, IInv, OthersOK, DiskSafe, Gone
  <2>3. ClaimKept
    BY <1>1 DEF ClaimKept, Saved
  <2> QED BY <1>0, <2>1, <2>2, <2>3 DEF WorldStep
<1>3. CASE Raise(t)
  BY <1>2, <1>3, RaiseIsSafe DEF ThreadStepSafe
<1>4. CASE Enter(t, n)
  <2>1. /\ thread' = [thread EXCEPT ![t] = n]
        /\ n.pc = pc /\ n.mem = thread[t].mem /\ n.group = thread[t].group
        /\ n.snap = thread[t].snap /\ n.victim = NoGroup /\ n.task = thread[t].task
    BY <1>0, <1>4, Deleting, InHand DEF Enter, SoundState
  <2> HIDE DEF n
  <2>2. /\ MemSafe(thread[t], group_json', artifacts')
        /\ DeletionSafe(thread[t], group_json', artifacts')
    BY <1>0, <1>2, Deleting, SafeNext DEF ThreadSafe
  <2>3. MemSafe(n, group_json', artifacts')
    BY <1>0, <2>1, <2>2, Deleting, MovedMem DEF ExactPc
  <2>4. CASE thread[t].task = "submit"
    <3>1. ThreadGoes(t)
      BY <1>2, <2>1, <2>3, <2>4, EnterIsSafe DEF QuietPc
    <3> QED BY <1>2, <3>1 DEF ThreadStepSafe
  <2>5. CASE thread[t].task # "submit"
    <3>1. n.pc = "receipt" /\ Cleaning(thread[t])
      BY <1>0, <2>1, <2>5 DEF Cleaning
    <3>2. Gone(thread[t].mem.value.replaced, group_json', artifacts')
      BY <1>0, <1>1, <3>1, Deleting DEF DeletionSafe, Gone
    <3>3. DeletionSafe(n, group_json', artifacts') /\ ~Cleaning(n)
      BY <2>1, <2>2, <3>1, <3>2 DEF DeletionSafe, Cleaning, DelPc
    <3>4. ThreadGoes(t)
      BY <1>2, <2>1, <2>3, <3>1, <3>3, DeletionGoes DEF DelPc
    <3> QED BY <1>2, <3>4 DEF ThreadStepSafe
  <2> QED BY <2>4, <2>5
<1> QED BY <1>3, <1>4 DEF DeleteVictim

LEMMA DeletionFailsIsSafe ==
  ASSUME SInv, IInv', NEW t \in Thread, DeletionFails(t)
  PROVE  ThreadStepSafe(t)
<1> DEFINE n == [thread[t] EXCEPT !.pc = "failed", !.victim = NoGroup]
<1>0. /\ thread[t].pc \notin RestPc /\ thread[t].pc \notin {"save", "persist"}
      /\ thread[t].pc \notin ExactPc
      /\ UNCHANGED <<storeVars, artifacts, receipts>>
  BY DEF DeletionFails, RestPc, ExactPc, diskVars
<1>1. WorldStep /\ ClaimKept
  BY <1>0, StillWorld
<1>2. CASE Raise(t)
  BY <1>1, <1>2, RaiseIsSafe DEF ThreadStepSafe
<1>3. CASE Enter(t, n)
  <2>1. /\ thread' = [thread EXCEPT ![t] = n]
        /\ n.pc = "failed" /\ n.mem = thread[t].mem /\ n.group = thread[t].group
        /\ n.snap = thread[t].snap /\ n.victim = NoGroup
    BY <1>0, <1>3, InHand DEF Enter, SoundState
  <2> HIDE DEF n
  <2>2. ThreadGoes(t)
    BY <1>0, <1>1, <2>1, GotoIsSafe DEF QuietPc, ExactPc
  <2> QED BY <1>1, <2>2 DEF ThreadStepSafe
<1> QED BY <1>2, <1>3 DEF DeletionFails

\* A submission takes its group into review, perhaps after deleting a rival.
LEMMA GuardSubmissionIsSafe ==
  ASSUME SInv, IInv', NEW t \in Thread, NEW overwrite \in BOOLEAN, NEW cancel \in BOOLEAN,
         GuardSubmission(t, overwrite, cancel)
  PROVE  ThreadStepSafe(t)
<1> DEFINE g == Subject(t)
           blocked == archive_dir.exists /\ ~overwrite
           p == IF archive_dir.exists THEN NewestOf(ArchivedRivals(g)) ELSE NoGroup
           started == [Mem(t) EXCEPT !.value = Started(@, p)]
           victim == NewestOf(RivalsInProgress(g))
           then == IF blocked THEN "reject" ELSE "end"
           saving == [thread[t] EXCEPT !.pc = "save", !.mem = started]
           deleting == [thread[t] EXCEPT !.pc = "delSummary", !.victim = victim,
                                         !.mem = started, !.then = then]
<1>0. /\ thread[t].pc = "inspect" /\ thread[t].pc \notin RestPc /\ thread[t].pc \notin DelPc
      /\ thread[t].pc \notin {"save", "persist"}
      /\ UNCHANGED <<storeVars, artifacts, receipts>>
  BY DEF GuardSubmission, At, RestPc, DelPc, diskVars
<1>1. thread[t].task = "submit" /\ Mem(t).value.workflow = "draft"
  BY <1>0, InHand DEF ThreadGood, ThreadSafe
<1>2. WorldStep /\ ClaimKept /\ group_json' = group_json /\ artifacts' = artifacts
  BY <1>0, StillWorld DEF storeVars
<1>3. /\ started.version = Mem(t).version
      /\ started.value \in SoundValue
      /\ Advances(Mem(t).value, started.value)
      /\ started.value.claim = Mem(t).value.claim
      /\ WellKept(started.value, group_json, artifacts)
  <2>1. p \in Group \cup {NoGroup}
    <3>1. ArchivedRivals(g) \in SUBSET Group
      BY DEF ArchivedRivals, Rivals
    <3> QED BY <3>1, NewestIsMember
  <2> HIDE DEF p
  <2>2. /\ Mem(t) \in Live /\ Mem(t).value \in SoundValue /\ Mem(t).value \in GroupValue
        /\ WellKept(Mem(t).value, group_json, artifacts)
    BY <1>0, InHand
  <2>3. started.version = Mem(t).version /\ started.value = Started(Mem(t).value, p)
    BY <2>2 DEF Live
  <2>4. Started(Mem(t).value, p) \in SoundValue
    BY <2>1, <2>2, StartIsSound
  <2>5. /\ WellKept(Started(Mem(t).value, p), group_json, artifacts)
        /\ Advances(Mem(t).value, Started(Mem(t).value, p))
    BY <1>1, <2>1, <2>2, StartKeeps
  <2>6. Started(Mem(t).value, p).claim = Mem(t).value.claim
    BY <2>2 DEF Started, GroupValue
  <2> QED BY <2>3, <2>4, <2>5, <2>6
<1> HIDE DEF started
<1>4. ASSUME NEW n, n.group = thread[t].group, n.mem = started, n.pc \in {"save", "delSummary"}
      PROVE  MemSafe(n, group_json', artifacts')
  <2>1. group_json[thread[t].group] \in OnDisk
    BY <1>0, InHand, StoreTypes DEF SInv, IInv
  <2> QED BY <1>0, <1>2, <1>3, <1>4, <2>1, InHand, EditedMem DEF Mem, ExactPc
<1>5. CASE Raise(t)
  BY <1>2, <1>5, RaiseIsSafe DEF ThreadStepSafe
<1>6. CASE GotoWith(t, "save", started)
  <2>1. /\ thread' = [thread EXCEPT ![t] = saving]
        /\ saving.pc = "save" /\ saving.mem = started /\ saving.group = thread[t].group
        /\ saving.snap = thread[t].snap /\ saving.victim = NoGroup
    BY <1>0, <1>6, InHand, NoVictim DEF GotoWith, Enter, SoundState
  <2> HIDE DEF saving
  <2>2. ThreadGoes(t)
    BY <1>2, <1>4, <2>1, EnterIsSafe DEF QuietPc
  <2> QED BY <1>2, <2>2 DEF ThreadStepSafe
<1>7. CASE Enter(t, deleting)
  <2>1. /\ thread' = [thread EXCEPT ![t] = deleting]
        /\ deleting.pc = "delSummary" /\ deleting.mem = started
        /\ deleting.group = thread[t].group /\ deleting.task = "submit"
        /\ deleting.snap = thread[t].snap
    BY <1>0, <1>1, <1>7, InHand DEF Enter, SoundState
  <2> HIDE DEF deleting
  <2>2. MemSafe(deleting, group_json', artifacts')
    BY <1>4, <2>1
  <2>3. DeletionSafe(deleting, group_json', artifacts') /\ ~Cleaning(deleting)
    BY <2>1 DEF DeletionSafe, Cleaning, DelPc
  <2>4. ThreadGoes(t)
    BY <1>2, <2>1, <2>2, <2>3, DeletionGoes DEF DelPc
  <2> QED BY <1>2, <2>4 DEF ThreadStepSafe
<1> QED BY <1>5, <1>6, <1>7 DEF GuardSubmission, started

-------------------------------------------------------------------------------
(* Requests, passes, time and crashes.                                      *)

\* A new request has its group in hand as it is on disk, or an edit of that.
LEMMA StartRequestIsSafe ==
  ASSUME SInv, IInv', NEW t \in Thread, UNCHANGED <<storeVars, artifacts, receipts>>,
         NEW task, NEW g \in Group, NEW pc \in {"inspect", "save", "archive"}, NEW rec,
         StartRequest(t, task, g, pc, rec), group_json[g] # Missing,
         rec.version = group_json[g].version, rec.value \in SoundValue,
         Advances(group_json[g].value, rec.value),
         rec.value.claim = group_json[g].value.claim,
         WellKept(rec.value, group_json, artifacts),
         pc = "inspect" => rec = group_json[g] /\ rec.value.workflow = "draft"
  PROVE  ThreadStepSafe(t)
<1> DEFINE n == [Parked(pc) EXCEPT !.task = task, !.group = g, !.mem = rec]
<1>1. WorldStep /\ ClaimKept /\ group_json' = group_json /\ artifacts' = artifacts
  BY StillWorld DEF storeVars
<1>2. /\ thread' = [thread EXCEPT ![t] = n] /\ thread'[t] = n
      /\ n.pc = pc /\ n.mem = rec /\ n.group = g /\ n.snap = Nothing /\ n.victim = NoGroup
  BY DEF StartRequest, Enter, Parked, SInv, IInv, ThreadsGood
<1> HIDE DEF n
<1>3. \A h \in Group : n.snap[h] = Missing /\ KnownOf(n, h) = {}
  BY <1>2 DEF Nothing, KnownOf
<1>4. MemSafe(n, group_json', artifacts')
  <2>1. group_json[g].version \in Nat
    BY StoreTypes DEF SInv, IInv
  <2> QED BY <1>1, <1>2, <2>1 DEF MemSafe, Handled, ExactPc
<1>5. /\ RecordsSafe(n, group_json', summaries', tombstones', artifacts')
      /\ PublicationSafe(n, group_json', summaries', tombstones')
      /\ DeletionSafe(n, group_json', artifacts') /\ ~Cleaning(n)
  BY <1>2, <1>3 DEF RecordsSafe, PublicationSafe, DeletionSafe, Cleaning, DelPc
<1>6. ThreadSafe(n, group_json', summaries', tombstones', artifacts')
  BY <1>2, <1>4, <1>5 DEF ThreadSafe
<1> QED BY <1>1, <1>2, <1>3, <1>5, <1>6 DEF ThreadStepSafe, ThreadGoes, OnlyThread

\* A group whose file exists.
LEMMA ExistingFile ==
  ASSUME SInv, NEW g \in Group, Exists(g)
  PROVE  group_json[g] # Missing
BY LiveIsRecord DEF Exists

LEMMA SubmitIsSafe ==
  ASSUME SInv, IInv', NEW t \in Thread, NEW g \in Group, Submit(t, g)
  PROVE  ThreadStepSafe(t)
<1>1. /\ group_json[g] # Missing /\ group_json[g].value.workflow = "draft"
      /\ StartRequest(t, "submit", g, "inspect", group_json[g])
      /\ UNCHANGED <<storeVars, artifacts, receipts>>
  BY ExistingFile DEF Submit, ReadyToSubmit, Saved, diskVars
<1> QED BY <1>1, OnDiskIsWell, StartRequestIsSafe

LEMMA ApproveIsSafe ==
  ASSUME SInv, IInv', NEW t \in Thread, NEW g \in Group, Approve(t, g)
  PROVE  ThreadStepSafe(t)
<1> DEFINE v == [Saved(g) EXCEPT !.approvals = @ + 1]
           last == v.approvals = Nodes
           next == IF last THEN [v EXCEPT !.workflow = "three_review_approved"] ELSE v
           rec == [group_json[g] EXCEPT !.value = next]
           pc == IF last THEN "archive" ELSE "save"
<1>1. /\ group_json[g] # Missing /\ group_json[g] \in Live /\ Saved(g) \in SoundValue
      /\ Saved(g) \in GroupValue /\ Saved(g) = group_json[g].value
      /\ Saved(g).workflow = "in_review" /\ WellKept(Saved(g), group_json, artifacts)
  BY ExistingFile, OnDiskIsWell, ValueFields DEF Approve, Saved
<1>2. next \in SoundValue
  BY <1>1, ApprovalIsSound
<1>3. WellKept(next, group_json, artifacts) /\ Advances(Saved(g), next)
  BY <1>1, <1>2, ApprovalKeeps
<1>4. next.claim = Saved(g).claim
  BY <1>1 DEF GroupValue
<1>5. rec.version = group_json[g].version /\ rec.value = next
  BY <1>1 DEF Live
<1>6. /\ StartRequest(t, "approve", g, pc, rec) /\ UNCHANGED <<storeVars, artifacts, receipts>>
      /\ pc \in {"inspect", "save", "archive"} /\ pc # "inspect"
  BY DEF Approve, diskVars
<1> HIDE DEF next, rec, pc
<1> QED BY <1>1, <1>2, <1>3, <1>4, <1>5, <1>6, StartRequestIsSafe

\* A pass starts with what is on disk.
LEMMA StartPassIsSafe ==
  ASSUME SInv, IInv', NEW t \in Thread, thread[t].pc \in RestPc,
         NEW task \in PassTask, NEW S, StartPass(t, task, S)
  PROVE  ThreadStepSafe(t)
<1> DEFINE s == [thread[t] EXCEPT !.task = task, !.snap = SnapshotOf(S)]
           n == NextOf(s, "idle")
<1>1. WorldStep /\ ClaimKept /\ group_json' = group_json /\ artifacts' = artifacts
  BY StillWorld DEF StartPass, diskVars, storeVars
<1>2. thread' = [thread EXCEPT ![t] = n] /\ thread'[t] = n
  BY DEF StartPass, Enter, SInv, IInv, ThreadsGood
<1>3. s.task = task /\ s.snap = SnapshotOf(S) /\ s.pc = thread[t].pc
  BY DEF SInv, IInv, ThreadsGood, SoundState
<1> HIDE DEF s
<1>4. \A g \in Group : s.snap[g] \in {group_json[g], Missing}
  BY <1>3 DEF SnapshotOf
<1>5. \A g \in Group : KnownOf(s, g) \subseteq {group_json[g]}
  BY <1>3, <1>4 DEF KnownOf, RestPc
<1>6. s.snap \in [Group -> OnDisk] /\ group_json' \in [Group -> OnDisk]
  BY <1>1, <1>3 DEF SnapshotOf, SInv, IInv, StoreInv, OnDisk
<1>7. RecordsSafe(s, group_json', summaries', tombstones', artifacts')
  <2> SUFFICES ASSUME NEW g \in Group
               PROVE  /\ s.snap[g] # Missing =>
                           /\ WellKept(s.snap[g].value, group_json', artifacts')
                           /\ Tracks(s.snap[g], group_json'[g])
                      /\ \A rec \in KnownOf(s, g) :
                           Abreast(g, rec, group_json', summaries', tombstones')
    BY DEF RecordsSafe
  <2>1. ASSUME s.snap[g] # Missing
        PROVE  /\ WellKept(s.snap[g].value, group_json', artifacts')
               /\ Tracks(s.snap[g], group_json'[g])
    <3>1. s.snap[g] = group_json[g] /\ group_json[g].version \in Nat
      BY <1>4, <2>1, StoreTypes DEF SInv, IInv
    <3> QED BY <1>1, <2>1, <3>1, OnDiskIsWell DEF Tracks
  <2> QED BY <1>1, <1>5, <2>1, DiskIsAbreast
<1>8. /\ ThreadSafe(n, group_json', summaries', tombstones', artifacts')
      /\ \A g \in Group : KnownOf(n, g) \subseteq KnownOf(s, g)
      /\ ~Cleaning(n)
  BY <1>3, <1>6, <1>7, NextIsSafe DEF RestPc
<1> HIDE DEF n
<1> QED BY <1>1, <1>2, <1>5, <1>8 DEF ThreadStepSafe, ThreadGoes, OnlyThread

\* A step in which every thread stays as it is, or is put to rest.
LEMMA RestingIsSafe ==
  ASSUME SInv, IInv', UNCHANGED <<storeVars, artifacts, receipts>>,
         \A t \in Thread : thread'[t] = thread[t] \/ \E pc \in RestPc : thread'[t] = Parked(pc)
  PROVE  SafeStep
<1>1. WorldStep /\ ClaimKept
  BY StillWorld
<1>2. ASSUME NEW t \in Thread
      PROVE  /\ ThreadSafe(thread'[t], group_json', summaries', tombstones', artifacts')
             /\ \A g \in Group : KnownOf(thread'[t], g) \subseteq KnownOf(thread[t], g)
             /\ Cleaning(thread'[t]) => thread'[t] = thread[t]
  <2>1. CASE thread'[t] = thread[t]
    BY <1>1, <2>1, SafeNext
  <2>2. CASE \E pc \in RestPc : thread'[t] = Parked(pc)
    BY <2>2, ParkedIsSafe
  <2> QED BY <2>1, <2>2
<1>3. NothingNew /\ NewCleaners /\ ThreadsSafe'
  BY <1>2 DEF NothingNew, NewCleaners, ThreadsSafe, SInv, CleanersLast
<1> QED BY <1>1, <1>3 DEF SafeStep

LEMMA CrashIsSafe ==
  ASSUME SInv, IInv', Crash
  PROVE  SafeStep
<1>1. \A t \in Thread :
        thread'[t] = thread[t] \/ \E pc \in RestPc : thread'[t] = Parked(pc)
  BY DEF Crash, RestPc
<1> QED BY <1>1, RestingIsSafe DEF Crash, diskVars

-------------------------------------------------------------------------------
(* The initial states, every step, and the theorems.                        *)

LEMMA EveryActionIsSafe ==
  ASSUME SInv, IInv', Next
  PROVE  SafeStep
<1>1. ASSUME NEW t \in Thread, ThreadStep(t)
      PROVE  ThreadStepSafe(t)
  <2>1. CASE \/ SaveGroup(t) \/ ReloadForSummary(t) \/ PublishSummary(t) \/ ClearMark(t)
             \/ RetainMark(t) \/ Archive(t) \/ CopyFiles(t)
    BY <2>1, SaveGroupIsSafe, ReloadForSummaryIsSafe, PublishSummaryIsSafe, ClearMarkIsSafe,
       RetainMarkIsSafe, ArchiveIsSafe, CopyFilesIsSafe
  <2>2. CASE \/ ClaimCleanup(t) \/ TakeOperationLock(t) \/ ReloadClaim(t) \/ PersistRelease(t)
             \/ RecordDeletion(t) \/ ReportCleanupFailure(t) \/ CompleteCleanup(t)
    BY <2>2, ClaimCleanupIsSafe, TakeOperationLockIsSafe, ReloadClaimIsSafe,
       PersistReleaseIsSafe, RecordDeletionIsSafe, ReportCleanupFailureIsSafe,
       CompleteCleanupIsSafe
  <2>3. CASE \/ DeleteVictimSummary(t) \/ DeleteVictimJobs(t) \/ DeleteVictim(t)
             \/ \E overwrite, cancel \in BOOLEAN : GuardSubmission(t, overwrite, cancel)
    BY <2>3, DeleteVictimSummaryIsSafe, DeleteVictimJobsIsSafe, DeleteVictimIsSafe,
       GuardSubmissionIsSafe
  <2> QED BY <1>1, <2>1, <2>2, <2>3 DEF ThreadStep
<1>2. ASSUME NEW t \in Thread, FaultStep(t)
      PROVE  ThreadStepSafe(t)
  BY <1>2, PublicationFailsIsSafe, ArchiveFailsIsSafe, SettlementFailsIsSafe,
     LockTimeoutIsSafe, DeletionFailsIsSafe DEF FaultStep
<1>3. ASSUME NEW t \in Request, RequestArrives(t)
      PROVE  t \in Thread /\ ThreadStepSafe(t)
  <2>1. t \in Thread
    BY DEF Thread
  <2>2. ASSUME NEW g \in Group, Submit(t, g) \/ Approve(t, g)
        PROVE  ThreadStepSafe(t)
    BY <2>1, <2>2, SubmitIsSafe, ApproveIsSafe
  <2>3. ASSUME NEW S \in SUBSET Group, EditAccounts(t, S)
        PROVE  ThreadStepSafe(t)
    BY <2>1, <2>3, StartPassIsSafe DEF EditAccounts, MayStart, At, PassTask, RestPc
  <2> QED BY <1>3, <2>1, <2>2, <2>3 DEF RequestArrives
<1>4. ASSUME ScanArchives \/ ScanPublications \/ ScanCleanups \/ ScanBackfill
      PROVE  \E t \in Thread : ThreadStepSafe(t)
  <2>1. Archiver \in Thread /\ Reconciler \in Thread /\ Backfill \in Thread
    BY DEF Thread
  <2>2. CASE ScanArchives
    BY <2>1, <2>2, StartPassIsSafe DEF ScanArchives, At, PassTask, RestPc
  <2>3. CASE ScanPublications
    BY <2>1, <2>3, StartPassIsSafe DEF ScanPublications, At, PassTask, RestPc
  <2>4. CASE ScanCleanups
    BY <2>1, <2>4, StartPassIsSafe DEF ScanCleanups, At, PassTask, RestPc
  <2>5. CASE ScanBackfill
    BY <2>1, <2>5, StartPassIsSafe DEF ScanBackfill, At, PassTask, RestPc
  <2> QED BY <1>4, <2>2, <2>3, <2>4, <2>5
<1>5. ASSUME NEW g \in Group, LapseClaim(g)
      PROVE  SafeStep
  BY <1>5, RestingIsSafe DEF LapseClaim, diskVars
<1> QED BY <1>1, <1>2, <1>3, <1>4, <1>5, CrashIsSafe, ThreadStepIsSafe DEF Next

\* Every step is one of the store that keeps the strengthened invariant.
LEMMA StepIsSafe ==
  ASSUME SInv, [Next]_vars
  PROVE  SafeStep /\ StoreInv' /\ SInv'
<1>1. IInv'
  BY StepIsGood DEF SInv
<1>2. ASSUME UNCHANGED vars
      PROVE  SafeStep
  <2>1. UNCHANGED <<storeVars, artifacts, receipts>>
    BY <1>2 DEF vars, storeVars
  <2>2. \A t \in Thread :
          thread'[t] = thread[t] \/ \E pc \in RestPc : thread'[t] = Parked(pc)
    BY <1>2 DEF vars
  <2> QED BY <1>1, <2>1, <2>2, RestingIsSafe
<1>3. SafeStep
  BY <1>1, <1>2, EveryActionIsSafe
<1> QED BY <1>1, <1>3, SafeStepKeeps DEF IInv

LEMMA BegunIsWellKept ==
  ASSUME NEW w \in {"draft", "in_review", "replacing", "archived"}, NEW p, NEW files, NEW arts
  PROVE  WellKept(Begun(w, p), files, arts)
<1> DEFINE reviewed == [Draft EXCEPT !.status = "RUNNING", !.workflow = "in_review",
                                     !.approvals = Nodes - 1]
<1>1. /\ reviewed.workflow = "in_review" /\ reviewed.archive = "none"
      /\ reviewed.replaced = NoGroup
  BY DEF Draft
<1>2. CASE w = "draft"
  BY <1>2 DEF Begun, Draft, WellKept
<1>3. CASE w = "in_review"
  BY <1>1, <1>3 DEF Begun, WellKept
<1>4. CASE w = "replacing"
  <2> DEFINE v == [reviewed EXCEPT !.replaced = p, !.pending_delete = TRUE]
  <2>1. v.workflow = "in_review" /\ v.archive = "none" /\ v.pending_delete
    BY DEF Draft
  <2>2. Begun(w, p) = v
    BY <1>4 DEF Begun
  <2> HIDE DEF v
  <2> QED BY <2>1, <2>2 DEF WellKept
<1>5. CASE w = "archived"
  BY <1>5 DEF Begun, Draft, WellKept
<1> QED BY <1>2, <1>3, <1>4, <1>5

LEMMA InitIsSafe ==
  ASSUME Init
  PROVE  SInv
<1>1. PICK b \in Beginnings :
        group_json = [g \in Group |->
                        [version |-> 1,
                         value |-> Begun(b[g], NewestOf({h \in Group : b[h] = "archived"}))]]
  BY DEF Init
<1>2. \A g \in Group : WellKept(Saved(g), group_json, artifacts)
  <2> TAKE g \in Group
  <2>1. b[g] \in {"draft", "in_review", "replacing", "archived"}
    BY TaskAssumption
  <2>2. Saved(g) = Begun(b[g], NewestOf({h \in Group : b[h] = "archived"}))
    BY <1>1 DEF Saved
  <2> QED BY <2>1, <2>2, BegunIsWellKept
<1>3. DiskSafe
  BY <1>2, DiskIsAbreast DEF DiskSafe, Init
<1>4. \A t \in Thread : \E pc \in RestPc : thread[t] = Parked(pc)
  BY DEF Init, RestPc
<1>5. ThreadsSafe /\ CleanersLast
  BY <1>4, ParkedIsSafe DEF ThreadsSafe, CleanersLast
<1> QED BY <1>3, <1>5, InitIsGood DEF SInv

\* The strengthened invariant holds for any number of groups, requests and faults.
THEOREM SafetyInvariance == Spec => []SInv
<1>1. Init => SInv
  BY InitIsSafe
<1>2. SInv /\ [Next]_vars => SInv'
  BY StepIsSafe
<1> QED BY <1>1, <1>2, PTL DEF Spec

\* UnmarkedIsPublished: a group that nobody would publish again is shown as it
\* is on disk, whatever publications of other threads, of the backfill or of a
\* dead process crossed the last write.
THEOREM PublishedWithoutMark == Spec => []UnmarkedIsPublished
<1>1. SInv => UnmarkedIsPublished
  <2> SUFFICES ASSUME SInv, NEW g \in Group, Exists(g), ~Saved(g).publication_pending,
                      g \notin tombstones
               PROVE  Visible(summaries[g]) = Visible(group_json[g])
    BY DEF UnmarkedIsPublished
  <2>1. Abreast(g, summaries[g], group_json, summaries, tombstones)
    BY DEF SInv, DiskSafe
  <2>2. summaries[g].version \in Nat /\ group_json[g] # Missing
    BY StoreTypes, ExistingFile DEF SInv, IInv
  <2> QED BY <2>1, <2>2 DEF Abreast, Saved
<1> QED BY <1>1, SafetyInvariance, PTL

\* SuccessorComesFirst: the reconciler deletes nothing of a predecessor before
\* its successor is archived and settled, on disk and in the list.
THEOREM SuccessorFirst == Spec => []SuccessorComesFirst
<1>1. SInv => SuccessorComesFirst
  <2> SUFFICES ASSUME SInv, NEW t \in Thread, Victim(t) # NoGroup, thread[t].task # "submit",
                      Subject(t) \notin tombstones
               PROVE  LET g == Subject(t) IN
                      /\ Exists(g)
                      /\ Saved(g).replaced = Victim(t)
                      /\ Saved(g).workflow = "archived"
                      /\ Saved(g).settled
                      /\ summaries[g].value.workflow = "archived"
                      /\ summaries[g].value.settled
    BY DEF SuccessorComesFirst
  <2>1. thread[t].pc \in DelPc /\ Cleaning(thread[t])
    BY NoVictim DEF Cleaning, Victim
  <2>2. Subject(t) \in Group /\ Subject(t) = thread[t].group
    BY <2>1, InHand DEF RestPc, DelPc
  <2>3. group_json[Subject(t)] # Missing /\ Exists(Subject(t))
    BY <2>2, StoreTypes DEF SInv, IInv, Exists
  <2>4. Saved(Subject(t)).replaced = Victim(t)
    BY <2>1, <2>2, <2>3, Deleting DEF DeletionSafe, Saved
  <2>5. Done(Saved(Subject(t))) /\ Done(summaries[Subject(t)].value)
    BY <2>1, <2>2, Deleting DEF Lasting, Saved
  <2> QED BY <2>3, <2>4, <2>5 DEF Done
<1> QED BY <1>1, SafetyInvariance, PTL

\* CleanupIsComplete: a cleanup that is not pending any more left no file, no
\* summary and no artifacts of the predecessor, and none of them comes back.
THEOREM CompleteCleanups == Spec => []CleanupIsComplete
<1>1. SInv => CleanupIsComplete
  <2> SUFFICES ASSUME SInv, NEW g \in Group, Exists(g), Saved(g).replaced # NoGroup,
                      ~Saved(g).pending_delete
               PROVE  LET p == Saved(g).replaced IN
                      ~Exists(p) /\ p \in tombstones /\ p \notin artifacts
    BY DEF CleanupIsComplete
  <2>1. WellKept(Saved(g), group_json, artifacts) /\ Saved(g) \in SoundValue
    BY ExistingFile, StoreTypes DEF SInv, IInv, DiskSafe, Saved
  <2>2. Saved(g).replaced \in Group /\ Gone(Saved(g).replaced, group_json, artifacts)
    BY <2>1, ValueFields DEF WellKept
  <2>3. Saved(g).replaced \in tombstones /\ ~Exists(Saved(g).replaced)
    BY <2>2, LiveIsRecord DEF Gone, SInv, IInv, StoreInv, Exists
  <2> QED BY <2>2, <2>3 DEF Gone
<1> QED BY <1>1, SafetyInvariance, PTL

\* NoProgressLost: no save takes back an approval, an archive, a settlement or
\* a finished cleanup that another thread saved.
THEOREM ProgressIsKept == Spec => NoProgressLost
<1>1. SInv /\ [Next]_vars =>
        \A g \in Group :
          Exists(g) /\ group_json'[g] # Missing => Advances(Saved(g), group_json'[g].value)
  <2> SUFFICES ASSUME SInv, [Next]_vars, NEW g \in Group, Exists(g), group_json'[g] # Missing
               PROVE  Advances(Saved(g), group_json'[g].value)
    OBVIOUS
  <2>1. FileStep(g)
    BY StepIsSafe DEF SafeStep, WorldStep
  <2>2. Advances(group_json[g].value, group_json[g].value)
    BY ExistingFile, OnDiskIsWell
  <2> QED BY <2>1, <2>2 DEF FileStep, Saved
<1>2. SInv /\ [Next]_vars =>
        [\A g \in Group :
           LET old == Saved(g)
               new == group_json'[g].value
           IN Exists(g) /\ group_json'[g] # Missing =>
                /\ old.approvals <= new.approvals
                /\ WorkflowRank[old.workflow] <= WorkflowRank[new.workflow]
                /\ old.archive = "succeeded" => new.archive = "succeeded"
                /\ old.settled => new.settled
                /\ old.replaced # NoGroup =>
                     /\ new.replaced = old.replaced
                     /\ new.pending_delete => old.pending_delete]_vars
  BY <1>1 DEF Advances
<1> QED BY <1>2, SafetyInvariance, PTL DEF Spec, NoProgressLost

\* ClaimIsHonoured: a cleanup claim that has not lapsed is removed by nobody but
\* the thread that took it.
THEOREM ClaimsAreHonoured == Spec => ClaimIsHonoured
<1>1. SInv /\ [Next]_vars =>
        [\A g \in Group :
           LET claim == Saved(g).claim IN
           /\ Exists(g) /\ ActiveClaim(g, Saved(g))
           /\ group_json'[g] # Missing
           /\ group_json'[g].value.claim # claim
           => \E t \in Thread : /\ Subject(t) = g
                                /\ thread[t].token = claim
                                /\ thread'[t] # thread[t]]_vars
  BY StepIsSafe DEF SafeStep, ClaimKept
<1> QED BY <1>1, SafetyInvariance, PTL DEF Spec, ClaimIsHonoured
===============================================================================
