---------------------------- MODULE TaskBoardProofs ----------------------------
(***************************************************************************)
(* What the task board promises its readers, for any groups and values.    *)
(***************************************************************************)
EXTENDS TaskBoard, TLAPS

\* Only a withdrawn group is removed, and it keeps no entry.
RemovedIsWithdrawn == \A g \in Group : saved[g].version = 0 => g \in withdrawn

BoardInv == BoardTypeOK /\ EntryWasSaved /\ RemovedIsWithdrawn

\* At first everything is on the board as it was saved.
LEMMA BoardInvInit ==
  ASSUME BoardInit
  PROVE  BoardInv
BY DEF BoardInit, BoardInv, BoardTypeOK, EntryWasSaved, RemovedIsWithdrawn, Card

\* Every step keeps the entries behind what is saved.
LEMMA BoardInvStep ==
  ASSUME BoardInv, [BoardNext]_boardVars
  PROVE  BoardInv'
<1>1. CASE UNCHANGED boardVars
  BY <1>1 DEF boardVars, BoardInv, BoardTypeOK, EntryWasSaved, RemovedIsWithdrawn
<1>2. ASSUME NEW g \in Group, Save(g)
      PROVE  BoardInv'
  <2>1. BoardTypeOK'
    BY <1>2 DEF BoardInv, BoardTypeOK, Save, OnlyAt
  <2>2. EntryWasSaved'
    BY <1>2 DEF BoardInv, BoardTypeOK, EntryWasSaved, Save, OnlyAt, Card
  <2>3. RemovedIsWithdrawn'
    BY <1>2 DEF BoardInv, BoardTypeOK, RemovedIsWithdrawn, Save, OnlyAt, Card
  <2> QED BY <2>1, <2>2, <2>3 DEF BoardInv
<1>3. ASSUME NEW g \in Group, Publish(g)
      PROVE  BoardInv'
  <2>1. BoardTypeOK'
    BY <1>3 DEF BoardInv, BoardTypeOK, Publish, OnlyAt
  <2>2. EntryWasSaved'
    BY <1>3 DEF BoardInv, BoardTypeOK, EntryWasSaved, Publish, OnlyAt, Card
  <2>3. RemovedIsWithdrawn'
    BY <1>3 DEF BoardInv, RemovedIsWithdrawn, Publish
  <2> QED BY <2>1, <2>2, <2>3 DEF BoardInv
<1>4. ASSUME NEW g \in Group, Withdraw(g)
      PROVE  BoardInv'
  BY <1>4 DEF BoardInv, BoardTypeOK, EntryWasSaved, RemovedIsWithdrawn, Withdraw, Card, Blank
<1>5. ASSUME NEW g \in Group, Remove(g)
      PROVE  BoardInv'
  BY <1>5 DEF BoardInv, BoardTypeOK, EntryWasSaved, RemovedIsWithdrawn, Remove, Card, Blank
<1> QED BY <1>1, <1>2, <1>3, <1>4, <1>5 DEF BoardNext

\* The promises hold along every behaviour of the board.
THEOREM BoardIsSound == BoardSpec => []BoardInv
<1>1. BoardInit => BoardInv
  BY BoardInvInit
<1>2. BoardInv /\ [BoardNext]_boardVars => BoardInv'
  BY BoardInvStep
<1> QED BY <1>1, <1>2, PTL DEF BoardSpec

\* EntryWasSaved: the list never shows a state that its group was not saved in,
\* and nothing of a group that was withdrawn.
THEOREM EntryWasSavedHolds == BoardSpec => []EntryWasSaved
<1>1. BoardInv => EntryWasSaved
  BY DEF BoardInv
<1> QED BY <1>1, BoardIsSound, PTL

\* One step does not take a reader back.
LEMMA NoStepBack ==
  ASSUME BoardInv, [BoardNext]_boardVars, NEW h \in Group
  PROVE  /\ published'[h].version < published[h].version => h \in withdrawn'
         /\ h \in withdrawn => h \in withdrawn' /\ published'[h] = Blank
         /\ saved[h].version = 0 => saved'[h].version = 0
<1>0. published[h].version \in Nat
  BY DEF BoardInv, BoardTypeOK, Card
<1>1. CASE UNCHANGED boardVars
  BY <1>0, <1>1 DEF boardVars, BoardInv, EntryWasSaved
<1>2. ASSUME NEW g \in Group, Save(g)
      PROVE  UNCHANGED <<published, withdrawn>> /\ (saved[h].version = 0 => saved'[h] = saved[h])
  BY <1>2 DEF BoardInv, BoardTypeOK, Save, OnlyAt
<1>3. ASSUME NEW g \in Group, Publish(g)
      PROVE  /\ UNCHANGED <<saved, withdrawn>>
             /\ published'[h].version >= published[h].version
             /\ h \in withdrawn => published'[h] = published[h]
  BY <1>0, <1>3 DEF BoardInv, BoardTypeOK, Publish, OnlyAt, Card
<1>4. ASSUME NEW g \in Group, Withdraw(g)
      PROVE  /\ UNCHANGED saved
             /\ h \in withdrawn => h \in withdrawn'
             /\ published'[h] = IF h = g THEN Blank ELSE published[h]
             /\ g \in withdrawn'
  BY <1>4 DEF BoardInv, BoardTypeOK, Withdraw
<1>5. ASSUME NEW g \in Group, Remove(g)
      PROVE  /\ UNCHANGED <<published, withdrawn>>
             /\ saved[h].version = 0 => saved'[h].version = 0
  BY <1>5 DEF BoardInv, BoardTypeOK, Remove, Blank
<1> QED
  <2>1. ASSUME NEW g \in Group, Save(g) \/ Remove(g)
        PROVE  UNCHANGED <<published, withdrawn>> /\ (saved[h].version = 0 => saved'[h].version = 0)
    BY <1>2, <1>5, <2>1
  <2>2. h \in withdrawn => published[h] = Blank
    BY DEF BoardInv, EntryWasSaved
  <2>3. ASSUME NEW g \in Group, Withdraw(g)
        PROVE  /\ published'[h].version < published[h].version => h \in withdrawn'
               /\ h \in withdrawn => h \in withdrawn' /\ published'[h] = Blank
               /\ saved[h].version = 0 => saved'[h].version = 0
    BY <1>0, <1>4, <2>2, <2>3
  <2>4. ASSUME NEW g \in Group, Publish(g)
        PROVE  /\ published'[h].version < published[h].version => h \in withdrawn'
               /\ h \in withdrawn => h \in withdrawn' /\ published'[h] = Blank
               /\ saved[h].version = 0 => saved'[h].version = 0
    <3>1. published'[h].version \in Nat
      BY <1>0, <2>4 DEF BoardInv, BoardTypeOK, Publish, OnlyAt, Card
    <3> QED BY <1>0, <1>3, <2>2, <2>4, <3>1
  <2> QED BY <1>0, <1>1, <2>1, <2>2, <2>3, <2>4 DEF BoardNext

\* ReadersNeverGoBack: no reader of the list sees an older version after a newer
\* one, and what was withdrawn or removed stays away.
THEOREM ReadersNeverGoBackHolds == BoardSpec => ReadersNeverGoBack
<1>1. BoardInv /\ [BoardNext]_boardVars
        => [\A g \in Group :
              /\ published'[g].version < published[g].version => g \in withdrawn'
              /\ g \in withdrawn => g \in withdrawn' /\ published'[g] = Blank
              /\ saved[g].version = 0 => saved'[g].version = 0]_boardVars
  BY NoStepBack
<1> QED BY <1>1, BoardIsSound, PTL DEF BoardSpec, ReadersNeverGoBack
===============================================================================
