------------------------------- MODULE TaskBoard -------------------------------
(***************************************************************************)
(* What the task list promises about the groups it shows, independently of *)
(* files, tables and the threads that write them: an entry is always some  *)
(* saved state of its group, it only moves forward, and a group that is    *)
(* taken off the board is gone for ever.                                   *)
(***************************************************************************)
EXTENDS Naturals

CONSTANTS Group, Value, NoValue

VARIABLES
  saved,       \* saved[g]: the last saved record of g; version 0 when removed
  published,   \* published[g]: the record the board shows; version 0 for none
  withdrawn    \* groups taken off the board

boardVars == <<saved, published, withdrawn>>

Card == [version : Nat, value : Value \cup {NoValue}]
Blank == [version |-> 0, value |-> NoValue]

BoardTypeOK ==
  /\ saved \in [Group -> Card]
  /\ published \in [Group -> Card]
  /\ withdrawn \subseteq Group

BoardInit ==
  /\ saved \in [Group -> Card]
  /\ \A g \in Group : saved[g].version > 0
  /\ published = saved
  /\ withdrawn = {}

\* f changes at g only, to some card.
OnlyAt(g, f, next) == next[g] \in Card /\ next = [f EXCEPT ![g] = next[g]]

Save(g) ==
  /\ saved[g].version > 0
  /\ OnlyAt(g, saved, saved')
  /\ saved'[g].version = saved[g].version + 1
  /\ UNCHANGED <<published, withdrawn>>

Publish(g) ==
  /\ g \notin withdrawn
  /\ OnlyAt(g, published, published')
  /\ published'[g].version \in published[g].version .. saved[g].version
  /\ published'[g].version = saved[g].version => published'[g] = saved[g]
  /\ UNCHANGED <<saved, withdrawn>>

Withdraw(g) ==
  /\ published' = [published EXCEPT ![g] = Blank]
  /\ withdrawn' = withdrawn \cup {g}
  /\ UNCHANGED saved

Remove(g) ==
  /\ g \in withdrawn
  /\ saved' = [saved EXCEPT ![g] = Blank]
  /\ UNCHANGED <<published, withdrawn>>

BoardNext == \E g \in Group : Save(g) \/ Publish(g) \/ Withdraw(g) \/ Remove(g)

BoardSpec == BoardInit /\ [][BoardNext]_boardVars

-------------------------------------------------------------------------------
(* What follows for a reader of the board.                                  *)

\* An entry is never ahead of its group, and it is the group as last saved when
\* the versions agree; a withdrawn group has no entry.
EntryWasSaved ==
  \A g \in Group :
    IF g \in withdrawn
    THEN published[g] = Blank
    ELSE /\ published[g].version <= saved[g].version
         /\ published[g].version = saved[g].version => published[g] = saved[g]

\* An entry never shows an older version than before; a group that left the
\* board or the disk does not come back there.
ReadersNeverGoBack ==
  [][\A g \in Group :
       /\ published'[g].version < published[g].version => g \in withdrawn'
       /\ g \in withdrawn => g \in withdrawn' /\ published'[g] = Blank
       /\ saved[g].version = 0 => saved'[g].version = 0]_boardVars
===============================================================================
