------------------------------ MODULE GroupStore ------------------------------
(***************************************************************************)
(* GroupManager: the group.json files, shared by the threads of the API    *)
(* and the worker processes.  A save holds the cross-process lock of its   *)
(* group, compares the version it read with the one on disk and replaces   *)
(* the file, so it is one atomic step; so is a read.                       *)
(***************************************************************************)
EXTENDS Integers

CONSTANTS
  Group,     \* task groups, numbered in the order of their creation
  NoValue    \* the contents of a group.json that does not exist

ASSUME GroupAssumption == Group \subseteq Nat \ {0}

VARIABLE group_json   \* group_json[g]: the state_version and the value on disk

\* A TaskGroup object, in a file or in memory.  Version 0 stands for no file: a
\* new object has that version as well, and update_group compares both alike.
Missing == [version |-> 0, value |-> NoValue]

Exists(g) == group_json[g].version > 0
Saved(g) == group_json[g].value

\* TaskGroupVersionConflict is raised unless the object was read at the version
\* that is still on disk.
Current(g, rec) == rec.version = group_json[g].version

\* The object after a save: the caller's copy gets the new version too.
Bumped(rec, value) == [version |-> rec.version + 1, value |-> value]

\* Mistake: the version is written but not compared; the last writer wins.
OverwriteGroup(g, rec, value) ==
  /\ Exists(g)
  /\ group_json' = [group_json EXCEPT ![g] = Bumped(@, value)]

UpdateGroup(g, rec, value) ==
  /\ Current(g, rec)
  /\ group_json' = [group_json EXCEPT ![g] = Bumped(rec, value)]

DeleteGroup(g) == group_json' = [group_json EXCEPT ![g] = Missing]
===============================================================================
