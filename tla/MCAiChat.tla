------------------------------- MODULE MCAiChat -------------------------------
(* c1 and c2 belong to one owner, c3 to another; the attachments are in c1.  *)
EXTENDS AiChat, TLC

CONSTANTS r1, r2, r3, c1, c2, c3, o1, o2, a1, a2

RequestSymmetry == Permutations(Request)

TwoOwners == [c \in {c1, c2, c3} |-> IF c = c3 THEN o2 ELSE o1]
AllInOne == [a \in {a1, a2} |-> c1]

\* c1 has expired, c3 is yet to be created; a2 may be yet to be uploaded.
OldRecentNew ==
  [chats : {[c \in {c1, c2, c3} |->
               CASE c = c1 -> "expired" [] c = c2 -> "recent" [] OTHER -> "new"]},
   stored : {{a1}, {a1, a2}}]
===============================================================================
