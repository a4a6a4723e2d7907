SPECIFICATION Spec
CONSTANTS
  r1 = r1
  r2 = r2
  r3 = r3
  c1 = c1
  c2 = c2
  c3 = c3
  o1 = o1
  o2 = o2
  a1 = a1
  a2 = a2
  Request = {r1, r2, r3}
  Conversation = {c1, c2, c3}
  Attachment = {a1, a2}
  Owner = {o1, o2}
  Beginnings <- OldRecentNew
  NoRequest = NoRequest
  NoConversation = NoConversation
  OwnerOf <- TwoOwners
  HomeOf <- AllInOne
  Images = {a1}
  Aged = {a1}
  MaxPerOwner = 1
  MaxGlobal = 1
  Operations = {"create", "rename", "send", "upload", "delete_attachment", "clear", "delete", "list"}
  MaxCrashes = 1
SYMMETRY RequestSymmetry
INVARIANTS
  GatesConserved
  AnswerKeepsItsChat
  QuestionsSettle
  RowsHaveFiles
CHECK_DEADLOCK FALSE
