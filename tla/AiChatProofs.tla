---------------------------- MODULE AiChatProofs ----------------------------
(***************************************************************************)
(* Theorems about the AI chat, for any numbers of requests, conversations, *)
(* attachments, owners, permits and crashes.                               *)
(***************************************************************************)
EXTENDS AiChat, FiniteSetTheorems, TLAPS

-------------------------------------------------------------------------------
(* The shape of a thread: which operation it works on at each place, what it  *)
(* has in hand and which permits it has.                                      *)

AnswerPc == {"build", "ask", "fail", "complete", "bind"}
SendPc == {"owner", "global", "resolve", "add"} \cup AnswerPc
PermitPc == {"resolve", "add"} \cup AnswerPc
RemovalPc == {"names", "rows", "unlink"}
UploadPc == {"write", "insert", "undo", "parse"}

Shape(t) ==
  /\ t.operation = "none" <=> t.pc = "new"
  /\ t.pc \in SendPc => t.operation = "send"
  /\ t.pc \in UploadPc => t.operation = "upload"
  /\ t.pc \in RemovalPc => t.operation \in {"delete_attachment", "clear", "delete", "list"}
  /\ t.pc \in {"lock", "release"} =>
       t.operation \in {"send", "delete_attachment", "clear", "delete"}
  /\ t.operation \notin {"none", "list"} => t.conversation \in Conversation
  /\ t.operation = "list" => t.conversation \notin Conversation

\* The attachments in hand belong to the conversation.
FromOneChat(t) ==
  \/ t.operation \in {"upload", "delete_attachment"}
  \/ t.pc \in {"rows", "unlink"} /\ t.operation # "list"
  \/ t.pc \in {"add"} \cup AnswerPc

AtHome(t) == FromOneChat(t) => \A a \in t.ids : HomeOf[a] = t.conversation

Permits(t) ==
  /\ t.pc \in PermitPc => t.owner /\ t.global
  /\ t.pc = "global" => t.owner /\ ~t.global
  /\ t.pc \notin PermitPc \cup {"global", "release"} => ~t.owner /\ ~t.global
  /\ t.global => t.owner
  /\ t.owner => t.operation = "send"

ThreadInv ==
  \A r \in Request : Shape(thread[r]) /\ AtHome(thread[r]) /\ Permits(thread[r])

TypeInv == TypeOK /\ ThreadInv

\* A thread may do what its shape allows; the other threads stay where they are.
OneThread(r) ==
  /\ thread' = [thread EXCEPT ![r] = thread'[r]]
  /\ thread'[r] \in Thread
  /\ Shape(thread'[r]) /\ AtHome(thread'[r]) /\ Permits(thread'[r])

\* The pieces that every leaf about a thread needs.
LEMMA ThreadFacts ==
  ASSUME TypeInv, NEW r \in Request
  PROVE  /\ thread \in [Request -> Thread] /\ thread[r] \in Thread
         /\ thread[r].pc \in Pc /\ thread[r].operation \in Operation \cup {"none"}
         /\ thread[r].conversation \in Conversation \cup {NoConversation}
         /\ thread[r].ids \subseteq Attachment /\ thread[r].todo \subseteq Attachment
         /\ thread[r].owner \in BOOLEAN /\ thread[r].global \in BOOLEAN
         /\ Shape(thread[r]) /\ AtHome(thread[r]) /\ Permits(thread[r])
BY DEF TypeInv, TypeOK, ThreadInv, Thread

\* The steps that only move the program counter.
LEMMA GotoMoves ==
  ASSUME TypeInv, NEW r \in Request, NEW pc \in Pc, Goto(r, pc)
  PROVE  /\ thread' = [thread EXCEPT ![r] = thread'[r]]
         /\ thread'[r] = [thread[r] EXCEPT !.pc = pc]
         /\ thread'[r] \in Thread
         /\ thread'[r].pc = pc
         /\ thread'[r].operation = thread[r].operation
         /\ thread'[r].conversation = thread[r].conversation
         /\ thread'[r].ids = thread[r].ids
         /\ thread'[r].owner = thread[r].owner /\ thread'[r].global = thread[r].global
BY ThreadFacts DEF Goto, Thread

LEMMA ArrivalThread ==
  ASSUME TypeInv, NEW r \in Request, Arrival(r)
  PROVE  OneThread(r)
<1>1. ASSUME NEW operation, NEW c \in Conversation \cup {NoConversation},
             NEW ids \in SUBSET Attachment, NEW pc \in {"done", "lock", "write", "names"},
             Arrive(r, operation, c, ids, pc),
             operation = "list" <=> c = NoConversation,
             pc = "lock" => operation \in {"send", "delete_attachment", "clear", "delete"},
             pc = "write" => operation = "upload",
             pc = "names" => operation = "list",
             operation \in {"upload", "delete_attachment"} =>
               \A a \in ids : HomeOf[a] = c
      PROVE  OneThread(r)
  <2>1. operation \in Operation
    BY <1>1, ChatAssumption DEF Arrive
  <2>2. /\ thread' = [thread EXCEPT ![r] = thread'[r]]
        /\ thread'[r] = [pc |-> pc, operation |-> operation, conversation |-> c,
                         ids |-> ids, todo |-> {}, owner |-> FALSE, global |-> FALSE]
    BY <1>1, ThreadFacts DEF Arrive, NoThread
  <2>3. thread'[r] \in Thread
    BY <1>1, <2>1, <2>2 DEF Thread, Pc
  <2>4. Shape(thread'[r])
    BY <1>1, <2>1, <2>2, ChatAssumption
    DEF Shape, Operation, SendPc, AnswerPc, UploadPc, RemovalPc
  <2>5. AtHome(thread'[r])
    BY <1>1, <2>2 DEF AtHome, FromOneChat, AnswerPc
  <2>6. Permits(thread'[r])
    BY <1>1, <2>2 DEF Permits, PermitPc, AnswerPc
  <2> QED BY <2>2, <2>3, <2>4, <2>5, <2>6 DEF OneThread
<1>2. CASE CreateConversation(r) \/ RenameConversation(r)
  BY <1>1, <1>2, ChatAssumption DEF CreateConversation, RenameConversation
<1>3. CASE SendMessage(r) \/ ClearConversation(r) \/ DeleteConversation(r)
  BY <1>1, <1>3, ChatAssumption DEF SendMessage, ClearConversation, DeleteConversation
<1>4. CASE UploadAttachment(r)
  BY <1>1, <1>4, ChatAssumption DEF UploadAttachment
<1>5. CASE DeleteAttachment(r)
  BY <1>1, <1>5, ChatAssumption DEF DeleteAttachment
<1>6. CASE ListConversations(r)
  BY <1>1, <1>6, ChatAssumption DEF ListConversations
<1> QED BY <1>2, <1>3, <1>4, <1>5, <1>6 DEF Arrival

LEMMA StepThread ==
  ASSUME TypeInv, NEW r \in Request, Step(r)
  PROVE  OneThread(r)
<1> DEFINE t == thread[r]
<1> USE ThreadFacts DEF SendPc, AnswerPc, PermitPc, RemovalPc, UploadPc
<1>1. ASSUME NEW pc \in Pc, Goto(r, pc),
             Shape([t EXCEPT !.pc = pc]), AtHome([t EXCEPT !.pc = pc]),
             Permits([t EXCEPT !.pc = pc])
      PROVE  OneThread(r)
  BY <1>1, GotoMoves DEF OneThread
<1>0. ASSUME t.pc \in SendPc, thread'[r].pc \in AnswerPc \cup {"global", "resolve", "release"},
             thread'[r].pc \in AnswerPc => t.pc \in AnswerPc,
             thread' = [thread EXCEPT ![r] = thread'[r]], thread'[r] \in Thread,
             thread'[r].operation = t.operation, thread'[r].conversation = t.conversation,
             thread'[r].ids = t.ids, Permits(thread'[r])
      PROVE  OneThread(r)
  <2>1. t.operation = "send"
    BY <1>0 DEF Shape
  <2>2. Shape(thread'[r])
    BY <1>0, <2>1 DEF Shape
  <2>3. AtHome(thread'[r])
    BY <1>0, <2>1 DEF AtHome, FromOneChat
  <2> QED BY <1>0, <2>2, <2>3 DEF OneThread
<1>2. CASE LockConversation(r)
  <2>1. PICK pc \in {"owner", "names", "done"} :
          Goto(r, pc) /\ (pc = "owner" => t.operation = "send")
                      /\ (pc = "names" => t.operation # "send")
    BY <1>2 DEF LockConversation, Operating
  <2>2. Shape([t EXCEPT !.pc = pc])
    BY <1>2, <2>1 DEF LockConversation, At, Shape, Thread
  <2>3. AtHome([t EXCEPT !.pc = pc]) /\ Permits([t EXCEPT !.pc = pc])
    BY <1>2, <2>1 DEF LockConversation, At, AtHome, FromOneChat, Permits, Thread
  <2> QED BY <1>1, <2>1, <2>2, <2>3 DEF Pc
<1>3. CASE AcquireOwnerGate(r)
  <2>1. CASE Goto(r, "release")
    BY <1>1, <1>3, <2>1 DEF AcquireOwnerGate, At, Shape, AtHome, FromOneChat, Permits, Thread, Pc
  <2>2. CASE thread' = [thread EXCEPT ![r].pc = "global", ![r].owner = TRUE]
    <3>1. /\ thread' = [thread EXCEPT ![r] = thread'[r]] /\ thread'[r] \in Thread
          /\ thread'[r] = [t EXCEPT !.pc = "global", !.owner = TRUE]
      BY <2>2 DEF Thread, Pc
    <3>2. Permits(thread'[r])
      BY <1>3, <3>1 DEF AcquireOwnerGate, At, Shape, Permits, Thread
    <3>3. /\ thread'[r].pc = "global" /\ thread'[r].operation = t.operation
          /\ thread'[r].conversation = t.conversation /\ thread'[r].ids = t.ids
      BY <3>1 DEF Thread
    <3>4. t.pc = "owner"
      BY <1>3 DEF AcquireOwnerGate, At
    <3> QED BY <1>0, <3>1, <3>2, <3>3, <3>4
  <2> QED BY <1>3, <2>1, <2>2 DEF AcquireOwnerGate
<1>4. CASE AcquireGlobalGate(r)
  <2>1. CASE Goto(r, "release")
    BY <1>1, <1>4, <2>1 DEF AcquireGlobalGate, At, Shape, AtHome, FromOneChat, Permits, Thread, Pc
  <2>2. CASE thread' = [thread EXCEPT ![r].pc = "resolve", ![r].global = TRUE]
    <3>1. /\ thread' = [thread EXCEPT ![r] = thread'[r]] /\ thread'[r] \in Thread
          /\ thread'[r] = [t EXCEPT !.pc = "resolve", !.global = TRUE]
      BY <2>2 DEF Thread, Pc
    <3>2. Permits(thread'[r])
      BY <1>4, <3>1 DEF AcquireGlobalGate, At, Shape, Permits, Thread
    <3>3. /\ thread'[r].pc = "resolve" /\ thread'[r].operation = t.operation
          /\ thread'[r].conversation = t.conversation /\ thread'[r].ids = t.ids
      BY <3>1 DEF Thread
    <3>4. t.pc = "global"
      BY <1>4 DEF AcquireGlobalGate, At
    <3> QED BY <1>0, <3>1, <3>2, <3>3, <3>4
  <2> QED BY <1>4, <2>1, <2>2 DEF AcquireGlobalGate
<1>5. CASE ReleaseGlobalGate(r) \/ ReleaseOwnerGate(r)
  <2>1. PICK owner \in BOOLEAN :
          /\ thread'[r] = [t EXCEPT !.owner = owner, !.global = FALSE]
          /\ owner => t.owner
    <3>1. CASE ReleaseGlobalGate(r)
      BY <3>1 DEF ReleaseGlobalGate, Thread
    <3>2. CASE ReleaseOwnerGate(r)
      BY <3>2 DEF ReleaseOwnerGate, Thread
    <3> QED BY <1>5, <3>1, <3>2
  <2>2. thread' = [thread EXCEPT ![r] = thread'[r]]
    BY <1>5 DEF ReleaseGlobalGate, ReleaseOwnerGate
  <2>3. t.pc = "release"
    BY <1>5 DEF ReleaseGlobalGate, ReleaseOwnerGate, At
  <2>4. /\ thread'[r] \in Thread
        /\ thread'[r].pc = "release" /\ thread'[r].operation = t.operation
        /\ thread'[r].conversation = t.conversation /\ thread'[r].ids = t.ids
    BY <2>1, <2>3 DEF Thread
  <2>5. Shape(thread'[r])
    BY <2>3, <2>4 DEF Shape
  <2>6. AtHome(thread'[r])
    BY <2>3, <2>4 DEF AtHome, FromOneChat
  <2>7. Permits(thread'[r])
    BY <2>1, <2>3 DEF Permits, Thread
  <2> QED BY <2>2, <2>4, <2>5, <2>6, <2>7 DEF OneThread
<1>6. CASE ReleaseLock(r)
  BY <1>1, <1>6 DEF ReleaseLock, At, Shape, AtHome, FromOneChat, Permits, Thread, Pc
<1>7. CASE ResolveAttachments(r)
  BY <1>1, <1>7 DEF ResolveAttachments, Sendable, ChatOf, At, Shape, AtHome, FromOneChat,
                    Permits, Thread, Pc
<1>8. CASE AddMessage(r) \/ BuildMessages(r) \/ AskModel(r) \/ MarkFailed(r) \/ AllBound(r)
  <2>1. PICK pc \in {"build", "ask", "complete", "fail", "release"} : Goto(r, pc)
    BY <1>8 DEF AddMessage, BuildMessages, AskModel, MarkFailed, AllBound
  <2>2. t.pc \in {"add"} \cup AnswerPc
    BY <1>8 DEF AddMessage, BuildMessages, AskModel, MarkFailed, AllBound, At
  <2>3. Shape([t EXCEPT !.pc = pc]) /\ AtHome([t EXCEPT !.pc = pc])
        /\ Permits([t EXCEPT !.pc = pc])
    BY <2>1, <2>2 DEF Shape, AtHome, FromOneChat, Permits, Thread
  <2> QED BY <1>1, <2>1, <2>3 DEF Pc
<1>9. CASE CompleteExchange(r)
  <2>1. t.pc = "complete"
    BY <1>9 DEF CompleteExchange, At
  <2>2. CASE Goto(r, "release")
    BY <1>1, <2>1, <2>2 DEF Shape, AtHome, FromOneChat, Permits, Thread, Pc
  <2>3. CASE thread' = [thread EXCEPT ![r].pc = "bind", ![r].todo = t.ids]
    <3>1. /\ thread' = [thread EXCEPT ![r] = thread'[r]] /\ thread'[r] \in Thread
          /\ thread'[r] = [t EXCEPT !.pc = "bind", !.todo = t.ids]
      BY <2>3 DEF Thread, Pc
    <3>2. Permits(thread'[r])
      BY <2>1, <3>1 DEF Permits, Thread
    <3>3. /\ thread'[r].pc = "bind" /\ thread'[r].operation = t.operation
          /\ thread'[r].conversation = t.conversation /\ thread'[r].ids = t.ids
      BY <2>1, <3>1 DEF Thread
    <3> QED BY <1>0, <2>1, <3>1, <3>2, <3>3
  <2> QED BY <1>9, <2>2, <2>3 DEF CompleteExchange
<1>10. CASE BindAttachment(r)
  <2>1. t.pc = "bind"
    BY <1>10 DEF BindAttachment, At
  <2>2. CASE Goto(r, "release")
    BY <1>1, <2>1, <2>2 DEF Shape, AtHome, FromOneChat, Permits, Thread, Pc
  <2>3. ASSUME NEW a \in t.todo, thread' = [thread EXCEPT ![r].todo = @ \ {a}]
        PROVE  OneThread(r)
    <3>1. /\ thread' = [thread EXCEPT ![r] = thread'[r]] /\ thread'[r] \in Thread
          /\ thread'[r] = [t EXCEPT !.todo = @ \ {a}]
      BY <2>3 DEF Thread
    <3>2. Permits(thread'[r])
      BY <2>1, <3>1 DEF Permits, Thread
    <3>3. /\ thread'[r].pc = "bind" /\ thread'[r].operation = t.operation
          /\ thread'[r].conversation = t.conversation /\ thread'[r].ids = t.ids
      BY <2>1, <3>1 DEF Thread
    <3> QED BY <1>0, <2>1, <3>1, <3>2, <3>3
  <2> QED BY <1>10, <2>2, <2>3 DEF BindAttachment
<1>11. CASE ReadNames(r)
  <2>1. CASE Goto(r, "release") /\ Gone(r)
    BY <1>1, <1>11, <2>1 DEF ReadNames, At, Gone, Operating, Shape, AtHome, FromOneChat,
                             Permits, Thread, Pc
  <2>2. CASE thread' = [thread EXCEPT ![r].pc = "rows", ![r].ids = SelectedRows(r)]
    <3>1. SelectedRows(r) \subseteq Attachment
      BY DEF SelectedRows
    <3>2. t.operation \in {"clear", "delete", "delete_attachment"} =>
            \A a \in SelectedRows(r) : HomeOf[a] = t.conversation
      BY DEF SelectedRows, SelectedChats, Operating, ChatOf, AtHome, FromOneChat
    <3>3. t.pc = "names"
      BY <1>11 DEF ReadNames, At
    <3>4. /\ thread' = [thread EXCEPT ![r] = thread'[r]]
          /\ thread'[r] = [t EXCEPT !.pc = "rows", !.ids = SelectedRows(r)]
      BY <2>2
    <3>5. thread'[r] \in Thread
      BY <3>1, <3>4 DEF Thread, Pc
    <3>6. Shape(thread'[r]) /\ Permits(thread'[r])
      BY <3>3, <3>4 DEF Shape, Permits, Thread
    <3>7. AtHome(thread'[r])
      BY <3>2, <3>3, <3>4 DEF Shape, AtHome, FromOneChat, Thread
    <3> QED BY <3>4, <3>5, <3>6, <3>7 DEF OneThread
  <2> QED BY <1>11, <2>1, <2>2 DEF ReadNames
<1>12. CASE DeleteRows(r)
  BY <1>1, <1>12 DEF DeleteRows, At, Shape, AtHome, FromOneChat, Permits, Thread, Pc
<1>13. CASE RemoveFiles(r)
  <2>1. PICK pc \in {"done", "release"} :
          Goto(r, pc) /\ (pc = "release" => t.operation # "list")
    BY <1>13 DEF RemoveFiles, Operating
  <2> QED BY <1>1, <1>13, <2>1 DEF RemoveFiles, At, Shape, AtHome, FromOneChat, Permits,
                                   Thread, Pc
<1>14. CASE WriteFile(r) \/ InsertAttachment(r) \/ UndoFile(r) \/ ParseAttachment(r)
  <2>1. PICK pc \in {"insert", "parse", "undo", "done"} : Goto(r, pc)
    BY <1>14 DEF WriteFile, InsertAttachment, UndoFile, ParseAttachment
  <2>2. t.pc \in UploadPc
    BY <1>14 DEF WriteFile, InsertAttachment, UndoFile, ParseAttachment, At
  <2> QED BY <1>1, <2>1, <2>2 DEF Shape, AtHome, FromOneChat, Permits, Thread, Pc
<1> QED BY <1>2, <1>3, <1>4, <1>5, <1>6, <1>7, <1>8, <1>9, <1>10, <1>11, <1>12, <1>13, <1>14
        DEF Step

\* Only four steps touch the gates; no step after the arrival changes what a
\* request is about.
GateStep(r) ==
  \/ AcquireOwnerGate(r) \/ AcquireGlobalGate(r)
  \/ ReleaseGlobalGate(r) \/ ReleaseOwnerGate(r)

LEMMA StepFields ==
  ASSUME TypeInv, NEW r \in Request, Step(r)
  PROVE  /\ thread'[r].operation = thread[r].operation
         /\ thread'[r].conversation = thread[r].conversation
         /\ ~GateStep(r) => /\ thread'[r].owner = thread[r].owner
                            /\ thread'[r].global = thread[r].global
                            /\ UNCHANGED <<owner_gates, global_gate>>
<1> USE ThreadFacts DEF Thread
<1>1. CASE GateStep(r)
  BY <1>1 DEF GateStep, AcquireOwnerGate, AcquireGlobalGate, ReleaseGlobalGate,
              ReleaseOwnerGate, Goto
<1>2. CASE LockConversation(r) \/ ReleaseLock(r) \/ ResolveAttachments(r) \/ AddMessage(r)
             \/ BuildMessages(r) \/ AskModel(r) \/ MarkFailed(r) \/ AllBound(r)
  BY <1>2 DEF LockConversation, ReleaseLock, ResolveAttachments, AddMessage, BuildMessages,
              AskModel, MarkFailed, AllBound, Goto, gates
<1>3. CASE CompleteExchange(r) \/ BindAttachment(r) \/ ReadNames(r)
  BY <1>3 DEF CompleteExchange, BindAttachment, ReadNames, Goto, gates
<1>4. CASE DeleteRows(r) \/ RemoveFiles(r) \/ WriteFile(r) \/ InsertAttachment(r)
             \/ UndoFile(r) \/ ParseAttachment(r)
  BY <1>4 DEF DeleteRows, RemoveFiles, WriteFile, InsertAttachment, UndoFile,
              ParseAttachment, Goto, gates
<1> QED BY <1>1, <1>2, <1>3, <1>4 DEF Step, GateStep

LEMMA ArrivalFields ==
  ASSUME TypeInv, NEW r \in Request, Arrival(r)
  PROVE  /\ ~thread[r].owner /\ ~thread[r].global
         /\ ~thread'[r].owner /\ ~thread'[r].global
         /\ thread[r].pc = "new" /\ thread'[r].pc \in {"done", "lock", "write", "names"}
         /\ thread'[r].pc = "names" => thread'[r].operation = "list"
         /\ UNCHANGED <<gates, questions, attachments, files, crashes>>
<1>1. ASSUME NEW operation, NEW c, NEW ids, NEW pc, Arrive(r, operation, c, ids, pc)
      PROVE  /\ ~thread'[r].owner /\ ~thread'[r].global /\ thread[r].pc = "new"
             /\ thread'[r].pc = pc /\ thread'[r].operation = operation
  BY <1>1, ThreadFacts DEF Arrive, At, NoThread
<1>2. /\ ~thread'[r].owner /\ ~thread'[r].global /\ thread[r].pc = "new"
      /\ thread'[r].pc \in {"done", "lock", "write", "names"}
      /\ thread'[r].pc = "names" => thread'[r].operation = "list"
  <2>1. CASE CreateConversation(r) \/ RenameConversation(r) \/ ListConversations(r)
    BY <1>1, <2>1 DEF CreateConversation, RenameConversation, ListConversations
  <2>2. CASE SendMessage(r) \/ ClearConversation(r) \/ DeleteConversation(r)
    BY <1>1, <2>2 DEF SendMessage, ClearConversation, DeleteConversation
  <2>3. CASE UploadAttachment(r) \/ DeleteAttachment(r)
    <3>1. CASE UploadAttachment(r)
      <4>1. PICK a \in Attachment : Arrive(r, "upload", HomeOf[a], {a}, "write")
        BY <3>1 DEF UploadAttachment
      <4> QED BY <1>1, <4>1
    <3>2. CASE DeleteAttachment(r)
      <4>1. PICK a \in Attachment : Arrive(r, "delete_attachment", HomeOf[a], {a}, "lock")
        BY <3>2 DEF DeleteAttachment
      <4> QED BY <1>1, <4>1
    <3> QED BY <2>3, <3>1, <3>2
  <2> QED BY <2>1, <2>2, <2>3 DEF Arrival
<1>3. ~thread[r].owner /\ ~thread[r].global
  BY <1>2, ThreadFacts DEF Permits, PermitPc, AnswerPc
<1>4. UNCHANGED <<gates, questions, attachments, files, crashes>>
  BY DEF Arrival, CreateConversation, RenameConversation, SendMessage, UploadAttachment,
         DeleteAttachment, ClearConversation, DeleteConversation, ListConversations, tables
<1> QED BY <1>2, <1>3, <1>4

\* What a step may do with the permits of its request.
LEMMA GateMoves ==
  ASSUME TypeInv, NEW r \in Request, Arrival(r) \/ Step(r)
  PROVE  /\ \/ (thread'[r].global <=> thread[r].global) /\ global_gate' = global_gate
            \/ /\ ~thread[r].global /\ thread'[r].global
               /\ global_gate > 0 /\ global_gate' = global_gate - 1
            \/ /\ thread[r].global /\ ~thread'[r].global
               /\ global_gate' = global_gate + 1
         /\ \/ (thread'[r].owner <=> thread[r].owner) /\ owner_gates' = owner_gates
            \/ /\ ~thread[r].owner /\ thread'[r].owner
               /\ owner_gates[OwnerOf[ChatOf(r)]] > 0
               /\ owner_gates' = [owner_gates EXCEPT ![OwnerOf[ChatOf(r)]] = @ - 1]
            \/ /\ thread[r].owner /\ ~thread'[r].owner
               /\ owner_gates' = [owner_gates EXCEPT ![OwnerOf[ChatOf(r)]] = @ + 1]
         /\ thread[r].owner \/ thread'[r].owner =>
              thread'[r].conversation = thread[r].conversation
<1> USE ThreadFacts DEF Thread
<1>1. CASE Arrival(r)
  BY <1>1, ArrivalFields DEF gates
<1>2. CASE Step(r) /\ ~GateStep(r)
  BY <1>2, StepFields
<1>3. CASE AcquireOwnerGate(r)
  <2>1. thread[r].pc = "owner" /\ ~thread[r].owner
    BY <1>3 DEF AcquireOwnerGate, At, Permits, PermitPc, AnswerPc
  <2> QED BY <1>3, <2>1 DEF AcquireOwnerGate, Goto
<1>4. CASE AcquireGlobalGate(r)
  <2>1. thread[r].pc = "global" /\ ~thread[r].global
    BY <1>4 DEF AcquireGlobalGate, At, Permits, PermitPc, AnswerPc
  <2> QED BY <1>4, <2>1 DEF AcquireGlobalGate, Goto
<1>5. CASE ReleaseGlobalGate(r)
  BY <1>5 DEF ReleaseGlobalGate
<1>6. CASE ReleaseOwnerGate(r)
  BY <1>6 DEF ReleaseOwnerGate
<1> QED BY <1>1, <1>2, <1>3, <1>4, <1>5, <1>6 DEF GateStep

LEMMA Counting ==
  ASSUME NEW max \in Nat, NEW P, NEW Q, NEW r, NEW g \in 0 .. max, NEW h,
         IsFiniteSet(P), g + Cardinality(P) = max,
         \/ Q = P /\ h = g
         \/ r \notin P /\ Q = P \cup {r} /\ g > 0 /\ h = g - 1
         \/ r \in P /\ Q = P \ {r} /\ h = g + 1
  PROVE  IsFiniteSet(Q) /\ h \in 0 .. max /\ h + Cardinality(Q) = max
<1>1. Cardinality(P) \in Nat
  BY FS_CardinalityType
<1>2. CASE Q = P /\ h = g
  BY <1>2
<1>3. CASE r \notin P /\ Q = P \cup {r} /\ g > 0 /\ h = g - 1
  <2>1. IsFiniteSet(Q) /\ Cardinality(Q) = Cardinality(P) + 1
    BY <1>3, FS_AddElement
  <2> QED BY <1>1, <1>3, <2>1
<1>4. CASE r \in P /\ Q = P \ {r} /\ h = g + 1
  <2>1. IsFiniteSet(Q) /\ Cardinality(Q) = Cardinality(P) - 1
    BY <1>4, FS_RemoveElement
  <2>2. Cardinality(Q) \in Nat
    BY <2>1, FS_CardinalityType
  <2> QED BY <1>1, <1>4, <2>1, <2>2
<1> QED BY <1>2, <1>3, <1>4

\* The permits that are out and those that are left.
PermitInv ==
  /\ IsFiniteSet(GlobalPermits)
  /\ global_gate + Cardinality(GlobalPermits) = MaxGlobal
  /\ \A o \in Owner :
       /\ IsFiniteSet(OwnerPermits(o))
       /\ owner_gates[o] + Cardinality(OwnerPermits(o)) = MaxPerOwner

LEMMA PermitStep ==
  ASSUME TypeInv, PermitInv, NEW r \in Request, Arrival(r) \/ Step(r)
  PROVE  /\ PermitInv'
         /\ owner_gates' \in [Owner -> 0 .. MaxPerOwner]
         /\ global_gate' \in 0 .. MaxGlobal
<1>1. OneThread(r)
  BY ArrivalThread, StepThread
<1>2. thread \in [Request -> Thread] /\ thread'[r] \in Thread
      /\ \A q \in Request : q # r => thread'[q] = thread[q]
  BY <1>1, ThreadFacts DEF OneThread
<1>3. owner_gates \in [Owner -> 0 .. MaxPerOwner] /\ global_gate \in 0 .. MaxGlobal
      /\ MaxPerOwner \in Nat /\ MaxGlobal \in Nat
  BY ChatAssumption DEF TypeInv, TypeOK
<1>4. /\ IsFiniteSet(GlobalPermits') /\ global_gate' \in 0 .. MaxGlobal
      /\ global_gate' + Cardinality(GlobalPermits') = MaxGlobal
  <2>1. \/ GlobalPermits' = GlobalPermits /\ global_gate' = global_gate
        \/ /\ r \notin GlobalPermits /\ GlobalPermits' = GlobalPermits \cup {r}
           /\ global_gate > 0 /\ global_gate' = global_gate - 1
        \/ /\ r \in GlobalPermits /\ GlobalPermits' = GlobalPermits \ {r}
           /\ global_gate' = global_gate + 1
    BY <1>2, GateMoves DEF GlobalPermits
  <2> QED BY <1>3, <2>1, Counting DEF PermitInv
<1>5. ASSUME NEW o \in Owner
      PROVE  /\ IsFiniteSet(OwnerPermits(o)') /\ owner_gates'[o] \in 0 .. MaxPerOwner
             /\ owner_gates'[o] + Cardinality(OwnerPermits(o)') = MaxPerOwner
  <2>1. \/ OwnerPermits(o)' = OwnerPermits(o) /\ owner_gates'[o] = owner_gates[o]
        \/ /\ r \notin OwnerPermits(o) /\ OwnerPermits(o)' = OwnerPermits(o) \cup {r}
           /\ owner_gates[o] > 0 /\ owner_gates'[o] = owner_gates[o] - 1
        \/ /\ r \in OwnerPermits(o) /\ OwnerPermits(o)' = OwnerPermits(o) \ {r}
           /\ owner_gates'[o] = owner_gates[o] + 1
    <3>1. CASE OwnerOf[ChatOf(r)] = o
      BY <1>2, <1>3, <3>1, GateMoves DEF OwnerPermits, ChatOf
    <3>2. CASE OwnerOf[ChatOf(r)] # o
      BY <1>2, <1>3, <3>2, GateMoves DEF OwnerPermits, ChatOf
    <3> QED BY <3>1, <3>2
  <2> QED BY <1>3, <2>1, Counting DEF PermitInv
<1>6. owner_gates' = [o \in Owner |-> owner_gates'[o]]
  BY <1>3, GateMoves
<1> QED BY <1>4, <1>5, <1>6 DEF PermitInv

-------------------------------------------------------------------------------
(* The lock of a conversation.                                                *)

LockInv ==
  /\ \A c \in Conversation : c \in locks <=> \E r \in Request : Locking(r) /\ ChatOf(r) = c
  /\ \A r, q \in Request : Locking(r) /\ Locking(q) /\ ChatOf(r) = ChatOf(q) => r = q

LEMMA LockMoves ==
  ASSUME TypeInv, NEW r \in Request, Arrival(r) \/ Step(r)
  PROVE  /\ \/ (Locking(r)' <=> Locking(r)) /\ locks' = locks
            \/ /\ ~Locking(r) /\ Locking(r)' /\ ChatOf(r) \notin locks
               /\ locks' = locks \cup {ChatOf(r)}
            \/ /\ Locking(r) /\ ~Locking(r)' /\ locks' = locks \ {ChatOf(r)}
         /\ Locking(r) \/ Locking(r)' =>
              ChatOf(r)' = ChatOf(r) /\ ChatOf(r) \in Conversation
<1> USE ThreadFacts DEF Thread
<1>1. CASE Arrival(r)
  BY <1>1, ArrivalFields DEF Locking, gates, Operating
<1>2. ASSUME Step(r), Locking(r) \/ Locking(r)'
      PROVE  ChatOf(r)' = ChatOf(r) /\ ChatOf(r) \in Conversation
  <2>1. OneThread(r) /\ ChatOf(r)' = ChatOf(r) /\ thread'[r].operation = thread[r].operation
    BY <1>2, StepThread, StepFields DEF ChatOf
  <2>2. Shape(thread[r]) /\ Shape(thread'[r])
    BY <2>1 DEF OneThread
  <2> QED BY <1>2, <2>1, <2>2
          DEF Locking, Operating, ChatOf, Shape, SendPc, AnswerPc, RemovalPc
<1>3. CASE LockConversation(r)
  <2>1. Step(r)
    BY <1>3 DEF Step
  <2> QED BY <1>2, <1>3, <2>1 DEF LockConversation, Locking, At, Goto, Operating, Shape, ChatOf
<1>4. CASE ReleaseLock(r)
  <2>1. Step(r)
    BY <1>4 DEF Step
  <2>2. thread[r].pc = "release" /\ thread'[r].pc = "done" /\ locks' = locks \ {ChatOf(r)}
    BY <1>4 DEF ReleaseLock, At, Goto
  <2> QED BY <1>2, <2>1, <2>2 DEF Locking
<1>5. ASSUME Step(r), thread[r].pc \in SendPc \cup {"release"},
             thread'[r].pc \in SendPc \cup {"release"}, locks' = locks
      PROVE  /\ (Locking(r)' <=> Locking(r)) /\ locks' = locks
             /\ ChatOf(r)' = ChatOf(r) /\ ChatOf(r) \in Conversation
  BY <1>2, <1>5 DEF Locking, SendPc, AnswerPc
<1>6. CASE GateStep(r)
  <2>1. Step(r)
    BY <1>6 DEF Step, GateStep
  <2> QED BY <1>5, <1>6, <2>1 DEF GateStep, AcquireOwnerGate, AcquireGlobalGate,
             ReleaseGlobalGate, ReleaseOwnerGate, At, Goto, SendPc
<1>7. CASE ResolveAttachments(r) \/ AddMessage(r) \/ BuildMessages(r) \/ AskModel(r)
             \/ MarkFailed(r) \/ AllBound(r)
  <2>1. Step(r)
    BY <1>7 DEF Step
  <2> QED BY <1>5, <1>7, <2>1 DEF ResolveAttachments, AddMessage, BuildMessages, AskModel,
             MarkFailed, AllBound, At, Goto, gates, SendPc, AnswerPc
<1>8. CASE CompleteExchange(r) \/ BindAttachment(r)
  <2>1. Step(r)
    BY <1>8 DEF Step
  <2> QED BY <1>5, <1>8, <2>1 DEF CompleteExchange, BindAttachment, At, Goto, gates, SendPc,
             AnswerPc
<1>9. CASE ReadNames(r) \/ DeleteRows(r) \/ RemoveFiles(r)
  <2>1. Step(r) /\ locks' = locks
    BY <1>9 DEF Step, ReadNames, DeleteRows, RemoveFiles, gates
  <2>2. thread'[r].operation = thread[r].operation
    BY <2>1, StepFields
  <2>3. /\ thread[r].pc \in RemovalPc
        /\ IF thread[r].operation = "list" THEN thread'[r].pc \in RemovalPc \cup {"done"}
           ELSE thread'[r].pc \in RemovalPc \cup {"release"}
    BY <1>9 DEF ReadNames, DeleteRows, RemoveFiles, Gone, At, Goto, Operating, RemovalPc
  <2> QED BY <1>2, <2>1, <2>2, <2>3 DEF Locking, Operating, RemovalPc
<1>10. CASE WriteFile(r) \/ InsertAttachment(r) \/ UndoFile(r) \/ ParseAttachment(r)
  BY <1>10 DEF WriteFile, InsertAttachment, UndoFile, ParseAttachment, Locking, At, Goto,
               gates
<1> QED BY <1>1, <1>3, <1>4, <1>6, <1>7, <1>8, <1>9, <1>10 DEF Step, GateStep

LEMMA LockStep ==
  ASSUME TypeInv, LockInv, NEW r \in Request, Arrival(r) \/ Step(r)
  PROVE  LockInv' /\ locks' \subseteq Conversation
<1>1. \A q \in Request : q # r => (Locking(q)' <=> Locking(q)) /\ ChatOf(q)' = ChatOf(q)
  <2>1. \A q \in Request : q # r => thread'[q] = thread[q]
    BY ArrivalThread, StepThread, ThreadFacts DEF OneThread
  <2> QED BY <2>1 DEF Locking, ChatOf, Operating
<1>2. locks \subseteq Conversation
  BY DEF TypeInv, TypeOK
<1> QED BY <1>1, <1>2, LockMoves DEF LockInv

-------------------------------------------------------------------------------
(* Types.                                                                     *)

LEMMA TablesTyped ==
  ASSUME TypeInv, NEW r \in Request, Arrival(r) \/ Step(r)
  PROVE  /\ conversations' \in [Conversation -> Age]
         /\ questions' \in [Request -> Question]
         /\ attachments' \in [Attachment -> Row]
         /\ files' \subseteq Attachment
         /\ crashes' \in 0 .. MaxCrashes
<1> USE ThreadFacts
<1>1. /\ conversations \in [Conversation -> Age]
      /\ questions \in [Request -> Question]
      /\ attachments \in [Attachment -> Row]
      /\ files \subseteq Attachment
      /\ crashes \in 0 .. MaxCrashes
  BY DEF TypeInv, TypeOK
<1>2. CASE Arrival(r)
  <2>1. conversations' \in [Conversation -> Age]
    BY <1>1, <1>2 DEF Arrival, CreateConversation, RenameConversation, SendMessage,
       UploadAttachment, DeleteAttachment, ClearConversation, DeleteConversation,
       ListConversations, tables, Age
  <2> QED BY <1>1, <1>2, <2>1, ArrivalFields
<1>3. CASE LockConversation(r) \/ ReleaseLock(r) \/ GateStep(r) \/ ResolveAttachments(r)
             \/ BuildMessages(r) \/ AskModel(r) \/ AllBound(r) \/ ReadNames(r)
  BY <1>1, <1>3 DEF LockConversation, ReleaseLock, GateStep, AcquireOwnerGate,
     AcquireGlobalGate, ReleaseGlobalGate, ReleaseOwnerGate, ResolveAttachments,
     BuildMessages, AskModel, AllBound, ReadNames, tables
<1>4. CASE AddMessage(r) \/ MarkFailed(r) \/ CompleteExchange(r)
  BY <1>1, <1>4 DEF AddMessage, MarkFailed, CompleteExchange, Age, Question
<1>5. CASE BindAttachment(r)
  BY <1>1, <1>5 DEF BindAttachment, Row
<1>6. CASE DeleteRows(r)
  <2>1. WithoutRows(SelectedRows(r)) \in [Attachment -> Row]
    BY <1>1 DEF WithoutRows, Row, RowState
  <2>2. WithoutQuestions(SelectedChats(r)) \in [Request -> Question]
    BY <1>1 DEF WithoutQuestions, Question
  <2>3. \A age \in {"recent", "deleted"} :
          ChatsTo(SelectedChats(r), age) \in [Conversation -> Age]
    BY <1>1 DEF ChatsTo, Age
  <2> QED BY <1>1, <1>6, <2>1, <2>2, <2>3 DEF DeleteRows
<1>7. CASE RemoveFiles(r) \/ WriteFile(r) \/ UndoFile(r)
  BY <1>1, <1>7 DEF RemoveFiles, WriteFile, UndoFile, tables
<1>8. CASE InsertAttachment(r)
  BY <1>1, <1>8 DEF InsertAttachment, Row, RowState
<1>9. CASE ParseAttachment(r)
  <2>1. PICK status \in {"ready", "uploaded", "failed"} :
          attachments' =
            [a \in Attachment |->
               IF a \in thread[r].ids /\ HasRow(a)
                 THEN [attachments[a] EXCEPT !.status = status]
                 ELSE attachments[a]]
    BY <1>9 DEF ParseAttachment
  <2>2. attachments' \in [Attachment -> Row]
    BY <1>1, <2>1 DEF Row, RowState
  <2> QED BY <1>1, <1>9, <2>2 DEF ParseAttachment
<1> QED BY <1>2, <1>3, <1>4, <1>5, <1>6, <1>7, <1>8, <1>9 DEF Step, GateStep

\* The invariant that the types rest on: a gate stays within its range because
\* every permit that is given back had been taken.
GateInv == TypeInv /\ PermitInv /\ LockInv

\* When every permit is back, all is accounted for.
LEMMA AllPermitsBack ==
  ASSUME NEW max \in Nat, NEW gate, NEW P, gate = max, P = {}
  PROVE  IsFiniteSet(P) /\ gate + Cardinality(P) = max
<1>1. IsFiniteSet({}) /\ Cardinality({}) = 0
  BY FS_EmptySet
<1> QED BY <1>1

LEMMA InitGates == Init => GateInv
<1> SUFFICES ASSUME Init PROVE GateInv
  OBVIOUS
<1> USE ChatAssumption DEF Init
<1>1. thread = [r \in Request |-> NoThread] /\ NoThread \in Thread
  BY DEF NoThread, Thread, Pc
<1>2. TypeOK
  <2>1. PICK b \in Beginnings :
          /\ conversations = b.chats
          /\ attachments =
               [a \in Attachment |->
                  [status |-> IF a \in b.stored THEN "ready" ELSE "new", message |-> NoRequest]]
          /\ files = b.stored
    OBVIOUS
  <2>2. /\ b.chats \in [Conversation -> {"new", "recent", "expired"}]
        /\ b.stored \subseteq Attachment
    OBVIOUS
  <2>3. conversations \in [Conversation -> Age] /\ files \subseteq Attachment
    BY <2>1, <2>2 DEF Age
  <2>4. attachments \in [Attachment -> Row]
    BY <2>1 DEF Row, RowState
  <2> QED BY <1>1, <2>3, <2>4 DEF TypeOK, Question
<1>3. ThreadInv
  BY <1>1 DEF ThreadInv, Shape, AtHome, FromOneChat, Permits, NoThread, SendPc, PermitPc,
              AnswerPc, RemovalPc, UploadPc
<1>4. GlobalPermits = {} /\ \A o \in Owner : OwnerPermits(o) = {}
  BY <1>1 DEF GlobalPermits, OwnerPermits, NoThread
<1>5. PermitInv
  <2>1. /\ MaxGlobal \in Nat /\ MaxPerOwner \in Nat /\ global_gate = MaxGlobal
        /\ \A o \in Owner : owner_gates[o] = MaxPerOwner
    OBVIOUS
  <2> HIDE DEF Init
  <2> QED BY <1>4, <2>1, AllPermitsBack DEF PermitInv
<1>6. LockInv
  BY <1>1 DEF LockInv, Locking, NoThread
<1> QED BY <1>2, <1>3, <1>5, <1>6 DEF GateInv, TypeInv

LEMMA CrashGates ==
  ASSUME GateInv, Crash
  PROVE  GateInv'
<1> USE ChatAssumption
<1>1. ASSUME NEW r \in Request
      PROVE  /\ thread'[r] \in Thread
             /\ Shape(thread'[r]) /\ AtHome(thread'[r]) /\ Permits(thread'[r])
             /\ ~thread'[r].owner /\ ~thread'[r].global
             /\ thread'[r].pc \in {"new", "done", "dead"}
  <2> USE ThreadFacts DEF GateInv
  <2>1. CASE Running(r)
    <3>1. thread'[r] = [thread[r] EXCEPT !.pc = "dead", !.owner = FALSE, !.global = FALSE]
      BY <2>1 DEF Crash
    <3>2. thread'[r] \in Thread
      BY <3>1 DEF Thread, Pc
    <3>3. Shape(thread'[r]) /\ Permits(thread'[r])
      BY <2>1, <3>1 DEF Thread, Running, Shape, Permits, SendPc, PermitPc, AnswerPc,
                        RemovalPc, UploadPc
    <3>4. AtHome(thread'[r])
      BY <3>1 DEF Thread, AtHome, FromOneChat, AnswerPc
    <3> QED BY <3>1, <3>2, <3>3, <3>4 DEF Thread
  <2>2. CASE ~Running(r)
    <3>1. thread'[r] = thread[r]
      BY <2>2 DEF Crash
    <3> QED BY <2>2, <3>1 DEF Running, Permits, PermitPc, AnswerPc
  <2> QED BY <2>1, <2>2
<1>2. thread' \in [Request -> Thread]
  BY <1>1 DEF Crash
<1>3. TypeOK'
  <2>1. /\ conversations \in [Conversation -> Age]
        /\ questions \in [Request -> Question]
        /\ attachments \in [Attachment -> Row]
        /\ files \subseteq Attachment
        /\ crashes \in 0 .. MaxCrashes
    BY DEF GateInv, TypeInv, TypeOK
  <2>2. conversations' \in [Conversation -> Age]
    BY <2>1 DEF Crash, ChatsTo, Age
  <2>3. questions' \in [Request -> Question]
    BY <2>1 DEF Crash, WithoutQuestions, Question
  <2>4. attachments' \in [Attachment -> Row]
    BY <2>1 DEF Crash, WithoutRows, Row, RowState
  <2>5. /\ owner_gates' \in [Owner -> 0 .. MaxPerOwner] /\ global_gate' \in 0 .. MaxGlobal
        /\ locks' \subseteq Conversation /\ crashes' \in 0 .. MaxCrashes
        /\ files' \subseteq Attachment
    <3>1. MaxCrashes \in Nat /\ MaxPerOwner \in Nat /\ MaxGlobal \in Nat
      OBVIOUS
    <3>2. crashes' = crashes + 1 /\ crashes < MaxCrashes
      BY DEF Crash
    <3>3. crashes' \in 0 .. MaxCrashes
      BY <2>1, <3>1, <3>2
    <3>4. MaxPerOwner \in 0 .. MaxPerOwner /\ MaxGlobal \in 0 .. MaxGlobal
      BY <3>1
    <3>5. owner_gates' \in [Owner -> 0 .. MaxPerOwner] /\ global_gate' \in 0 .. MaxGlobal
      BY <3>4 DEF Crash
    <3> QED BY <2>1, <3>3, <3>5 DEF Crash
  <2> QED BY <1>2, <2>2, <2>3, <2>4, <2>5 DEF TypeOK
<1>4. GlobalPermits' = {} /\ \A o \in Owner : OwnerPermits(o)' = {}
  BY <1>1 DEF GlobalPermits, OwnerPermits
<1>5. PermitInv'
  <2>1. /\ MaxGlobal \in Nat /\ MaxPerOwner \in Nat /\ global_gate' = MaxGlobal
        /\ \A o \in Owner : owner_gates'[o] = MaxPerOwner
    BY DEF Crash
  <2> QED BY <1>4, <2>1, AllPermitsBack DEF PermitInv
<1>6. LockInv'
  BY <1>1 DEF LockInv, Locking, Crash
<1> QED BY <1>1, <1>3, <1>5, <1>6 DEF GateInv, TypeInv, ThreadInv

LEMMA NextGates ==
  ASSUME GateInv, [Next]_vars
  PROVE  GateInv'
<1>1. ASSUME NEW r \in Request, Arrival(r) \/ Step(r)
      PROVE  GateInv'
  <2>1. TypeInv /\ PermitInv /\ LockInv
    BY DEF GateInv
  <2>2. OneThread(r) /\ thread \in [Request -> Thread] /\ ThreadInv
    BY <1>1, <2>1, ArrivalThread, StepThread, ThreadFacts DEF TypeInv, TypeOK
  <2>3. thread' \in [Request -> Thread] /\ ThreadInv'
    <3>1. \A q \in Request : q # r => thread'[q] = thread[q]
      BY <2>2 DEF OneThread
    <3>2. thread' \in [Request -> Thread]
      BY <2>2 DEF OneThread
    <3> QED BY <2>2, <3>1, <3>2 DEF OneThread, ThreadInv
  <2>4. TypeOK'
    BY <1>1, <2>1, <2>3, TablesTyped, PermitStep, LockStep DEF TypeOK
  <2> QED BY <1>1, <2>1, <2>3, <2>4, PermitStep, LockStep DEF GateInv, TypeInv
<1>2. CASE UNCHANGED vars
  BY <1>2 DEF vars, GateInv, TypeInv, TypeOK, ThreadInv, PermitInv, LockInv, GlobalPermits,
              OwnerPermits, Locking, Operating, ChatOf
<1> QED BY <1>1, <1>2, CrashGates DEF Next

\* Types: every operation of the chat keeps its tables, threads, locks and gates
\* within their types.
THEOREM TypeCorrect == Spec => []TypeOK
<1>1. GateInv => TypeOK
  BY DEF GateInv, TypeInv
<1> QED BY <1>1, InitGates, NextGates, PTL DEF Spec

\* Mutual exclusion and conservation of permits for any number of requests,
\* conversations, owners and permits: send_message with its three gates.
THEOREM GatesConservedHolds == Spec => []GatesConserved
<1>1. GateInv => GatesConserved
  BY DEF GateInv, LockInv, PermitInv, GatesConserved
<1> QED BY <1>1, InitGates, NextGates, PTL DEF Spec

-------------------------------------------------------------------------------
(* What a request relies on while it is under way, and what it leaves behind. *)

Fresh(a) == attachments[a].status = "ready" /\ attachments[a].message = NoRequest
Early(r) == thread[r].pc \in {"new", "lock", "owner", "global", "resolve", "add"}
Over(r) == Operating(r, {"send"}) /\ thread[r].pc \in {"release", "done"}

SendSound(r) ==
  /\ Operating(r, {"send"}) => conversations[ChatOf(r)] # "new"
  /\ Early(r) \/ ~Operating(r, {"send"}) => questions[r] = "none"
  /\ At(r, "add") /\ Exists(ChatOf(r)) => \A a \in thread[r].ids : Fresh(a)
  /\ Answering(r) => conversations[ChatOf(r)] = "recent"
  /\ thread[r].pc \in {"build", "ask", "fail", "complete"} =>
       questions[r] = "pending" /\ \A a \in thread[r].ids : Fresh(a)
  /\ At(r, "bind") =>
       /\ questions[r] = "succeeded"
       /\ thread[r].todo \subseteq thread[r].ids
       /\ \A a \in thread[r].ids :
            /\ attachments[a].status = "ready"
            /\ attachments[a].message = IF a \in thread[r].todo THEN NoRequest ELSE r
  /\ Over(r) /\ questions[r] = "succeeded" =>
       \A a \in thread[r].ids : attachments[a].status = "deleted" \/ attachments[a].message = r
  /\ Over(r) /\ questions[r] = "pending" =>
       \E a \in thread[r].ids \cap Images : a \notin files /\ attachments[a].status # "new"

UploadSound(r) ==
  /\ thread[r].pc \in {"write", "insert", "undo"} =>
       \A a \in thread[r].ids : attachments[a].status = "new"
  /\ At(r, "insert") => thread[r].ids \subseteq files
  /\ At(r, "parse") => \A a \in thread[r].ids : attachments[a].status \in {"uploaded", "deleted"}

RemovalSound(r) ==
  /\ At(r, "names") /\ Operating(r, {"list"}) => thread[r].ids = {}
  /\ thread[r].pc \in {"rows", "unlink"} =>
       \A a \in thread[r].ids : attachments[a].status # "new"
  /\ At(r, "unlink") /\ ~Operating(r, {"list"}) =>
       \A a \in thread[r].ids : attachments[a].status = "deleted"

\* An attachment that is bound belongs to a question that was answered.
BoundSound(a) ==
  LET q == attachments[a].message IN
  q # NoRequest =>
    /\ attachments[a].status = "ready"
    /\ Operating(q, {"send"}) /\ a \in thread[q].ids
    /\ thread[q].pc \in {"bind", "release", "done", "dead"}
    /\ HomeOf[a] = ChatOf(q) /\ questions[q] = "succeeded"

UploadsApart ==
  \A r, q \in Request :
    /\ Operating(r, {"upload"}) /\ Operating(q, {"upload"})
    /\ thread[r].ids \cap thread[q].ids # {}
    => r = q

RequestsSound == \A r \in Request : SendSound(r) /\ UploadSound(r) /\ RemovalSound(r)
ChatInv ==
  GateInv /\ RequestsSound /\ (\A a \in Attachment : BoundSound(a)) /\ UploadsApart
          /\ RowsHaveFiles

\* What a request needs of a step of somebody else.
Rely(q) ==
  /\ thread'[q] = thread[q]
  /\ questions'[q] \in {questions[q], "none"}
  /\ Operating(q, {"send"}) /\ conversations[ChatOf(q)] # "new" =>
       conversations'[ChatOf(q)] # "new"
  /\ At(q, "add") /\ conversations'[ChatOf(q)] \in {"recent", "expired"} =>
       Exists(ChatOf(q)) /\ \A a \in thread[q].ids : attachments'[a] = attachments[a]
  /\ Answering(q) =>
       /\ conversations'[ChatOf(q)] = conversations[ChatOf(q)] /\ questions'[q] = questions[q]
       /\ \A a \in thread[q].ids : attachments'[a] = attachments[a]
  /\ \A a \in thread[q].ids :
       /\ attachments[a].status # "new" => attachments'[a].status # "new"
       /\ attachments[a].status = "deleted" => attachments'[a].status = "deleted"
       /\ attachments[a].message = q =>
            attachments'[a].message = q \/ attachments'[a].status = "deleted"
       /\ attachments[a].status # "new" /\ a \notin files => a \notin files'
       /\ thread[q].pc \in {"write", "insert", "undo"} =>
            /\ attachments'[a] = attachments[a]
            /\ a \in files => a \in files'
       /\ At(q, "parse") => attachments'[a].status \in {attachments[a].status, "deleted"}

LEMMA RelyKeeps ==
  ASSUME TypeInv, NEW q \in Request, Rely(q), SendSound(q), UploadSound(q), RemovalSound(q)
  PROVE  SendSound(q)' /\ UploadSound(q)' /\ RemovalSound(q)'
<1> DEFINE t == thread[q]
<1> USE DEF Operating, At, ChatOf, Exists, Early, Over, Answering, Fresh
<1>1. thread'[q] = t
  BY DEF Rely
<1>2. UploadSound(q)'
  BY <1>1 DEF UploadSound, Rely
<1>3. RemovalSound(q)'
  BY <1>1 DEF RemovalSound, Rely
<1>4. SendSound(q)'
  <2>1. (Operating(q, {"send"}) => conversations[ChatOf(q)] # "new")'
    BY <1>1 DEF SendSound, Rely
  <2>2. (Early(q) \/ ~Operating(q, {"send"}) => questions[q] = "none")'
    BY <1>1 DEF SendSound, Rely
  <2>3. (At(q, "add") /\ Exists(ChatOf(q)) => \A a \in t.ids : Fresh(a))'
    BY <1>1 DEF SendSound, Rely
  <2>4. ASSUME Answering(q)
        PROVE  /\ (Answering(q) => conversations[ChatOf(q)] = "recent")'
               /\ (t.pc \in {"build", "ask", "fail", "complete"} =>
                     questions[q] = "pending" /\ \A a \in t.ids : Fresh(a))'
               /\ (At(q, "bind") =>
                     /\ questions[q] = "succeeded"
                     /\ t.todo \subseteq t.ids
                     /\ \A a \in t.ids :
                          /\ attachments[a].status = "ready"
                          /\ attachments[a].message = IF a \in t.todo THEN NoRequest ELSE q)'
    BY <1>1, <2>4 DEF SendSound, Rely
  <2>5. (Over(q) /\ questions[q] = "succeeded" =>
           \A a \in t.ids : attachments[a].status = "deleted" \/ attachments[a].message = q)'
    BY <1>1 DEF SendSound, Rely
  <2>6. (Over(q) /\ questions[q] = "pending" =>
           \E a \in t.ids \cap Images : a \notin files /\ attachments[a].status # "new")'
    BY <1>1 DEF SendSound, Rely
  <2> QED BY <1>1, <2>1, <2>2, <2>3, <2>4, <2>5, <2>6 DEF SendSound
<1> QED BY <1>2, <1>3, <1>4

\* Two requests that hold locks work on different conversations.
LEMMA LocksApart ==
  ASSUME ChatInv, NEW r \in Request, NEW q \in Request, q # r
  PROVE  /\ Locking(r) /\ Locking(q) => ChatOf(r) # ChatOf(q)
         /\ At(q, "add") \/ Answering(q) =>
              /\ Locking(q) /\ ChatOf(q) \in Conversation /\ Operating(q, {"send"})
              /\ \A a \in thread[q].ids : HomeOf[a] = ChatOf(q)
  <1>1. TypeInv /\ LockInv
    BY DEF ChatInv, GateInv
  <1>2. Shape(thread[q]) /\ AtHome(thread[q])
    BY <1>1 DEF TypeInv, ThreadInv
  <1>3. Locking(r) /\ Locking(q) => ChatOf(r) # ChatOf(q)
    BY <1>1 DEF LockInv
  <1>4. ASSUME At(q, "add") \/ Answering(q)
        PROVE  /\ Locking(q) /\ ChatOf(q) \in Conversation /\ Operating(q, {"send"})
               /\ \A a \in thread[q].ids : HomeOf[a] = ChatOf(q)
    <2>1. thread[q].pc \in {"add"} \cup AnswerPc
      BY <1>4 DEF At, Answering, AnswerPc
    <2>2. thread[q].operation = "send"
      BY <1>2, <2>1 DEF Shape, SendPc
    <2> QED BY <1>2, <2>1, <2>2 DEF Shape, AtHome, FromOneChat, Locking, Operating, ChatOf,
               AnswerPc
  <1> QED BY <1>3, <1>4

\* A removal does not select what a question in flight is about.
LEMMA NotSelected ==
  ASSUME ChatInv, NEW r \in Request, NEW q \in Request, q # r, At(r, "rows"),
         Answering(q) \/ At(q, "add"),
         ~Operating(r, {"list"}) \/ conversations[ChatOf(q)] # "expired"
  PROVE  /\ ChatOf(q) \notin SelectedChats(r)
         /\ \A a \in thread[q].ids : a \notin SelectedRows(r)
<1>1. /\ Locking(q) /\ ChatOf(q) \in Conversation
      /\ \A a \in thread[q].ids : HomeOf[a] = ChatOf(q)
  BY LocksApart
<1>2. CASE Operating(r, {"list"})
  BY <1>1, <1>2 DEF SelectedChats, SelectedRows, Operating
<1>3. CASE ~Operating(r, {"list"})
  <2>1. Locking(r) /\ ChatOf(r) # ChatOf(q)
    BY <1>1, <1>3, LocksApart DEF Locking, At
  <2>2. \A a \in thread[r].ids : HomeOf[a] = ChatOf(r)
    <3>1. AtHome(thread[r])
      BY DEF ChatInv, GateInv, TypeInv, ThreadInv
    <3> QED BY <1>3, <3>1 DEF AtHome, FromOneChat, At, Operating, ChatOf
  <2> QED BY <1>1, <1>3, <2>1, <2>2 DEF SelectedChats, SelectedRows, Operating
<1> QED BY <1>2, <1>3

\* The pieces of the invariant that are used about one request.
LEMMA ChatFacts ==
  ASSUME ChatInv, NEW r \in Request
  PROVE  /\ TypeInv /\ LockInv
         /\ SendSound(r) /\ UploadSound(r) /\ RemovalSound(r)
         /\ Shape(thread[r]) /\ AtHome(thread[r])
         /\ conversations \in [Conversation -> Age] /\ questions \in [Request -> Question]
         /\ attachments \in [Attachment -> Row] /\ files \subseteq Attachment
         /\ thread \in [Request -> Thread]
         /\ thread[r].ids \subseteq Attachment /\ thread[r].todo \subseteq Attachment
BY ThreadFacts DEF ChatInv, GateInv, TypeInv, TypeOK, ThreadInv, RequestsSound

\* Uploads that are under way have different attachments.
LEMMA UploadsDiffer ==
  ASSUME ChatInv, NEW r \in Request, NEW q \in Request, q # r,
         thread[r].pc \in UploadPc, thread[q].pc \in UploadPc
  PROVE  thread[r].ids \cap thread[q].ids = {}
<1>1. Operating(r, {"upload"}) /\ Operating(q, {"upload"})
  BY ChatFacts DEF Shape, Operating
<1> QED BY <1>1 DEF ChatInv, UploadsApart

\* The steps that change neither a table nor a file.
Quiet == UNCHANGED <<conversations, questions, attachments, files>>

QuietStep(r) ==
  \/ LockConversation(r) \/ GateStep(r) \/ ReleaseLock(r) \/ ResolveAttachments(r)
  \/ BuildMessages(r) \/ AskModel(r) \/ AllBound(r) \/ ReadNames(r)

LEMMA QuietSteps ==
  ASSUME NEW r \in Request,
         \/ QuietStep(r)
         \/ Arrival(r) /\ ~CreateConversation(r) /\ ~RenameConversation(r)
  PROVE  Quiet
BY DEF QuietStep, LockConversation, GateStep, AcquireOwnerGate, AcquireGlobalGate,
       ReleaseGlobalGate, ReleaseOwnerGate, ReleaseLock, ResolveAttachments, BuildMessages,
       AskModel, AllBound, ReadNames, Arrival, SendMessage, UploadAttachment,
       DeleteAttachment, ClearConversation, DeleteConversation, ListConversations, tables,
       Quiet

LEMMA RelyOthers ==
  ASSUME ChatInv, NEW r \in Request, Arrival(r) \/ Step(r), NEW q \in Request, q # r
  PROVE  Rely(q)
<1> DEFINE t == thread[q]
<1>1. thread'[q] = t
  <2>1. TypeInv
    BY ChatFacts
  <2> QED BY <2>1, ArrivalThread, StepThread, ThreadFacts DEF OneThread
<1>2. /\ SendSound(q) /\ UploadSound(q) /\ RemovalSound(q)
      /\ conversations \in [Conversation -> Age] /\ questions \in [Request -> Question]
      /\ attachments \in [Attachment -> Row] /\ files \subseteq Attachment
      /\ t.ids \subseteq Attachment
  BY ChatFacts
<1>3. /\ Locking(r) => \/ ChatOf(q) # ChatOf(r)
                       \/ ~At(q, "add") /\ ~Answering(q)
      /\ At(q, "add") \/ Answering(q) =>
           /\ ChatOf(q) \in Conversation /\ Operating(q, {"send"})
           /\ \A a \in t.ids : HomeOf[a] = ChatOf(q)
  BY LocksApart
<1>4. /\ SendSound(r) /\ UploadSound(r) /\ RemovalSound(r)
      /\ thread[r].ids \subseteq Attachment /\ thread[r].todo \subseteq Attachment
  BY ChatFacts
<1>5. CASE Quiet
  BY <1>1, <1>5 DEF Rely, Quiet, Exists
<1>6. CASE CreateConversation(r) \/ RenameConversation(r)
  <2>1. PICK c \in Conversation :
          /\ Exists(c) \/ conversations[c] = "new"
          /\ conversations' = [conversations EXCEPT ![c] = "recent"]
    BY <1>6 DEF CreateConversation, RenameConversation
  <2>2. UNCHANGED <<questions, attachments, files>>
    BY <1>6 DEF CreateConversation, RenameConversation
  <2>3. /\ Operating(q, {"send"}) => conversations[ChatOf(q)] # "new"
        /\ Answering(q) => conversations[ChatOf(q)] = "recent"
    BY <1>2 DEF SendSound
  <2> QED BY <1>1, <1>2, <1>3, <2>1, <2>2, <2>3 DEF Rely, Exists
<1>7. CASE AddMessage(r) \/ CompleteExchange(r) \/ MarkFailed(r)
  <2>1. /\ Locking(r) /\ UNCHANGED <<attachments, files>>
        /\ \/ conversations' = [conversations EXCEPT ![ChatOf(r)] = "recent"]
           \/ conversations' = conversations
        /\ questions'[q] = questions[q]
    BY <1>2, <1>7 DEF AddMessage, CompleteExchange, MarkFailed, Locking, At
  <2>2. Operating(q, {"send"}) =>
          conversations[ChatOf(q)] # "new" /\ ChatOf(q) \in Conversation
    BY <1>2, ChatFacts DEF SendSound, Shape, Operating, ChatOf
  <2>3. \A c \in Conversation :
          \/ conversations'[c] = conversations[c]
          \/ c = ChatOf(r) /\ conversations'[c] = "recent"
    BY <1>2, <2>1
  <2> QED BY <1>1, <1>3, <2>1, <2>2, <2>3 DEF Rely, Exists
<1>8. CASE BindAttachment(r)
  <2>1. CASE UNCHANGED attachments
    BY <1>1, <1>5, <1>8, <2>1 DEF BindAttachment, Quiet
  <2>2. CASE UNCHANGED attachments => FALSE
    <3>1. PICK a \in thread[r].todo :
            attachments' = [attachments EXCEPT ![a].message = r]
      BY <1>8, <2>2 DEF BindAttachment
    <3>2. Locking(r) /\ Answering(r) /\ UNCHANGED <<conversations, questions, files>>
      BY <1>8 DEF BindAttachment, Locking, At, Answering
    <3>3. a \in thread[r].ids /\ Fresh(a) /\ a \in Attachment
      BY <1>4, <1>8 DEF BindAttachment, SendSound, Fresh, At
    <3>4. HomeOf[a] = ChatOf(r)
      BY <3>2, <3>3, ChatFacts DEF AtHome, FromOneChat, Answering, AnswerPc, ChatOf
    <3>5. \A b \in Attachment :
            /\ attachments'[b].status = attachments[b].status
            /\ b # a => attachments'[b] = attachments[b]
      BY <1>2, <3>1 DEF Row
    <3>6. At(q, "add") \/ Answering(q) => a \notin t.ids
      BY <1>3, <3>2, <3>4
    <3>7. t.pc \in {"write", "insert", "undo"} => a \notin t.ids
      BY <1>2, <3>3 DEF UploadSound, Fresh
    <3>8. attachments[a].message # q
      BY <3>3, ChatAssumption DEF Fresh
    <3> QED BY <1>1, <1>2, <3>2, <3>5, <3>6, <3>7, <3>8 DEF Rely, Exists
  <2> QED BY <2>1, <2>2
<1>9. CASE DeleteRows(r)
  <2>1. /\ At(r, "rows") /\ files' = files
        /\ attachments' = WithoutRows(SelectedRows(r))
        /\ questions' = WithoutQuestions(SelectedChats(r))
        /\ \A c \in Conversation :
             /\ c \notin SelectedChats(r) => conversations'[c] = conversations[c]
             /\ conversations[c] # "new" => conversations'[c] # "new"
             /\ Operating(r, {"list"}) /\ conversations[c] = "expired" =>
                  conversations'[c] = "deleted"
             /\ conversations'[c] \in {"recent", "expired"} => Exists(c)
    BY <1>2, <1>9 DEF DeleteRows, ChatsTo, SelectedChats, Exists, Operating
  <2>2. ASSUME NEW a \in Attachment
        PROVE  /\ a \notin SelectedRows(r) => attachments'[a] = attachments[a]
               /\ a \in SelectedRows(r) => /\ HasRow(a) /\ attachments'[a].status = "deleted"
               /\ attachments'[a].status \in {attachments[a].status, "deleted"}
               /\ attachments[a].status = "new" => attachments'[a] = attachments[a]
    BY <2>1 DEF WithoutRows, SelectedRows, HasRow
  <2>3. questions'[q] = IF ChatOf(q) \in SelectedChats(r) THEN "none" ELSE questions[q]
    BY <2>1 DEF WithoutQuestions
  <2>4. Answering(q) => /\ ChatOf(q) \notin SelectedChats(r)
                        /\ \A a \in t.ids : a \notin SelectedRows(r)
    BY <1>2, <2>1, NotSelected DEF SendSound
  <2>5. At(q, "add") /\ conversations'[ChatOf(q)] \in {"recent", "expired"} =>
          \A a \in t.ids : a \notin SelectedRows(r)
    BY <1>3, <2>1, NotSelected
  <2>6. Operating(q, {"send"}) => ChatOf(q) \in Conversation
    BY ChatFacts DEF Shape, Operating, ChatOf
  <2>7. t.pc \in {"write", "insert", "undo"} =>
          \A a \in t.ids : attachments[a].status = "new"
    BY <1>2 DEF UploadSound
  <2> QED BY <1>1, <1>2, <1>3, <2>1, <2>2, <2>3, <2>4, <2>5, <2>6, <2>7 DEF Rely
<1>10. CASE RemoveFiles(r) \/ UndoFile(r)
  <2>1. UNCHANGED <<conversations, questions, attachments>> /\ files' = files \ thread[r].ids
    BY <1>10 DEF RemoveFiles, UndoFile, tables
  <2>2. t.pc \in {"write", "insert", "undo"} => \A a \in t.ids : a \notin thread[r].ids
    <3>1. CASE RemoveFiles(r)
      BY <1>2, <1>4, <3>1 DEF RemoveFiles, At, UploadSound, RemovalSound
    <3>2. CASE UndoFile(r)
      BY <3>2, UploadsDiffer DEF UndoFile, At, UploadPc
    <3> QED BY <1>10, <3>1, <3>2
  <2> QED BY <1>1, <2>1, <2>2 DEF Rely, Exists
<1>11. CASE WriteFile(r)
  <2>1. UNCHANGED <<conversations, questions, attachments>> /\ files' = files \cup thread[r].ids
    BY <1>11 DEF WriteFile, tables
  <2>2. \A a \in thread[r].ids : attachments[a].status = "new"
    BY <1>4, <1>11 DEF WriteFile, At, UploadSound
  <2> QED BY <1>1, <2>1, <2>2 DEF Rely, Exists
<1>12. CASE InsertAttachment(r) \/ ParseAttachment(r)
  <2>1. UNCHANGED <<conversations, questions, files>>
    BY <1>12 DEF InsertAttachment, ParseAttachment
  <2>2. \A a \in thread[r].ids : attachments[a].status \in {"new", "uploaded", "deleted"}
    BY <1>4, <1>12 DEF InsertAttachment, ParseAttachment, At, UploadSound
  <2>3. ASSUME NEW a \in Attachment
        PROVE  /\ a \notin thread[r].ids => attachments'[a] = attachments[a]
               /\ attachments'[a].status # "new" \/ attachments[a].status = "new"
               /\ attachments[a].status = "deleted" => attachments'[a].status = "deleted"
    <3>1. CASE InsertAttachment(r)
      BY <1>4, <3>1 DEF InsertAttachment, At, UploadSound
    <3>2. CASE ParseAttachment(r)
      BY <1>2, <3>2 DEF ParseAttachment, HasRow, Row
    <3> QED BY <1>12, <3>1, <3>2
  <2>4. t.pc \in UploadPc => \A a \in t.ids : a \notin thread[r].ids
    BY <1>12, UploadsDiffer DEF InsertAttachment, ParseAttachment, At, UploadPc
  <2>5. /\ Answering(q) => \A a \in t.ids : attachments[a].status = "ready"
        /\ At(q, "add") /\ Exists(ChatOf(q)) => \A a \in t.ids : attachments[a].status = "ready"
    BY <1>2 DEF SendSound, Answering, At, Fresh
  <2>6. \A a \in thread[r].ids : attachments[a].message = NoRequest
    <3>1. \A a \in Attachment : BoundSound(a)
      BY DEF ChatInv
    <3> QED BY <1>4, <2>2, <3>1 DEF BoundSound
  <2>7. NoRequest # q
    BY ChatAssumption
  <2> QED BY <1>1, <1>2, <1>4, <2>1, <2>2, <2>3, <2>4, <2>5, <2>6, <2>7
          DEF Rely, Exists, UploadPc, At
<1>13. Arrival(r) => Quiet \/ CreateConversation(r) \/ RenameConversation(r)
  BY QuietSteps
<1>14. QuietStep(r) => Quiet
  BY QuietSteps
<1> QED BY <1>5, <1>6, <1>7, <1>8, <1>9, <1>10, <1>11, <1>12, <1>13, <1>14
        DEF Step, GateStep, QuietStep

\* Where each operation begins.
LEMMA ArrivalPlace ==
  ASSUME TypeInv, NEW r \in Request
  PROVE  /\ CreateConversation(r) \/ RenameConversation(r) => thread'[r].pc = "done"
         /\ SendMessage(r) \/ DeleteAttachment(r) \/ ClearConversation(r)
              \/ DeleteConversation(r) => thread'[r].pc = "lock"
         /\ UploadAttachment(r) => thread'[r].pc = "write"
         /\ ListConversations(r) => thread'[r].pc = "names"
         /\ CreateConversation(r) \/ RenameConversation(r) \/ DeleteAttachment(r)
              \/ ClearConversation(r) \/ DeleteConversation(r) \/ UploadAttachment(r)
              \/ ListConversations(r) => thread'[r].operation # "send"
         /\ ~UploadAttachment(r) /\ Arrival(r) => thread'[r].operation # "upload"
<1>1. ASSUME NEW operation, NEW c, NEW ids, NEW pc, Arrive(r, operation, c, ids, pc)
      PROVE  thread'[r].pc = pc /\ thread'[r].operation = operation
  BY <1>1, ThreadFacts DEF Arrive, NoThread
<1>2. CreateConversation(r) => thread'[r].pc = "done" /\ thread'[r].operation \notin {"send", "upload"}
  BY <1>1 DEF CreateConversation
<1>3. RenameConversation(r) => thread'[r].pc = "done" /\ thread'[r].operation \notin {"send", "upload"}
  BY <1>1 DEF RenameConversation
<1>4. SendMessage(r) => thread'[r].pc = "lock" /\ thread'[r].operation # "upload"
  BY <1>1 DEF SendMessage
<1>5. DeleteAttachment(r) => thread'[r].pc = "lock" /\ thread'[r].operation \notin {"send", "upload"}
  BY <1>1 DEF DeleteAttachment
<1>6. ClearConversation(r) => thread'[r].pc = "lock" /\ thread'[r].operation \notin {"send", "upload"}
  BY <1>1 DEF ClearConversation
<1>7. DeleteConversation(r) => thread'[r].pc = "lock" /\ thread'[r].operation \notin {"send", "upload"}
  BY <1>1 DEF DeleteConversation
<1>8. UploadAttachment(r) => thread'[r].pc = "write" /\ thread'[r].operation # "send"
  BY <1>1 DEF UploadAttachment
<1>9. ListConversations(r) => thread'[r].pc = "names" /\ thread'[r].operation \notin {"send", "upload"}
  BY <1>1 DEF ListConversations
<1> QED BY <1>2, <1>3, <1>4, <1>5, <1>6, <1>7, <1>8, <1>9 DEF Arrival

\* Where a request goes: the steps of a send, an upload and a removal stay apart.
LEMMA Phases ==
  ASSUME TypeInv, NEW r \in Request, Step(r)
  PROVE  /\ thread[r].pc = "lock" =>
              LockConversation(r) /\ thread'[r].pc \in {"owner", "names", "done"}
         /\ thread[r].pc \in SendPc =>
              thread'[r].pc \in SendPc \cup {"release"} /\ thread'[r].pc # "owner"
         /\ thread[r].pc \in UploadPc => thread'[r].pc \in UploadPc \cup {"done"}
         /\ thread[r].pc \in RemovalPc =>
              /\ ReadNames(r) \/ DeleteRows(r) \/ RemoveFiles(r)
              /\ thread'[r].pc \in {"rows", "unlink", "done", "release"}
         /\ thread[r].pc = "release" => thread'[r].pc \in {"release", "done"} /\ Quiet
         /\ thread[r].pc \in {"lock", "release"} \cup SendPc \cup UploadPc \cup RemovalPc
<1> USE ThreadFacts DEF SendPc, UploadPc, RemovalPc, AnswerPc, Thread
<1>1. CASE LockConversation(r) \/ GateStep(r) \/ ReleaseLock(r)
  <2>1. Quiet
    BY <1>1, QuietSteps DEF QuietStep
  <2> QED BY <1>1, <2>1 DEF LockConversation, GateStep, AcquireOwnerGate, AcquireGlobalGate,
             ReleaseGlobalGate, ReleaseOwnerGate, ReleaseLock, At, Goto
<1>2. CASE ResolveAttachments(r) \/ AddMessage(r) \/ BuildMessages(r) \/ AskModel(r)
             \/ MarkFailed(r)
  BY <1>2 DEF ResolveAttachments, AddMessage, BuildMessages, AskModel, MarkFailed, At, Goto
<1>3. CASE CompleteExchange(r) \/ BindAttachment(r) \/ AllBound(r)
  BY <1>3 DEF CompleteExchange, BindAttachment, AllBound, At, Goto
<1>4. CASE ReadNames(r) \/ DeleteRows(r) \/ RemoveFiles(r)
  BY <1>4 DEF ReadNames, DeleteRows, RemoveFiles, At, Goto
<1>5. CASE WriteFile(r) \/ InsertAttachment(r) \/ UndoFile(r) \/ ParseAttachment(r)
  BY <1>5 DEF WriteFile, InsertAttachment, UndoFile, ParseAttachment, At, Goto
<1> QED BY <1>1, <1>2, <1>3, <1>4, <1>5 DEF Step, GateStep

LEMMA OwnUpload ==
  ASSUME ChatInv, NEW r \in Request, Arrival(r) \/ Step(r)
  PROVE  UploadSound(r)'
<1> USE ChatFacts DEF Thread
<1>1. CASE thread'[r].pc \notin UploadPc
  BY <1>1 DEF UploadSound, At, UploadPc
<1>2. CASE Arrival(r) /\ thread'[r].pc \in UploadPc
  <2>1. PICK a \in Attachment :
          /\ attachments[a].status = "new"
          /\ Arrive(r, "upload", HomeOf[a], {a}, "write")
    <3>1. UploadAttachment(r)
      BY <1>2, ArrivalPlace DEF Arrival, UploadPc
    <3> QED BY <3>1 DEF UploadAttachment
  <2>2. thread'[r].pc = "write" /\ thread'[r].ids = {a}
    BY <2>1 DEF Arrive, NoThread
  <2>3. attachments' = attachments
    BY <1>2, ArrivalFields
  <2> QED BY <2>1, <2>2, <2>3 DEF UploadSound, At
<1>3. CASE Step(r) /\ thread'[r].pc \in UploadPc
  <2>1. thread[r].pc \in UploadPc
    BY <1>3, Phases DEF UploadPc, SendPc, AnswerPc, RemovalPc
  <2>2. WriteFile(r) \/ InsertAttachment(r) \/ UndoFile(r) \/ ParseAttachment(r)
    BY <1>3, <2>1 DEF Step, UploadPc, At, LockConversation, AcquireOwnerGate,
       AcquireGlobalGate, ReleaseGlobalGate, ReleaseOwnerGate, ReleaseLock,
       ResolveAttachments, AddMessage, BuildMessages, AskModel, MarkFailed,
       CompleteExchange, BindAttachment, AllBound, ReadNames, DeleteRows, RemoveFiles
  <2>3. CASE WriteFile(r)
    BY <2>3 DEF WriteFile, At, Goto, tables, UploadSound
  <2>4. CASE InsertAttachment(r)
    <3>1. thread'[r].ids = thread[r].ids /\ At(r, "insert") /\ thread'[r].pc \in {"parse", "undo"}
      BY <2>4 DEF InsertAttachment, Goto, At
    <3>2. thread'[r].pc = "parse" =>
            \A a \in thread[r].ids : attachments'[a].status = "uploaded"
      BY <2>4 DEF InsertAttachment, Goto
    <3>3. thread'[r].pc = "undo" => attachments' = attachments
      BY <2>4 DEF InsertAttachment, Goto
    <3> QED BY <3>1, <3>2, <3>3 DEF UploadSound, At
  <2>5. CASE UndoFile(r) \/ ParseAttachment(r)
    BY <1>3, <2>5 DEF UndoFile, ParseAttachment, Goto, UploadPc
  <2> QED BY <2>2, <2>3, <2>4, <2>5
<1> QED BY <1>1, <1>2, <1>3

LEMMA OwnRemoval ==
  ASSUME ChatInv, NEW r \in Request, Arrival(r) \/ Step(r)
  PROVE  RemovalSound(r)'
<1> USE ChatFacts DEF Thread
<1>1. CASE thread'[r].pc \notin RemovalPc
  BY <1>1 DEF RemovalSound, At, RemovalPc
<1>2. CASE Arrival(r) /\ thread'[r].pc \in RemovalPc
  <2>1. ListConversations(r)
    BY <1>2, ArrivalPlace DEF Arrival, RemovalPc
  <2>2. thread'[r].pc = "names" /\ thread'[r].ids = {}
    BY <2>1 DEF ListConversations, Arrive, NoThread
  <2> QED BY <2>2 DEF RemovalSound, At
<1>3. CASE LockConversation(r)
  BY <1>3 DEF LockConversation, Goto, RemovalSound, At, Operating, Shape
<1>4. CASE ReadNames(r)
  <2>1. /\ thread'[r].pc \in {"rows", "release"} /\ attachments' = attachments
        /\ thread'[r].pc = "rows" => thread'[r].ids = SelectedRows(r)
    BY <1>4 DEF ReadNames, Goto, tables
  <2> QED BY <2>1 DEF RemovalSound, SelectedRows, HasRow, At
<1>5. CASE DeleteRows(r)
  <2>1. /\ thread'[r].pc = "unlink" /\ thread'[r].ids = thread[r].ids /\ At(r, "rows")
        /\ thread'[r].operation = thread[r].operation
        /\ attachments' = WithoutRows(SelectedRows(r))
    BY <1>5 DEF DeleteRows, Goto
  <2>2. ASSUME NEW a \in thread[r].ids
        PROVE  /\ attachments'[a].status # "new"
               /\ ~Operating(r, {"list"}) => attachments'[a].status = "deleted"
    <3>1. attachments[a].status \in RowState \ {"new"}
      BY <2>1 DEF RemovalSound, Row, At
    <3>2. ~Operating(r, {"list"}) /\ HasRow(a) => a \in SelectedRows(r)
      BY <2>1 DEF Shape, RemovalPc, AtHome, FromOneChat, SelectedRows, SelectedChats, Operating,
                  At, ChatOf
    <3> QED BY <2>1, <3>1, <3>2 DEF WithoutRows, HasRow, RowState
  <2> QED BY <2>1, <2>2 DEF RemovalSound, At, Operating
<1>6. CASE RemoveFiles(r)
  BY <1>6 DEF RemoveFiles, Goto, RemovalSound, At
<1>7. CASE Step(r) /\ thread'[r].pc \in RemovalPc
  BY <1>3, <1>4, <1>5, <1>6, <1>7, Phases DEF RemovalPc, UploadPc, SendPc, AnswerPc
<1> QED BY <1>1, <1>2, <1>7

\* A request that is not a send leaves the questions of sends alone.
LEMMA NotASend ==
  ASSUME ChatInv, NEW r \in Request, thread'[r].operation # "send", questions'[r] = "none",
         Shape(thread'[r])
  PROVE  SendSound(r)'
BY DEF SendSound, Operating, At, Answering, Over, Shape, SendPc, AnswerPc

LEMMA OwnQuestion ==
  ASSUME ChatInv, NEW r \in Request, questions[r] = "none"
  PROVE  WithoutQuestions(SelectedChats(r))[r] = "none"
BY DEF WithoutQuestions

LEMMA OwnSend ==
  ASSUME ChatInv, NEW r \in Request, Arrival(r) \/ Step(r)
  PROVE  SendSound(r)'
<1> DEFINE t == thread[r]
<1>1. /\ TypeInv /\ SendSound(r) /\ Shape(t) /\ AtHome(t)
      /\ conversations \in [Conversation -> Age] /\ questions \in [Request -> Question]
      /\ attachments \in [Attachment -> Row] /\ files \subseteq Attachment
      /\ thread \in [Request -> Thread] /\ t \in Thread
      /\ t.ids \subseteq Attachment /\ t.todo \subseteq Attachment
  BY ChatFacts
<1>2. OneThread(r)
  BY <1>1, ArrivalThread, StepThread
<1>3. Shape(thread'[r])
  BY <1>2 DEF OneThread
<1>4. CASE Arrival(r)
  <2>1. questions'[r] = "none"
    BY <1>1, <1>4, ArrivalFields DEF SendSound, Early
  <2>2. CASE SendMessage(r)
    <3>1. PICK c \in Conversation, ids \in SUBSET Attachment :
            Exists(c) /\ Arrive(r, "send", c, ids, "lock")
      BY <2>2 DEF SendMessage
    <3>2. thread'[r].pc = "lock" /\ thread'[r].conversation = c
      BY <1>1, <3>1 DEF Arrive, NoThread
    <3>3. conversations' = conversations
      BY <2>2 DEF SendMessage, tables
    <3> QED BY <2>1, <3>1, <3>2, <3>3
            DEF SendSound, Early, At, Answering, Over, ChatOf, Exists
  <2>3. CASE ~SendMessage(r)
    <3>1. thread'[r].operation # "send"
      BY <1>1, <1>4, <2>3, ArrivalPlace DEF Arrival
    <3> QED BY <1>3, <2>1, <3>1, NotASend
  <2> QED BY <2>2, <2>3
<1>5. CASE Step(r) /\ t.operation # "send"
  <2>1. thread'[r].operation # "send" /\ questions[r] = "none"
    BY <1>1, <1>5, StepFields DEF SendSound, Operating
  <2>2. questions'[r] = "none"
    <3>1. CASE Quiet
      BY <2>1, <3>1 DEF Quiet
    <3>2. CASE t.pc \in RemovalPc
      <4>1. CASE DeleteRows(r)
        BY <2>1, <4>1, OwnQuestion DEF DeleteRows
      <4>2. CASE ReadNames(r) \/ RemoveFiles(r)
        BY <2>1, <4>2 DEF ReadNames, RemoveFiles, tables
      <4> QED BY <1>1, <1>5, <3>2, <4>1, <4>2, Phases
    <3>3. CASE WriteFile(r) \/ InsertAttachment(r) \/ UndoFile(r) \/ ParseAttachment(r)
      BY <2>1, <3>3 DEF WriteFile, InsertAttachment, UndoFile, ParseAttachment, tables
    <3>4. CASE t.pc \in SendPc
      BY <1>1, <1>5, <3>4 DEF Shape
    <3>5. CASE t.pc \in {"lock", "release"}
      <4>1. Quiet
        BY <1>1, <1>5, <3>5, Phases, QuietSteps DEF QuietStep
      <4> QED BY <3>1, <4>1
    <3>6. CASE t.pc \in UploadPc /\ ~Quiet
      BY <1>5, <3>3, <3>6, QuietSteps DEF Step, QuietStep, GateStep, UploadPc, At, AddMessage,
         MarkFailed, CompleteExchange, BindAttachment, DeleteRows, RemoveFiles
    <3> QED BY <1>1, <1>5, <3>1, <3>2, <3>4, <3>5, <3>6, Phases
  <2> QED BY <1>3, <2>1, <2>2, NotASend
<1>6. ASSUME Step(r), t.operation = "send"
      PROVE  SendSound(r)'
  <2>1. thread'[r].operation = "send" /\ ChatOf(r)' = ChatOf(r) /\ ChatOf(r) \in Conversation
    BY <1>1, <1>6, StepFields DEF ChatOf, Shape
  <2>2. ASSUME UNCHANGED <<conversations, questions>>, questions[r] = "none",
               \/ thread'[r].pc \in {"owner", "global", "resolve", "release", "done"}
               \/ thread'[r].pc = "add" /\ \A a \in thread'[r].ids : Fresh(a)'
        PROVE  SendSound(r)'
    BY <1>1, <1>6, <2>1, <2>2 DEF SendSound, Early, At, Answering, Over, Operating, ChatOf
  <2>3. CASE LockConversation(r)
    BY <1>1, <1>6, <2>2, <2>3
       DEF LockConversation, Goto, At, Operating, Early, SendSound, Thread, tables
  <2>4. CASE AcquireOwnerGate(r) \/ AcquireGlobalGate(r)
    BY <1>1, <2>2, <2>4
       DEF AcquireOwnerGate, AcquireGlobalGate, Goto, At, Early, SendSound, Thread, tables
  <2>5. CASE ResolveAttachments(r)
    BY <1>1, <2>2, <2>5
       DEF ResolveAttachments, Sendable, Goto, At, Early, SendSound, Thread, tables, Fresh
  <2>6. CASE ReleaseGlobalGate(r) \/ ReleaseOwnerGate(r) \/ ReleaseLock(r)
    <3>1. /\ thread[r].pc = "release" /\ thread'[r].pc \in {"release", "done"}
          /\ thread'[r].ids = thread[r].ids /\ Quiet
      BY <1>1, <2>6 DEF ReleaseGlobalGate, ReleaseOwnerGate, ReleaseLock, Goto, At, tables,
                        Quiet, Thread
    <3> QED BY <1>1, <1>6, <2>1, <3>1
            DEF SendSound, Quiet, Early, At, Answering, Over, Operating, ChatOf, Exists
  <2>7. CASE AddMessage(r)
    <3>1. CASE ~Exists(ChatOf(r))
      BY <1>1, <2>2, <2>7, <3>1 DEF AddMessage, Goto, At, Early, SendSound, Thread
    <3>2. CASE Exists(ChatOf(r))
      <4>1. /\ conversations'[ChatOf(r)] = "recent" /\ questions'[r] = "pending"
            /\ thread'[r].pc = "build" /\ thread'[r].ids = t.ids /\ attachments' = attachments
        BY <1>1, <2>1, <2>7, <3>2 DEF AddMessage, Goto, Thread
      <4>2. \A a \in t.ids : Fresh(a)
        BY <1>1, <2>7, <3>2 DEF AddMessage, SendSound
      <4> QED BY <2>1, <4>1, <4>2
              DEF SendSound, Early, At, Answering, Over, Operating, ChatOf, Fresh
    <3> QED BY <3>1, <3>2
  <2>8. CASE BuildMessages(r) \/ AskModel(r)
    <3>1. /\ Quiet /\ t.pc \in {"build", "ask"} /\ thread'[r].ids = t.ids
          /\ thread'[r].pc \in {"ask", "complete", "fail", "release"}
          /\ thread'[r].pc = "release" => ~(t.ids \cap Images \subseteq files)
      BY <1>1, <2>8 DEF BuildMessages, AskModel, Goto, At, tables, Quiet, Thread
    <3>2. /\ conversations[ChatOf(r)] = "recent" /\ questions[r] = "pending"
          /\ \A a \in t.ids : Fresh(a)
      BY <1>1, <3>1 DEF SendSound, Answering
    <3> QED BY <2>1, <3>1, <3>2
            DEF SendSound, Early, At, Answering, Over, Operating, ChatOf, Fresh, Quiet
  <2>9. CASE MarkFailed(r)
    <3>1. /\ t.pc = "fail" /\ thread'[r].pc = "release" /\ conversations' = conversations
          /\ questions[r] = "pending" => questions'[r] = "failed"
      BY <1>1, <2>9 DEF MarkFailed, Goto, At, Thread
    <3>2. conversations[ChatOf(r)] = "recent" /\ questions[r] = "pending"
      BY <1>1, <3>1 DEF SendSound, Answering
    <3> QED BY <2>1, <3>1, <3>2 DEF SendSound, Early, At, Answering, Over, Operating, ChatOf
  <2>10. CASE CompleteExchange(r)
    <3>1. /\ conversations[ChatOf(r)] = "recent" /\ questions[r] = "pending"
          /\ \A a \in t.ids : Fresh(a)
      BY <1>1, <2>10 DEF CompleteExchange, At, SendSound, Answering
    <3>2. /\ thread'[r].pc = "bind" /\ thread'[r].todo = t.ids /\ thread'[r].ids = t.ids
          /\ conversations'[ChatOf(r)] = "recent" /\ questions'[r] = "succeeded"
          /\ attachments' = attachments
      BY <1>1, <2>1, <2>10, <3>1 DEF CompleteExchange, Thread
    <3> QED BY <2>1, <3>1, <3>2
            DEF SendSound, Early, At, Answering, Over, Operating, ChatOf, Fresh
  <2>11. CASE BindAttachment(r) \/ AllBound(r)
    <3>1. /\ t.pc = "bind" /\ conversations[ChatOf(r)] = "recent" /\ questions[r] = "succeeded"
          /\ t.todo \subseteq t.ids
          /\ \A a \in t.ids :
               /\ attachments[a].status = "ready"
               /\ attachments[a].message = IF a \in t.todo THEN NoRequest ELSE r
          /\ UNCHANGED <<conversations, questions>>
      BY <1>1, <2>11 DEF BindAttachment, AllBound, At, SendSound, Answering, tables
    <3>2. CASE AllBound(r)
      <4>1. /\ t.todo = {} /\ thread'[r].pc = "release" /\ thread'[r].ids = t.ids
            /\ attachments' = attachments
        BY <1>1, <3>2 DEF AllBound, Goto, tables, Thread
      <4> QED BY <2>1, <3>1, <4>1
              DEF SendSound, Early, At, Answering, Over, Operating, ChatOf
    <3>3. CASE BindAttachment(r)
      <4>1. PICK a \in t.todo :
              /\ attachments' = [attachments EXCEPT ![a].message = r]
              /\ thread' = [thread EXCEPT ![r].todo = @ \ {a}]
        BY <3>1, <3>3 DEF BindAttachment, HasRow
      <4>2. thread'[r].pc = "bind" /\ thread'[r].todo = t.todo \ {a} /\ thread'[r].ids = t.ids
        BY <1>1, <3>1, <4>1 DEF Thread
      <4>3. \A b \in t.ids :
              /\ attachments'[b].status = "ready"
              /\ attachments'[b].message = IF b \in t.todo \ {a} THEN NoRequest ELSE r
        BY <1>1, <3>1, <4>1 DEF Row
      <4> QED BY <2>1, <3>1, <4>2, <4>3
              DEF SendSound, Early, At, Answering, Over, Operating, ChatOf
    <3> QED BY <2>11, <3>2, <3>3
  <2>12. t.pc \notin RemovalPc \cup UploadPc
    BY <1>1, <1>6 DEF Shape
  <2>13. ~(ReadNames(r) \/ DeleteRows(r) \/ RemoveFiles(r) \/ WriteFile(r)
           \/ InsertAttachment(r) \/ UndoFile(r) \/ ParseAttachment(r))
    BY <2>12 DEF ReadNames, DeleteRows, RemoveFiles, WriteFile, InsertAttachment, UndoFile,
                 ParseAttachment, At, RemovalPc, UploadPc
  <2> QED BY <1>6, <2>3, <2>4, <2>5, <2>6, <2>7, <2>8, <2>9, <2>10, <2>11, <2>13 DEF Step
<1> QED BY <1>4, <1>5, <1>6

\* The only step that gives an attachment to a question, and those that change a
\* row, seen from one attachment.
LEMMA RowMoves ==
  ASSUME ChatInv, NEW r \in Request, Arrival(r) \/ Step(r), NEW a \in Attachment,
         attachments'[a] # attachments[a]
  PROVE  \/ /\ BindAttachment(r) /\ attachments'[a].message = r /\ a \in thread[r].todo
            /\ attachments'[a].status = attachments[a].status
         \/ attachments'[a] = [status |-> "deleted", message |-> NoRequest]
         \/ /\ InsertAttachment(r) /\ a \in thread[r].ids
            /\ attachments'[a].message = NoRequest
         \/ /\ ParseAttachment(r) /\ a \in thread[r].ids /\ HasRow(a)
            /\ attachments'[a].message = NoRequest
<1>1. attachments \in [Attachment -> Row]
  BY ChatFacts
<1>2. ~Quiet
  BY DEF Quiet
<1>3. ~Arrival(r)
  BY <1>2, ArrivalFields, ChatFacts
<1>4. ~QuietStep(r)
  BY <1>2, QuietSteps
<1>5. BindAttachment(r) \/ DeleteRows(r) \/ InsertAttachment(r) \/ ParseAttachment(r)
  BY <1>3, <1>4 DEF Step, QuietStep, GateStep, AddMessage, MarkFailed, CompleteExchange,
     RemoveFiles, WriteFile, UndoFile, tables
<1>6. CASE BindAttachment(r)
  BY <1>1, <1>6 DEF BindAttachment, Row
<1>7. CASE DeleteRows(r)
  BY <1>7 DEF DeleteRows, WithoutRows
<1>8. CASE InsertAttachment(r)
  BY <1>8 DEF InsertAttachment
<1>9. CASE ParseAttachment(r)
  <2>1. a \in thread[r].ids /\ HasRow(a) /\ attachments'[a].message = attachments[a].message
    BY <1>1, <1>9 DEF ParseAttachment, Row
  <2>2. attachments[a].status # "ready"
    BY <1>9, <2>1, ChatFacts DEF UploadSound, ParseAttachment, At
  <2>3. attachments[a].message = NoRequest
    BY <2>2 DEF ChatInv, BoundSound
  <2> QED BY <1>9, <2>1, <2>3
<1> QED BY <1>5, <1>6, <1>7, <1>8, <1>9

LEMMA BoundKept ==
  ASSUME ChatInv, NEW r \in Request, Arrival(r) \/ Step(r)
  PROVE  \A a \in Attachment : BoundSound(a)'
<1> SUFFICES ASSUME NEW a \in Attachment, attachments'[a].message # NoRequest
             PROVE  BoundSound(a)'
  BY DEF BoundSound
<1> DEFINE q == attachments'[a].message
<1>1. TypeInv /\ BoundSound(a) /\ attachments \in [Attachment -> Row]
      /\ questions \in [Request -> Question]
  BY ChatFacts DEF ChatInv
<1>2. CASE attachments'[a] # attachments[a]
  <2>1. BindAttachment(r) /\ q = r /\ a \in thread[r].todo
        /\ attachments'[a].status = attachments[a].status
    BY <1>2, RowMoves
  <2>2. /\ a \in thread[r].ids /\ attachments[a].status = "ready" /\ questions[r] = "succeeded"
        /\ thread[r].pc = "bind"
    BY <2>1, ChatFacts DEF SendSound, BindAttachment, At
  <2>3. Operating(r, {"send"}) /\ HomeOf[a] = ChatOf(r)
    BY <2>2, ChatFacts DEF Shape, SendPc, AnswerPc, AtHome, FromOneChat, Operating, ChatOf
  <2>4. /\ thread'[r].ids = thread[r].ids /\ thread'[r].pc \in {"bind", "release"}
        /\ questions' = questions
    BY <2>1, <2>2, ThreadFacts, <1>1 DEF BindAttachment, Goto, Thread
  <2>5. thread'[r].operation = thread[r].operation /\ ChatOf(r)' = ChatOf(r)
    BY <1>1, <2>1, StepFields DEF Step, ChatOf
  <2> QED BY <2>1, <2>2, <2>3, <2>4, <2>5 DEF BoundSound, Operating, ChatOf
<1>3. CASE attachments'[a] = attachments[a]
  <2>1. /\ attachments[a].status = "ready" /\ Operating(q, {"send"}) /\ a \in thread[q].ids
        /\ thread[q].pc \in {"bind", "release", "done", "dead"}
        /\ HomeOf[a] = ChatOf(q) /\ questions[q] = "succeeded"
        /\ q \in Request
    BY <1>1, <1>3 DEF BoundSound, Row
  <2>2. CASE q # r
    <3>1. thread'[q] = thread[q] /\ questions'[q] \in {questions[q], "none"}
      BY <2>1, <2>2, RelyOthers DEF Rely
    <3>2. questions'[q] # "none"
      <4>1. CASE DeleteRows(r)
        <5>1. a \notin SelectedRows(r)
          BY <4>1 DEF DeleteRows, WithoutRows
        <5>2. ChatOf(q) \notin SelectedChats(r)
          BY <2>1, <5>1 DEF SelectedRows, HasRow
        <5> QED BY <2>1, <4>1, <5>2 DEF DeleteRows, WithoutQuestions
      <4>2. CASE Arrival(r) \/ QuietStep(r)
        BY <1>1, <2>1, <4>2, ArrivalFields, QuietSteps DEF Quiet
      <4>3. CASE AddMessage(r) \/ MarkFailed(r) \/ CompleteExchange(r) \/ BindAttachment(r)
        BY <1>1, <2>1, <2>2, <4>3 DEF AddMessage, MarkFailed, CompleteExchange, BindAttachment
      <4>4. CASE RemoveFiles(r) \/ WriteFile(r) \/ InsertAttachment(r) \/ UndoFile(r)
                   \/ ParseAttachment(r)
        BY <2>1, <4>4 DEF RemoveFiles, WriteFile, InsertAttachment, UndoFile,
           ParseAttachment, tables
      <4> QED BY <4>1, <4>2, <4>3, <4>4 DEF Step, QuietStep, GateStep
    <3> QED BY <1>3, <2>1, <3>1, <3>2 DEF BoundSound, Operating, ChatOf
  <2>3. CASE q = r
    <3>1. Step(r)
      BY <1>1, <2>1, <2>3, ArrivalFields
    <3>2. thread[r].pc \in {"bind", "release"}
      BY <1>1, <2>1, <2>3, <3>1, Phases DEF SendPc, AnswerPc, UploadPc, RemovalPc
    <3>3. /\ thread'[r].pc \in {"bind", "release", "done"} /\ thread'[r].ids = thread[r].ids
          /\ questions' = questions
      <4>1. BindAttachment(r) \/ AllBound(r) \/ ReleaseGlobalGate(r) \/ ReleaseOwnerGate(r)
            \/ ReleaseLock(r)
        BY <3>1, <3>2 DEF Step, At, LockConversation, AcquireOwnerGate, AcquireGlobalGate,
           ResolveAttachments, AddMessage, BuildMessages, AskModel, MarkFailed,
           CompleteExchange, ReadNames, DeleteRows, RemoveFiles, WriteFile,
           InsertAttachment, UndoFile, ParseAttachment
      <4> QED BY <1>1, <3>2, <4>1, ThreadFacts DEF BindAttachment, AllBound,
             ReleaseGlobalGate, ReleaseOwnerGate, ReleaseLock, Goto, tables, Thread
    <3>4. thread'[r].operation = thread[r].operation /\ ChatOf(r)' = ChatOf(r)
      BY <1>1, <3>1, StepFields DEF ChatOf
    <3> QED BY <1>3, <2>1, <2>3, <3>3, <3>4 DEF BoundSound, Operating, ChatOf
  <2> QED BY <2>2, <2>3
<1> QED BY <1>2, <1>3

\* The attachments that an upload or a list has in hand change only when its
\* names are read.
LEMMA IdsKept ==
  ASSUME TypeInv, NEW r \in Request, Step(r), ~At(r, "names")
  PROVE  thread'[r].ids = thread[r].ids
<1> USE ThreadFacts DEF Thread
<1>1. CASE QuietStep(r)
  BY <1>1 DEF QuietStep, LockConversation, GateStep, AcquireOwnerGate, AcquireGlobalGate,
     ReleaseGlobalGate, ReleaseOwnerGate, ReleaseLock, ResolveAttachments, BuildMessages,
     AskModel, AllBound, ReadNames, Goto
<1>2. CASE AddMessage(r) \/ MarkFailed(r) \/ CompleteExchange(r) \/ BindAttachment(r)
  BY <1>2 DEF AddMessage, MarkFailed, CompleteExchange, BindAttachment, Goto
<1>3. CASE DeleteRows(r) \/ RemoveFiles(r) \/ WriteFile(r) \/ InsertAttachment(r)
             \/ UndoFile(r) \/ ParseAttachment(r)
  BY <1>3 DEF DeleteRows, RemoveFiles, WriteFile, InsertAttachment, UndoFile,
     ParseAttachment, Goto
<1> QED BY <1>1, <1>2, <1>3 DEF Step, QuietStep, GateStep

LEMMA ApartKept ==
  ASSUME ChatInv, NEW r \in Request, Arrival(r) \/ Step(r)
  PROVE  UploadsApart'
<1>1. TypeInv /\ UploadsApart
  BY ChatFacts DEF ChatInv
<1>2. \A q \in Request : q # r => thread'[q] = thread[q]
  BY RelyOthers DEF Rely
<1>3. ASSUME NEW q \in Request, q # r, Operating(q, {"upload"}), Operating(r, {"upload"})'
      PROVE  thread'[r].ids \cap thread[q].ids = {}
  <2>1. CASE Step(r)
    <3>1. Operating(r, {"upload"}) /\ ~At(r, "names")
      BY <1>1, <1>3, <2>1, StepFields, ThreadFacts DEF Operating, Shape, At, RemovalPc
    <3> QED BY <1>1, <1>3, <2>1, <3>1, IdsKept DEF UploadsApart
  <2>2. CASE Arrival(r)
    <3>1. UploadAttachment(r)
      BY <1>1, <1>3, <2>2, ArrivalPlace DEF Arrival, Operating
    <3>2. PICK a \in Attachment :
            /\ \A p \in Request : thread[p].operation = "upload" => a \notin thread[p].ids
            /\ Arrive(r, "upload", HomeOf[a], {a}, "write")
      BY <3>1 DEF UploadAttachment
    <3>3. thread'[r].ids = {a}
      BY <1>1, <3>2, ThreadFacts DEF Arrive, NoThread
    <3> QED BY <1>3, <3>2, <3>3 DEF Operating
  <2> QED BY <2>1, <2>2
<1> QED BY <1>1, <1>2, <1>3 DEF UploadsApart, Operating

LEMMA FilesKept ==
  ASSUME ChatInv, NEW r \in Request, Arrival(r) \/ Step(r)
  PROVE  RowsHaveFiles'
<1> SUFFICES ASSUME NEW a \in Attachment, HasRow(a)', a \notin files'
             PROVE  \E q \in Request : (Operating(q, {"list"}) /\ a \in thread[q].ids)'
  BY DEF RowsHaveFiles
<1>1. TypeInv /\ RowsHaveFiles /\ UploadSound(r) /\ RemovalSound(r)
  BY ChatFacts DEF ChatInv
<1>2. CASE HasRow(a) /\ a \notin files
  <2>1. PICK q \in Request : Operating(q, {"list"}) /\ a \in thread[q].ids
    BY <1>1, <1>2 DEF RowsHaveFiles
  <2>2. CASE q # r
    BY <2>1, <2>2, RelyOthers DEF Rely, Operating
  <2>3. CASE q = r
    <3>1. Step(r)
      BY <1>1, <2>1, <2>3, ArrivalFields, ThreadFacts DEF Shape, Operating
    <3>2. ~At(r, "names")
      BY <1>1, <2>1, <2>3 DEF RemovalSound
    <3> QED BY <1>1, <2>1, <2>3, <3>1, <3>2, IdsKept, StepFields DEF Operating
  <2> QED BY <2>2, <2>3
<1>3. CASE HasRow(a) /\ a \in files
  <2>1. RemoveFiles(r) \/ UndoFile(r)
    <3>1. ~Arrival(r)
      BY <1>1, <1>3, ArrivalFields
    <3>2. ~QuietStep(r)
      BY <1>3, QuietSteps DEF Quiet
    <3> QED BY <1>3, <3>1, <3>2 DEF Step, QuietStep, GateStep, AddMessage, MarkFailed,
       CompleteExchange, BindAttachment, DeleteRows, WriteFile, InsertAttachment,
       ParseAttachment, tables
  <2>2. a \in thread[r].ids /\ attachments' = attachments
    BY <1>3, <2>1 DEF RemoveFiles, UndoFile, tables
  <2>3. CASE UndoFile(r)
    BY <1>1, <1>3, <2>2, <2>3 DEF UndoFile, UploadSound, At, HasRow
  <2>4. CASE RemoveFiles(r)
    <3>1. Operating(r, {"list"})
      BY <1>1, <1>3, <2>2, <2>4 DEF RemoveFiles, RemovalSound, At, HasRow
    <3>2. thread'[r].ids = thread[r].ids /\ thread'[r].operation = thread[r].operation
      BY <1>1, <2>4, IdsKept, StepFields DEF Step, RemoveFiles, At
    <3> QED BY <2>2, <3>1, <3>2 DEF Operating
  <2> QED BY <2>1, <2>3, <2>4
<1>4. CASE ~HasRow(a)
  <2>1. attachments'[a] # attachments[a]
    BY <1>4 DEF HasRow
  <2>2. InsertAttachment(r) /\ a \in thread[r].ids
    BY <1>4, <2>1, RowMoves DEF HasRow
  <2> QED BY <1>1, <2>2 DEF InsertAttachment, UploadSound, At
<1> QED BY <1>2, <1>3, <1>4

LEMMA InitChat == Init => ChatInv
<1> SUFFICES ASSUME Init PROVE ChatInv
  OBVIOUS
<1>1. /\ thread = [r \in Request |-> NoThread] /\ questions = [r \in Request |-> "none"]
      /\ \A a \in Attachment :
           /\ attachments[a].message = NoRequest
           /\ HasRow(a) => a \in files
  BY DEF Init, HasRow
<1>2. RequestsSound
  BY <1>1 DEF RequestsSound, SendSound, UploadSound, RemovalSound, NoThread, Operating, At,
              Answering, Over
<1>3. UploadsApart
  BY <1>1 DEF UploadsApart, NoThread, Operating
<1> QED BY <1>1, <1>2, <1>3, InitGates DEF ChatInv, BoundSound, RowsHaveFiles

LEMMA CrashChat ==
  ASSUME ChatInv, Crash
  PROVE  ChatInv'
<1>1. GateInv /\ GateInv'
  BY CrashGates DEF ChatInv
<1>2. ASSUME NEW q \in Request
      PROVE  /\ thread'[q].operation = thread[q].operation /\ thread'[q].ids = thread[q].ids
             /\ ChatOf(q)' = ChatOf(q)
             /\ \/ thread'[q].pc = thread[q].pc /\ thread[q].pc \in {"new", "done", "dead"}
                \/ thread'[q].pc = "dead"
             /\ questions'[q] = IF ChatOf(q) \in Expired THEN "none" ELSE questions[q]
  BY <1>1, ThreadFacts DEF GateInv, Crash, WithoutQuestions, Running, ChatOf, Thread
<1>3. ASSUME NEW a \in Attachment
      PROVE  /\ a \in Purged => attachments'[a] = [status |-> "deleted", message |-> NoRequest]
             /\ a \notin Purged => attachments'[a] = attachments[a]
             /\ a \in Purged => HasRow(a)
             /\ HasRow(a) /\ HomeOf[a] \in Expired => a \in Purged
             /\ a \in files' <=> a \in files /\ a \notin Purged
  BY DEF Crash, WithoutRows, Purged
<1>4. ASSUME NEW q \in Request
      PROVE  SendSound(q)' /\ UploadSound(q)' /\ RemovalSound(q)'
  <2>1. SendSound(q) /\ thread[q].ids \subseteq Attachment /\ Shape(thread[q])
    BY ChatFacts
  <2>2. UploadSound(q)' /\ RemovalSound(q)'
    BY <1>2 DEF UploadSound, RemovalSound, At
  <2>3. Operating(q, {"send"}) => conversations'[ChatOf(q)] # "new"
    BY <2>1 DEF SendSound, Crash, ChatsTo, Shape, Operating, ChatOf
  <2>4. ~Answering(q)' /\ thread'[q].pc \notin {"add"} \cup AnswerPc
    BY <1>2 DEF Answering, AnswerPc
  <2>5. (Early(q) \/ ~Operating(q, {"send"}) => questions[q] = "none")'
    BY <1>2, <2>1 DEF SendSound, Early, Operating
  <2>6. (Over(q) /\ questions[q] = "succeeded" =>
           \A a \in thread[q].ids :
             attachments[a].status = "deleted" \/ attachments[a].message = q)'
    BY <1>2, <1>3, <2>1 DEF SendSound, Over, Operating
  <2>7. (Over(q) /\ questions[q] = "pending" =>
           \E a \in thread[q].ids \cap Images : a \notin files /\ attachments[a].status # "new")'
    <3>1. SUFFICES ASSUME Over(q)', questions'[q] = "pending"
                   PROVE  \E a \in thread'[q].ids \cap Images :
                            a \notin files' /\ attachments'[a].status # "new"
      OBVIOUS
    <3>2. Over(q) /\ questions[q] = "pending"
      BY <1>2, <3>1 DEF Over, Operating
    <3>3. PICK a \in thread[q].ids \cap Images : a \notin files /\ attachments[a].status # "new"
      BY <2>1, <3>2 DEF SendSound
    <3>4. a \notin files' /\ attachments'[a].status # "new"
      BY <1>3, <2>1, <3>3
    <3> QED BY <1>2, <3>3, <3>4
  <2>8. Operating(q, {"send"})' => Operating(q, {"send"}) /\ ChatOf(q)' = ChatOf(q)
    BY <1>2 DEF Operating
  <2> QED BY <2>2, <2>3, <2>4, <2>5, <2>6, <2>7, <2>8 DEF SendSound, At, AnswerPc
<1>5. ASSUME NEW a \in Attachment
      PROVE  BoundSound(a)'
  <2>1. CASE attachments'[a].message = NoRequest
    BY <2>1 DEF BoundSound
  <2>2. CASE attachments'[a].message # NoRequest
    <3>1. a \notin Purged /\ attachments'[a] = attachments[a] /\ BoundSound(a)
      BY <1>3, <2>2 DEF ChatInv
    <3>2. attachments[a].message \in Request
      BY <2>2, <3>1, <1>1 DEF GateInv, TypeInv, TypeOK, Row
    <3>3. HasRow(a) /\ HomeOf[a] \notin Expired
      BY <1>3, <2>2, <3>1 DEF BoundSound, HasRow
    <3> QED BY <1>2, <2>2, <3>1, <3>2, <3>3 DEF BoundSound, Operating
  <2> QED BY <2>1, <2>2
<1>6. UploadsApart'
  BY <1>2 DEF ChatInv, UploadsApart, Operating
<1>7. RowsHaveFiles'
  <2> SUFFICES ASSUME NEW a \in Attachment, HasRow(a)', a \notin files'
               PROVE  \E q \in Request : (Operating(q, {"list"}) /\ a \in thread[q].ids)'
    BY DEF RowsHaveFiles
  <2>1. HasRow(a) /\ a \notin files
    BY <1>3 DEF HasRow
  <2>2. PICK q \in Request : Operating(q, {"list"}) /\ a \in thread[q].ids
    BY <2>1 DEF ChatInv, RowsHaveFiles
  <2> QED BY <1>2, <2>2 DEF Operating
<1> QED BY <1>1, <1>4, <1>5, <1>6, <1>7 DEF ChatInv, RequestsSound

LEMMA NextChat ==
  ASSUME ChatInv, [Next]_vars
  PROVE  ChatInv'
<1>1. ASSUME NEW r \in Request, Arrival(r) \/ Step(r)
      PROVE  ChatInv'
  <2>1. GateInv'
    BY <1>1, NextGates DEF ChatInv, Next
  <2>2. ASSUME NEW q \in Request
        PROVE  SendSound(q)' /\ UploadSound(q)' /\ RemovalSound(q)'
    <3>1. CASE q = r
      BY <1>1, <3>1, OwnSend, OwnUpload, OwnRemoval
    <3>2. CASE q # r
      BY <1>1, <3>2, RelyOthers, RelyKeeps, ChatFacts
    <3> QED BY <3>1, <3>2
  <2> QED BY <1>1, <2>1, <2>2, BoundKept, ApartKept, FilesKept DEF ChatInv, RequestsSound
<1>2. CASE UNCHANGED vars
  <2>1. GateInv'
    BY NextGates DEF ChatInv
  <2>2. \A q \in Request : SendSound(q)' /\ UploadSound(q)' /\ RemovalSound(q)'
    BY <1>2, ChatFacts DEF vars, SendSound, UploadSound, RemovalSound, Operating, At, ChatOf,
       Exists, Early, Over, Answering, Fresh
  <2>3. (\A a \in Attachment : BoundSound(a)') /\ UploadsApart' /\ RowsHaveFiles'
    BY <1>2 DEF vars, ChatInv, BoundSound, UploadsApart, RowsHaveFiles, Operating, ChatOf, HasRow
  <2> QED BY <2>1, <2>2, <2>3 DEF ChatInv, RequestsSound
<1> QED BY <1>1, <1>2, CrashChat DEF Next

-------------------------------------------------------------------------------
(* The theorems that rest on what requests leave each other.                  *)

\* An answer takes minutes; its conversation, question and attachments stay: the
\* lock of send_message against clear, delete and delete_attachment, and the
\* renewed updated_at against the purge of list_conversations.
THEOREM AnswerKeepsItsChatHolds == Spec => []AnswerKeepsItsChat
<1>1. ChatInv => AnswerKeepsItsChat
  <2> SUFFICES ASSUME ChatInv, NEW r \in Request, Answering(r)
               PROVE  /\ Exists(ChatOf(r)) /\ questions[r] # "none"
                      /\ \A a \in thread[r].ids :
                           /\ attachments[a].status = "ready"
                           /\ attachments[a].message \in {NoRequest, r}
    BY DEF AnswerKeepsItsChat
  <2> QED BY ChatFacts DEF SendSound, Answering, At, Exists, Fresh
<1> QED BY <1>1, InitChat, NextChat, PTL DEF Spec

\* However a send ends, its question is settled and its attachments are bound or
\* free accordingly: send_message and complete_exchange with bind_to_message.
THEOREM QuestionsSettleHolds == Spec => []QuestionsSettle
<1>1. ChatInv => QuestionsSettle
  <2> SUFFICES ASSUME ChatInv, NEW r \in Request, Over(r)
               PROVE  /\ questions[r] = "pending" => ~(thread[r].ids \cap Images \subseteq files)
                      /\ questions[r] \in {"pending", "failed"} =>
                           \A a \in Attachment : attachments[a].message # r
                      /\ questions[r] = "succeeded" =>
                           \A a \in thread[r].ids :
                             attachments[a].status = "deleted" \/ attachments[a].message = r
    BY DEF QuestionsSettle, Over
  <2>1. SendSound(r) /\ \A a \in Attachment : BoundSound(a)
    BY ChatFacts DEF ChatInv
  <2>2. r # NoRequest
    BY ChatAssumption
  <2> QED BY <2>1, <2>2 DEF SendSound, BoundSound
<1> QED BY <1>1, InitChat, NextChat, PTL DEF Spec

\* No row of ai_attachments loses its file to an upload that is undone, to a
\* removal under the lock or to a crash: the order of the steps in
\* upload_attachment, delete_attachment, clear_messages and delete_conversation.
THEOREM RowsHaveFilesHolds == Spec => []RowsHaveFiles
<1>1. ChatInv => RowsHaveFiles
  BY DEF ChatInv
<1> QED BY <1>1, InitChat, NextChat, PTL DEF Spec

\* An attachment that belongs to a question stays with it: bind_to_message after
\* _resolve_send_attachments under the lock of the conversation.
THEOREM BoundOnceHolds == Spec => BoundOnce
<1>1. ASSUME ChatInv, [Next]_vars
      PROVE  [\A a \in Attachment : attachments[a].message # NoRequest =>
                 \/ attachments'[a].message = attachments[a].message
                 \/ attachments'[a].status = "deleted"]_vars
  <2>1. CASE UNCHANGED vars
    BY <2>1
  <2>2. ASSUME NEW a \in Attachment, attachments[a].message # NoRequest, Next
        PROVE  \/ attachments'[a].message = attachments[a].message
               \/ attachments'[a].status = "deleted"
    <3>1. attachments[a].status = "ready"
      BY <1>1, <2>2 DEF ChatInv, BoundSound
    <3>2. ASSUME NEW r \in Request, Arrival(r) \/ Step(r)
          PROVE  \/ attachments'[a].message = attachments[a].message
                 \/ attachments'[a].status = "deleted"
      <4>1. ~(BindAttachment(r) /\ a \in thread[r].todo)
        BY <1>1, <2>2, ChatFacts DEF SendSound, BindAttachment, At
      <4>2. ~(InsertAttachment(r) /\ a \in thread[r].ids)
        BY <1>1, <3>1, ChatFacts DEF UploadSound, InsertAttachment, At
      <4>3. ~(ParseAttachment(r) /\ a \in thread[r].ids)
        BY <1>1, <3>1, ChatFacts DEF UploadSound, ParseAttachment, At
      <4> QED BY <1>1, <3>2, <4>1, <4>2, <4>3, RowMoves
    <3>3. CASE Crash
      BY <3>3 DEF Crash, WithoutRows
    <3> QED BY <2>2, <3>2, <3>3 DEF Next
  <2> QED BY <1>1, <2>1, <2>2
<1> QED BY <1>1, InitChat, NextChat, PTL DEF Spec, BoundOnce
===============================================================================
