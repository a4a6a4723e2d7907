-------------------------------- MODULE AiChat --------------------------------
(* The AI chat: AiChatService (backend/src/ai/chat_service.py) over the      *)
(* SQLite tables of AiChatStore (chat_store.py) and the files of             *)
(* AiAttachmentStore (attachment_store.py).                                  *)
(*                                                                           *)
(* Each request of the API has a thread of its own.  An action is one        *)
(* transaction, one query, one operation on files or one operation on a      *)
(* lock.  Locks and gates live in memory and are tried without waiting;      *)
(* uploads, renames and the purge of expired conversations take none.        *)
EXTENDS Naturals, FiniteSets

CONSTANTS
  Request,        \* requests to the API
  Conversation,
  Attachment,
  Owner,
  NoRequest,
  NoConversation,
  OwnerOf,        \* OwnerOf[c]: the owner_key of conversation c
  HomeOf,         \* HomeOf[a]: the conversation that a is uploaded to
  Images,         \* attachments of kind image, whose file every answer reads
  Aged,           \* attachments created before the retention cutoff
  MaxPerOwner,    \* max_per_owner_requests
  MaxGlobal,      \* max_global_requests
  Beginnings,     \* conversations and files that an instance begins with
  Operations,     \* what the requests of this instance ask for
  MaxCrashes      \* bound on the crashes of the API process

Operation ==
  {"create", "rename", "send", "upload", "delete_attachment", "clear", "delete", "list"}

ASSUME ChatAssumption ==
  /\ NoRequest \notin Request
  /\ NoConversation \notin Conversation
  /\ OwnerOf \in [Conversation -> Owner]
  /\ HomeOf \in [Attachment -> Conversation]
  /\ Images \subseteq Attachment
  /\ Aged \subseteq Attachment
  /\ MaxPerOwner \in Nat \ {0}
  /\ MaxGlobal \in Nat \ {0}
  /\ Beginnings \subseteq
       [chats : [Conversation -> {"new", "recent", "expired"}], stored : SUBSET Attachment]
  /\ \A b \in Beginnings :
       /\ Aged \subseteq b.stored
       /\ \A a \in b.stored : b.chats[HomeOf[a]] # "new"
  /\ Operations \subseteq Operation
  /\ MaxCrashes \in Nat

VARIABLES
  conversations,  \* table ai_conversations: whether there is a row and how old
  questions,      \* table ai_messages: the question that request r has added
  attachments,    \* table ai_attachments
  files,          \* attachments whose original is on disk
  thread,         \* thread[r]: where request r is and what it has in hand
  locks,          \* _conversation_locks: those taken
  owner_gates,    \* _owner_gates: permits left
  global_gate,    \* _global_gate: permits left
  crashes

tables == <<conversations, questions, attachments>>
gates == <<locks, owner_gates, global_gate>>
vars == <<conversations, questions, attachments, files, thread, locks,
          owner_gates, global_gate, crashes>>

\* expired: updated_at is older than the retention time.
Age == {"new", "recent", "expired", "deleted"}
Question == {"none", "pending", "failed", "succeeded"}
RowState == {"new", "uploaded", "ready", "failed", "deleted"}

\* message: the request whose question the attachment is bound to.
Row == [status : RowState, message : Request \cup {NoRequest}]

\* ids: the attachments of a message, the snapshot of stored_names of a removal,
\* or the attachment that is uploaded.  todo: attachments left to bind.
\* owner, global: owner_acquired and global_acquired.
Pc == {"new", "lock", "owner", "global", "resolve", "add", "build", "ask", "fail",
       "complete", "bind", "names", "rows", "unlink", "write", "insert", "undo",
       "parse", "release", "done", "dead"}
Thread ==
  [pc : Pc, operation : Operation \cup {"none"},
   conversation : Conversation \cup {NoConversation}, ids : SUBSET Attachment,
   todo : SUBSET Attachment, owner : BOOLEAN, global : BOOLEAN]

TypeOK ==
  /\ conversations \in [Conversation -> Age]
  /\ questions \in [Request -> Question]
  /\ attachments \in [Attachment -> Row]
  /\ files \subseteq Attachment
  /\ thread \in [Request -> Thread]
  /\ locks \subseteq Conversation
  /\ owner_gates \in [Owner -> 0 .. MaxPerOwner]
  /\ global_gate \in 0 .. MaxGlobal
  /\ crashes \in 0 .. MaxCrashes

Exists(c) == conversations[c] \in {"recent", "expired"}
HasRow(a) == attachments[a].status \in {"uploaded", "ready", "failed"}
ChatOf(r) == thread[r].conversation
At(r, pc) == thread[r].pc = pc
Operating(r, operations) == thread[r].operation \in operations
Goto(r, pc) == thread' = [thread EXCEPT ![r].pc = pc]
Running(r) == thread[r].pc \notin {"new", "done", "dead"}

NoThread ==
  [pc |-> "new", operation |-> "none", conversation |-> NoConversation,
   ids |-> {}, todo |-> {}, owner |-> FALSE, global |-> FALSE]

\* Conversations and attachments are there from earlier or not yet.
Init ==
  /\ \E b \in Beginnings :
       /\ conversations = b.chats
       /\ attachments =
            [a \in Attachment |->
               [status |-> IF a \in b.stored THEN "ready" ELSE "new", message |-> NoRequest]]
       /\ files = b.stored
  /\ questions = [r \in Request |-> "none"]
  /\ thread = [r \in Request |-> NoThread]
  /\ locks = {}
  /\ owner_gates = [o \in Owner |-> MaxPerOwner]
  /\ global_gate = MaxGlobal
  /\ crashes = 0

-------------------------------------------------------------------------------
(* A request arrives.  get_conversation finds only what its owner has.       *)

Arrive(r, operation, c, ids, pc) ==
  /\ At(r, "new") /\ operation \in Operations
  /\ thread' = [thread EXCEPT ![r] =
       [NoThread EXCEPT !.pc = pc, !.operation = operation, !.conversation = c,
                        !.ids = ids]]

CreateConversation(r) ==
  \E c \in Conversation :
    /\ Arrive(r, "create", c, {}, "done")
    /\ conversations[c] = "new"
    /\ conversations' = [conversations EXCEPT ![c] = "recent"]
    /\ UNCHANGED <<questions, attachments, files, gates, crashes>>

RenameConversation(r) ==
  \E c \in Conversation :
    /\ Exists(c)
    /\ Arrive(r, "rename", c, {}, "done")
    /\ conversations' = [conversations EXCEPT ![c] = "recent"]
    /\ UNCHANGED <<questions, attachments, files, gates, crashes>>

SendMessage(r) ==
  /\ \E c \in Conversation :
       /\ Exists(c)
       /\ \E ids \in SUBSET Attachment : Arrive(r, "send", c, ids, "lock")
  /\ UNCHANGED <<tables, files, gates, crashes>>

\* The new attachment_id is nobody else's.
UploadAttachment(r) ==
  /\ \E a \in Attachment :
       /\ Exists(HomeOf[a]) /\ attachments[a].status = "new"
       /\ \A q \in Request : thread[q].operation = "upload" => a \notin thread[q].ids
       /\ Arrive(r, "upload", HomeOf[a], {a}, "write")
  /\ UNCHANGED <<tables, files, gates, crashes>>

DeleteAttachment(r) ==
  /\ \E a \in Attachment :
       /\ Exists(HomeOf[a])
       /\ Arrive(r, "delete_attachment", HomeOf[a], {a}, "lock")
  /\ UNCHANGED <<tables, files, gates, crashes>>

\* Mistake: a conversation is cleared without its lock.
ClearUnlocked(r) ==
  /\ \E c \in Conversation : Arrive(r, "clear", c, {}, "names")
  /\ UNCHANGED <<tables, files, gates, crashes>>

ClearConversation(r) ==
  /\ \E c \in Conversation : Arrive(r, "clear", c, {}, "lock")
  /\ UNCHANGED <<tables, files, gates, crashes>>

DeleteConversation(r) ==
  /\ \E c \in Conversation : Arrive(r, "delete", c, {}, "lock")
  /\ UNCHANGED <<tables, files, gates, crashes>>

\* list_conversations begins with purge_expired, whoever asks.
ListConversations(r) ==
  /\ Arrive(r, "list", NoConversation, {}, "names")
  /\ UNCHANGED <<tables, files, gates, crashes>>

-------------------------------------------------------------------------------
(* Locks and gates: tried without waiting, given back in the finally block.  *)

LockConversation(r) ==
  /\ At(r, "lock")
  /\ \/ /\ ChatOf(r) \notin locks
        /\ locks' = locks \cup {ChatOf(r)}
        /\ Goto(r, IF Operating(r, {"send"}) THEN "owner" ELSE "names")
     \/ /\ ChatOf(r) \in locks
        /\ Goto(r, "done")
        /\ UNCHANGED locks
  /\ UNCHANGED <<tables, files, owner_gates, global_gate, crashes>>

\* Mistake: the permit counts as acquired before it is.
AcquireOwnerGateEarly(r) ==
  /\ At(r, "owner")
  /\ \/ /\ owner_gates[OwnerOf[ChatOf(r)]] > 0
        /\ owner_gates' = [owner_gates EXCEPT ![OwnerOf[ChatOf(r)]] = @ - 1]
        /\ thread' = [thread EXCEPT ![r].pc = "global", ![r].owner = TRUE]
     \/ /\ owner_gates[OwnerOf[ChatOf(r)]] = 0
        /\ thread' = [thread EXCEPT ![r].pc = "release", ![r].owner = TRUE]
        /\ UNCHANGED owner_gates
  /\ UNCHANGED <<tables, files, locks, global_gate, crashes>>

AcquireOwnerGate(r) ==
  /\ At(r, "owner")
  /\ \/ /\ owner_gates[OwnerOf[ChatOf(r)]] > 0
        /\ owner_gates' = [owner_gates EXCEPT ![OwnerOf[ChatOf(r)]] = @ - 1]
        /\ thread' = [thread EXCEPT ![r].pc = "global", ![r].owner = TRUE]
     \/ /\ owner_gates[OwnerOf[ChatOf(r)]] = 0
        /\ Goto(r, "release")
        /\ UNCHANGED owner_gates
  /\ UNCHANGED <<tables, files, locks, global_gate, crashes>>

AcquireGlobalGate(r) ==
  /\ At(r, "global")
  /\ \/ /\ global_gate > 0
        /\ global_gate' = global_gate - 1
        /\ thread' = [thread EXCEPT ![r].pc = "resolve", ![r].global = TRUE]
     \/ /\ global_gate = 0
        /\ Goto(r, "release")
        /\ UNCHANGED global_gate
  /\ UNCHANGED <<tables, files, locks, owner_gates, crashes>>

ReleaseGlobalGate(r) ==
  /\ At(r, "release") /\ thread[r].global
  /\ global_gate' = global_gate + 1
  /\ thread' = [thread EXCEPT ![r].global = FALSE]
  /\ UNCHANGED <<tables, files, locks, owner_gates, crashes>>

ReleaseOwnerGate(r) ==
  /\ At(r, "release") /\ ~thread[r].global /\ thread[r].owner
  /\ owner_gates' = [owner_gates EXCEPT ![OwnerOf[ChatOf(r)]] = @ + 1]
  /\ thread' = [thread EXCEPT ![r].owner = FALSE]
  /\ UNCHANGED <<tables, files, locks, global_gate, crashes>>

ReleaseLock(r) ==
  /\ At(r, "release") /\ ~thread[r].global /\ ~thread[r].owner
  /\ locks' = locks \ {ChatOf(r)}
  /\ Goto(r, "done")
  /\ UNCHANGED <<tables, files, owner_gates, global_gate, crashes>>

-------------------------------------------------------------------------------
(* The rest of send_message.                                                 *)

\* Mistake: whether the attachment is bound is not looked at.
SendableAgain(r, a) ==
  /\ HomeOf[a] = ChatOf(r)
  /\ attachments[a].status = "ready"

Sendable(r, a) ==
  /\ HomeOf[a] = ChatOf(r)
  /\ attachments[a].status = "ready"
  /\ attachments[a].message = NoRequest

\* Limits, an unknown agent or a context skill that raises may end the request, too.
ResolveAttachments(r) ==
  /\ At(r, "resolve")
  /\ \/ (\A a \in thread[r].ids : Sendable(r, a)) /\ Goto(r, "add")
     \/ Goto(r, "release")
  /\ UNCHANGED <<tables, files, gates, crashes>>

\* The foreign key refuses a message of a conversation that is gone.
AddMessage(r) ==
  /\ At(r, "add")
  /\ \/ /\ Exists(ChatOf(r))
        /\ questions' = [questions EXCEPT ![r] = "pending"]
        /\ conversations' = [conversations EXCEPT ![ChatOf(r)] = "recent"]
        /\ Goto(r, "build")
     \/ /\ ~Exists(ChatOf(r))
        /\ Goto(r, "release")
        /\ UNCHANGED <<questions, conversations>>
  /\ UNCHANGED <<attachments, files, gates, crashes>>

\* read_bytes raises outside of the try block that marks a failure.
BuildMessages(r) ==
  /\ At(r, "build")
  /\ Goto(r, IF thread[r].ids \cap Images \subseteq files THEN "ask" ELSE "release")
  /\ UNCHANGED <<tables, files, gates, crashes>>

\* _complete_with_tools, with or without page images, answers or raises.
AskModel(r) ==
  /\ At(r, "ask")
  /\ \E pc \in {"complete", "fail"} : Goto(r, pc)
  /\ UNCHANGED <<tables, files, gates, crashes>>

MarkFailed(r) ==
  /\ At(r, "fail")
  /\ questions' = [questions EXCEPT ![r] = IF @ = "none" THEN @ ELSE "failed"]
  /\ Goto(r, "release")
  /\ UNCHANGED <<conversations, attachments, files, gates, crashes>>

CompleteExchange(r) ==
  /\ At(r, "complete")
  /\ \/ /\ questions[r] # "none"
        /\ questions' = [questions EXCEPT ![r] = "succeeded"]
        /\ conversations' = [conversations EXCEPT ![ChatOf(r)] = "recent"]
        /\ thread' = [thread EXCEPT ![r].pc = "bind", ![r].todo = thread[r].ids]
     \/ /\ questions[r] = "none"
        /\ Goto(r, "release")
        /\ UNCHANGED <<questions, conversations>>
  /\ UNCHANGED <<attachments, files, gates, crashes>>

BindAttachment(r) ==
  /\ At(r, "bind")
  /\ \E a \in thread[r].todo :
       \/ /\ HasRow(a) /\ questions[r] # "none"
          /\ attachments' = [attachments EXCEPT ![a].message = r]
          /\ thread' = [thread EXCEPT ![r].todo = @ \ {a}]
       \/ /\ ~HasRow(a) \/ questions[r] = "none"
          /\ Goto(r, "release")
          /\ UNCHANGED attachments
  /\ UNCHANGED <<conversations, questions, files, gates, crashes>>

AllBound(r) ==
  /\ At(r, "bind") /\ thread[r].todo = {}
  /\ Goto(r, "release")
  /\ UNCHANGED <<tables, files, gates, crashes>>

-------------------------------------------------------------------------------
(* Removal: the names are read, then the rows are deleted in a transaction,  *)
(* then the files that were named.                                           *)

\* What the statements of request r select now.
SelectedChats(r) ==
  {c \in Conversation :
     \/ Operating(r, {"clear", "delete"}) /\ c = ChatOf(r)
     \/ Operating(r, {"list"}) /\ conversations[c] = "expired"}

SelectedRows(r) ==
  {a \in Attachment :
     /\ HasRow(a)
     /\ \/ HomeOf[a] \in SelectedChats(r)
        \/ Operating(r, {"delete_attachment"}) /\ a \in thread[r].ids}

\* A conversation or an attachment that is gone is reported at once.
Gone(r) ==
  \/ Operating(r, {"clear", "delete"}) /\ ~Exists(ChatOf(r))
  \/ Operating(r, {"delete_attachment"}) /\ SelectedRows(r) = {}

ReadNames(r) ==
  /\ At(r, "names")
  /\ \/ /\ ~Gone(r)
        /\ thread' = [thread EXCEPT ![r].pc = "rows", ![r].ids = SelectedRows(r)]
     \/ Gone(r) /\ Goto(r, "release")
  /\ UNCHANGED <<tables, files, gates, crashes>>

\* The effect on the tables of deleting rows, conversations and what is in them.
WithoutRows(as) ==
  [a \in Attachment |->
     IF a \in as THEN [status |-> "deleted", message |-> NoRequest] ELSE attachments[a]]
WithoutQuestions(cs) ==
  [q \in Request |-> IF ChatOf(q) \in cs THEN "none" ELSE questions[q]]
ChatsTo(cs, age) ==
  [c \in Conversation |-> IF c \in cs /\ Exists(c) THEN age ELSE conversations[c]]

\* Mistake: attachments that are bound keep their rows.
DeleteUnboundRows(r) ==
  /\ At(r, "rows")
  /\ attachments' =
       WithoutRows({a \in SelectedRows(r) : attachments[a].message = NoRequest})
  /\ questions' = WithoutQuestions(SelectedChats(r))
  /\ conversations' =
       ChatsTo(SelectedChats(r), IF Operating(r, {"clear"}) THEN "recent" ELSE "deleted")
  /\ Goto(r, "unlink")
  /\ UNCHANGED <<files, gates, crashes>>

DeleteRows(r) ==
  /\ At(r, "rows")
  /\ attachments' = WithoutRows(SelectedRows(r))
  /\ questions' = WithoutQuestions(SelectedChats(r))
  /\ conversations' =
       ChatsTo(SelectedChats(r), IF Operating(r, {"clear"}) THEN "recent" ELSE "deleted")
  /\ Goto(r, "unlink")
  /\ UNCHANGED <<files, gates, crashes>>

RemoveFiles(r) ==
  /\ At(r, "unlink")
  /\ files' = files \ thread[r].ids
  /\ Goto(r, IF Operating(r, {"list"}) THEN "done" ELSE "release")
  /\ UNCHANGED <<tables, gates, crashes>>

-------------------------------------------------------------------------------
(* upload_attachment.                                                        *)

WriteFile(r) ==
  /\ At(r, "write")
  /\ files' = files \cup thread[r].ids
  /\ Goto(r, "insert")
  /\ UNCHANGED <<tables, gates, crashes>>

InsertAttachment(r) ==
  /\ At(r, "insert")
  /\ \/ /\ Exists(ChatOf(r))
        /\ attachments' =
             [a \in Attachment |->
                IF a \in thread[r].ids
                  THEN [status |-> "uploaded", message |-> NoRequest]
                  ELSE attachments[a]]
        /\ Goto(r, "parse")
     \/ /\ ~Exists(ChatOf(r))
        /\ Goto(r, "undo")
        /\ UNCHANGED attachments
  /\ UNCHANGED <<conversations, questions, files, gates, crashes>>

UndoFile(r) ==
  /\ At(r, "undo")
  /\ files' = files \ thread[r].ids
  /\ Goto(r, "done")
  /\ UNCHANGED <<tables, gates, crashes>>

\* The outcome is written to the row if it is still there.
ParseAttachment(r) ==
  /\ At(r, "parse")
  /\ \E status \in (IF thread[r].ids \subseteq files THEN {"ready", "failed"}
                    ELSE {"uploaded", "failed"}) :
       attachments' =
         [a \in Attachment |->
            IF a \in thread[r].ids /\ HasRow(a)
              THEN [attachments[a] EXCEPT !.status = status]
              ELSE attachments[a]]
  /\ Goto(r, "done")
  /\ UNCHANGED <<conversations, questions, files, gates, crashes>>

-------------------------------------------------------------------------------
(* The API process dies and starts again; the new service purges before it   *)
(* serves the first request.                                                 *)

Expired == {c \in Conversation : conversations[c] = "expired"}
Purged ==
  {a \in Attachment :
     /\ HasRow(a)
     /\ HomeOf[a] \in Expired \/ (a \in Aged /\ attachments[a].message = NoRequest)}

Crash ==
  /\ crashes < MaxCrashes
  /\ crashes' = crashes + 1
  /\ thread' =
       [r \in Request |->
          IF ~Running(r) THEN thread[r]
          ELSE [thread[r] EXCEPT !.pc = "dead", !.owner = FALSE, !.global = FALSE]]
  /\ locks' = {}
  /\ owner_gates' = [o \in Owner |-> MaxPerOwner]
  /\ global_gate' = MaxGlobal
  /\ attachments' = WithoutRows(Purged)
  /\ files' = files \ Purged
  /\ questions' = WithoutQuestions(Expired)
  /\ conversations' = ChatsTo(Expired, "deleted")

-------------------------------------------------------------------------------

Arrival(r) ==
  \/ CreateConversation(r) \/ RenameConversation(r) \/ SendMessage(r)
  \/ UploadAttachment(r) \/ DeleteAttachment(r) \/ ClearConversation(r)
  \/ DeleteConversation(r) \/ ListConversations(r)

Step(r) ==
  \/ LockConversation(r) \/ AcquireOwnerGate(r) \/ AcquireGlobalGate(r)
  \/ ReleaseGlobalGate(r) \/ ReleaseOwnerGate(r) \/ ReleaseLock(r)
  \/ ResolveAttachments(r) \/ AddMessage(r) \/ BuildMessages(r) \/ AskModel(r)
  \/ MarkFailed(r) \/ CompleteExchange(r) \/ BindAttachment(r) \/ AllBound(r)
  \/ ReadNames(r) \/ DeleteRows(r) \/ RemoveFiles(r)
  \/ WriteFile(r) \/ InsertAttachment(r) \/ UndoFile(r) \/ ParseAttachment(r)

Next ==
  \/ \E r \in Request : Arrival(r) \/ Step(r)
  \/ Crash

Spec == Init /\ [][Next]_vars

-------------------------------------------------------------------------------
(* Properties.                                                               *)

\* A request holds the lock of its conversation from the moment it got it.
Locking(r) ==
  \/ thread[r].pc \in {"owner", "global", "resolve", "add", "build", "ask", "fail",
                       "complete", "bind", "release"}
  \/ thread[r].pc \in {"names", "rows", "unlink"} /\ ~Operating(r, {"list"})

OwnerPermits(o) == {r \in Request : thread[r].owner /\ OwnerOf[ChatOf(r)] = o}
GlobalPermits == {r \in Request : thread[r].global}

\* No two requests work under the lock of one conversation, and however sends are
\* refused half way, no permit of an owner or of the service is lost or given
\* back twice: send_message with its three gates and its finally block.
GatesConserved ==
  /\ \A c \in Conversation : c \in locks <=> \E r \in Request : Locking(r) /\ ChatOf(r) = c
  /\ \A r, q \in Request : Locking(r) /\ Locking(q) /\ ChatOf(r) = ChatOf(q) => r = q
  /\ \A o \in Owner : owner_gates[o] + Cardinality(OwnerPermits(o)) = MaxPerOwner
  /\ global_gate + Cardinality(GlobalPermits) = MaxGlobal

Answering(r) == thread[r].pc \in {"build", "ask", "fail", "complete", "bind"}

\* While a question is answered, which takes minutes, nobody takes away the
\* conversation, the question or an attachment, not even the purge that asks for
\* no lock, and no other question gets the attachment.
AnswerKeepsItsChat ==
  \A r \in Request : Answering(r) =>
    /\ Exists(ChatOf(r))
    /\ questions[r] # "none"
    /\ \A a \in thread[r].ids :
         attachments[a].status = "ready" /\ attachments[a].message \in {NoRequest, r}

\* A question whose request is over is settled.  It is pending only if a file was
\* lost; after a failure its attachments can be sent again; and after a success
\* they stay with it until they are deleted.
QuestionsSettle ==
  \A r \in Request : Operating(r, {"send"}) /\ thread[r].pc \in {"release", "done"} =>
    /\ questions[r] = "pending" => ~(thread[r].ids \cap Images \subseteq files)
    /\ questions[r] \in {"pending", "failed"} =>
         \A a \in Attachment : attachments[a].message # r
    /\ questions[r] = "succeeded" =>
         \A a \in thread[r].ids :
           attachments[a].status = "deleted" \/ attachments[a].message = r

\* Whatever uploads, removals, crashes and restarts do, a row of ai_attachments
\* has its file; only purge_expired, which takes no lock, may break this.
RowsHaveFiles ==
  \A a \in Attachment : HasRow(a) /\ a \notin files =>
    \E r \in Request : Operating(r, {"list"}) /\ a \in thread[r].ids

\* An attachment that belongs to a question is never moved to another one:
\* bind_to_message does not look, the lock and the check before it do.
BoundOnce ==
  [][\A a \in Attachment : attachments[a].message # NoRequest =>
       \/ attachments'[a].message = attachments[a].message
       \/ attachments'[a].status = "deleted"]_vars

\* What the design says of clearing, deleting and purging: rows and files go
\* together.  Stated for the time when no request is under way.
FilesGoWithRows ==
  (\A r \in Request : ~Running(r)) => files = {a \in Attachment : HasRow(a)}
===============================================================================
