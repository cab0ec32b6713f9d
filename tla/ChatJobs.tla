------------------------------- MODULE ChatJobs -------------------------------
(***************************************************************************)
(* The workspace chat: requests that add messages to one conversation, and *)
(* the background jobs that write the assistant's answers into it          *)
(* (app/services/chat_service.py, core/chat/service.py,                    *)
(* core/chat/repository.py).                                               *)
(*                                                                         *)
(* The conversation is one document.  Every change of it reads the whole   *)
(* document and writes the whole document; with the PostgreSQL repository  *)
(* the writer is suspended in between, with the file repository it is not. *)
(* Message numbers are in the order of creation.                           *)
(***************************************************************************)
EXTENDS Integers, FiniteSets

CONSTANTS
    Clients,        \* requests in flight at once
    MayDelete,      \* whether a client deletes the conversation
    Repositories,   \* the repositories the service may be built with
    MaxMessages     \* with each, the bound on the messages ever created

ASSUME ChatAssumption ==
    /\ MayDelete \in BOOLEAN
    /\ Repositories \subseteq {"file", "postgres"}
    /\ MaxMessages \in [Repositories -> Nat]
    /\ Clients \cap UNION {1 .. MaxMessages[r] : r \in Repositories} = {}

VARIABLES
    repository,     \* the one it was built with
    conversation,   \* the stored document: does it exist, its messages
    actor,          \* the requests, and the job of each assistant message
    created         \* messages created so far

chatVars == <<repository, conversation, actor, created>>

Ids == UNION {1 .. MaxMessages[r] : r \in Repositories}
Actors == Clients \cup Ids

NoMessage == [status |-> "absent", role |-> "user", sse |-> FALSE, request |-> 0]

NoMessages == [i \in Ids |-> NoMessage]

(* An actor is idle, about to change a message (read, write), waiting for  *)
(* the model's next chunk (open), a task that has not run yet (new), or a  *)
(* cancel request that looks up its message (looking).  then is what it    *)
(* does after the change; trying, that it is inside the job's try block.   *)
NoActor == [pc |-> "idle", id |-> 0, message |-> NoMessage, then |-> "idle", adds |-> FALSE,
            trying |-> FALSE, cancelled |-> FALSE, copy |-> NoMessages]

Suspends == repository = "postgres"

ChatInit ==
    /\ repository \in Repositories
    /\ conversation = [exists |-> TRUE, messages |-> NoMessages]
    /\ actor = [a \in Actors |-> NoActor]
    /\ created = 0

-----------------------------------------------------------------------------
User(request) == [status |-> "completed", role |-> "user", sse |-> FALSE, request |-> request]

Assistant(status, sse, request) ==
    [status |-> status, role |-> "assistant", sse |-> sse, request |-> request]

Add(a, id, message, then) ==
    [NoActor EXCEPT !.pc = "read", !.id = id, !.message = message, !.then = then, !.adds = TRUE]

(* update_message puts a whole message in the place of the one with its id. *)
Update(a, status, then) ==
    [actor[a] EXCEPT !.pc = "read", !.message.status = status, !.then = then,
                     !.adds = FALSE, !.copy = NoMessages]

(* create_message: the user's message, then the answer the intent calls    *)
(* for: a job that asks the model, or a workflow and a reply about it.     *)
(* stream_message adds two messages of its own and then, for a workflow,   *)
(* calls create_message with the request again.                            *)
CreateMessage(c, then) ==
    LET uses == IF then = "again" THEN 4 ELSE 2 IN
    /\ actor[c].pc = "idle"
    /\ conversation.exists
    /\ created + uses <= MaxMessages[repository]
    /\ created' = created + uses
    /\ actor' = [actor EXCEPT ![c] = Add(c, created + 1, User(created + 1), then)]
    /\ UNCHANGED <<repository, conversation>>

(* retry_message, whatever became of the message it retries *)
RetryMessage(c, m) ==
    /\ actor[c].pc = "idle"
    /\ conversation.exists
    /\ conversation.messages[m].role = "assistant"
    /\ created < MaxMessages[repository]
    /\ created' = created + 1
    /\ actor' = [actor EXCEPT ![c] =
         Add(c, created + 1, Assistant("pending", FALSE, conversation.messages[m].request), "job")]
    /\ UNCHANGED <<repository, conversation>>

(* What an actor does once its change is stored. *)
After(a, then) ==
    LET request == actor[a].message.request IN
    CASE then = "answer" -> Add(a, actor[a].id + 1, Assistant("pending", FALSE, request), "job")
      [] then = "reply" -> Add(a, actor[a].id + 1, Assistant("completed", FALSE, request), "idle")
      [] then \in {"stream", "again"} ->
           Add(a, actor[a].id + 1, Assistant("pending", TRUE, request),
               IF then = "stream" THEN "first" ELSE "create")
      [] then = "first" -> Update(a, "streaming", "open")
      [] then = "create" -> Add(a, actor[a].id + 1, User(request), "reply")
      [] then = "open" -> [actor[a] EXCEPT !.pc = "open", !.trying = TRUE, !.copy = NoMessages]
      [] OTHER -> NoActor

(* add_message appends; update_message changes nothing when the message is *)
(* not among those that were read.                                         *)
Changed(messages, a) ==
    IF actor[a].adds \/ messages[actor[a].id] # NoMessage
    THEN [messages EXCEPT ![actor[a].id] = actor[a].message] ELSE messages

(* repository.get, when the document's arrival takes time *)
Fetch(a) ==
    /\ Suspends /\ actor[a].pc = "read" /\ conversation.exists
    /\ actor' = [actor EXCEPT ![a].pc = "write", ![a].copy = conversation.messages]
    /\ UNCHANGED <<repository, conversation, created>>

(* Seeded fault: a conversation that is gone is started anew. *)
WritableAlways(a) == actor[a].pc = IF Suspends THEN "write" ELSE "read"

(* save follows at once, or when the document has arrived *)
Writable(a) ==
    /\ actor[a].pc = IF Suspends THEN "write" ELSE "read"
    /\ Suspends \/ conversation.exists

(* repository.save; create_task then starts the job of a pending answer. *)
Store(a) ==
    LET then == actor[a].then IN
    /\ Writable(a)
    /\ conversation' =
         [exists |-> TRUE,
          messages |-> Changed(IF Suspends THEN actor[a].copy ELSE conversation.messages, a)]
    /\ actor' = [b \in Actors |->
         IF b = a THEN After(a, then)
         ELSE IF then = "job" /\ b = actor[a].id
         THEN [NoActor EXCEPT !.pc = "new", !.id = b, !.message = actor[a].message]
         ELSE actor[b]]
    /\ UNCHANGED <<repository, created>>

(* Seeded fault: a failure is not reported. *)
FailedSilently(a) == NoActor

(* Failures are reported outside the try block. *)
Failed(a) == [Update(a, "failed", "idle") EXCEPT !.trying = FALSE]

(* The conversation is gone: KeyError.  Inside the try block the failure   *)
(* is reported next, which raises again.                                   *)
Missing(a) ==
    /\ actor[a].pc = "read" /\ ~conversation.exists
    /\ actor' = [actor EXCEPT ![a] = IF @.trying THEN Failed(a) ELSE NoActor]
    /\ UNCHANGED <<repository, conversation, created>>

DeleteConversation ==
    /\ MayDelete /\ conversation.exists
    /\ conversation' = [exists |-> FALSE, messages |-> NoMessages]
    /\ UNCHANGED <<repository, actor, created>>

-----------------------------------------------------------------------------
(* _run_assistant_job and the last part of stream_message *)
JobStarts(m) ==
    /\ actor[m].pc = "new" /\ ~actor[m].cancelled
    /\ actor' = [actor EXCEPT ![m] = Update(m, "streaming", "open")]
    /\ UNCHANGED <<repository, conversation, created>>

Chunk(a) ==
    /\ actor[a].pc = "open" /\ ~actor[a].cancelled
    /\ actor' = [actor EXCEPT ![a] = Update(a, "streaming", "open")]
    /\ UNCHANGED <<repository, conversation, created>>

(* The provider is done, raises, or returned nothing. *)
AnswerEnds(a, status) ==
    /\ actor[a].pc = "open" /\ ~actor[a].cancelled
    /\ actor' = [actor EXCEPT ![a] =
         IF status = "failed" THEN Failed(a) ELSE Update(a, status, "idle")]
    /\ UNCHANGED <<repository, conversation, created>>

(* The reader of the stream goes away: the generator is closed, which is   *)
(* not an Exception.                                                       *)
Disconnect(c) ==
    /\ actor[c].pc = "open" \/ actor[c].then = "open"
    /\ actor' = [actor EXCEPT ![c] = NoActor]
    /\ UNCHANGED <<repository, conversation, created>>

(* cancel_message looks the message up, cancels its job if there is one    *)
(* still, and marks the message whatever it says by then.                  *)
CancelAsked(c, m) ==
    /\ Suspends /\ actor[c].pc = "idle"
    /\ conversation.exists /\ conversation.messages[m] # NoMessage
    /\ actor' = [actor EXCEPT ![c].pc = "looking", ![c].id = m,
                              ![c].message = conversation.messages[m]]
    /\ UNCHANGED <<repository, conversation, created>>

Cancel(c, m) ==
    /\ actor[c].pc = IF Suspends THEN "looking" ELSE "idle"
    /\ IF Suspends THEN m = actor[c].id ELSE conversation.exists
    /\ Suspends \/ conversation.messages[m] # NoMessage
    /\ LET message == IF Suspends THEN actor[c].message ELSE conversation.messages[m] IN
       actor' = [actor EXCEPT
         ![m].cancelled = (actor[m].pc # "idle"),
         ![c] = [NoActor EXCEPT !.pc = "read", !.id = m,
                                !.message = [message EXCEPT !.status = "cancelled"]]]
    /\ UNCHANGED <<repository, conversation, created>>

(* Seeded fault: only a job that reads the model notices. *)
CancelReachesReader(m) ==
    /\ actor[m].pc = "open" /\ actor[m].cancelled
    /\ actor' = [actor EXCEPT ![m] = [Update(m, "cancelled", "idle") EXCEPT !.cancelled = FALSE]]
    /\ UNCHANGED <<repository, conversation, created>>

(* CancelledError at the job's next await: before the try block it ends    *)
(* the job, inside it is recorded first.                                   *)
CancelReaches(m) ==
    /\ actor[m].pc # "idle" /\ actor[m].cancelled
    /\ actor' = [actor EXCEPT ![m] =
         IF @.trying THEN [Update(m, "cancelled", "idle") EXCEPT !.cancelled = FALSE,
                                                                 !.trying = FALSE]
         ELSE NoActor]
    /\ UNCHANGED <<repository, conversation, created>>

-----------------------------------------------------------------------------
Request(c) ==
    \/ \E then \in {"answer", "reply", "stream", "again"} : CreateMessage(c, then)
    \/ \E m \in Ids : RetryMessage(c, m) \/ CancelAsked(c, m) \/ Cancel(c, m)
    \/ Disconnect(c)

Proceeds(a) == Fetch(a) \/ Store(a) \/ Missing(a)

Ends(a) == \E status \in {"completed", "failed"} : AnswerEnds(a, status)

ChatNext ==
    \/ DeleteConversation
    \/ \E c \in Clients : Request(c)
    \/ \E m \in Ids : JobStarts(m) \/ CancelReaches(m)
    \/ \E a \in Actors : Proceeds(a) \/ Chunk(a) \/ Ends(a)

(* The event loop runs what is ready, and a provider's answer is finite. *)
ChatFairness ==
    \A a \in Actors :
        /\ WF_chatVars(Proceeds(a) \/ (a \in Ids /\ (JobStarts(a) \/ CancelReaches(a))))
        /\ SF_chatVars(Ends(a))

-----------------------------------------------------------------------------
Unsettled(m) == conversation.messages[m].status \in {"pending", "streaming"}

(* While nothing suspends a writer, no change is lost: a message that is   *)
(* not finished is being worked on, so that it will be finished.  The      *)
(* messages of the streaming endpoint are excepted: its reader may go      *)
(* away, and when the request starts a workflow the endpoint leaves the    *)
(* message it made for the answer pending and shows another one's.         *)
WritesAreKept ==
    ~Suspends /\ conversation.exists =>
        \A m \in Ids : Unsettled(m) /\ ~conversation.messages[m].sse =>
            \E a \in Actors : actor[a].pc # "idle" /\ actor[a].id = m

(* Nor is a deleted conversation written back by a job.                    *)
DeletedStaysDeleted == [][~Suspends /\ ~conversation.exists => ~conversation'.exists]_chatVars

(* Every job ends, cancelled or not. *)
EveryJobEnds == \A m \in Ids : actor[m].pc # "idle" ~> actor[m].pc = "idle"
=============================================================================
