---------------------------- MODULE ExecutionStore ----------------------------
(***************************************************************************)
(* The same execution behind PostgresWorkflowExecutionRepository, as the   *)
(* backend and the recovery worker run it.  Every get and every upsert of  *)
(* the record is an await of its own (core/graph/persistence.py, on        *)
(* core/persistence/postgres.py), and an upsert replaces the whole         *)
(* document by the copy the caller made of it.  An action is the code from *)
(* one store operation to the next.                                        *)
(***************************************************************************)
EXTENDS DeliveryRouting, SequencesExt

CONSTANTS
    Calls,          \* calls of start() and recover() of the backend
    Workers,        \* runs of the recovery worker's loop
    CreatedBy,      \* the execution_owner of the runtime start() is called on
    Requests,       \* the request metadata a client may start with
    MaxInFlight,    \* bound on the calls in flight at once
    MaxRecoveries,  \* bound on the clients' calls of recover()
    MaxCancels,     \* bound on the calls of cancel()
    MaxFaults       \* bound on the calls that die half way

ASSUME StoreAssumption ==
    /\ Calls \cap Workers = {}
    /\ CreatedBy \in {"backend", "langgraph-worker"}
    /\ Requests \subseteq Meta
    /\ \A q \in Requests : ~q.repair
    /\ MaxInFlight \in Nat \ {0} /\ MaxRecoveries \in Nat
    /\ MaxCancels \in Nat /\ MaxFaults \in Nat

VARIABLES
    doc,            \* the execution's document in the store
    call,           \* per call: pc, its copy of the document and its run state
    canceller,      \* the copy held by a cancel() in flight, or Nothing
    asked,          \* history: how often each agent was asked to work
    recoveries,     \* how often a client called recover()
    cancels,        \* how often cancel() was called
    faults          \* how many calls have died

vars == <<doc, call, canceller, asked, recoveries, cancels, faults>>

Everyone == Calls \cup Workers

(* The worker builds its runtime with its own name; the backend's calls    *)
(* are on a runtime of whoever created the execution.                      *)
OwnerOf(s) == IF s \in Workers THEN "langgraph-worker" ELSE CreatedBy

NoMeta == [enabled |-> {}, mode |-> "full", pauseAfter |-> None, repair |-> FALSE]

NoCheckpoint == [status |-> "absent", active |-> None, next |-> None, ws |-> FreshWork]

(* request is the metadata start() was given, meta what the last update    *)
(* left as runtime_metadata; seqs are the sequence numbers of the          *)
(* checkpoints, newest the last of them.                                   *)
NoDoc ==
    [status |-> "absent", owner |-> None, active |-> None, next |-> None,
     attempts |-> [a \in Agents |-> 0], request |-> NoMeta, meta |-> NoMeta,
     locks |-> [a \in Agents |-> None], seqs |-> <<>>, newest |-> NoCheckpoint]

Nothing == [status |-> "nothing"]

FreshRun ==
    [status |-> "running", next |-> None, last |-> None,
     attempts |-> [a \in Agents |-> 0], ws |-> FreshWork, meta |-> NoMeta]

(* put is what _persist_state is about to write, back where it returns to; *)
(* listed is the record the worker found before it called recover().       *)
NoCall ==
    [pc |-> "idle", r |-> FreshRun, copy |-> Nothing, put |-> Nothing,
     back |-> "router", listed |-> Nothing]

Init ==
    /\ doc = NoDoc
    /\ call = [s \in Everyone |-> NoCall]
    /\ canceller = Nothing
    /\ asked = [a \in Agents |-> 0]
    /\ recoveries = 0
    /\ cancels = 0
    /\ faults = 0

At(s, pc) == call[s].pc = pc

(* A call begins: the number of calls at work at once is bounded. *)
Begins(s) ==
    /\ At(s, "idle")
    /\ Cardinality({o \in Everyone : ~At(o, "idle")}) < MaxInFlight

(* The call goes on to pc, with nothing read from the store in hand. *)
Go(s, pc) == call' = [call EXCEPT ![s].pc = pc, ![s].copy = Nothing]

(* A get: the call goes on to pc with a copy of the document. *)
Fetch(s, pc) == call' = [call EXCEPT ![s].pc = pc, ![s].copy = doc]

Leave(s) == call' = [call EXCEPT ![s] = NoCall]

(* An exception leaves recover(): only the worker has anything to do yet. *)
Raise(s) ==
    IF s \in Workers
    THEN call' = [call EXCEPT ![s] = [NoCall EXCEPT !.pc = "raised", !.listed = call[s].listed]]
    ELSE Leave(s)

(* _persist_state(r, status, next) is called, to return to back. *)
Save(s, r, status, next, back) ==
    call' = [call EXCEPT ![s] =
               [@ EXCEPT !.pc = "persistRead", !.r = r, !.copy = Nothing, !.back = back,
                         !.put = [status |-> status, next |-> next, seq |-> 0]]]

OnlyCalls == UNCHANGED <<doc, canceller, asked, recoveries, cancels, faults>>

OnlyStore == UNCHANGED <<canceller, asked, recoveries, cancels, faults>>

-----------------------------------------------------------------------------
(* start() *)
Start(s, request) ==
    /\ s \in Calls
    /\ Begins(s)
    /\ doc.status = "absent"
    /\ doc' = [NoDoc EXCEPT !.status = "running", !.owner = CreatedBy,
                            !.request = request, !.next = FirstOf(Plan(request))]
    /\ call' = [call EXCEPT ![s].pc = "router",
                            ![s].r = [FreshRun EXCEPT !.meta = request,
                                                      !.next = FirstOf(Plan(request))]]
    /\ OnlyStore

(* recover(), called by a client: a cancelled execution returns at once. *)
Recover(s) ==
    /\ s \in Calls
    /\ Begins(s)
    /\ doc.status \notin {"absent", "cancelled"}
    /\ recoveries < MaxRecoveries
    /\ recoveries' = recoveries + 1
    /\ Go(s, "recoverCheckpoint")
    /\ UNCHANGED <<doc, canceller, asked, cancels, faults>>

(* _recover_running_records: the worker lists the executions and calls     *)
(* recover() on those of its own that are running.                         *)
Sweep(s) ==
    /\ s \in Workers
    /\ Begins(s)
    /\ doc.status = "running"
    /\ doc.owner = "langgraph-worker"
    /\ call' = [call EXCEPT ![s].pc = "recoverStatus", ![s].listed = doc]
    /\ OnlyCalls

RecoverStatus(s) ==
    /\ At(s, "recoverStatus")
    /\ IF doc.status = "cancelled" THEN Leave(s) ELSE Go(s, "recoverCheckpoint")
    /\ OnlyCalls

RecoverCheckpoint(s) ==
    /\ At(s, "recoverCheckpoint")
    /\ IF doc.newest.status = "absent" THEN Raise(s)
       ELSE IF doc.newest.status \in Terminal THEN Leave(s)
       ELSE call' = [call EXCEPT ![s].pc = "recoverRecord",
                                 ![s].r = [FreshRun EXCEPT !.next = doc.newest.next,
                                                           !.last = doc.newest.active,
                                                           !.ws = doc.newest.ws]]
    /\ OnlyCalls

RecoverRecord(s) ==
    /\ At(s, "recoverRecord")
    /\ call' = [call EXCEPT ![s].pc = "recoverWrite", ![s].copy = doc,
                            ![s].r.attempts = doc.attempts,
                            ![s].r.meta = [doc.meta EXCEPT !.pauseAfter = None]]
    /\ OnlyCalls

RecoverWrite(s) ==
    /\ At(s, "recoverWrite")
    /\ doc' = [call[s].copy EXCEPT !.status = "running", !.next = call[s].r.next]
    /\ Go(s, "router")
    /\ OnlyStore

(* Seeded fault: the except branch logs and leaves the record as it was. *)
RecoveryFailedUnrecorded(s) ==
    /\ At(s, "raised")
    /\ doc' = call[s].listed
    /\ Leave(s)
    /\ OnlyStore

(* The worker's except branch writes back the record it listed. *)
RecoveryFailed(s) ==
    /\ At(s, "raised")
    /\ doc' = [call[s].listed EXCEPT !.status = "failed"]
    /\ Leave(s)
    /\ OnlyStore

-----------------------------------------------------------------------------
(* _router_node; where _route_from_router leads is seen in AfterSave. *)
Route(s) ==
    LET r == call[s].r
    IN  /\ At(s, "router")
        /\ IF doc.status = "cancelled" THEN Save(s, r, "cancelled", None, "route")
           ELSE IF Unroutable(r) THEN Raise(s)
           ELSE Save(s, [r EXCEPT !.meta = NextMeta(r)], RoutedStatus(r), NextAgent(r), "route")
        /\ OnlyCalls

(* _persist_state: get, append_checkpoint (a get and an upsert), get,      *)
(* update.  Only the first of these looks at a cancellation.               *)
PersistRead(s) ==
    LET put == call[s].put
        kept == IF doc.status = "cancelled" THEN "cancelled" ELSE put.status
    IN  /\ At(s, "persistRead")
        /\ call' = [call EXCEPT ![s].pc = "appendRead",
                                ![s].put = [status |-> kept,
                                            next |-> IF kept = put.status THEN put.next ELSE None,
                                            seq |-> Len(doc.seqs)]]
        /\ OnlyCalls

AppendRead(s) ==
    /\ At(s, "appendRead")
    /\ Fetch(s, "appendWrite")
    /\ OnlyCalls

AppendWrite(s) ==
    LET put == call[s].put
        r == call[s].r
    IN  /\ At(s, "appendWrite")
        /\ doc' = [call[s].copy EXCEPT
                     !.status = put.status, !.active = r.last, !.next = put.next,
                     !.seqs = Append(@, put.seq),
                     !.newest = [status |-> put.status, active |-> r.last,
                                 next |-> put.next, ws |-> r.ws]]
        /\ Go(s, "updateRead")
        /\ OnlyStore

UpdateRead(s) ==
    /\ At(s, "updateRead")
    /\ Fetch(s, "updateWrite")
    /\ OnlyCalls

(* _route_from_router, or the edge back to the router. *)
AfterSave(s) ==
    LET put == call[s].put
    IN  IF call[s].back = "router" THEN "router"
        ELSE IF put.status = "running" /\ put.next # None THEN "agent"
        ELSE "finalRead"

(* Seeded fault: the attempts are not stored. *)
UpdateWriteUncounted(s) ==
    /\ At(s, "updateWrite")
    /\ doc' = [call[s].copy EXCEPT
                 !.status = call[s].put.status, !.active = call[s].r.last,
                 !.next = call[s].put.next, !.meta = call[s].r.meta]
    /\ call' = [call EXCEPT ![s] =
                  [NoCall EXCEPT !.pc = AfterSave(s), !.listed = call[s].listed,
                                 !.r = [call[s].r EXCEPT !.status = call[s].put.status,
                                                         !.next = call[s].put.next]]]
    /\ OnlyStore

UpdateWrite(s) ==
    LET put == call[s].put
        r == call[s].r
    IN  /\ At(s, "updateWrite")
        /\ doc' = [call[s].copy EXCEPT
                     !.status = put.status, !.active = r.last, !.next = put.next,
                     !.attempts = r.attempts, !.meta = r.meta]
        /\ call' = [call EXCEPT ![s] =
                      [NoCall EXCEPT !.pc = AfterSave(s), !.listed = call[s].listed,
                                     !.r = [r EXCEPT !.status = put.status, !.next = put.next]]]
        /\ OnlyStore

-----------------------------------------------------------------------------
(* Seeded fault: a cancelled call waits for its turn. *)
AgentReadAgain(s) ==
    /\ At(s, "agent")
    /\ IF doc.status = "cancelled" THEN Go(s, "agent") ELSE Go(s, "lockRead")
    /\ OnlyCalls

(* _execute_agent *)
AgentRead(s) ==
    /\ At(s, "agent")
    /\ IF doc.status = "cancelled" THEN Save(s, call[s].r, "cancelled", None, "router")
       ELSE Go(s, "lockRead")
    /\ OnlyCalls

(* _acquire_agent_lock *)
LockRead(s) ==
    LET a == call[s].r.next
    IN  /\ At(s, "lockRead")
        /\ IF doc.owner = OwnerOf(s) /\ doc.locks[a] \in {None, OwnerOf(s)}
           THEN Fetch(s, "lockWrite")
           ELSE Save(s, AfterAgent(call[s].r, a, "retryable"), "failed", None, "router")
        /\ OnlyCalls

LockWrite(s) ==
    /\ At(s, "lockWrite")
    /\ doc' = [call[s].copy EXCEPT !.locks[call[s].r.next] = OwnerOf(s)]
    /\ Go(s, "running")
    /\ asked' = [asked EXCEPT ![call[s].r.next] = @ + 1]
    /\ UNCHANGED <<canceller, recoveries, cancels, faults>>

AgentAnswers(s, v) ==
    /\ At(s, "running")
    /\ call' = [call EXCEPT ![s].pc = "unlockRead",
                            ![s].r = AfterAgent(call[s].r, call[s].r.next, v)]
    /\ OnlyCalls

(* _release_agent_lock *)
UnlockRead(s) ==
    /\ At(s, "unlockRead")
    /\ IF doc.locks[call[s].r.last] = OwnerOf(s) THEN Fetch(s, "unlockWrite")
       ELSE Go(s, "answered")
    /\ OnlyCalls

UnlockWrite(s) ==
    /\ At(s, "unlockWrite")
    /\ doc' = [call[s].copy EXCEPT !.locks[call[s].r.last] = None]
    /\ Go(s, "answered")
    /\ OnlyStore

(* The answer is applied, the next stage looked up for the event, and the  *)
(* record read once more before it is persisted.                           *)
AgentReturns(s) ==
    LET r == [call[s].r EXCEPT !.meta = NextMeta(call[s].r)]
    IN  /\ At(s, "answered")
        /\ IF Unroutable(call[s].r) THEN Raise(s)
           ELSE Save(s, r, IF doc.status = "cancelled" THEN "cancelled" ELSE "running",
                     None, "router")
        /\ OnlyCalls

(* _finalize *)
FinalRead(s) ==
    /\ At(s, "finalRead")
    /\ IF doc.status = call[s].r.status THEN Leave(s) ELSE Fetch(s, "finalWrite")
    /\ OnlyCalls

FinalWrite(s) ==
    /\ At(s, "finalWrite")
    /\ doc' = [call[s].copy EXCEPT !.status = call[s].r.status]
    /\ Leave(s)
    /\ OnlyStore

-----------------------------------------------------------------------------
(* cancel(): a get and an upsert *)
CancelRead ==
    /\ cancels < MaxCancels
    /\ canceller = Nothing
    /\ doc.status # "absent"
    /\ canceller' = doc
    /\ cancels' = cancels + 1
    /\ UNCHANGED <<doc, call, asked, recoveries, faults>>

CancelWrite ==
    /\ canceller # Nothing
    /\ doc' = [canceller EXCEPT !.status = "cancelled"]
    /\ canceller' = Nothing
    /\ UNCHANGED <<call, asked, recoveries, cancels, faults>>

(* The process dies, and the call with it. *)
Interrupt(s) ==
    /\ faults < MaxFaults
    /\ ~At(s, "idle")
    /\ Leave(s)
    /\ faults' = faults + 1
    /\ UNCHANGED <<doc, canceller, asked, recoveries, cancels>>

Step(s) ==
    \/ RecoverStatus(s)
    \/ RecoverCheckpoint(s)
    \/ RecoverRecord(s)
    \/ RecoverWrite(s)
    \/ RecoveryFailed(s)
    \/ Route(s)
    \/ PersistRead(s)
    \/ AppendRead(s)
    \/ AppendWrite(s)
    \/ UpdateRead(s)
    \/ UpdateWrite(s)
    \/ AgentRead(s)
    \/ LockRead(s)
    \/ LockWrite(s)
    \/ \E v \in VerdictsOf(call[s].r.next) : AgentAnswers(s, v)
    \/ UnlockRead(s)
    \/ UnlockWrite(s)
    \/ AgentReturns(s)
    \/ FinalRead(s)
    \/ FinalWrite(s)

Next ==
    \/ \E s \in Everyone :
        \/ \E request \in Requests : Start(s, request)
        \/ Recover(s)
        \/ Sweep(s)
        \/ Step(s)
        \/ Interrupt(s)
    \/ CancelRead
    \/ CancelWrite

(* A call in flight goes on, and the worker polls for ever.  Nobody has to *)
(* start, recover or cancel anything.                                      *)
Fairness ==
    /\ \A s \in Everyone : WF_vars(Step(s))
    /\ \A s \in Workers : WF_vars(Sweep(s))

Spec == Init /\ [][Next]_vars /\ Fairness
-----------------------------------------------------------------------------
PC == {"idle", "recoverStatus", "recoverCheckpoint", "recoverRecord", "recoverWrite",
       "raised", "router", "persistRead", "appendRead", "appendWrite", "updateRead",
       "updateWrite", "agent", "lockRead", "lockWrite", "running", "unlockRead",
       "unlockWrite", "answered", "finalRead", "finalWrite"}

Document ==
    [status : RunStatus \cup {"absent"}, owner : {"backend", "langgraph-worker", None},
     active : Agents \cup {None}, next : Agents \cup {None},
     attempts : [Agents -> Nat], request : Meta, meta : Meta,
     locks : [Agents -> {"backend", "langgraph-worker", None}], seqs : Seq(Nat),
     newest : [status : RunStatus \cup {"absent"}, active : Agents \cup {None},
               next : Agents \cup {None}, ws : WorkState]]

(* The shape of the document and of every copy of it, and that a call has  *)
(* a copy in hand exactly when its next step writes one back.              *)
TypeOK ==
    /\ doc \in Document
    /\ canceller \in Document \cup {Nothing}
    /\ asked \in [Agents -> Nat]
    /\ \A s \in Everyone :
        /\ call[s].pc \in PC
        /\ call[s].copy \in Document \cup {Nothing}
        /\ call[s].copy # Nothing
            <=> call[s].pc \in {"recoverWrite", "appendWrite", "updateWrite", "lockWrite",
                                "unlockWrite", "finalWrite"}
        /\ call[s].r \in [status : RunStatus, next : Agents \cup {None},
                          last : Agents \cup {None}, attempts : [Agents -> Nat],
                          ws : WorkState, meta : Meta]
        /\ At(s, "running") => call[s].r.next \in Agents

(* A stage only runs when every stage of the request before it has         *)
(* completed, in order, although calls write over one another's document   *)
(* and die between any two store operations.                               *)
StagesBuildOnStandingWork ==
    \A s \in Everyone :
        At(s, "running") =>
            Standing(call[s].r.ws,
                     {b \in Plan(doc.request) : Rank[b] < Rank[call[s].r.next]})

(* A completed stage whose checkpoint was stored is not executed again,    *)
(* except the developer after a QA rejection.                              *)
CompletedWorkIsKept ==
    \A s \in Everyone :
        /\ At(s, "running")
        /\ call[s].r.ws.verdict[call[s].r.next] = "completed"
        => call[s].r.next = "developer" /\ call[s].r.ws.verdict["qa"] = "rejected"

(* An agent is asked to work no more often than its retries and QA's       *)
(* rejections allow, and once more for each call that died: an answer or   *)
(* its count may be lost, never more than one at a time.                   *)
ACrashCostsOneAttempt ==
    \A a \in Agents :
        asked[a] <= MaxAgentAttempts + faults
                      + (IF a \in {"developer", "qa"} THEN doc.newest.ws.rejections ELSE 0)

(* The sequence number of a checkpoint is its place in the history:        *)
(* append_checkpoint numbers by a length read earlier.                     *)
CheckpointsAreNumbered == \A i \in DOMAIN doc.seqs : doc.seqs[i] = i - 1

(* What a crash between any two store operations may cost: one attempt of  *)
(* one agent, and never a checkpoint, a completed stage or the order of    *)
(* the stages (one call at a time).                                        *)
CrashesCostOneAttempt ==
    [][/\ ACrashCostsOneAttempt' /\ CheckpointsAreNumbered'
       /\ IsPrefix(doc.seqs, doc'.seqs)
       /\ StagesBuildOnStandingWork' /\ CompletedWorkIsKept']_vars

(* Every call of start() or recover() returns or dies. *)
EveryCallEnds == \A s \in Everyone : ~At(s, "idle") ~> At(s, "idle")

(* An execution that is recorded as running with nobody at work on it does *)
(* not stay so: the worker brings it to an end, or records the failure.    *)
OrphansAreSettled ==
    doc.status = "running" /\ (\A s \in Everyone : At(s, "idle")) ~> doc.status # "running"

-----------------------------------------------------------------------------
StandingStages ==
    {a \in Plan(doc.request) :
        /\ doc.newest.ws.verdict[a] = "completed"
        /\ a = "developer" /\ doc.newest.ws.verdict["qa"] = "rejected"
             => doc.newest.ws.finished["qa"] < doc.newest.ws.finished[a]}

Contract == INSTANCE DeliveryContract WITH
    status     <- doc.status,
    plan       <- IF doc.newest.status = "absent" THEN {} ELSE Plan(doc.request),
    standing   <- IF doc.newest.status = "absent" THEN {} ELSE StandingStages,
    rejections <- doc.newest.ws.rejections

(* For requests of the whole sequence, the execution behind the store      *)
(* still is the delivery contract, crashes between any two store           *)
(* operations included (one call at a time).                               *)
ImplementsContract == Contract!Spec

-----------------------------------------------------------------------------
(* What the repository says and the code does not do.                      *)

(* A cancellation that was stored while a call is at work stays stored     *)
(* while it works.  _persist_state looks at the record once and writes it  *)
(* twice afterwards.                                                       *)
CancelHoldsWhileWorking ==
    [][ doc.status = "cancelled" /\ (\E s \in Calls : ~At(s, "idle") /\ call'[s].pc # "idle")
          => doc'.status = "cancelled" ]_vars

(* Recovery resumes the run that was asked for: only the stages of the     *)
(* request are ever run.  The run's metadata is stored by the update that  *)
(* follows the checkpoint, and a recovery in between does without it.      *)
OnlyRequestedStagesRun ==
    \A s \in Everyone : At(s, "running") => call[s].r.next \in Plan(doc.request)
=============================================================================
