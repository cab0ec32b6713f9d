--------------------------- MODULE WorkflowRuntime ---------------------------
(***************************************************************************)
(* One execution of the delivery workflow by LangGraphExecutionRuntime     *)
(* (core/graph/execution.py) over a repository whose calls do not suspend  *)
(* (InMemoryWorkflowExecutionRepository, core/graph/persistence.py).       *)
(*                                                                         *)
(* A session is one call of start() or recover() in flight.  The event     *)
(* loop switches between sessions, and to cancel(), at the boundaries of   *)
(* the graph's nodes and while an agent works, so an action is the code    *)
(* between two of those points.  Several sessions may be in flight on the  *)
(* one execution, since nothing in recover() prevents it.                  *)
(***************************************************************************)
EXTENDS DeliveryRouting

CONSTANTS
    Sessions,       \* calls of start() and recover() that may be in flight
    Owners,         \* execution owners: "backend", "langgraph-worker"
    OwnerOf,        \* the owner each session's runtime was built with
    Requests,       \* the request metadata a client may start with
    MaxFaults       \* bound on the sessions that die half way

ASSUME RuntimeAssumption ==
    /\ OwnerOf \in [Sessions -> Owners]
    /\ None \notin Owners
    /\ Requests \subseteq Meta
    /\ \A q \in Requests : ~q.repair
    /\ MaxFaults \in Nat

VARIABLES
    record,         \* the persisted WorkflowExecutionRecord
    checkpoint,     \* the newest of its checkpoints
    run,            \* per session: pc and the RealWorkflowRuntimeState
    faults          \* how many sessions have died so far

vars == <<record, checkpoint, run, faults>>

PC == {"idle", "router", "agent", "running", "final"}

RecordStatus == RunStatus \cup {"absent"}

NoMeta == [enabled |-> {}, mode |-> "full", pauseAfter |-> None, repair |-> FALSE]

NoRun ==
    [pc |-> "idle", status |-> "running", next |-> None, last |-> None,
     attempts |-> [a \in Agents |-> 0], ws |-> FreshWork, meta |-> NoMeta]

NoRecord ==
    [status |-> "absent", owner |-> None, active |-> None, next |-> None,
     attempts |-> [a \in Agents |-> 0], meta |-> NoMeta,
     locks |-> [a \in Agents |-> None]]

NoCheckpoint == [status |-> "absent", active |-> None, next |-> None, ws |-> FreshWork]

Init ==
    /\ record = NoRecord
    /\ checkpoint = NoCheckpoint
    /\ run = [s \in Sessions |-> NoRun]
    /\ faults = 0

-----------------------------------------------------------------------------
(* _persist_state: append a checkpoint, then update the record.  A record  *)
(* already cancelled stays cancelled.                                      *)
KeptStatus(status) == IF record.status = "cancelled" THEN "cancelled" ELSE status

KeptNext(status, next) == IF KeptStatus(status) = status THEN next ELSE None

Persist(r, status, next) ==
    /\ checkpoint' = [status |-> KeptStatus(status), active |-> r.last,
                      next |-> KeptNext(status, next), ws |-> r.ws]
    /\ record' = [record EXCEPT !.status = KeptStatus(status),
                                !.active = r.last,
                                !.next = KeptNext(status, next),
                                !.attempts = r.attempts,
                                !.meta = r.meta]

(* The state the node returns to the graph once _persist_state is done. *)
Continue(s, r, status, next, pc) ==
    run' = [run EXCEPT ![s] = [r EXCEPT !.pc = pc,
                                        !.status = KeptStatus(status),
                                        !.next = KeptNext(status, next)]]

(* start() *)
Start(s, request) ==
    /\ run[s].pc = "idle"
    /\ record.status = "absent"
    /\ record' = [NoRecord EXCEPT !.status = "running", !.owner = OwnerOf[s],
                                  !.next = FirstOf(Plan(request))]
    /\ run' = [run EXCEPT ![s] = [NoRun EXCEPT !.pc = "router", !.meta = request,
                                               !.next = FirstOf(Plan(request))]]
    /\ UNCHANGED <<checkpoint, faults>>

(* recover(), the calls that do not return at once or raise *)
Recover(s) ==
    /\ run[s].pc = "idle"
    /\ record.status # "cancelled"
    /\ checkpoint.status \notin Terminal \cup {"absent"}
    /\ run' = [run EXCEPT ![s] =
                 [pc |-> "router", status |-> "running",
                  next |-> checkpoint.next, last |-> checkpoint.active,
                  attempts |-> record.attempts, ws |-> checkpoint.ws,
                  meta |-> [record.meta EXCEPT !.pauseAfter = None]]]
    /\ record' = [record EXCEPT !.status = "running", !.next = checkpoint.next]
    /\ UNCHANGED <<checkpoint, faults>>

(* cancel() *)
Cancel ==
    /\ record.status # "absent"
    /\ record' = [record EXCEPT !.status = "cancelled"]
    /\ UNCHANGED <<checkpoint, run, faults>>

-----------------------------------------------------------------------------
(* Seeded fault: a failed run is routed on. *)
AfterRouterUnlessDone(status, next) ==
    IF KeptStatus(status) \notin {"completed", "cancelled", "paused"}
    THEN "agent" ELSE "final"

(* _router_node and _route_from_router *)
AfterRouter(status, next) ==
    IF KeptStatus(status) = "running" /\ KeptNext(status, next) # None
    THEN "agent" ELSE "final"

Route(s) ==
    LET r == [run[s] EXCEPT !.meta = NextMeta(run[s])]
    IN  /\ run[s].pc = "router"
        /\ record.status # "cancelled"
        /\ ~Unroutable(run[s])
        /\ Persist(r, RoutedStatus(run[s]), NextAgent(run[s]))
        /\ Continue(s, r, RoutedStatus(run[s]), NextAgent(run[s]),
                    AfterRouter(RoutedStatus(run[s]), NextAgent(run[s])))
        /\ UNCHANGED faults

RouteCancelled(s) ==
    /\ run[s].pc = "router"
    /\ record.status = "cancelled"
    /\ Persist(run[s], "cancelled", None)
    /\ Continue(s, run[s], "cancelled", None, "final")
    /\ UNCHANGED faults

-----------------------------------------------------------------------------
(* Seeded fault: the cancelled node is entered again instead of the router. *)
AgentSeesCancelAgain(s) ==
    /\ run[s].pc = "agent"
    /\ record.status = "cancelled"
    /\ Persist(run[s], "cancelled", None)
    /\ Continue(s, run[s], "cancelled", run[s].next, "agent")
    /\ UNCHANGED faults

(* _execute_agent up to the point where the agent is asked to work *)
AgentSeesCancel(s) ==
    /\ run[s].pc = "agent"
    /\ record.status = "cancelled"
    /\ Persist(run[s], "cancelled", None)
    /\ Continue(s, run[s], "cancelled", None, "router")
    /\ UNCHANGED faults

(* Seeded fault: the owner of the execution is not looked at. *)
LockGrantedToAnyone(s, a) == record.locks[a] \in {None, OwnerOf[s]}

(* _acquire_agent_lock: what it refuses, and what it grants. *)
LockGranted(s, a) ==
    /\ record.owner = OwnerOf[s]
    /\ record.locks[a] \in {None, OwnerOf[s]}

AgentLockDenied(s) ==
    LET a == run[s].next
        r == AfterAgent(run[s], a, "retryable")
    IN  /\ run[s].pc = "agent"
        /\ record.status # "cancelled"
        /\ ~LockGranted(s, a)
        /\ Persist(r, "failed", None)
        /\ Continue(s, r, "failed", None, "router")
        /\ UNCHANGED faults

AgentStarts(s) ==
    LET a == run[s].next
    IN  /\ run[s].pc = "agent"
        /\ record.status # "cancelled"
        /\ LockGranted(s, a)
        /\ record' = [record EXCEPT !.locks[a] = OwnerOf[s]]
        /\ run' = [run EXCEPT ![s].pc = "running"]
        /\ UNCHANGED <<checkpoint, faults>>

(* _release_agent_lock *)
Released(locks, s, a) ==
    IF locks[a] = OwnerOf[s] THEN [locks EXCEPT ![a] = None] ELSE locks

(* _execute_agent from the agent's answer on.  The lock goes first; then   *)
(* the answer is applied and persisted, still RUNNING, for the router.     *)
AgentReturns(s, v) ==
    LET a == run[s].next
        answered == AfterAgent(run[s], a, v)
        r == [answered EXCEPT !.meta = NextMeta(answered)]
    IN  /\ run[s].pc = "running"
        /\ ~Unroutable(answered)
        /\ checkpoint' = [status |-> KeptStatus("running"), active |-> a,
                          next |-> None, ws |-> r.ws]
        /\ record' = [record EXCEPT !.status = KeptStatus("running"),
                                    !.active = a, !.next = None,
                                    !.attempts = r.attempts, !.meta = r.meta,
                                    !.locks = Released(@, s, a)]
        /\ Continue(s, r, "running", None, "router")
        /\ UNCHANGED faults

(* The stage_transition event asks _next_agent for the next stage; when    *)
(* that raises, the exception leaves the graph and start() or recover().   *)
AgentUnroutable(s, v) ==
    LET a == run[s].next
    IN  /\ run[s].pc = "running"
        /\ Unroutable(AfterAgent(run[s], a, v))
        /\ record' = [record EXCEPT !.locks = Released(@, s, a)]
        /\ run' = [run EXCEPT ![s] = NoRun]
        /\ UNCHANGED <<checkpoint, faults>>

-----------------------------------------------------------------------------
(* _finalize *)
Finalize(s) ==
    /\ run[s].pc = "final"
    /\ record' = [record EXCEPT !.status = run[s].status]
    /\ run' = [run EXCEPT ![s] = NoRun]
    /\ UNCHANGED <<checkpoint, faults>>

(* The process dies, or an exception leaves an event hook, and the session *)
(* with it; what is persisted stays.                                       *)
Interrupt(s) ==
    /\ faults < MaxFaults
    /\ run[s].pc # "idle"
    /\ run' = [run EXCEPT ![s] = NoRun]
    /\ faults' = faults + 1
    /\ UNCHANGED <<record, checkpoint>>

Step(s) ==
    \/ Route(s)
    \/ RouteCancelled(s)
    \/ AgentSeesCancel(s)
    \/ AgentLockDenied(s)
    \/ AgentStarts(s)
    \/ \E v \in VerdictsOf(run[s].next) : AgentReturns(s, v)
    \/ \E v \in VerdictsOf(run[s].next) : AgentUnroutable(s, v)
    \/ Finalize(s)

Next ==
    \/ \E s \in Sessions :
        \/ \E request \in Requests : Start(s, request)
        \/ Recover(s)
        \/ Step(s)
        \/ Interrupt(s)
    \/ Cancel

(* The event loop runs every session that can go on, and an agent always   *)
(* answers (every provider call has a timeout).  Nobody has to start,      *)
(* resume or cancel anything.                                              *)
Fairness == \A s \in Sessions : WF_vars(Step(s))

Spec == Init /\ [][Next]_vars /\ Fairness

-----------------------------------------------------------------------------
RunState ==
    [pc : PC, status : RunStatus, next : Agents \cup {None}, last : Agents \cup {None},
     attempts : [Agents -> Nat], ws : WorkState, meta : Meta]

Record ==
    [status : RecordStatus, owner : Owners \cup {None}, active : Agents \cup {None},
     next : Agents \cup {None}, attempts : [Agents -> Nat], meta : Meta,
     locks : [Agents -> Owners \cup {None}]]

Checkpoint ==
    [status : RecordStatus, active : Agents \cup {None}, next : Agents \cup {None},
     ws : WorkState]

(* The shape of the record, of its newest checkpoint and of the sessions;  *)
(* a session about to run an agent, or running one, names it.              *)
TypeOK ==
    /\ record \in Record
    /\ checkpoint \in Checkpoint
    /\ run \in [Sessions -> RunState]
    /\ faults \in 0 .. MaxFaults
    /\ \A s \in Sessions : run[s].pc \in {"agent", "running"} => run[s].next \in Agents

(* A stage only runs on work that stands: every planned stage before it    *)
(* has completed, in the order of the sequence, so that Docs and PR never  *)
(* see a change QA rejected or has not seen, through retries, rework,      *)
(* pauses, interruptions and recoveries.                                   *)
StagesBuildOnStandingWork ==
    \A s \in Sessions :
        run[s].pc = "running" =>
            Standing(run[s].ws,
                     {b \in Plan(run[s].meta) : Rank[b] < Rank[run[s].next]})

(* A stage that completed is not executed again, except the developer      *)
(* after a QA rejection: recovery resumes, it does not restart.            *)
CompletedWorkIsKept ==
    \A s \in Sessions :
        /\ run[s].pc = "running"
        /\ run[s].ws.verdict[run[s].next] = "completed"
        => run[s].next = "developer" /\ run[s].ws.verdict["qa"] = "rejected"

(* Retries and rework are bounded: no agent's answers exceed its retry     *)
(* budget plus one per QA rejection (which only re-runs developer and QA), *)
(* and the rejections are bounded too, across interruptions and recovery.  *)
RetriesAreBounded ==
    /\ Budget(record.attempts, checkpoint.ws)
    /\ \A s \in Sessions : Budget(run[s].attempts, run[s].ws)

(* After a QA rejection the developer runs in targeted repair mode, and    *)
(* never before one, also when the rejection was persisted by a session    *)
(* that died before routing it.                                            *)
ReworkIsTargeted ==
    \A s \in Sessions :
        run[s].pc = "running" /\ run[s].next = "developer" =>
            (run[s].meta.repair <=> run[s].ws.rejections > 0)

(* The two at once: rework is bounded, and aimed at what was rejected.     *)
ReworkIsBounded == RetriesAreBounded /\ ReworkIsTargeted

(* An execution recorded as completed has delivered every planned stage,   *)
(* in order (one session at a time).                                       *)
CompletedMeansDelivered ==
    record.status = "completed" => Standing(checkpoint.ws, Plan(record.meta))

(* An execution recorded as failed has a cause the routing rules accept:   *)
(* a failure that may not be retried, a spent retry budget, or one QA      *)
(* rejection too many (one session at a time, of the owner).               *)
FailedMeansExhausted ==
    record.status = "failed" =>
        Exhausted([last |-> checkpoint.active, ws |-> checkpoint.ws,
                   attempts |-> record.attempts])

(* What makes the invariants above inductive: the coherent work of every   *)
(* session and of the persisted pair of record and checkpoint, which the   *)
(* next recovery starts from.                                              *)
CoherentWork ==
    /\ record.status = "absent" => checkpoint = NoCheckpoint
    /\ Coherent(checkpoint.active, record.attempts, checkpoint.ws, record.meta)
    /\ checkpoint.active = None /\ checkpoint.status \in {"running", "paused"}
        => checkpoint.next = FirstOf(Plan(record.meta))
    /\ \A s \in Sessions :
        /\ Coherent(run[s].last, run[s].attempts, run[s].ws, run[s].meta)
        /\ run[s].pc = "router" => run[s].status \notin {"completed", "paused"}
        /\ run[s].pc = "router" /\ run[s].status = "running" /\ run[s].last = None
            => run[s].next = FirstOf(Plan(run[s].meta))
        /\ run[s].pc \in {"agent", "running"} => InHand(run[s])

(* Only a runtime of the execution's owner is ever inside a stage: the     *)
(* owner check of the stage lock is what keeps the others out.             *)
OnlyTheOwnerRunsStages ==
    \A s \in Sessions : run[s].pc = "running" => OwnerOf[s] = record.owner

(* An end is earned, as above, and a cancellation that arrives while a     *)
(* session works is not undone while that session works (one session at a  *)
(* time, of the owner).                                                    *)
Working(s) == run[s].pc \in {"router", "agent", "running"}

EndsAreEarned ==
    [][ /\ CompletedMeansDelivered' /\ FailedMeansExhausted'
        /\ record.status = "cancelled" /\ (\E s \in Sessions : Working(s))
             => record'.status = "cancelled" ]_vars

(* Every call of start() or recover() returns or dies. *)
EverySessionEnds ==
    \A s \in Sessions : run[s].pc # "idle" ~> run[s].pc = "idle"

-----------------------------------------------------------------------------
(* The stages whose deliverable stands in the newest checkpoint: completed *)
(* and, for the developer's, not rejected by QA since.                     *)
StandingStages ==
    {a \in Plan(record.meta) :
        /\ checkpoint.ws.verdict[a] = "completed"
        /\ a = "developer" /\ checkpoint.ws.verdict["qa"] = "rejected"
             => checkpoint.ws.finished["qa"] < checkpoint.ws.finished[a]}

Contract == INSTANCE DeliveryContract WITH
    status     <- record.status,
    plan       <- IF checkpoint.status = "absent" THEN {} ELSE Plan(record.meta),
    standing   <- IF checkpoint.status = "absent" THEN {} ELSE StandingStages,
    rejections <- checkpoint.ws.rejections

(* Seen through its record, the runtime is the delivery contract: stages   *)
(* are delivered in order on standing work, QA's rejections withdraw the   *)
(* developer's stage a bounded number of times, and only a fully delivered *)
(* plan is ever completed (one session at a time).                         *)
ImplementsContract == Contract!Spec

-----------------------------------------------------------------------------
(* What the repository says of the runtime and the code does not do.       *)

(* A cancelled execution stays cancelled.  _finalize writes the status the *)
(* session reached over a cancellation that arrived after its last node.   *)
CancelIsFinal ==
    [][record.status = "cancelled" => record'.status = "cancelled"]_vars

(* A runtime of another owner leaves the execution as it is.  recover()    *)
(* marks it RUNNING, and the refused stage lock marks it FAILED.           *)
ForeignRecoveryIsBlocked ==
    [][ \A s \in Sessions :
          run'[s] # run[s] /\ OwnerOf[s] # record.owner /\ record.status # "absent"
            => record' = record ]_vars

(* A call that ends by itself leaves the execution completed, failed,      *)
(* cancelled or paused, never RUNNING with nobody running it.  A QA        *)
(* rejection in a plan without the developer does leave it RUNNING.        *)
SessionsSettleTheRecord ==
    [][ \A s \in Sessions :
          run[s].pc # "idle" /\ run'[s].pc = "idle" /\ faults' = faults
            => record'.status \in Terminal \cup {"paused"} ]_vars
=============================================================================
