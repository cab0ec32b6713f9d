----------------------------- MODULE EventStream -----------------------------
(***************************************************************************)
(* What a user sees of a run: the event bus (core/streaming/bus.py), the   *)
(* runtime's event hook, the progress tracker and the views computed from  *)
(* the log (app/services/execution_service.py), and the two WebSockets of  *)
(* a workflow (app/websocket/routes.py).  One workflow, one run; which     *)
(* stage follows is WorkflowRuntime's, without its budgets.                *)
(* On the in-memory bus nothing suspends between two events of a stage;    *)
(* on the PostgreSQL bus each event is fanned out, then stored, and both   *)
(* the tracker and the readers of the history wait for the database.       *)
(***************************************************************************)
EXTENDS Integers, Sequences, FiniteSets, SequencesExt

CONSTANTS
    Buses,          \* "memory", "postgres"
    Watchers,       \* the WebSockets
    Compact,        \* whether the request asks for the compact mode
    MaxAttempts,    \* bound on the stage attempts of the run
    MaxLag          \* bound on the events a PostgreSQL run is ahead of a socket

ASSUME StreamAssumption == Compact \in BOOLEAN

VARIABLES
    bus,
    log,            \* the events published so far
    stored,         \* how many of them history() returns
    todo,           \* events the hook has still to emit for this stage
    steps,          \* ExecutionTracker: completed_steps, failed, active_agent
    statuses,       \* ExecutionService._agent_statuses
    stage,          \* the stage in hand: [agent, pc, repair]
    attempts,
    outcome,        \* history: how each stage really stands
    watcher

pubVars == <<bus, log, stored, todo, steps, statuses, stage, attempts, outcome>>
eventVars == <<pubVars, watcher>>

Delivery == <<"developer", "qa", "docs">>
Team == ToSet(Delivery)

(* An event: its type, its agent, its name in the payload of telemetry,    *)
(* and whether the hook's last step follows it.                            *)
Event(t, a, n) == [type |-> t, agent |-> a, name |-> n]

(* The names the hook records as telemetry; any other is a stage event.    *)
Telemetry == {"context_budget_estimated", "context_compressed", "handoff_generated",
    "oversized_prompt_blocked", "compact_mode_enabled", "stage_transition",
    "provider_selected_per_agent", "continuation_mode_started", "qa_feedback_generated"}

(* _runtime_event_type.                                                    *)
EventType(n, a) ==
    CASE n = "retry_started" -> "retry_started"
      [] n = "agent_failed" -> IF a = "qa" THEN "QA_failed" ELSE "agent_failed"
      [] n = "agent_completed" -> IF a = "docs" THEN "docs_generated" ELSE "agent_completed"
      [] OTHER -> "agent_started"

Completions == {"agent_completed", "docs_generated", "PR_generated"}
Failures == {"agent_failed", "QA_failed"}

(* _agent_status_from_event.                                               *)
StatusFromEvent(t) ==
    IF t \in {"agent_started", "retry_started"} THEN "running"
    ELSE IF t \in Completions THEN "completed" ELSE "failed"

(* Seeded fault: the handoff and the transition are taken for stage events. *)
EmittedForAll(n, a) ==
    <<Event(EventType(n, a), a, n), Event("progress_updated", a, n),
      Event("log_emitted", a, n)>>

(* emit_runtime_event: what one runtime event puts on the bus.             *)
Emitted(n, a) ==
    IF n \in Telemetry
    THEN <<Event("telemetry_recorded", a, n), Event("log_emitted", a, n)>>
    ELSE <<Event(EventType(n, a), a, n), Event("progress_updated", a, n),
           Event("log_emitted", a, n)>>
         \o (IF n = "agent_completed" THEN <<Event("output_generated", a, n)>> ELSE <<>>)

Sometimes(holds, n, a) == IF holds THEN Emitted(n, a) ELSE <<>>

(* _execute_agent up to the provider's call.                               *)
Opening(a, attempt, repair) ==
    Emitted("provider_selected_per_agent", a)
    \o Sometimes(Compact, "compact_mode_enabled", a)
    \o Sometimes(attempt > 1, "retry_started", a)
    \o Sometimes(a = "developer" /\ repair, "continuation_mode_started", a)
    \o Emitted("agent_started", a) \o Emitted("provider_call_started", a)

(* _execute_agent from the provider's answer on.                           *)
Closing(a, result) ==
    Emitted("context_budget_estimated", a) \o Emitted("handoff_generated", a)
    \o Emitted(IF result = "failed" THEN "agent_failed" ELSE "agent_completed", a)
    \o Sometimes(result = "rejected", "qa_feedback_generated", a)
    \o Sometimes(result # "failed", "stage_transition", a)

-----------------------------------------------------------------------------
(* Views of the log. *)

Positions(events, agents, types) ==
    {i \in DOMAIN events : events[i].agent \in agents /\ events[i].type \in types}

(* _telemetry_nodes: the status of an agent, and its retries.              *)
StatusEvents == Completions \cup Failures \cup {"agent_started", "retry_started"}
NodeStatus(events, a) ==
    LET own  == Positions(events, {a}, StatusEvents)
        last == events[Max(own)].type
    IN  IF own = {} THEN "pending"
        ELSE IF last \in Completions THEN "completed"
        ELSE IF last \in Failures THEN "failed" ELSE "running"
RetryCount(events, a) == Cardinality(Positions(events, {a}, {"retry_started"}))

(* get_workflow_telemetry: retry_count and qa_loop_count; and the same     *)
(* numbers in the dashboard's snapshot.                                    *)
Totals(events) ==
    [retries |-> Cardinality(Positions(events, Team, {"retry_started"})),
     failures |-> Cardinality(Positions(events, Team, Failures))]

(* _compute_progress_percent of a delivery workflow that is RUNNING.       *)
Percent(events) ==
    LET done == {events[i].agent : i \in Positions(events, Team, Completions)}
    IN  IF "docs" \in done THEN 90 ELSE IF "qa" \in done THEN 75
        ELSE IF "developer" \in done THEN 60 ELSE 0

(* _telemetry_edges: whether the repair loop is drawn as active.           *)
LoopActive(events) ==
    \E i \in DOMAIN events : events[i].type = "telemetry_recorded"
        /\ events[i].agent = "developer" /\ events[i].name = "continuation_mode_started"

-----------------------------------------------------------------------------
NoStage == [agent |-> "developer", pc |-> "next", repair |-> FALSE, result |-> "none"]
Away == [pc |-> "away", kind |-> "events", past |-> 0, from |-> 0, sent |-> <<>>,
         queue |-> <<>>, shown |-> 0, on |-> 0, percent |-> 0]

EventInit ==
    /\ bus \in Buses
    /\ log = <<>> /\ stored = 0 /\ todo = <<>>
    /\ steps = [completed |-> 0, failed |-> FALSE, active |-> "none"]
    /\ statuses = [a \in Team |-> "pending"]
    /\ stage = NoStage
    /\ attempts = [a \in Team |-> 0]
    /\ outcome = [a \in Team |-> "pending"]
    /\ watcher = [w \in Watchers |-> Away]

Quiet == todo = <<>> /\ stored = Len(log)

(* The router's choice of a stage, and the events before its call.         *)
StageStarts ==
    LET a == stage.agent IN
    /\ Quiet /\ stage.pc = "next"
    /\ FoldSet(LAMBDA x, n : attempts[x] + n, 0, Team) < MaxAttempts
    /\ attempts' = [attempts EXCEPT ![a] = @ + 1]
    /\ todo' = Opening(a, attempts'[a], stage.repair)
    /\ stage' = [stage EXCEPT !.pc = "working"]
    /\ outcome' = [outcome EXCEPT ![a] = "running"]
    /\ UNCHANGED <<bus, log, stored, steps, statuses, watcher>>

(* The agent's answer; QA may reject, and the developer repairs.           *)
StageEnds ==
    LET a == stage.agent IN
    /\ Quiet /\ stage.pc = "working"
    /\ \E r \in {"completed", "failed"} \cup (IF a = "qa" THEN {"rejected"} ELSE {}) :
        /\ todo' = Closing(a, r)
        /\ outcome' = [outcome EXCEPT ![a] = IF r = "failed" THEN "failed" ELSE "completed"]
        /\ stage' =
             CASE r = "failed" -> [stage EXCEPT !.pc = "next"]
               [] r = "rejected" -> [stage EXCEPT !.pc = "next", !.agent = "developer", !.repair = TRUE]
               [] r = "completed" /\ a = "docs" -> [stage EXCEPT !.pc = "over"]
               [] OTHER -> [stage EXCEPT !.pc = "next", !.agent = IF a = "qa" THEN "docs" ELSE "qa",
                                         !.repair = FALSE]
    /\ UNCHANGED <<bus, log, stored, steps, statuses, attempts, watcher>>

(* apply_event.                                                            *)
Tracked(s, e) ==
    IF e.type = "agent_started" THEN [s EXCEPT !.active = e.agent]
    ELSE IF e.type \in Completions THEN [s EXCEPT !.completed = @ + 1, !.active = e.agent]
    ELSE IF e.type \in Failures THEN [s EXCEPT !.failed = TRUE, !.active = e.agent]
    ELSE s

(* Once an event is on the bus: the tracker, and at the hook's end the     *)
(* status of the agent.                                                    *)
AfterEvent ==
    LET e == Head(todo)
        hooked == e.name \notin Telemetry
        over == Len(todo) = 1 \/ todo[2].name # e.name
    IN  /\ todo' = Tail(todo)
        /\ steps' = IF hooked /\ e.type \in StatusEvents THEN Tracked(steps, e) ELSE steps
        /\ statuses' = IF hooked /\ over
                       THEN [statuses EXCEPT ![e.agent] = StatusFromEvent(EventType(e.name, e.agent))]
                       ELSE statuses

FannedOut == [w \in Watchers |->
    IF watcher[w].pc = "live" THEN [watcher[w] EXCEPT !.queue = Append(@, Len(log) + 1)]
    ELSE watcher[w]]

InReach == bus = "postgres" => \A w \in Watchers :
    /\ Len(watcher[w].queue) < MaxLag
    /\ watcher[w].pc = "sending" => Len(log) < watcher[w].past + MaxLag

(* publish: append or fan out; only the in-memory bus is done with it.     *)
Publish ==
    /\ todo # <<>> /\ stored = Len(log) /\ InReach
    /\ log' = Append(log, Head(todo))
    /\ watcher' = FannedOut
    /\ IF bus = "memory" THEN stored' = stored + 1 /\ AfterEvent
       ELSE UNCHANGED <<stored, todo, steps, statuses>>
    /\ UNCHANGED <<bus, stage, attempts, outcome>>

(* The PostgreSQL bus: the upsert returns.                                 *)
Store ==
    /\ bus = "postgres" /\ stored < Len(log)
    /\ stored' = stored + 1
    /\ AfterEvent
    /\ UNCHANGED <<bus, log, stage, attempts, outcome, watcher>>

-----------------------------------------------------------------------------
(* The WebSockets: what they may do between two suspensions of the run.    *)
Turn == bus = "postgres" \/ todo = <<>>

(* stream_execution reads the history, sends it event by event, and only   *)
(* then subscribes.                                                        *)
ReadHistory(w) ==
    /\ Turn /\ watcher[w].pc = "away"
    /\ watcher' = [watcher EXCEPT ![w] = [@ EXCEPT !.pc = "sending", !.past = stored,
                                                   !.sent = [i \in 1..stored |-> i]]]
    /\ UNCHANGED pubVars

(* stream_workflow_telemetry: the first snapshot, then the subscription.   *)
Snapshot(w, n) ==
    [watcher[w] EXCEPT !.past = stored, !.shown = stored, !.on = n,
                       !.percent = Percent(SubSeq(log, 1, stored))]
FirstSnapshot(w) ==
    /\ Turn /\ watcher[w].pc = "away"
    /\ watcher' = [watcher EXCEPT ![w] = [Snapshot(w, 0) EXCEPT !.pc = "sending", !.kind = "telemetry"]]
    /\ UNCHANGED pubVars

Subscribe(w) ==
    /\ Turn /\ watcher[w].pc = "sending"
    /\ watcher' = [watcher EXCEPT ![w] = [@ EXCEPT !.pc = "live", !.from = Len(log)]]
    /\ UNCHANGED pubVars

(* Seeded fault: the newest event of the queue is taken. *)
DeliverNewest(w) ==
    /\ Turn /\ watcher[w].pc = "live" /\ watcher[w].queue # <<>>
    /\ LET n == Last(watcher[w].queue)
           got == [Snapshot(w, n) EXCEPT !.queue = Front(@), !.sent = Append(@, n)]
       IN  watcher' = [watcher EXCEPT ![w] = got]
    /\ UNCHANGED pubVars

(* The next event of the queue; a telemetry socket sends a new snapshot    *)
(* with it.                                                                *)
Deliver(w) ==
    /\ Turn /\ watcher[w].pc = "live" /\ watcher[w].queue # <<>>
    /\ LET n == Head(watcher[w].queue)
           got == [watcher[w] EXCEPT !.queue = Tail(@), !.sent = Append(@, n)]
       IN  watcher' = [watcher EXCEPT ![w] =
               IF got.kind = "telemetry"
               THEN [Snapshot(w, n) EXCEPT !.queue = Tail(@), !.sent = Append(@, n)] ELSE got]
    /\ UNCHANGED pubVars

EventNext ==
    \/ StageStarts \/ StageEnds \/ Publish \/ Store
    \/ \E w \in Watchers :
        ReadHistory(w) \/ FirstSnapshot(w) \/ Subscribe(w) \/ Deliver(w)

-----------------------------------------------------------------------------
(* A socket sends each event once and in order, and misses none but those  *)
(* published between its history and its subscription.                     *)
EventsArriveInOrder ==
    \A w \in Watchers : LET v == watcher[w] IN
        v.sent \o v.queue =
            [i \in 1..(IF v.kind = "events" THEN v.past ELSE 0) |-> i]
            \o [i \in 1..(IF v.pc = "live" THEN Len(log) - v.from ELSE 0) |-> v.from + i]

(* Once the hook is through, every view of the run says how it stands: the *)
(* agents' statuses, the nodes of the telemetry, the tracker's steps and   *)
(* the totals, whatever was retried, rejected and reworked.                *)
ViewsShowTheRun ==
    Quiet =>
        /\ statuses = outcome
        /\ \A a \in Team :
            /\ NodeStatus(log, a) = outcome[a]
            /\ RetryCount(log, a) = (IF attempts[a] = 0 THEN 0 ELSE attempts[a] - 1)
        /\ steps.completed = Cardinality(Positions(log, Team, Completions))
        /\ steps.failed = (Totals(log).failures > 0)
        /\ LoopActive(log) => attempts["qa"] > 0 /\ attempts["developer"] > 1
=============================================================================
