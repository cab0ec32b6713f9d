--------------------------- MODULE DeliveryRouting ---------------------------
(***************************************************************************)
(* The routing rules of the delivery workflow: which stage runs next, when *)
(* a failed stage is retried, when a QA rejection sends the work back to   *)
(* the developer, and when the run is over.  These are the pure parts of   *)
(* core/graph/execution.py and core/graph/nodes.py; the modules that       *)
(* EXTEND this one add the record, the checkpoints and the run itself.     *)
(*                                                                         *)
(* A run state r, as held by one call of the runtime, has the fields       *)
(*   status, next, last   the routing fields of RealWorkflowRuntimeState   *)
(*   attempts             executions of each agent so far                  *)
(*   ws                   the WorkflowExecutionState (below)               *)
(*   meta                 the request metadata the routing rules read      *)
(***************************************************************************)
EXTENDS Naturals

CONSTANTS
    MaxAgentAttempts,       \* LangGraphExecutionRuntime(max_agent_attempts=...)
    MaxQaRejectionLoops     \* LangGraphExecutionRuntime(max_qa_rejection_loops=...)

ASSUME BudgetAssumption ==
    /\ MaxAgentAttempts \in Nat \ {0}
    /\ MaxQaRejectionLoops \in Nat

None == "none"

(* DEFAULT_DELIVERY_SEQUENCE, as the position of each stage. *)
Rank == [ba |-> 1, architect |-> 2, developer |-> 3, qa |-> 4, docs |-> 5, pr |-> 6]

Agents == {"ba", "architect", "developer", "qa", "docs", "pr"}

RunStatus == {"running", "completed", "failed", "cancelled", "paused"}

Terminal == {"completed", "failed", "cancelled"}

(***************************************************************************)
(* What the latest execution of an agent left in its AgentStateSnapshot:   *)
(* COMPLETED; COMPLETED with route_signal "reject"; FAILED and retryable   *)
(* (the runtime raised); FAILED with retry_allowed False.                  *)
(***************************************************************************)
Verdict == {"pending", "completed", "rejected", "retryable", "fatal"}

(* Only the QA runtime ever emits route_signal "reject". *)
VerdictsOf(a) ==
    {"completed", "retryable", "fatal"} \cup (IF a = "qa" THEN {"rejected"} ELSE {})

Modes == {"full", "ba_only", "ba_architect"}

(* The request metadata that routing reads.  repair stands for             *)
(* continuation_mode = "qa_targeted_repair" and the fix requests with it.  *)
Meta == [enabled : SUBSET Agents, mode : Modes,
         pauseAfter : Agents \cup {None}, repair : BOOLEAN]

(* agent_states (status and completed_at of each snapshot),                *)
(* metadata["qa_rejection_count"], and the length of the transition log,   *)
(* which stands for the wall clock.                                        *)
WorkState == [verdict : [Agents -> Verdict], finished : [Agents -> Nat],
              clock : Nat, rejections : Nat]

FreshWork ==
    [verdict |-> [a \in Agents |-> "pending"], finished |-> [a \in Agents |-> 0],
     clock |-> 0, rejections |-> 0]

-----------------------------------------------------------------------------
(* The stages a request asks for.  enabled_agents wins when it names any   *)
(* known stage, then the workflow mode, then the whole sequence.           *)
Plan(meta) ==
    IF meta.enabled # {} THEN meta.enabled
    ELSE IF meta.mode = "ba_only" THEN {"ba"}
    ELSE IF meta.mode = "ba_architect" THEN {"ba", "architect"}
    ELSE Agents

FirstOf(stages) ==
    CHOOSE a \in stages : \A b \in stages : Rank[a] <= Rank[b]

(* Seeded fault: the stage just executed counts as following itself. *)
FollowingOrSame(r) == {a \in Plan(r.meta) : Rank[a] >= Rank[r.last]}

(* The planned stages that come after the last one executed. *)
Following(r) == {a \in Plan(r.meta) : Rank[a] > Rank[r.last]}

LastVerdict(r) == r.ws.verdict[r.last]

(* Seeded fault: one attempt more than the budget. *)
MayRetryOnceMore(r) ==
    /\ r.last # None
    /\ LastVerdict(r) = "retryable"
    /\ r.attempts[r.last] <= MaxAgentAttempts

MayRetry(r) ==
    /\ r.last # None
    /\ LastVerdict(r) = "retryable"
    /\ r.attempts[r.last] < MaxAgentAttempts

(* Seeded fault: one rework loop more than the budget. *)
MustReworkOnceMore(r) ==
    /\ r.last = "qa"
    /\ LastVerdict(r) = "rejected"
    /\ r.ws.rejections <= MaxQaRejectionLoops + 1

MustRework(r) ==
    /\ r.last = "qa"
    /\ LastVerdict(r) = "rejected"
    /\ r.ws.rejections <= MaxQaRejectionLoops

(* Seeded fault: a last rejection is let through. *)
ExhaustedByFailure(r) ==
    /\ r.last # None
    /\ \/ LastVerdict(r) = "fatal"
       \/ LastVerdict(r) = "retryable" /\ ~MayRetry(r)

(* Nothing more to try: the run fails. *)
Exhausted(r) ==
    /\ r.last # None
    /\ \/ LastVerdict(r) = "fatal"
       \/ LastVerdict(r) = "retryable" /\ ~MayRetry(r)
       \/ LastVerdict(r) = "rejected" /\ ~MustRework(r)

(* sequence.index(last_agent) raises ValueError: the last stage executed   *)
(* is not one of the stages the request asked for.                         *)
Unroutable(r) ==
    /\ r.status = "running"
    /\ r.last # None
    /\ ~MayRetry(r) /\ ~MustRework(r) /\ ~Exhausted(r)
    /\ r.last \notin Plan(r.meta)

(* _next_agent: the stage to run next, None when there is none. *)
NextAgent(r) ==
    IF r.status # "running" THEN None
    ELSE IF r.last = None THEN r.next
    ELSE IF MayRetry(r) THEN r.last
    ELSE IF MustRework(r) THEN "developer"
    ELSE IF Exhausted(r) \/ Following(r) = {} THEN None
    ELSE FirstOf(Following(r))

(* _next_agent also leaves the repair instructions in the run's metadata.  *)
NextMeta(r) ==
    IF r.status = "running" /\ MustRework(r)
    THEN [r.meta EXCEPT !.repair = TRUE] ELSE r.meta

ShouldPause(r) ==
    /\ r.meta.pauseAfter # None
    /\ r.last = r.meta.pauseAfter
    /\ NextAgent(r) # None

(* Seeded fault: no next stage is taken for success. *)
RoutedStatusNoFailure(r) ==
    IF r.status # "running" THEN r.status
    ELSE IF NextAgent(r) = None THEN "completed"
    ELSE IF ShouldPause(r) THEN "paused"
    ELSE "running"

(* The status the router gives the run once _next_agent has spoken. *)
RoutedStatus(r) ==
    IF r.status # "running" THEN r.status
    ELSE IF Exhausted(r) THEN "failed"
    ELSE IF NextAgent(r) = None THEN "completed"
    ELSE IF ShouldPause(r) THEN "paused"
    ELSE "running"

(* Seeded fault: QA's rejections are not counted. *)
AppliedUncounted(ws, a, v) ==
    [verdict    |-> [ws.verdict EXCEPT ![a] = v],
     finished   |-> [ws.finished EXCEPT ![a] = ws.clock + 1],
     clock      |-> ws.clock + 1,
     rejections |-> ws.rejections]

(* _apply_result: the result of agent a enters the workflow state. *)
Applied(ws, a, v) ==
    [verdict    |-> [ws.verdict EXCEPT ![a] = v],
     finished   |-> [ws.finished EXCEPT ![a] = ws.clock + 1],
     clock      |-> ws.clock + 1,
     rejections |-> IF v = "rejected" THEN ws.rejections + 1 ELSE ws.rejections]

(* The run state after agent a answered v. *)
AfterAgent(r, a, v) ==
    [r EXCEPT !.last = a,
              !.attempts = [r.attempts EXCEPT ![a] = @ + 1],
              !.ws = Applied(r.ws, a, v)]

-----------------------------------------------------------------------------
(* What the properties of a run's work are made of.                        *)

(* The stages in set A have all completed, each one after those before it. *)
Standing(ws, A) ==
    \A b \in A :
        /\ ws.verdict[b] = "completed"
        /\ \A c \in A : Rank[c] < Rank[b] => ws.finished[c] < ws.finished[b]

(* The retry budget, and one more for each QA rejection (which only re-runs *)
(* developer and QA); the rejections are bounded too.                      *)
Budget(attempts, ws) ==
    /\ ws.rejections <= MaxQaRejectionLoops + 1
    /\ \A a \in Agents :
        attempts[a] <= MaxAgentAttempts
                         + (IF a \in {"developer", "qa"} THEN ws.rejections ELSE 0)

(* A run's work is coherent when its verdicts, attempts, rejections and    *)
(* last agent tell one story: every stage past the last one is still       *)
(* pending (but for QA, while the developer reworks what it rejected),     *)
(* every stage before it stands, and the budgets have room for the stage   *)
(* that may come next.                                                     *)
Upto(a, meta) == {b \in Plan(meta) : Rank[b] < Rank[a]}

InRework(a, ws) == a = "developer" /\ ws.verdict["qa"] = "rejected"

Ahead(a, ws) ==
    \A b \in Agents : Rank[b] > Rank[a] =>
        ws.verdict[b] = "pending" \/ (b = "qa" /\ InRework(a, ws))

Coherent(last, attempts, ws, meta) ==
    /\ Budget(attempts, ws)
    /\ \A a \in Agents :
        /\ ws.finished[a] <= ws.clock
        /\ ws.verdict[a] = "pending" => attempts[a] = 0
        /\ ws.verdict[a] # "pending" => a \in Plan(meta) \cup {"developer"}
        /\ ws.verdict[a] = "rejected" => a = "qa"
    /\ ws.rejections > 0 => ws.verdict["qa"] # "pending"
    /\ ws.rejections > MaxQaRejectionLoops => last = "qa" /\ ws.verdict["qa"] = "rejected"
    /\ meta.repair => ws.rejections > 0
    /\ ws.verdict["qa"] = "rejected" =>
        /\ ws.rejections > 0
        /\ attempts["qa"] < MaxAgentAttempts + ws.rejections
        /\ last = "qa" => attempts["developer"] < MaxAgentAttempts + ws.rejections
    /\ last = None => \A a \in Agents : ws.verdict[a] = "pending"
    /\ last # None =>
        /\ ws.verdict[last] # "pending"
        /\ Ahead(last, ws)
        /\ Standing(ws, Upto(last, meta))
        /\ ws.verdict[last] = "completed" =>
            Standing(ws, Upto(last, meta) \cup (Plan(meta) \cap {last}))
        /\ last = "developer" => (meta.repair <=> ws.rejections > 0)

(* A session that has a stage in hand may run it. *)
InHand(r) ==
    /\ r.next \in Plan(r.meta) \cup {"developer"}
    /\ r.ws.rejections <= MaxQaRejectionLoops
    /\ Ahead(r.next, r.ws)
    /\ Standing(r.ws, Upto(r.next, r.meta))
    /\ r.ws.verdict[r.next] = "completed" => InRework(r.next, r.ws)
    /\ r.attempts[r.next] < MaxAgentAttempts
                              + (IF r.next \in {"developer", "qa"} THEN r.ws.rejections ELSE 0)
    /\ r.next = "developer" => (r.meta.repair <=> r.ws.rejections > 0)
=============================================================================
