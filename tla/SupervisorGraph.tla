--------------------------- MODULE SupervisorGraph ---------------------------
(***************************************************************************)
(* The supervisor graph (core/graph/builder.py, supervisor.py, routing.py, *)
(* nodes.py): a supervisor decides which agent is next from what the last  *)
(* one left, the agent runs, and so on until the supervisor says END.      *)
(* LangGraph, which is external, raises when a run takes more than its     *)
(* limit of steps.                                                         *)
(***************************************************************************)
EXTENDS Naturals, SequencesExt, FiniteSets

CONSTANTS
    Sequence,       \* the executable agents, in the workflow's order
    None,           \* no agent
    RejectionRoutes,    \* who a rejecting agent sends the work to
    MaxAgentAttempts, MaxRejectionLoops,
    RecursionLimit  \* LangGraph's; 25 by default

ASSUME SequenceAssumption ==
    /\ Sequence \in Seq(ToSet(Sequence)) /\ IsInjective(Sequence)
    /\ None \notin ToSet(Sequence)

Executables == ToSet(Sequence)
Signals == {"none", "continue", "retry", "reject", "complete", "fail"}

VARIABLES
    active,         \* the agent that ran last, or None
    snapshots,      \* what the last run of each agent left, by agent
    rejections,     \* how often each agent has rejected
    decision,       \* the supervisor's last decision
    steps,          \* the steps LangGraph has taken
    journal,        \* the runs so far, in order
    node            \* "supervisor", "agent", "ended", "raised"

graphVars == <<active, snapshots, rejections, decision, steps, journal, node>>

Decision(target, signal) == [target |-> target, signal |-> signal]
End == "__end__"

(* A run starts afresh, or after an agent that a caller says is active.    *)
GraphInit ==
    /\ active \in Executables \cup {None}
    /\ snapshots = [a \in {} |-> 0] /\ rejections = [a \in Executables |-> 0]
    /\ decision = Decision(None, "none") /\ steps = 0 /\ journal = <<>> /\ node = "supervisor"

-----------------------------------------------------------------------------
NextAfter(a) ==
    LET i == CHOOSE i \in DOMAIN Sequence : Sequence[i] = a IN
      IF i = Len(Sequence) THEN Decision(End, "complete") ELSE Decision(Sequence[i + 1], "continue")

RetryOrEnd(a) ==
    IF snapshots[a].attempt < MaxAgentAttempts THEN Decision(a, "retry") ELSE Decision(End, "fail")

(* Seeded fault: when the rejections are used up the work goes on. *)
GoesOnRejected(a) ==
    IF a \in DOMAIN RejectionRoutes /\ rejections[a] < MaxRejectionLoops
    THEN Decision(RejectionRoutes[a], "reject") ELSE NextAfter(a)

(* A rejection without a route is a step on in the sequence. *)
RejectionOrContinue(a) ==
    CASE a \notin DOMAIN RejectionRoutes -> NextAfter(a)
      [] a \in DOMAIN RejectionRoutes /\ RejectionRoutes[a] \notin Executables -> NextAfter(a)
      [] OTHER -> IF rejections[a] >= MaxRejectionLoops THEN Decision(End, "fail")
                  ELSE Decision(RejectionRoutes[a], "reject")

(* The signal comes before the status: an agent may fail and yet complete  *)
(* the workflow.                                                           *)
Route ==
    CASE active = None -> IF Sequence = <<>> THEN Decision(End, "complete")
                                             ELSE Decision(Head(Sequence), "continue")
      [] active # None /\ active \notin DOMAIN snapshots -> NextAfter(active)
      [] OTHER ->
           LET s == snapshots[active] IN
             CASE s.signal \in {"complete", "fail"} -> Decision(End, s.signal)
               [] s.signal = "retry" \/ (s.failed /\ s.signal \notin {"complete", "fail"}) ->
                      RetryOrEnd(active)
               [] s.signal = "reject" /\ ~s.failed -> RejectionOrContinue(active)
               [] s.signal \in {"none", "continue"} /\ ~s.failed -> NextAfter(active)

Step(next) ==
    IF steps = RecursionLimit
    THEN /\ node' = "raised"
         /\ UNCHANGED <<active, snapshots, rejections, decision, steps, journal>>
    ELSE steps' = steps + 1 /\ next

Supervise ==
    /\ node = "supervisor"
    /\ Step(/\ decision' = Route /\ node' = (IF decision'.target = End THEN "ended" ELSE "agent")
            /\ UNCHANGED <<active, snapshots, rejections, journal>>)

(* An attempt is a run of the agent, for whatever reason it runs again.  A *)
(* run that raises leaves no signal, because every run starts without one. *)
Applied(a, failed, signal) ==
    [b \in DOMAIN snapshots \cup {a} |->
        IF b # a THEN snapshots[b]
        ELSE [attempt |-> IF a \in DOMAIN snapshots THEN snapshots[a].attempt + 1 ELSE 1,
              failed |-> failed, signal |-> signal]]

RunAgent ==
    /\ node = "agent"
    /\ Step(\E failed \in BOOLEAN, signal \in Signals :
              LET a == decision.target IN
                /\ active' = a /\ snapshots' = Applied(a, failed, signal)
                /\ rejections' = [rejections EXCEPT ![a] = IF signal = "reject" THEN @ + 1 ELSE @]
                /\ journal' = Append(journal, a)
                /\ node' = "supervisor" /\ UNCHANGED decision)

GraphNext == Supervise \/ RunAgent

-----------------------------------------------------------------------------
(* Properties.                                                             *)

LastRun(a) == CHOOSE i \in DOMAIN journal : journal[i] = a /\ \A j \in DOMAIN journal : j > i => journal[j] # a

(* A workflow that comes to the end of its sequence has been through it:   *)
(* every agent from where it started ran, each after the last run of the   *)
(* one before, so nobody's work rests on work that was done again; no last *)
(* run failed or asked for a retry, and none whose rejections are routed   *)
(* rejected (WorkflowRouter).                                              *)
SequenceIsWorkedThrough ==
    node = "ended" /\ decision.signal = "complete" /\ snapshots # <<>>
      /\ (active \in DOMAIN snapshots => snapshots[active].signal # "complete") =>
        /\ \A a \in DOMAIN snapshots :
             /\ ~snapshots[a].failed /\ snapshots[a].signal \notin {"retry", "fail"}
             /\ a \in DOMAIN RejectionRoutes /\ RejectionRoutes[a] \in Executables
                  => snapshots[a].signal # "reject"
        /\ \A i \in 1..(Len(Sequence) - 1) :
             Sequence[i] \in DOMAIN snapshots =>
               /\ Sequence[i + 1] \in DOMAIN snapshots
               /\ LastRun(Sequence[i]) < LastRun(Sequence[i + 1])
=============================================================================
