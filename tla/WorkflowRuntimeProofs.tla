------------------------ MODULE WorkflowRuntimeProofs ------------------------
(***************************************************************************)
(* What WorkflowRuntime promises for any number of sessions, owners and    *)
(* requests, any retry and rework budgets and any number of interruptions. *)
(***************************************************************************)
EXTENDS WorkflowRuntime, RoutingProofs

LEMMA RunStateFields == \A r \in RunState : RunFields(r)
BY DEF RunState, RunFields

(* An answer of a known stage keeps the run state in shape. *)
LEMMA AfterAgentType ==
    ASSUME NEW r \in RunState, NEW a \in Agents, NEW v \in Verdict
    PROVE  AfterAgent(r, a, v) \in RunState
<1>1. r.ws \in WorkState /\ r.attempts \in [Agents -> Nat]
  BY DEF RunState
<1>2. Applied(r.ws, a, v) \in WorkState
  BY <1>1 DEF Applied, WorkState
<1>3. [r.attempts EXCEPT ![a] = @ + 1] \in [Agents -> Nat]
  BY <1>1
<1>. QED  BY <1>2, <1>3 DEF AfterAgent, RunState

(* A node that persists a well formed run state, with the stage it routes  *)
(* to, leaves the record, the checkpoint and the sessions well formed.     *)
LEMMA PersistType ==
    ASSUME TypeOK, NEW s \in Sessions, NEW r \in RunState,
           NEW status \in RunStatus, NEW next \in Agents \cup {None}, NEW pc \in PC,
           pc \in {"agent", "running"} => KeptNext(status, next) # None,
           Persist(r, status, next), Continue(s, r, status, next, pc), UNCHANGED faults
    PROVE  TypeOK'
<1>1. KeptStatus(status) \in RunStatus
  BY DEF KeptStatus, RunStatus
<1>2. KeptNext(status, next) \in Agents \cup {None}
  BY DEF KeptNext
<1>3. checkpoint' \in Checkpoint
  BY <1>1, <1>2 DEF Persist, Checkpoint, RecordStatus, RunState
<1>4. record' \in Record
  BY <1>1, <1>2 DEF Persist, TypeOK, Record, RecordStatus, RunState
<1>5. [r EXCEPT !.pc = pc, !.status = KeptStatus(status), !.next = KeptNext(status, next)]
        \in RunState
  BY <1>1, <1>2 DEF RunState
<1>6. run' \in [Sessions -> RunState]
  BY <1>5 DEF Continue, TypeOK
<1>7. \A t \in Sessions : run'[t].pc \in {"agent", "running"} => run'[t].next \in Agents
  <2> SUFFICES ASSUME NEW t \in Sessions, run'[t].pc \in {"agent", "running"}
               PROVE  run'[t].next \in Agents
    OBVIOUS
  <2>1. CASE t = s
    <3>1. run'[t].pc = pc /\ run'[t].next = KeptNext(status, next)
      BY <2>1, <1>5 DEF Continue, TypeOK, RunState
    <3>. QED  BY <3>1, <1>2
  <2>2. CASE t # s
    BY <2>2 DEF Continue, TypeOK
  <2>. QED  BY <2>1, <2>2
<1>. QED  BY <1>3, <1>4, <1>6, <1>7 DEF TypeOK

LEMMA NoRunType == NoRun \in RunState /\ NoRun.pc = "idle"
BY DEF NoRun, RunState, PC, RunStatus, FreshWork, WorkState, Verdict, NoMeta, Meta, Modes

LEMMA TypeInit == Init => TypeOK
<1> SUFFICES ASSUME Init PROVE TypeOK
  OBVIOUS
<1>1. record \in Record
  BY DEF Init, NoRecord, Record, RecordStatus, NoMeta, Meta, Modes
<1>2. checkpoint \in Checkpoint
  BY DEF Init, NoCheckpoint, Checkpoint, RecordStatus, FreshWork, WorkState, Verdict
<1>3. run \in [Sessions -> RunState] /\ \A s \in Sessions : run[s].pc = "idle"
  BY NoRunType DEF Init
<1>4. faults \in 0 .. MaxFaults
  BY RuntimeAssumption DEF Init
<1>. QED  BY <1>1, <1>2, <1>3, <1>4 DEF TypeOK

(* Leaving the graph, whatever happens to the locks on the way out. *)
LEMMA LeaveType ==
    ASSUME TypeOK, NEW s \in Sessions, record' \in Record, UNCHANGED checkpoint,
           run' = [run EXCEPT ![s] = NoRun], faults' \in 0 .. MaxFaults
    PROVE  TypeOK'
<1>1. run' \in [Sessions -> RunState]
  BY NoRunType DEF TypeOK
<1>2. \A t \in Sessions : run'[t].pc \in {"agent", "running"} => run'[t].next \in Agents
  BY NoRunType DEF TypeOK
<1>. QED  BY <1>1, <1>2 DEF TypeOK

LEMMA ReleasedType ==
    ASSUME TypeOK, NEW s \in Sessions, NEW a \in Agents
    PROVE  Released(record.locks, s, a) \in [Agents -> Owners \cup {None}]
BY DEF TypeOK, Record, Released

(* One step of a session keeps everything in shape. *)
LEMMA TypeStep ==
    ASSUME TypeOK, NEW s \in Sessions, Step(s)
    PROVE  TypeOK'
<1>1. run[s] \in RunState
  BY DEF TypeOK
<1>2. CASE Route(s)
  <2> DEFINE r == [run[s] EXCEPT !.meta = NextMeta(run[s])]
  <2>1. r \in RunState
    BY <1>1, RunStateFields, NextMetaType DEF RunState
  <2>2. AfterRouter(RoutedStatus(run[s]), NextAgent(run[s])) \in {"agent", "final"}
    BY DEF AfterRouter
  <2>3. AfterRouter(RoutedStatus(run[s]), NextAgent(run[s])) = "agent"
          => KeptNext(RoutedStatus(run[s]), NextAgent(run[s])) # None
    BY DEF AfterRouter
  <2>. HIDE DEF r
  <2>4. /\ Persist(r, RoutedStatus(run[s]), NextAgent(run[s]))
        /\ Continue(s, r, RoutedStatus(run[s]), NextAgent(run[s]),
                    AfterRouter(RoutedStatus(run[s]), NextAgent(run[s])))
        /\ UNCHANGED faults
    BY <1>2 DEF Route, r
  <2>. QED  BY <1>1, <2>1, <2>2, <2>3, <2>4, RunStateFields, NextAgentType, RoutedStatusType, PersistType DEF PC
<1>3. CASE RouteCancelled(s)
  BY <1>1, <1>3, PersistType DEF RouteCancelled, RunStatus, PC
<1>4. CASE AgentSeesCancel(s)
  BY <1>1, <1>4, PersistType DEF AgentSeesCancel, RunStatus, PC
<1>5. CASE AgentLockDenied(s)
  <2>1. run[s].next \in Agents
    BY <1>5 DEF AgentLockDenied, TypeOK
  <2>2. AfterAgent(run[s], run[s].next, "retryable") \in RunState
    BY <1>1, <2>1, AfterAgentType DEF Verdict
  <2>. QED  BY <1>5, <2>2, PersistType DEF AgentLockDenied, RunStatus, PC
<1>6. CASE AgentStarts(s)
  <2>1. run[s].next \in Agents /\ OwnerOf[s] \in Owners
    BY <1>6, RuntimeAssumption DEF AgentStarts, TypeOK
  <2>2. record' \in Record
    BY <1>6, <2>1 DEF AgentStarts, TypeOK, Record
  <2>3. run' \in [Sessions -> RunState]
    BY <1>1, <1>6 DEF AgentStarts, TypeOK, RunState, PC
  <2>4. \A t \in Sessions : run'[t].pc \in {"agent", "running"} => run'[t].next \in Agents
    BY <1>1, <1>6, <2>1 DEF AgentStarts, TypeOK, RunState
  <2>. QED  BY <1>6, <2>2, <2>3, <2>4 DEF AgentStarts, TypeOK
<1>7. ASSUME NEW v \in VerdictsOf(run[s].next), AgentReturns(s, v)
      PROVE  TypeOK'
  <2> DEFINE a == run[s].next
             answered == AfterAgent(run[s], a, v)
             r == [answered EXCEPT !.meta = NextMeta(answered)]
  <2>1. a \in Agents
    BY <1>7 DEF AgentReturns, TypeOK
  <2>2. answered \in RunState
    BY <1>1, <2>1, VerdictsType, AfterAgentType
  <2>3. r \in RunState /\ r.ws = answered.ws /\ r.attempts = answered.attempts
    BY <2>2, RunStateFields, NextMetaType DEF RunState
  <2>. HIDE DEF r, answered
  <2>4. KeptStatus("running") \in RunStatus /\ KeptNext("running", None) = None
    BY DEF KeptStatus, KeptNext, RunStatus
  <2>5. checkpoint' \in Checkpoint
    BY <1>7, <2>1, <2>3, <2>4 DEF AgentReturns, answered, r, Checkpoint, RecordStatus, RunState
  <2>6. record' \in Record
    <3>1. record' = [record EXCEPT !.status = KeptStatus("running"),
                                   !.active = a, !.next = None,
                                   !.attempts = r.attempts, !.meta = r.meta,
                                   !.locks = Released(record.locks, s, a)]
      BY <1>7 DEF AgentReturns, answered, r
    <3>2. /\ r.attempts \in [Agents -> Nat] /\ r.meta \in Meta
          /\ Released(record.locks, s, a) \in [Agents -> Owners \cup {None}]
      BY <2>1, <2>3, ReleasedType DEF RunState
    <3>. QED  BY <3>1, <3>2, <2>1, <2>4 DEF TypeOK, Record, RecordStatus
  <2>7. [r EXCEPT !.pc = "router", !.status = KeptStatus("running"),
                  !.next = KeptNext("running", None)] \in RunState
    BY <2>3, <2>4 DEF RunState, PC
  <2>8. run' = [run EXCEPT ![s] =
                  [r EXCEPT !.pc = "router", !.status = KeptStatus("running"),
                            !.next = KeptNext("running", None)]]
    BY <1>7 DEF AgentReturns, Continue, answered, r
  <2>9. run' \in [Sessions -> RunState]
    BY <2>7, <2>8 DEF TypeOK
  <2>10. \A t \in Sessions : run'[t].pc \in {"agent", "running"} => run'[t].next \in Agents
    BY <2>3, <2>8 DEF TypeOK, RunState
  <2>. QED  BY <1>7, <2>5, <2>6, <2>9, <2>10 DEF AgentReturns, TypeOK
<1>8. ASSUME NEW v \in VerdictsOf(run[s].next), AgentUnroutable(s, v)
      PROVE  TypeOK'
  <2>1. run[s].next \in Agents
    BY <1>8 DEF AgentUnroutable, TypeOK
  <2>2. record' \in Record
    BY <1>8, <2>1, ReleasedType DEF AgentUnroutable, TypeOK, Record
  <2>. QED  BY <1>8, <2>2, LeaveType DEF AgentUnroutable, TypeOK
<1>9. CASE Finalize(s)
  <2>1. record' \in Record
    BY <1>1, <1>9 DEF Finalize, TypeOK, Record, RunState, RecordStatus
  <2>. QED  BY <1>9, <2>1, LeaveType DEF Finalize, TypeOK
<1>. QED  BY <1>2, <1>3, <1>4, <1>5, <1>6, <1>7, <1>8, <1>9 DEF Step

LEMMA TypeStart ==
    ASSUME TypeOK, NEW s \in Sessions, NEW request \in Requests, Start(s, request)
    PROVE  TypeOK'
<1>1. request \in Meta /\ OwnerOf[s] \in Owners
  BY RuntimeAssumption
<1>2. FirstOf(Plan(request)) \in Agents
  BY <1>1, PlanOfMeta, FirstOfIsFirst
<1>3. record' \in Record
  BY <1>1, <1>2 DEF Start, NoRecord, Record, RecordStatus, RunStatus, NoMeta, Meta, Modes
<1>4. [NoRun EXCEPT !.pc = "router", !.meta = request, !.next = FirstOf(Plan(request))]
        \in RunState
  BY <1>1, <1>2, NoRunType DEF RunState, PC
<1>5. run' \in [Sessions -> RunState]
  BY <1>4 DEF Start, TypeOK
<1>6. \A t \in Sessions : run'[t].pc \in {"agent", "running"} => run'[t].next \in Agents
  BY NoRunType DEF Start, TypeOK, RunState
<1>. QED  BY <1>3, <1>5, <1>6 DEF Start, TypeOK

LEMMA TypeRecover ==
    ASSUME TypeOK, NEW s \in Sessions, Recover(s)
    PROVE  TypeOK'
<1>1. record' \in Record
  BY DEF Recover, TypeOK, Record, Checkpoint, RecordStatus, RunStatus
<1>2. [record.meta EXCEPT !.pauseAfter = None] \in Meta
  BY DEF TypeOK, Record, Meta
<1>3. [pc |-> "router", status |-> "running",
       next |-> checkpoint.next, last |-> checkpoint.active,
       attempts |-> record.attempts, ws |-> checkpoint.ws,
       meta |-> [record.meta EXCEPT !.pauseAfter = None]] \in RunState
  BY <1>2 DEF TypeOK, Record, Checkpoint, RunState, PC, RunStatus
<1>4. run' \in [Sessions -> RunState]
  BY <1>3 DEF Recover, TypeOK
<1>5. \A t \in Sessions : run'[t].pc \in {"agent", "running"} => run'[t].next \in Agents
  BY DEF Recover, TypeOK
<1>. QED  BY <1>1, <1>4, <1>5 DEF Recover, TypeOK

(* The record, the newest checkpoint and every session always have the     *)
(* shape TypeOK gives them; in particular a session inside a stage has one *)
(* in hand.                                                                *)
THEOREM TypeCorrect == Spec => []TypeOK
<1>1. Init => TypeOK
  BY TypeInit
<1>2. TypeOK /\ [Next]_vars => TypeOK'
  <2> SUFFICES ASSUME TypeOK, [Next]_vars PROVE TypeOK'
    OBVIOUS
  <2>1. ASSUME NEW s \in Sessions, NEW request \in Requests, Start(s, request)
        PROVE  TypeOK'
    BY <2>1, TypeStart
  <2>2. ASSUME NEW s \in Sessions, Recover(s) PROVE TypeOK'
    BY <2>2, TypeRecover
  <2>3. ASSUME NEW s \in Sessions, Step(s) PROVE TypeOK'
    BY <2>3, TypeStep
  <2>4. ASSUME NEW s \in Sessions, Interrupt(s) PROVE TypeOK'
    <3>1. faults' \in 0 .. MaxFaults
      BY <2>4, RuntimeAssumption DEF Interrupt, TypeOK
    <3>. QED  BY <2>4, <3>1, LeaveType DEF Interrupt, TypeOK
  <2>5. CASE Cancel
    BY <2>5 DEF Cancel, TypeOK, Record, RecordStatus, RunStatus
  <2>6. CASE UNCHANGED vars
    BY <2>6 DEF vars, TypeOK
  <2>. QED  BY <2>1, <2>2, <2>3, <2>4, <2>5, <2>6 DEF Next
<1>. QED  BY <1>1, <1>2, PTL DEF Spec

-----------------------------------------------------------------------------
-----------------------------------------------------------------------------
(* CoherentWork, cut along the variables it is about. *)
PersistedIsCoherent ==
    /\ record.status = "absent" => checkpoint = NoCheckpoint
    /\ Coherent(checkpoint.active, record.attempts, checkpoint.ws, record.meta)
    /\ checkpoint.active = None /\ checkpoint.status \in {"running", "paused"}
        => checkpoint.next = FirstOf(Plan(record.meta))

SessionIsCoherent(r) ==
    /\ Coherent(r.last, r.attempts, r.ws, r.meta)
    /\ r.pc = "router" => r.status \notin {"completed", "paused"}
    /\ r.pc = "router" /\ r.status = "running" /\ r.last = None
        => r.next = FirstOf(Plan(r.meta))
    /\ r.pc \in {"agent", "running"} => InHand(r)

LEMMA CoherentWorkInParts ==
    CoherentWork <=> PersistedIsCoherent /\ \A s \in Sessions : SessionIsCoherent(run[s])
BY DEF CoherentWork, PersistedIsCoherent, SessionIsCoherent

LEMMA NoRunIsCoherent == SessionIsCoherent(NoRun)
<1>1. NoRun.meta \in Meta /\ ~NoRun.meta.repair
  BY NoRunType DEF NoRun, RunState, NoMeta
<1>. QED  BY <1>1, FreshIsCoherent DEF SessionIsCoherent, NoRun

(* A step of one session that leaves it coherent leaves them all coherent. *)
LEMMA OneSessionMoves ==
    ASSUME TypeOK, CoherentWork, NEW s \in Sessions, NEW r,
           run' = [run EXCEPT ![s] = r], SessionIsCoherent(r), PersistedIsCoherent'
    PROVE  CoherentWork'
<1>1. \A t \in Sessions : SessionIsCoherent(run[t])
  BY CoherentWorkInParts
<1>2. \A t \in Sessions : run'[t] = IF t = s THEN r ELSE run[t]
  BY DEF TypeOK
<1>3. \A t \in Sessions : SessionIsCoherent(run'[t])
  BY <1>1, <1>2
<1>. QED  BY <1>3 DEF CoherentWork, PersistedIsCoherent, SessionIsCoherent

(* What a node persists is as coherent as the run state it persists. *)
LEMMA PersistIsCoherent ==
    ASSUME TypeOK, NEW r \in RunState, NEW status \in RunStatus, NEW next,
           Coherent(r.last, r.attempts, r.ws, r.meta),
           r.last = None /\ KeptStatus(status) \in {"running", "paused"}
             => next = FirstOf(Plan(r.meta)),
           Persist(r, status, next)
    PROVE  PersistedIsCoherent'
<1>1. /\ checkpoint'.active = r.last /\ checkpoint'.ws = r.ws
      /\ checkpoint'.status = KeptStatus(status) /\ checkpoint'.next = KeptNext(status, next)
      /\ record'.status = KeptStatus(status)
      /\ record'.attempts = r.attempts /\ record'.meta = r.meta
  BY DEF Persist, TypeOK, Record
<1>2. KeptStatus(status) # "absent"
  BY DEF KeptStatus, RunStatus
<1>3. KeptStatus(status) \in {"running", "paused"} => KeptNext(status, next) = next
  BY DEF KeptStatus, KeptNext
<1>. QED  BY <1>1, <1>2, <1>3 DEF PersistedIsCoherent

(* Writes that touch neither the work nor the checkpoint. *)
LEMMA RecordStaysCoherent ==
    ASSUME CoherentWork, UNCHANGED checkpoint,
           record'.status = "absent" => record.status = "absent",
           record'.attempts = record.attempts, record'.meta = record.meta
    PROVE  PersistedIsCoherent'
BY DEF CoherentWork, PersistedIsCoherent

LEMMA CoherentStep ==
    ASSUME TypeOK, CoherentWork, NEW s \in Sessions, Step(s)
    PROVE  CoherentWork'
<1>1. run[s] \in RunState /\ SessionIsCoherent(run[s]) /\ record \in Record
  BY CoherentWorkInParts DEF TypeOK
<1>2. CASE Route(s)
  <2> DEFINE r == [run[s] EXCEPT !.meta = NextMeta(run[s])]
             status == RoutedStatus(run[s])
             next == NextAgent(run[s])
             pc == AfterRouter(status, next)
             q == [r EXCEPT !.pc = pc, !.status = KeptStatus(status),
                            !.next = KeptNext(status, next)]
  <2>1. r \in RunState /\ status \in RunStatus /\ next \in Agents \cup {None}
    BY <1>1, RunStateFields, NextMetaType, RoutedStatusType, NextAgentType DEF RunState
  <2>2. /\ r.last = run[s].last /\ r.attempts = run[s].attempts /\ r.ws = run[s].ws
        /\ r.meta = NextMeta(run[s])
    BY <1>1 DEF RunState
  <2>3. Coherent(r.last, r.attempts, r.ws, r.meta)
    BY <1>1, <2>2, RunStateFields, NextMetaCoherent DEF SessionIsCoherent
  <2>4. /\ Persist(r, status, next) /\ run' = [run EXCEPT ![s] = q]
        /\ record.status # "cancelled" /\ ~Unroutable(run[s]) /\ run[s].pc = "router"
    BY <1>2 DEF Route, Continue
  <2>5. KeptStatus(status) = status /\ KeptNext(status, next) = next
    BY <2>4 DEF KeptStatus, KeptNext
  <2>6. pc \in {"agent", "final"} /\ (pc = "agent" => status = "running" /\ next # None)
    BY <2>5 DEF AfterRouter
  <2>7. run[s].last = None /\ status \in {"running", "paused"} => next = FirstOf(Plan(r.meta))
    <3> SUFFICES ASSUME run[s].last = None, status \in {"running", "paused"}
                 PROVE  next = FirstOf(Plan(r.meta))
      OBVIOUS
    <3>1. run[s].status = "running"
      <4>1. run[s].status \notin {"completed", "paused"}
        BY <1>1, <2>4 DEF SessionIsCoherent
      <4>. QED  BY <4>1 DEF RoutedStatus
    <3>2. next = FirstOf(Plan(run[s].meta))
      BY <1>1, <2>4, <3>1 DEF NextAgent, SessionIsCoherent
    <3>. QED  BY <1>1, <2>2, <3>2, RunStateFields, PlanIgnoresRepair
  <2>8. /\ q.pc = pc /\ q.status = status /\ q.next = next /\ q.last = run[s].last
        /\ q.attempts = run[s].attempts /\ q.ws = run[s].ws /\ q.meta = NextMeta(run[s])
    BY <2>1, <2>2, <2>5 DEF RunState
  <2>. HIDE DEF r, status, next, pc, q
  <2>9. q \in RunState
    BY <2>1, <2>5, <2>6 DEF q, RunState, PC
  <2>10. pc = "agent" => InHand(q)
    <3> SUFFICES ASSUME pc = "agent" PROVE InHand(q)
      OBVIOUS
    <3>1. RoutedStatus(run[s]) = "running" /\ q.next = NextAgent(run[s])
      BY <2>6, <2>8 DEF status, next
    <3>2. run[s].status = "running"
      BY <3>1 DEF RoutedStatus
    <3>3. run[s].last = None => run[s].next = FirstOf(Plan(run[s].meta))
      BY <1>1, <2>4, <3>2 DEF SessionIsCoherent
    <3>4. Coherent(run[s].last, run[s].attempts, run[s].ws, run[s].meta)
      BY <1>1 DEF SessionIsCoherent
    <3>. QED  BY <1>1, <2>4, <2>8, <2>9, <3>1, <3>3, <3>4, RunStateFields, RoutedIsInHand
  <2>11. SessionIsCoherent(q)
    BY <2>2, <2>3, <2>6, <2>8, <2>10 DEF SessionIsCoherent
  <2>12. PersistedIsCoherent'
    BY <2>1, <2>2, <2>3, <2>4, <2>5, <2>7, PersistIsCoherent
  <2>. QED  BY <2>4, <2>11, <2>12, OneSessionMoves
<1>3. ASSUME NEW pc \in {"router", "final"},
             Persist(run[s], "cancelled", None), Continue(s, run[s], "cancelled", None, pc)
      PROVE  CoherentWork'
  <2> DEFINE q == [run[s] EXCEPT !.pc = pc, !.status = KeptStatus("cancelled"),
                                 !.next = KeptNext("cancelled", None)]
  <2>1. KeptStatus("cancelled") = "cancelled" /\ "cancelled" \in RunStatus
    BY DEF KeptStatus, RunStatus
  <2>2. PersistedIsCoherent'
    BY <1>1, <1>3, <2>1, PersistIsCoherent DEF SessionIsCoherent
  <2>3. SessionIsCoherent(q)
    BY <1>1, <2>1 DEF SessionIsCoherent, RunState
  <2>. QED  BY <1>3, <2>2, <2>3, OneSessionMoves DEF Continue
<1>4. CASE RouteCancelled(s)
  BY <1>3, <1>4 DEF RouteCancelled
<1>5. CASE AgentSeesCancel(s)
  BY <1>3, <1>5 DEF AgentSeesCancel
<1>6. CASE AgentLockDenied(s)
  <2> DEFINE a == run[s].next
             r == AfterAgent(run[s], a, "retryable")
             q == [r EXCEPT !.pc = "router", !.status = KeptStatus("failed"),
                            !.next = KeptNext("failed", None)]
  <2>1. a \in Agents /\ InHand(run[s]) /\ a # None
    BY <1>1, <1>6, AgentsAreNamed DEF AgentLockDenied, TypeOK, SessionIsCoherent
  <2>2. r \in RunState /\ r.last = a
    BY <1>1, <2>1, AfterAgentType DEF Verdict, AfterAgent, RunState
  <2>3. Coherent(r.last, r.attempts, r.ws, r.meta)
    BY <1>1, <2>1, RunStateFields, AnswerIsCoherent DEF VerdictsOf, SessionIsCoherent
  <2>4. Persist(r, "failed", None) /\ run' = [run EXCEPT ![s] = q]
    BY <1>6 DEF AgentLockDenied, Continue
  <2>. HIDE DEF r
  <2>5. KeptStatus("failed") \in {"failed", "cancelled"}
    BY DEF KeptStatus
  <2>6. PersistedIsCoherent'
    BY <2>2, <2>3, <2>4, <2>5, PersistIsCoherent DEF RunStatus
  <2>7. SessionIsCoherent(q)
    BY <2>2, <2>3, <2>5 DEF SessionIsCoherent, RunState
  <2>. QED  BY <2>4, <2>6, <2>7, OneSessionMoves
<1>7. CASE AgentStarts(s)
  <2> DEFINE q == [run[s] EXCEPT !.pc = "running"]
  <2>1. SessionIsCoherent(q)
    BY <1>1, <1>7 DEF AgentStarts, SessionIsCoherent, RunState, InHand
  <2>2. run' = [run EXCEPT ![s] = q]
    BY <1>7 DEF AgentStarts
  <2>3. PersistedIsCoherent'
    BY <1>1, <1>7, RecordStaysCoherent DEF AgentStarts, Record
  <2>. QED  BY <2>1, <2>2, <2>3, OneSessionMoves
<1>8. ASSUME NEW v \in VerdictsOf(run[s].next), AgentReturns(s, v)
      PROVE  CoherentWork'
  <2> DEFINE a == run[s].next
             answered == AfterAgent(run[s], a, v)
             r == [answered EXCEPT !.meta = NextMeta(answered)]
             q == [r EXCEPT !.pc = "router", !.status = KeptStatus("running"),
                            !.next = KeptNext("running", None)]
  <2>1. a \in Agents /\ InHand(run[s]) /\ a # None
    BY <1>1, <1>8, AgentsAreNamed DEF AgentReturns, TypeOK, SessionIsCoherent
  <2>2. answered \in RunState /\ answered.last = a
    BY <1>1, <2>1, VerdictsType, AfterAgentType DEF AfterAgent, RunState
  <2>3. Coherent(answered.last, answered.attempts, answered.ws, answered.meta)
    BY <1>1, <2>1, RunStateFields, AnswerIsCoherent DEF SessionIsCoherent
  <2>. HIDE DEF answered
  <2>4. /\ r.last = a /\ r.attempts = answered.attempts /\ r.ws = answered.ws
        /\ r.meta = NextMeta(answered) /\ r \in RunState
    BY <2>2, RunStateFields, NextMetaType DEF RunState
  <2>5. Coherent(r.last, r.attempts, r.ws, r.meta)
    BY <2>2, <2>3, <2>4, RunStateFields, NextMetaCoherent
  <2>6. /\ checkpoint' = [status |-> KeptStatus("running"), active |-> a,
                          next |-> None, ws |-> r.ws]
        /\ record' = [record EXCEPT !.status = KeptStatus("running"),
                                    !.active = a, !.next = None,
                                    !.attempts = r.attempts, !.meta = r.meta,
                                    !.locks = Released(record.locks, s, a)]
        /\ run' = [run EXCEPT ![s] = q]
    BY <1>8 DEF AgentReturns, Continue, answered
  <2>. HIDE DEF r
  <2>7. KeptStatus("running") \in {"running", "cancelled"}
    BY DEF KeptStatus
  <2>8. PersistedIsCoherent'
    BY <1>1, <2>1, <2>4, <2>5, <2>6, <2>7 DEF PersistedIsCoherent, Record
  <2>9. SessionIsCoherent(q)
    BY <2>1, <2>4, <2>5, <2>7 DEF SessionIsCoherent, RunState
  <2>. QED  BY <2>6, <2>8, <2>9, OneSessionMoves
<1>9. ASSUME NEW v \in VerdictsOf(run[s].next), AgentUnroutable(s, v)
      PROVE  CoherentWork'
  <2>1. PersistedIsCoherent'
    BY <1>1, <1>9, RecordStaysCoherent DEF AgentUnroutable, Record
  <2>. QED  BY <1>9, <2>1, NoRunIsCoherent, OneSessionMoves DEF AgentUnroutable
<1>10. CASE Finalize(s)
  <2>1. PersistedIsCoherent'
    BY <1>1, <1>10, RecordStaysCoherent DEF Finalize, Record, RunState, RunStatus
  <2>. QED  BY <1>10, <2>1, NoRunIsCoherent, OneSessionMoves DEF Finalize
<1>. QED  BY <1>2, <1>4, <1>5, <1>6, <1>7, <1>8, <1>9, <1>10 DEF Step

LEMMA CoherentStart ==
    ASSUME TypeOK, CoherentWork, NEW s \in Sessions, NEW request \in Requests,
           Start(s, request)
    PROVE  CoherentWork'
<1> DEFINE q == [NoRun EXCEPT !.pc = "router", !.meta = request,
                              !.next = FirstOf(Plan(request))]
<1>1. request \in Meta /\ ~request.repair
  BY RuntimeAssumption
<1>2. q.last = None /\ q.attempts = [a \in Agents |-> 0] /\ q.ws = FreshWork
        /\ q.meta = request /\ q.pc = "router" /\ q.status = "running"
        /\ q.next = FirstOf(Plan(request))
  BY DEF NoRun
<1>3. SessionIsCoherent(q)
  BY <1>1, <1>2, FreshIsCoherent DEF SessionIsCoherent
<1>4. PersistedIsCoherent'
  <2>1. checkpoint' = NoCheckpoint
    BY DEF Start, CoherentWork
  <2>2. record'.attempts = [a \in Agents |-> 0] /\ record'.meta = NoMeta
    BY DEF Start, NoRecord
  <2>3. NoMeta \in Meta /\ ~NoMeta.repair
    BY DEF NoMeta, Meta, Modes
  <2>4. Coherent(None, [a \in Agents |-> 0], FreshWork, NoMeta)
    BY <2>3, FreshIsCoherent
  <2>. QED  BY <2>1, <2>2, <2>4 DEF PersistedIsCoherent, NoCheckpoint
<1>. QED  BY <1>3, <1>4, OneSessionMoves DEF Start

LEMMA CoherentRecover ==
    ASSUME TypeOK, CoherentWork, NEW s \in Sessions, Recover(s)
    PROVE  CoherentWork'
<1> DEFINE m == [record.meta EXCEPT !.pauseAfter = None]
           q == [pc |-> "router", status |-> "running",
                 next |-> checkpoint.next, last |-> checkpoint.active,
                 attempts |-> record.attempts, ws |-> checkpoint.ws, meta |-> m]
<1>1. record.meta \in Meta /\ checkpoint.status \in {"running", "paused"}
  BY DEF TypeOK, Record, Checkpoint, RecordStatus, RunStatus, Recover, Terminal
<1>2. Coherent(q.last, q.attempts, q.ws, q.meta)
  BY <1>1, CoherentIgnoresPause DEF CoherentWork
<1>3. Plan(m) = Plan(record.meta)
  BY <1>1 DEF Plan, Meta
<1>4. q.last = None => q.next = FirstOf(Plan(q.meta))
  BY <1>1, <1>3 DEF CoherentWork
<1>5. SessionIsCoherent(q)
  BY <1>2, <1>4 DEF SessionIsCoherent
<1>6. PersistedIsCoherent'
  BY RecordStaysCoherent DEF Recover, TypeOK, Record
<1>. QED  BY <1>5, <1>6, OneSessionMoves DEF Recover

(***************************************************************************)
(* The inductive invariant: however sessions, recoveries, cancellations    *)
(* and interruptions interleave, each session and the persisted pair of    *)
(* record and checkpoint carry coherent work.                              *)
(***************************************************************************)
THEOREM WorkStaysCoherent == Spec => []CoherentWork
<1>1. Init => CoherentWork
  <2> SUFFICES ASSUME Init PROVE CoherentWork
    OBVIOUS
  <2>1. NoMeta \in Meta /\ ~NoMeta.repair
    BY DEF NoMeta, Meta, Modes
  <2>2. PersistedIsCoherent
    BY <2>1, FreshIsCoherent DEF Init, PersistedIsCoherent, NoRecord, NoCheckpoint
  <2>3. \A s \in Sessions : SessionIsCoherent(run[s])
    BY NoRunIsCoherent DEF Init
  <2>. QED  BY <2>2, <2>3, CoherentWorkInParts
<1>2. TypeOK /\ CoherentWork /\ [Next]_vars => CoherentWork'
  <2> SUFFICES ASSUME TypeOK, CoherentWork, [Next]_vars PROVE CoherentWork'
    OBVIOUS
  <2>1. ASSUME NEW s \in Sessions, NEW request \in Requests, Start(s, request)
        PROVE  CoherentWork'
    BY <2>1, CoherentStart
  <2>2. ASSUME NEW s \in Sessions, Recover(s) PROVE CoherentWork'
    BY <2>2, CoherentRecover
  <2>3. ASSUME NEW s \in Sessions, Step(s) PROVE CoherentWork'
    BY <2>3, CoherentStep
  <2>4. ASSUME NEW s \in Sessions, Interrupt(s) PROVE CoherentWork'
    <3>1. PersistedIsCoherent'
      BY <2>4, RecordStaysCoherent DEF Interrupt
    <3>. QED  BY <2>4, <3>1, NoRunIsCoherent, OneSessionMoves DEF Interrupt
  <2>5. CASE Cancel
    <3>1. PersistedIsCoherent'
      BY <2>5, RecordStaysCoherent DEF Cancel, TypeOK, Record
    <3>2. \A s \in Sessions : SessionIsCoherent(run'[s])
      BY <2>5, CoherentWorkInParts DEF Cancel
    <3>. QED  BY <3>1, <3>2 DEF CoherentWork, PersistedIsCoherent, SessionIsCoherent
  <2>6. CASE UNCHANGED vars
    BY <2>6 DEF vars, CoherentWork
  <2>. QED  BY <2>1, <2>2, <2>3, <2>4, <2>5, <2>6 DEF Next
<1>. QED  BY <1>1, <1>2, TypeCorrect, PTL DEF Spec

(* A stage only runs on work that stands, in every interleaving.           *)
THEOREM StagesAlwaysBuildOnStandingWork == Spec => []StagesBuildOnStandingWork
<1>1. CoherentWork => StagesBuildOnStandingWork
  BY DEF CoherentWork, InHand, Upto, StagesBuildOnStandingWork
<1>. QED  BY <1>1, WorkStaysCoherent, PTL

(* Completed stages are only executed again when QA has rejected them.     *)
THEOREM CompletedWorkIsAlwaysKept == Spec => []CompletedWorkIsKept
<1>1. CoherentWork => CompletedWorkIsKept
  BY DEF CoherentWork, InHand, InRework, CompletedWorkIsKept
<1>. QED  BY <1>1, WorkStaysCoherent, PTL

(* No agent ever exceeds its budget of attempts, nor QA that of rejections,*)
(* whatever the budgets are and however often the execution is resumed.    *)
THEOREM RetriesAreAlwaysBounded == Spec => []RetriesAreBounded
<1>1. CoherentWork => RetriesAreBounded
  BY DEF CoherentWork, Coherent, RetriesAreBounded
<1>. QED  BY <1>1, WorkStaysCoherent, PTL

(* The developer is told to repair exactly when QA has rejected the change.*)
THEOREM ReworkIsAlwaysTargeted == Spec => []ReworkIsTargeted
<1>1. CoherentWork => ReworkIsTargeted
  BY DEF CoherentWork, InHand, ReworkIsTargeted
<1>. QED  BY <1>1, WorkStaysCoherent, PTL

(* Rework is bounded and aimed at what was rejected, for every budget.     *)
THEOREM ReworkIsAlwaysBounded == Spec => []ReworkIsBounded
<1>1. RetriesAreBounded /\ ReworkIsTargeted => ReworkIsBounded
  BY DEF ReworkIsBounded
<1>. QED  BY <1>1, RetriesAreAlwaysBounded, ReworkIsAlwaysTargeted, PTL

-----------------------------------------------------------------------------
(* Before the execution exists, nobody works on it. *)
NobodyIsEarly == record.status = "absent" => \A s \in Sessions : run[s].pc = "idle"

(* A session that is working moves, and owner and existence stay. *)
LEMMA StepKeepsTheOwner ==
    ASSUME TypeOK, NobodyIsEarly, OnlyTheOwnerRunsStages, NEW s \in Sessions, Step(s)
    PROVE  /\ record.status # "absent" /\ record'.status # "absent"
           /\ record'.owner = record.owner
           /\ \A t \in Sessions : t # s => run'[t] = run[t]
           /\ run'[s].pc = "running" => OwnerOf[s] = record.owner
<1>1. run[s] \in RunState /\ record \in Record
  BY DEF TypeOK
<1>2. \A status \in RunStatus : KeptStatus(status) \in RunStatus
  BY DEF KeptStatus, RunStatus
<1>3. "absent" \notin RunStatus
  BY DEF RunStatus
<1>4. ASSUME NEW r \in RunState, NEW status \in RunStatus, NEW next,
             NEW pc \in {"router", "agent", "final"},
             run[s].pc # "idle", Persist(r, status, next), Continue(s, r, status, next, pc)
      PROVE  /\ record.status # "absent" /\ record'.status # "absent"
             /\ record'.owner = record.owner
             /\ \A t \in Sessions : t # s => run'[t] = run[t]
             /\ run'[s].pc # "running"
  <2>1. record'.status = KeptStatus(status) /\ record'.owner = record.owner
    BY <1>1, <1>4 DEF Persist, Record
  <2>2. run'[s].pc = pc /\ \A t \in Sessions : t # s => run'[t] = run[t]
    BY <1>1, <1>4 DEF Continue, TypeOK, RunState
  <2>. QED  BY <1>2, <1>3, <1>4, <2>1, <2>2 DEF NobodyIsEarly
<1>5. CASE Route(s)
  <2> DEFINE r == [run[s] EXCEPT !.meta = NextMeta(run[s])]
             status == RoutedStatus(run[s])
             next == NextAgent(run[s])
  <2>1. r \in RunState /\ status \in RunStatus
    BY <1>1, RunStateFields, NextMetaType, RoutedStatusType DEF RunState
  <2>2. AfterRouter(status, next) \in {"router", "agent", "final"}
    BY DEF AfterRouter
  <2>3. /\ run[s].pc # "idle" /\ Persist(r, status, next)
        /\ Continue(s, r, status, next, AfterRouter(status, next))
    BY <1>5 DEF Route
  <2>. HIDE DEF r, status, next
  <2>. QED  BY <1>4, <2>1, <2>2, <2>3
<1>6. CASE RouteCancelled(s)
  BY <1>1, <1>4, <1>6 DEF RouteCancelled, RunStatus
<1>7. CASE AgentSeesCancel(s)
  BY <1>1, <1>4, <1>7 DEF AgentSeesCancel, RunStatus
<1>8. CASE AgentLockDenied(s)
  <2>1. AfterAgent(run[s], run[s].next, "retryable") \in RunState
    BY <1>1, <1>8, AfterAgentType DEF AgentLockDenied, TypeOK, Verdict
  <2>. QED  BY <1>4, <1>8, <2>1 DEF AgentLockDenied, RunStatus
<1>9. CASE AgentStarts(s)
  BY <1>1, <1>9 DEF AgentStarts, LockGranted, TypeOK, Record, NobodyIsEarly
<1>10. ASSUME NEW v \in VerdictsOf(run[s].next), AgentReturns(s, v)
       PROVE  /\ record.status # "absent" /\ record'.status # "absent"
              /\ record'.owner = record.owner
              /\ \A t \in Sessions : t # s => run'[t] = run[t]
              /\ run'[s].pc # "running"
  <2> DEFINE answered == AfterAgent(run[s], run[s].next, v)
             r == [answered EXCEPT !.meta = NextMeta(answered)]
  <2>1. answered \in RunState
    BY <1>1, <1>10, VerdictsType, AfterAgentType DEF AgentReturns, TypeOK
  <2>2. r \in RunState
    BY <2>1, RunStateFields, NextMetaType DEF RunState
  <2>3. /\ run[s].pc = "running" /\ Continue(s, r, "running", None, "router")
        /\ record'.status = KeptStatus("running") /\ record'.owner = record.owner
    BY <1>1, <1>10 DEF AgentReturns, Record
  <2>. HIDE DEF r
  <2>4. run'[s].pc = "router" /\ \A t \in Sessions : t # s => run'[t] = run[t]
    BY <2>2, <2>3 DEF Continue, TypeOK, RunState
  <2>. QED  BY <1>2, <1>3, <2>3, <2>4 DEF NobodyIsEarly, RunStatus
<1>11. ASSUME NEW v \in VerdictsOf(run[s].next), AgentUnroutable(s, v)
       PROVE  /\ record.status # "absent" /\ record'.status # "absent"
              /\ record'.owner = record.owner
              /\ \A t \in Sessions : t # s => run'[t] = run[t]
              /\ run'[s].pc # "running"
  BY <1>1, <1>11, NoRunType DEF AgentUnroutable, TypeOK, Record, NobodyIsEarly
<1>12. CASE Finalize(s)
  BY <1>1, <1>3, <1>12, NoRunType DEF Finalize, TypeOK, Record, RunState, NobodyIsEarly
<1>. QED  BY <1>5, <1>6, <1>7, <1>8, <1>9, <1>10, <1>11, <1>12 DEF Step

(* Whatever recover() lets into the graph, only the runtime that owns the  *)
(* execution ever gets an agent to work on it.                             *)
THEOREM OnlyTheOwnerEverRunsStages == Spec => []OnlyTheOwnerRunsStages
<1> DEFINE IInv == NobodyIsEarly /\ OnlyTheOwnerRunsStages
<1>1. Init => IInv
  BY NoRunType DEF Init, NobodyIsEarly, OnlyTheOwnerRunsStages
<1>2. TypeOK /\ IInv /\ [Next]_vars => IInv'
  <2> SUFFICES ASSUME TypeOK, IInv, [Next]_vars PROVE IInv'
    OBVIOUS
  <2>1. ASSUME NEW s \in Sessions, NEW request \in Requests, Start(s, request)
        PROVE  IInv'
    <3>1. record'.status = "running" /\ \A t \in Sessions : run[t].pc = "idle"
      BY <2>1 DEF Start, NobodyIsEarly, NoRecord
    <3>2. \A t \in Sessions : run'[t].pc # "running"
      BY <2>1, <3>1 DEF Start, NoRun, TypeOK
    <3>. QED  BY <3>1, <3>2 DEF NobodyIsEarly, OnlyTheOwnerRunsStages
  <2>2. ASSUME NEW s \in Sessions, Recover(s) PROVE IInv'
    <3>1. record'.status = "running" /\ record'.owner = record.owner
      BY <2>2 DEF Recover, TypeOK, Record
    <3>2. \A t \in Sessions : run'[t].pc = "running" => run[t].pc = "running"
      BY <2>2 DEF Recover, TypeOK
    <3>. QED  BY <3>1, <3>2 DEF NobodyIsEarly, OnlyTheOwnerRunsStages
  <2>3. ASSUME NEW s \in Sessions, Step(s) PROVE IInv'
    BY <2>3, StepKeepsTheOwner DEF NobodyIsEarly, OnlyTheOwnerRunsStages
  <2>4. ASSUME NEW s \in Sessions, Interrupt(s) PROVE IInv'
    BY <2>4, NoRunType DEF Interrupt, TypeOK, NobodyIsEarly, OnlyTheOwnerRunsStages
  <2>5. CASE Cancel
    BY <2>5 DEF Cancel, TypeOK, Record, NobodyIsEarly, OnlyTheOwnerRunsStages
  <2>6. CASE UNCHANGED vars
    BY <2>6 DEF vars, NobodyIsEarly, OnlyTheOwnerRunsStages
  <2>. QED  BY <2>1, <2>2, <2>3, <2>4, <2>5, <2>6 DEF Next
<1>. QED  BY <1>1, <1>2, TypeCorrect, PTL DEF Spec
=============================================================================
