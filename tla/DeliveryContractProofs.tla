----------------------- MODULE DeliveryContractProofs -----------------------
(***************************************************************************)
(* That WorkflowRuntime, as long as one session at a time works on an      *)
(* execution, implements DeliveryContract, and that the ends it records    *)
(* are earned: for any request, any budgets, and however often the session *)
(* is cancelled, interrupted and recovered.                                *)
(***************************************************************************)
EXTENDS WorkflowRuntimeProofs

(* At most one call of start() or recover() is in flight. *)
OneAtATime == \A s, t \in Sessions : s = t

(* What the persisted pair says of its own end. *)
EndIsEarned ==
    /\ checkpoint.status = "completed" => Standing(checkpoint.ws, Plan(record.meta))
    /\ checkpoint.status = "failed" =>
         Exhausted([last |-> checkpoint.active, ws |-> checkpoint.ws,
                    attempts |-> record.attempts])
    /\ checkpoint.status = "paused" =>
         StandingIn(checkpoint.ws, Plan(record.meta)) # Plan(record.meta)

(* The record and its newest checkpoint. *)
RecordFollowsCheckpoint ==
    /\ checkpoint.status = "absent" =>
         checkpoint = NoCheckpoint /\ record.status \in {"absent", "running", "cancelled"}
    /\ record.status \in {"completed", "failed", "paused"} => checkpoint.status = record.status
    /\ record.status = "running" => checkpoint.status \in {"absent", "running", "paused"}
    /\ ReworkInOrder(checkpoint.active, checkpoint.ws, record.meta)
    /\ EndIsEarned

(* The one session r, and what of it is persisted. *)
InStep(r) ==
    r.pc # "idle" =>
        /\ checkpoint.status = "absent" => r.pc = "router" /\ r.ws = FreshWork /\ r.last = None
        /\ checkpoint.status # "absent" =>
             /\ r.ws = checkpoint.ws /\ r.last = checkpoint.active
             /\ r.attempts = record.attempts /\ Plan(r.meta) = Plan(record.meta)
        /\ r.pc # "final" =>
             /\ record.status \in {"running", "cancelled"}
             /\ r.status \in {"running", record.status}
        /\ r.pc \in {"agent", "running"} => r.status = "running" /\ OnTurn(r)
        /\ r.pc = "final" =>
             /\ r.status = checkpoint.status
             /\ r.status \in {"completed", "failed", "paused", "cancelled"}
             /\ record.status \in {r.status, "cancelled"}

(* The session's runtime is of the owner, and nobody else holds a lock.    *)
OwnedBy(s) ==
    record.status # "absent" =>
        record.owner = OwnerOf[s] /\ \A a \in Agents : record.locks[a] \in {None, OwnerOf[s]}

(* What makes the ends earned and the refinement hold. *)
SessionInStep ==
    /\ RecordFollowsCheckpoint
    /\ \A s \in Sessions : InStep(run[s]) /\ OwnedBy(s)

-----------------------------------------------------------------------------
-----------------------------------------------------------------------------
(* What the contract sees of the record and its checkpoint. *)
SeenPlan == IF checkpoint.status = "absent" THEN {} ELSE Plan(record.meta)

SeenStanding ==
    IF checkpoint.status = "absent" THEN {} ELSE StandingIn(checkpoint.ws, Plan(record.meta))

LEMMA ContractIsSeen ==
    Contract!contract = <<record.status, SeenPlan, SeenStanding, checkpoint.ws.rejections>>
BY DEF Contract!contract, SeenPlan, SeenStanding, StandingStages, StandingIn

(* A write that shows in nothing but the status. *)
Unseen ==
    /\ checkpoint'.status = "absent" <=> checkpoint.status = "absent"
    /\ checkpoint'.ws = checkpoint.ws
    /\ Plan(record'.meta) = Plan(record.meta)

LEMMA UnseenStutters ==
    ASSUME Unseen, record'.status = record.status
    PROVE  UNCHANGED Contract!contract
BY DEF Unseen, Contract!contract, StandingStages

(* The status moves only as the contract allows. *)
LEMMA StatusMoves ==
    ASSUME Unseen,
           \/ record.status = "absent" /\ record'.status = "running"
           \/ record.status # "absent" /\ record'.status = "cancelled"
           \/ record.status = "paused" /\ record'.status = "running"
           \/ /\ record.status \in {"running", "cancelled"}
              /\ \/ record'.status = "completed" /\ SeenPlan # {} /\ SeenStanding = SeenPlan
                 \/ record'.status = "failed"
                 \/ record'.status = "paused" /\ SeenStanding # SeenPlan
    PROVE  Contract!Next
<1>1. /\ SeenPlan' = SeenPlan /\ SeenStanding' = SeenStanding
      /\ checkpoint'.ws.rejections = checkpoint.ws.rejections
  BY DEF Unseen, SeenPlan, SeenStanding
<1>. QED  BY <1>1 DEF Contract!Next, Contract!Begin, Contract!Cancel, Contract!Resume, Contract!Settle,
              SeenPlan, SeenStanding, StandingStages, StandingIn

(* The first routing adopts the plan. *)
LEMMA PlanIsAdopted ==
    ASSUME record.status \in {"running", "cancelled"}, record'.status = record.status,
           checkpoint = NoCheckpoint, checkpoint'.status # "absent", checkpoint'.ws = FreshWork,
           NEW meta \in Meta, record'.meta = meta
    PROVE  Contract!Next
<1>1. Plan(meta) \in (SUBSET Agents) \ {{}}
  BY PlanOfMeta
<1>2. SeenPlan = {} /\ SeenPlan' = Plan(meta)
  BY DEF SeenPlan, NoCheckpoint
<1>3. SeenStanding = {} /\ SeenStanding' = {}
  BY <1>1 DEF SeenStanding, NoCheckpoint, StandingIn, FreshWork
<1>4. checkpoint'.ws.rejections = checkpoint.ws.rejections
  BY DEF NoCheckpoint
<1>5. Contract!Adopt(Plan(meta))
  BY <1>2, <1>3, <1>4 DEF Contract!Adopt, SeenPlan, SeenStanding, StandingStages, StandingIn
<1>6. Contract!Agents = Agents
  BY DEF Contract!Agents, Agents
<1>. QED  BY <1>1, <1>5, <1>6 DEF Contract!Next

(* An answer delivers a stage, rejects the change, or shows in nothing. *)
LEMMA AnswerIsSeen ==
    ASSUME NEW a \in Agents, NEW v, NEW r \in RunState,
           record.status \in {"running", "cancelled"}, record'.status = record.status,
           checkpoint.status # "absent", checkpoint'.status # "absent",
           checkpoint.ws = r.ws, Plan(r.meta) = Plan(record.meta),
           Plan(record'.meta) = Plan(record.meta),
           r.ws.rejections <= MaxQaRejectionLoops,
           Upto(a, r.meta) \subseteq StandingIn(r.ws, Plan(r.meta)),
           a \notin StandingIn(r.ws, Plan(r.meta)),
           checkpoint'.ws.rejections
             = (IF v = "rejected" THEN r.ws.rejections + 1 ELSE r.ws.rejections),
           v = "completed" =>
             /\ a \in Plan(r.meta)
             /\ StandingIn(checkpoint'.ws, Plan(r.meta)) = StandingIn(r.ws, Plan(r.meta)) \cup {a},
           v = "rejected" =>
             /\ a = "qa" /\ a \in Plan(r.meta)
             /\ StandingIn(checkpoint'.ws, Plan(r.meta))
                  = StandingIn(r.ws, Plan(r.meta)) \ {"developer"},
           v \notin {"completed", "rejected"} =>
             StandingIn(checkpoint'.ws, Plan(r.meta)) = StandingIn(r.ws, Plan(r.meta))
    PROVE  Contract!Next \/ UNCHANGED Contract!contract
<1>1. /\ SeenPlan = Plan(r.meta) /\ SeenPlan' = Plan(r.meta)
      /\ SeenStanding = StandingIn(r.ws, Plan(r.meta))
      /\ SeenStanding' = StandingIn(checkpoint'.ws, Plan(r.meta))
  BY DEF SeenPlan, SeenStanding
<1>2. Contract!Agents = Agents /\ Contract!Rank = Rank
  BY DEF Contract!Agents, Agents, Contract!Rank, Rank
<1>3. Contract!Before(a) = Upto(a, r.meta)
  BY <1>1, <1>2 DEF Contract!Before, Upto, SeenPlan
<1>4. CASE v = "completed"
  <2>1. Contract!Deliver(a)
    BY <1>1, <1>3, <1>4 DEF Contract!Deliver, SeenPlan, SeenStanding, StandingStages, StandingIn
  <2>. QED  BY <1>2, <2>1 DEF Contract!Next
<1>5. CASE v = "rejected"
  <2>1. Contract!Reject
    BY <1>1, <1>3, <1>5 DEF Contract!Reject, SeenPlan, SeenStanding, StandingStages, StandingIn
  <2>. QED  BY <2>1 DEF Contract!Next
<1>6. CASE v \notin {"completed", "rejected"}
  BY <1>1, <1>6, ContractIsSeen DEF Contract!contract, SeenPlan, SeenStanding, StandingStages, StandingIn
<1>. QED  BY <1>4, <1>5, <1>6

-----------------------------------------------------------------------------
(* What a step owes: the invariant, and a step of the contract or none.    *)
GoesWell == SessionInStep' /\ (Contract!Next \/ UNCHANGED Contract!contract)

LEMMA OnlyOneMoves ==
    ASSUME OneAtATime, NEW s \in Sessions,
           RecordFollowsCheckpoint', InStep(run[s])', OwnedBy(s)'
    PROVE  SessionInStep'
BY DEF OneAtATime, SessionInStep

(* The rework of the session is in order because what is persisted is. *)
LEMMA SessionReworkInOrder ==
    ASSUME SessionInStep, NEW s \in Sessions, run[s].pc # "idle"
    PROVE  ReworkInOrder(run[s].last, run[s].ws, run[s].meta)
<1>1. CASE checkpoint.status = "absent"
  BY <1>1 DEF SessionInStep, InStep, ReworkInOrder, ReworkPending, FreshWork, Agents, None
<1>2. CASE checkpoint.status # "absent"
  BY <1>2 DEF SessionInStep, InStep, RecordFollowsCheckpoint, ReworkInOrder
<1>. QED  BY <1>1, <1>2

(* A node that persists a run state it did not change (RouteCancelled and  *)
(* AgentSeesCancel): the first to do so adopts the plan.                   *)
LEMMA CancelledNodeGoesWell ==
    ASSUME OneAtATime, TypeOK, SessionInStep, NEW s \in Sessions,
           NEW pc \in {"router", "final"}, run[s].pc \in {"router", "agent"},
           record.status = "cancelled",
           Persist(run[s], "cancelled", None), Continue(s, run[s], "cancelled", None, pc)
    PROVE  GoesWell
<1>1. run[s] \in RunState /\ record \in Record /\ InStep(run[s]) /\ OwnedBy(s)
      /\ RecordFollowsCheckpoint
  BY DEF TypeOK, SessionInStep
<1>2. /\ checkpoint'.status = "cancelled" /\ checkpoint'.active = run[s].last
      /\ checkpoint'.ws = run[s].ws
      /\ record'.status = "cancelled" /\ record'.attempts = run[s].attempts
      /\ record'.meta = run[s].meta /\ record'.owner = record.owner /\ record'.locks = record.locks
  BY <1>1 DEF Persist, KeptStatus, Record
<1>3. /\ run'[s].pc = pc /\ run'[s].status = "cancelled" /\ run'[s].last = run[s].last
      /\ run'[s].ws = run[s].ws /\ run'[s].attempts = run[s].attempts
      /\ run'[s].meta = run[s].meta
  BY <1>1 DEF Continue, KeptStatus, TypeOK, RunState
<1>4. RecordFollowsCheckpoint'
  <2>1. ReworkInOrder(checkpoint'.active, checkpoint'.ws, record'.meta)
    BY <1>2, SessionReworkInOrder
  <2>. QED  BY <1>2, <2>1 DEF RecordFollowsCheckpoint, EndIsEarned
<1>5. InStep(run[s])'
  BY <1>2, <1>3 DEF InStep
<1>6. OwnedBy(s)'
  BY <1>1, <1>2 DEF OwnedBy
<1>7. Contract!Next \/ UNCHANGED Contract!contract
  <2>1. CASE checkpoint.status = "absent"
    <3>1. checkpoint = NoCheckpoint /\ run[s].ws = FreshWork
      BY <1>1, <2>1 DEF InStep, RecordFollowsCheckpoint
    <3>2. run[s].meta \in Meta
      BY <1>1 DEF RunState
    <3>. QED  BY <1>2, <3>1, <3>2, PlanIsAdopted
  <2>2. CASE checkpoint.status # "absent"
    <3>1. Unseen
      BY <1>1, <1>2, <2>2 DEF InStep, Unseen
    <3>. QED  BY <1>2, <3>1, UnseenStutters
  <2>. QED  BY <2>1, <2>2
<1>. QED  BY <1>4, <1>5, <1>6, <1>7, OnlyOneMoves DEF GoesWell

LEMMA RouteGoesWell ==
    ASSUME OneAtATime, TypeOK, CoherentWork, SessionInStep, NEW s \in Sessions, Route(s)
    PROVE  GoesWell
<1> DEFINE r == [run[s] EXCEPT !.meta = NextMeta(run[s])]
           status == RoutedStatus(run[s])
           next == NextAgent(run[s])
           plan == Plan(run[s].meta)
           pc == AfterRouter(status, next)
           q == [r EXCEPT !.pc = pc, !.status = KeptStatus(status), !.next = KeptNext(status, next)]
<1>1. run[s] \in RunState /\ record \in Record /\ InStep(run[s]) /\ OwnedBy(s)
      /\ RecordFollowsCheckpoint
  BY DEF TypeOK, SessionInStep
<1>2. /\ run[s].pc = "router" /\ record.status = "running" /\ run[s].status = "running"
      /\ ~Unroutable(run[s]) /\ Persist(r, status, next) /\ run' = [run EXCEPT ![s] = q]
  BY <1>1 DEF Route, InStep, Continue
<1>3. /\ Coherent(run[s].last, run[s].attempts, run[s].ws, run[s].meta)
      /\ run[s].last = None => run[s].next = FirstOf(plan)
      /\ ReworkInOrder(run[s].last, run[s].ws, run[s].meta)
  BY <1>2, SessionReworkInOrder DEF CoherentWork
<1>4. /\ status \in {"running", "completed", "failed", "paused"}
      /\ status = "running" => next # None
      /\ status = "completed" => Standing(run[s].ws, plan) /\ StandingIn(run[s].ws, plan) = plan
      /\ status = "failed" => Exhausted(run[s])
      /\ status = "paused" => StandingIn(run[s].ws, plan) # plan
      /\ run[s].last = None => status = "running"
  BY <1>1, <1>2, <1>3, RunStateFields, RoutedEnds
<1>5. /\ NextMeta(run[s]) \in Meta /\ Plan(NextMeta(run[s])) = plan
      /\ next \in Agents \cup {None} /\ plan # {}
  BY <1>1, RunStateFields, NextMetaType, PlanIgnoresRepair, NextAgentType, PlanOfMeta DEF RunState
<1>6. KeptStatus(status) = status /\ KeptNext(status, next) = next
  BY <1>2 DEF KeptStatus, KeptNext
<1>7. pc = IF status = "running" THEN "agent" ELSE "final"
  BY <1>4, <1>6 DEF AfterRouter
<1>8. /\ r.last = run[s].last /\ r.attempts = run[s].attempts /\ r.ws = run[s].ws
      /\ r.meta = NextMeta(run[s])
  BY <1>1 DEF RunState
<1>9. /\ q.pc = pc /\ q.status = status /\ q.next = next /\ q.last = run[s].last
      /\ q.attempts = run[s].attempts /\ q.ws = run[s].ws /\ q.meta = NextMeta(run[s])
      /\ q \in RunState
  BY <1>1, <1>4, <1>5, <1>6, <1>7 DEF RunState, PC, RunStatus
<1>10. status = "running" => OnTurn(q)
  BY <1>1, <1>2, <1>3, <1>9, RunStateFields, RoutedOnTurn
<1>11. run'[s] = q
  BY <1>2 DEF TypeOK
<1>12. /\ checkpoint'.status = status /\ checkpoint'.active = run[s].last
       /\ checkpoint'.ws = run[s].ws
       /\ record'.status = status /\ record'.attempts = run[s].attempts
       /\ record'.meta = NextMeta(run[s])
       /\ record'.owner = record.owner /\ record'.locks = record.locks
  BY <1>1, <1>2, <1>6, <1>8 DEF Persist, Record
<1>. HIDE DEF r, status, next, plan, pc, q
<1>13. RecordFollowsCheckpoint'
  <2>1. ReworkInOrder(checkpoint'.active, checkpoint'.ws, record'.meta)
    BY <1>3, <1>5, <1>12 DEF ReworkInOrder, plan
  <2>2. Exhausted(run[s]) => Exhausted([last |-> checkpoint'.active, ws |-> checkpoint'.ws,
                                        attempts |-> record'.attempts])
    BY <1>12 DEF Exhausted, MayRetry, MustRework, LastVerdict
  <2>3. EndIsEarned'
    BY <1>4, <1>5, <1>12, <2>2 DEF EndIsEarned
  <2>. QED  BY <1>4, <1>12, <2>1, <2>3 DEF RecordFollowsCheckpoint
<1>14. InStep(run[s])'
  BY <1>4, <1>5, <1>7, <1>9, <1>10, <1>11, <1>12 DEF InStep
<1>15. OwnedBy(s)'
  BY <1>1, <1>2, <1>12 DEF OwnedBy
<1>16. Contract!Next \/ UNCHANGED Contract!contract
  <2>1. CASE checkpoint.status = "absent"
    <3>1. checkpoint = NoCheckpoint /\ run[s].ws = FreshWork /\ status = "running"
      BY <1>1, <1>2, <1>4, <2>1 DEF InStep, RecordFollowsCheckpoint
    <3>. QED  BY <1>2, <1>5, <1>12, <3>1, PlanIsAdopted
  <2>2. CASE checkpoint.status # "absent"
    <3>1. /\ Unseen
          /\ SeenPlan = plan /\ SeenStanding = StandingIn(run[s].ws, plan)
      BY <1>1, <1>2, <1>4, <1>5, <1>12, <2>2 DEF InStep, Unseen, SeenPlan, SeenStanding, plan
    <3>2. CASE status = "running"
      BY <1>2, <1>12, <3>1, <3>2, UnseenStutters
    <3>3. CASE status # "running"
      BY <1>2, <1>4, <1>5, <1>12, <3>1, <3>3, StatusMoves
    <3>. QED  BY <3>2, <3>3
  <2>. QED  BY <2>1, <2>2
<1>. QED  BY <1>13, <1>14, <1>15, <1>16, OnlyOneMoves DEF GoesWell

LEMMA AnswerGoesWell ==
    ASSUME OneAtATime, TypeOK, CoherentWork, SessionInStep, NEW s \in Sessions,
           NEW v \in VerdictsOf(run[s].next), AgentReturns(s, v)
    PROVE  GoesWell
<1> DEFINE a == run[s].next
           answered == AfterAgent(run[s], a, v)
           plan == Plan(run[s].meta)
           r == [answered EXCEPT !.meta = NextMeta(answered)]
           q == [r EXCEPT !.pc = "router", !.status = KeptStatus("running"),
                          !.next = KeptNext("running", None)]
<1>1. run[s] \in RunState /\ record \in Record /\ InStep(run[s]) /\ OwnedBy(s)
      /\ RecordFollowsCheckpoint
  BY DEF TypeOK, SessionInStep
<1>2. /\ run[s].pc = "running" /\ a \in Agents /\ InHand(run[s])
      /\ Coherent(run[s].last, run[s].attempts, run[s].ws, run[s].meta)
  BY DEF AgentReturns, TypeOK, CoherentWork
<1>3. /\ record.status \in {"running", "cancelled"} /\ checkpoint.status # "absent"
      /\ run[s].status = "running" /\ OnTurn(run[s])
      /\ run[s].ws = checkpoint.ws /\ plan = Plan(record.meta)
  BY <1>1, <1>2 DEF InStep
<1>4. answered \in RunState /\ answered.last = a /\ answered.meta = run[s].meta
      /\ answered.ws = Applied(run[s].ws, a, v)
  BY <1>1, <1>2, VerdictsType, AfterAgentType DEF AfterAgent, RunState
<1>5. ~Unroutable(answered)
  BY DEF AgentReturns
<1>6. /\ ReworkInOrder(answered.last, answered.ws, answered.meta)
      /\ v = "completed" =>
           a \in plan /\ StandingIn(answered.ws, plan) = StandingIn(run[s].ws, plan) \cup {a}
      /\ v = "rejected" => StandingIn(answered.ws, plan) = StandingIn(run[s].ws, plan) \ {"developer"}
      /\ v \notin {"completed", "rejected"} => StandingIn(answered.ws, plan) = StandingIn(run[s].ws, plan)
  BY <1>1, <1>2, <1>3, <1>5, RunStateFields, AnswerStands
<1>7. /\ Upto(a, run[s].meta) \subseteq StandingIn(run[s].ws, plan)
      /\ a \notin StandingIn(run[s].ws, plan)
  BY <1>1, <1>2, <1>3, RunStateFields, InHandIsNext
<1>8. v = "rejected" => a = "qa" /\ a \in plan
  <2>1. v = "rejected" => a = "qa"
    BY VerdictsType
  <2>2. a = "qa" => a \in plan
    BY <1>2 DEF InHand
  <2>. QED  BY <2>1, <2>2
<1>9. answered.ws.rejections
        = (IF v = "rejected" THEN run[s].ws.rejections + 1 ELSE run[s].ws.rejections)
  BY <1>4 DEF Applied
<1>10. NextMeta(answered) \in Meta /\ Plan(NextMeta(answered)) = plan
  BY <1>4, RunStateFields, NextMetaType, PlanIgnoresRepair
<1>11. /\ r.last = a /\ r.attempts = answered.attempts /\ r.ws = answered.ws
       /\ r.meta = NextMeta(answered) /\ r \in RunState
  BY <1>4, <1>10 DEF RunState
<1>12. KeptStatus("running") = record.status /\ KeptNext("running", None) = None
  BY <1>3 DEF KeptStatus, KeptNext
<1>13. /\ checkpoint' = [status |-> record.status, active |-> a, next |-> None, ws |-> answered.ws]
       /\ record' = [record EXCEPT !.status = record.status, !.active = a, !.next = None,
                                   !.attempts = answered.attempts, !.meta = NextMeta(answered),
                                   !.locks = Released(record.locks, s, a)]
       /\ run' = [run EXCEPT ![s] = q]
  BY <1>11, <1>12 DEF AgentReturns, Continue
<1>14. /\ checkpoint'.status = record.status /\ checkpoint'.active = a
       /\ checkpoint'.ws = answered.ws
       /\ record'.status = record.status /\ record'.attempts = answered.attempts
       /\ record'.meta = NextMeta(answered) /\ record'.owner = record.owner
       /\ record'.locks = Released(record.locks, s, a)
  BY <1>1, <1>13 DEF Record
<1>15. /\ run'[s].pc = "router" /\ run'[s].status = record.status /\ run'[s].last = a
       /\ run'[s].ws = answered.ws /\ run'[s].attempts = answered.attempts
       /\ run'[s].meta = NextMeta(answered)
  BY <1>11, <1>12, <1>13 DEF TypeOK, RunState
<1>. HIDE DEF answered, r, q, plan
<1>16. RecordFollowsCheckpoint'
  <2>1. ReworkInOrder(checkpoint'.active, checkpoint'.ws, record'.meta)
    BY <1>4, <1>6, <1>10, <1>14 DEF ReworkInOrder, plan
  <2>. QED  BY <1>3, <1>14, <2>1 DEF RecordFollowsCheckpoint, EndIsEarned
<1>17. InStep(run[s])'
  BY <1>3, <1>14, <1>15 DEF InStep
<1>18. OwnedBy(s)'
  BY <1>1, <1>2, <1>14 DEF OwnedBy, Released, Record
<1>19. Contract!Next \/ UNCHANGED Contract!contract
  BY <1>1, <1>2, <1>3, <1>6, <1>7, <1>8, <1>9, <1>10, <1>14, AnswerIsSeen DEF InHand, plan
<1>. QED  BY <1>16, <1>17, <1>18, <1>19, OnlyOneMoves DEF GoesWell

(* The owner's lock is always granted, and taking it shows nowhere. *)
LEMMA AgentStartsGoesWell ==
    ASSUME OneAtATime, TypeOK, SessionInStep, NEW s \in Sessions,
           AgentStarts(s) \/ AgentLockDenied(s)
    PROVE  GoesWell
<1>1. run[s] \in RunState /\ record \in Record /\ InStep(run[s]) /\ OwnedBy(s)
      /\ RecordFollowsCheckpoint /\ run[s].pc = "agent" /\ run[s].next \in Agents
  BY DEF TypeOK, SessionInStep, AgentStarts, AgentLockDenied
<1>2. AgentStarts(s)
  BY <1>1 DEF InStep, OwnedBy, AgentLockDenied, LockGranted
<1>3. /\ UNCHANGED checkpoint
      /\ record'.status = record.status /\ record'.owner = record.owner
      /\ record'.meta = record.meta /\ record'.attempts = record.attempts
      /\ record'.locks = [record.locks EXCEPT ![run[s].next] = OwnerOf[s]]
  BY <1>1, <1>2 DEF AgentStarts, Record
<1>4. /\ run'[s].pc = "running" /\ run'[s].status = run[s].status /\ run'[s].last = run[s].last
      /\ run'[s].ws = run[s].ws /\ run'[s].attempts = run[s].attempts
      /\ run'[s].meta = run[s].meta /\ run'[s].next = run[s].next
  BY <1>1, <1>2 DEF AgentStarts, TypeOK, RunState
<1>5. RecordFollowsCheckpoint'
  BY <1>1, <1>3 DEF RecordFollowsCheckpoint, EndIsEarned
<1>6. InStep(run[s])'
  BY <1>1, <1>3, <1>4 DEF InStep, OnTurn
<1>7. OwnedBy(s)'
  BY <1>1, <1>3 DEF OwnedBy, Record
<1>8. UNCHANGED Contract!contract
  BY <1>3, UnseenStutters DEF Unseen
<1>. QED  BY <1>5, <1>6, <1>7, <1>8, OnlyOneMoves DEF GoesWell

(* A session that leaves the graph, whatever it leaves locked. *)
LEMMA LeavingGoesWell ==
    ASSUME OneAtATime, TypeOK, SessionInStep, NEW s \in Sessions,
           run' = [run EXCEPT ![s] = NoRun], UNCHANGED checkpoint,
           record'.status = record.status, record'.owner = record.owner,
           record'.meta = record.meta, record'.attempts = record.attempts,
           \A a \in Agents : record'.locks[a] \in {None, record.locks[a]}
    PROVE  GoesWell
<1>1. RecordFollowsCheckpoint'
  BY DEF SessionInStep, RecordFollowsCheckpoint, EndIsEarned
<1>2. InStep(run[s])'
  BY NoRunType DEF InStep, TypeOK
<1>3. OwnedBy(s)'
  BY DEF SessionInStep, OwnedBy
<1>4. UNCHANGED Contract!contract
  BY UnseenStutters DEF Unseen
<1>. QED  BY <1>1, <1>2, <1>3, <1>4, OnlyOneMoves DEF GoesWell

(* The end that is written is the one the checkpoint already has. *)
LEMMA FinalizeGoesWell ==
    ASSUME OneAtATime, TypeOK, CoherentWork, SessionInStep, NEW s \in Sessions, Finalize(s)
    PROVE  GoesWell
<1>1. run[s] \in RunState /\ record \in Record /\ InStep(run[s]) /\ OwnedBy(s)
      /\ RecordFollowsCheckpoint /\ run[s].pc = "final"
  BY DEF TypeOK, SessionInStep, Finalize
<1>2. /\ UNCHANGED checkpoint /\ run' = [run EXCEPT ![s] = NoRun]
      /\ record'.status = checkpoint.status /\ record'.owner = record.owner
      /\ record'.meta = record.meta /\ record'.attempts = record.attempts
      /\ record'.locks = record.locks
  BY <1>1 DEF Finalize, Record, InStep
<1>3. /\ checkpoint.status \in {"completed", "failed", "paused", "cancelled"}
      /\ record.status \in {checkpoint.status, "cancelled"}
  BY <1>1 DEF InStep
<1>4. RecordFollowsCheckpoint'
  BY <1>1, <1>2, <1>3 DEF RecordFollowsCheckpoint, EndIsEarned
<1>5. InStep(run[s])'
  BY <1>2, NoRunType DEF InStep, TypeOK
<1>6. OwnedBy(s)'
  BY <1>1, <1>2, <1>3 DEF OwnedBy
<1>7. Unseen
  BY <1>2 DEF Unseen
<1>8. CASE record.status = checkpoint.status
  <2>1. UNCHANGED Contract!contract
    BY <1>2, <1>7, <1>8, UnseenStutters
  <2>. QED  BY <1>4, <1>5, <1>6, <2>1, OnlyOneMoves DEF GoesWell
<1>9. CASE record.status = "cancelled" /\ checkpoint.status \in {"completed", "failed", "paused"}
  <2>1. SeenPlan = Plan(record.meta) /\ SeenStanding = StandingIn(checkpoint.ws, Plan(record.meta))
    BY <1>9 DEF SeenPlan, SeenStanding
  <2>2. Plan(record.meta) # {}
    BY <1>1, PlanOfMeta DEF Record
  <2>3. checkpoint.ws.verdict["qa"] = "rejected" => "qa" \in Plan(record.meta)
    BY <1>1, RejectedByLast DEF CoherentWork, TypeOK, Record, Checkpoint
  <2>4. checkpoint.status = "completed" => SeenStanding = SeenPlan
    BY <1>1, <2>1, <2>3, StandingPlanStands DEF RecordFollowsCheckpoint, EndIsEarned
  <2>5. checkpoint.status = "paused" => SeenStanding # SeenPlan
    BY <1>1, <2>1 DEF RecordFollowsCheckpoint, EndIsEarned
  <2>6. Contract!Next
    BY <1>2, <1>7, <1>9, <2>1, <2>2, <2>4, <2>5, StatusMoves
  <2>. QED  BY <1>4, <1>5, <1>6, <2>6, OnlyOneMoves DEF GoesWell
<1>. QED  BY <1>3, <1>8, <1>9

(* A new execution: nothing is persisted yet but its record. *)
LEMMA StartGoesWell ==
    ASSUME OneAtATime, TypeOK, CoherentWork, SessionInStep, NEW s \in Sessions,
           NEW request \in Requests, Start(s, request)
    PROVE  GoesWell
<1>1. record.status = "absent" /\ checkpoint = NoCheckpoint /\ UNCHANGED checkpoint
      /\ request \in Meta
  BY RuntimeAssumption DEF Start, CoherentWork
<1>2. /\ record'.status = "running" /\ record'.owner = OwnerOf[s] /\ record'.meta = NoMeta
      /\ \A a \in Agents : record'.locks[a] = None
  BY DEF Start, NoRecord
<1>3. /\ run'[s].pc = "router" /\ run'[s].status = "running" /\ run'[s].last = None
      /\ run'[s].ws = FreshWork
  BY DEF Start, NoRun, TypeOK
<1>4. checkpoint.status = "absent" /\ checkpoint.active = None /\ checkpoint.ws = FreshWork
  BY <1>1 DEF NoCheckpoint
<1>5. RecordFollowsCheckpoint'
  BY <1>1, <1>2, <1>4 DEF RecordFollowsCheckpoint, EndIsEarned, ReworkInOrder, ReworkPending,
                          FreshWork, None, Agents
<1>6. InStep(run[s])'
  BY <1>1, <1>2, <1>3, <1>4 DEF InStep
<1>7. OwnedBy(s)'
  BY <1>2 DEF OwnedBy
<1>8. Contract!Next
  <2>1. SeenPlan' = SeenPlan /\ SeenStanding' = SeenStanding
    BY <1>1, <1>4 DEF SeenPlan, SeenStanding
  <2>2. Contract!Begin
    BY <1>1, <1>2, <2>1 DEF Contract!Begin, SeenPlan, SeenStanding, StandingStages, StandingIn
  <2>. QED  BY <2>2 DEF Contract!Next
<1>. QED  BY <1>5, <1>6, <1>7, <1>8, OnlyOneMoves DEF GoesWell

(* A recovery takes up what is persisted. *)
LEMMA RecoverGoesWell ==
    ASSUME OneAtATime, TypeOK, CoherentWork, SessionInStep, NEW s \in Sessions, Recover(s)
    PROVE  GoesWell
<1>1. /\ record \in Record /\ checkpoint \in Checkpoint /\ RecordFollowsCheckpoint /\ OwnedBy(s)
      /\ checkpoint.status \in {"running", "paused"} /\ record.status # "cancelled"
      /\ UNCHANGED checkpoint
  BY DEF TypeOK, SessionInStep, Recover, Checkpoint, RecordStatus, RunStatus, Terminal
<1>2. record.status \in {"running", "paused"}
  <2>1. record.status # "absent"
    BY <1>1 DEF CoherentWork, NoCheckpoint
  <2>. QED  BY <1>1, <2>1 DEF RecordFollowsCheckpoint, Record, RecordStatus, RunStatus
<1>3. /\ record'.status = "running" /\ record'.owner = record.owner /\ record'.meta = record.meta
      /\ record'.attempts = record.attempts /\ record'.locks = record.locks
  BY <1>1 DEF Recover, Record
<1>4. Plan([record.meta EXCEPT !.pauseAfter = None]) = Plan(record.meta)
  BY <1>1 DEF Plan, Record, Meta
<1>5. /\ run'[s].pc = "router" /\ run'[s].status = "running" /\ run'[s].last = checkpoint.active
      /\ run'[s].ws = checkpoint.ws /\ run'[s].attempts = record.attempts
      /\ Plan(run'[s].meta) = Plan(record.meta)
  BY <1>4 DEF Recover, TypeOK
<1>6. RecordFollowsCheckpoint'
  BY <1>1, <1>3 DEF RecordFollowsCheckpoint, EndIsEarned
<1>7. InStep(run[s])'
  BY <1>1, <1>3, <1>5 DEF InStep
<1>8. OwnedBy(s)'
  BY <1>1, <1>2, <1>3 DEF OwnedBy
<1>9. Unseen
  BY <1>1, <1>3 DEF Unseen
<1>10. Contract!Next \/ UNCHANGED Contract!contract
  BY <1>2, <1>3, <1>9, UnseenStutters, StatusMoves
<1>. QED  BY <1>6, <1>7, <1>8, <1>10, OnlyOneMoves DEF GoesWell

LEMMA CancelGoesWell ==
    ASSUME OneAtATime, TypeOK, CoherentWork, SessionInStep, Cancel
    PROVE  GoesWell
<1>1. /\ record.status # "absent" /\ record'.status = "cancelled" /\ UNCHANGED <<checkpoint, run>>
      /\ record'.owner = record.owner /\ record'.meta = record.meta
      /\ record'.attempts = record.attempts /\ record'.locks = record.locks
  BY DEF Cancel, TypeOK, Record
<1>2. RecordFollowsCheckpoint'
  BY <1>1 DEF SessionInStep, RecordFollowsCheckpoint, EndIsEarned
<1>3. ASSUME NEW s \in Sessions
      PROVE  InStep(run[s])' /\ OwnedBy(s)'
  BY <1>1 DEF SessionInStep, InStep, OwnedBy, OnTurn
<1>4. Contract!Next
  BY <1>1, StatusMoves DEF Unseen
<1>. QED  BY <1>2, <1>3, <1>4 DEF GoesWell, SessionInStep

LEMMA StepGoesWell ==
    ASSUME OneAtATime, TypeOK, CoherentWork, SessionInStep, NEW s \in Sessions, Step(s)
    PROVE  GoesWell
<1>1. CASE Route(s)
  BY <1>1, RouteGoesWell
<1>2. CASE RouteCancelled(s)
  BY <1>2, CancelledNodeGoesWell DEF RouteCancelled
<1>3. CASE AgentSeesCancel(s)
  BY <1>3, CancelledNodeGoesWell DEF AgentSeesCancel
<1>4. CASE AgentLockDenied(s) \/ AgentStarts(s)
  BY <1>4, AgentStartsGoesWell
<1>5. ASSUME NEW v \in VerdictsOf(run[s].next), AgentReturns(s, v)
      PROVE  GoesWell
  BY <1>5, AnswerGoesWell
<1>6. ASSUME NEW v \in VerdictsOf(run[s].next), AgentUnroutable(s, v)
      PROVE  GoesWell
  <2>1. run[s].next \in Agents /\ record \in Record
    BY <1>6 DEF AgentUnroutable, TypeOK
  <2>2. \A a \in Agents : record'.locks[a] \in {None, record.locks[a]}
    BY <1>6, <2>1 DEF AgentUnroutable, Released, Record
  <2>. QED  BY <1>6, <2>1, <2>2, LeavingGoesWell DEF AgentUnroutable, Record
<1>7. CASE Finalize(s)
  BY <1>7, FinalizeGoesWell
<1>. QED  BY <1>1, <1>2, <1>3, <1>4, <1>5, <1>6, <1>7 DEF Step

LEMMA NextGoesWell ==
    ASSUME OneAtATime, TypeOK, CoherentWork, SessionInStep, [Next]_vars
    PROVE  GoesWell
<1>1. ASSUME NEW s \in Sessions, NEW request \in Requests, Start(s, request)
      PROVE  GoesWell
  BY <1>1, StartGoesWell
<1>2. ASSUME NEW s \in Sessions, Recover(s) PROVE GoesWell
  BY <1>2, RecoverGoesWell
<1>3. ASSUME NEW s \in Sessions, Step(s) PROVE GoesWell
  BY <1>3, StepGoesWell
<1>4. ASSUME NEW s \in Sessions, Interrupt(s) PROVE GoesWell
  BY <1>4, LeavingGoesWell DEF Interrupt
<1>5. CASE Cancel
  BY <1>5, CancelGoesWell
<1>6. CASE UNCHANGED vars
  BY <1>6 DEF vars, GoesWell, SessionInStep, RecordFollowsCheckpoint, EndIsEarned, InStep, OnTurn,
              OwnedBy, Contract!contract, StandingStages
<1>. QED  BY <1>1, <1>2, <1>3, <1>4, <1>5, <1>6 DEF Next

LEMMA InitGoesWell == Init => SessionInStep /\ Contract!Init
<1> SUFFICES ASSUME Init PROVE SessionInStep /\ Contract!Init
  OBVIOUS
<1>1. record = NoRecord /\ checkpoint = NoCheckpoint /\ record.status = "absent"
      /\ \A s \in Sessions : run[s].pc = "idle"
  BY NoRunType DEF Init, NoRecord
<1>2. RecordFollowsCheckpoint
  BY <1>1 DEF RecordFollowsCheckpoint, EndIsEarned, NoRecord, NoCheckpoint, ReworkInOrder,
              ReworkPending, FreshWork, None, Agents
<1>3. SessionInStep
  BY <1>1, <1>2 DEF SessionInStep, InStep, OwnedBy
<1>4. Contract!Init
  BY <1>1 DEF Contract!Init, NoCheckpoint, FreshWork
<1>. QED  BY <1>3, <1>4

(* The inductive invariant: with one session at a time, the session works  *)
(* from what is persisted and only ever writes an end that it has earned.  *)
THEOREM SessionStaysInStep == OneAtATime => (Spec => []SessionInStep)
<1> SUFFICES ASSUME OneAtATime PROVE Spec => []SessionInStep
  OBVIOUS
<1>1. TypeOK /\ CoherentWork /\ SessionInStep /\ [Next]_vars => SessionInStep'
  BY NextGoesWell DEF GoesWell
<1>. QED  BY <1>1, InitGoesWell, TypeCorrect, WorkStaysCoherent, PTL DEF Spec

(* The runtime implements the delivery contract: whatever the request and  *)
(* the budgets, and however often the one session is cancelled, dies and   *)
(* is recovered, a client that only looks at the record sees stages        *)
(* delivered in order on standing work, a bounded number of rejections,    *)
(* and no completion but of the whole plan.                                *)
THEOREM RuntimeImplementsContract == OneAtATime => (Spec => ImplementsContract)
<1> SUFFICES ASSUME OneAtATime PROVE Spec => ImplementsContract
  OBVIOUS
<1>1. Init => Contract!Init
  BY InitGoesWell
<1>2. TypeOK /\ CoherentWork /\ SessionInStep /\ [Next]_vars
        => [Contract!Next]_(Contract!contract)
  BY NextGoesWell DEF GoesWell
<1>3. Spec => []SessionInStep
  BY SessionStaysInStep
<1>. QED  BY <1>1, <1>2, <1>3, TypeCorrect, WorkStaysCoherent, PTL
          DEF Spec, ImplementsContract, Contract!Spec

(* The ends of a single session are written over no cancellation but one   *)
(* that came after its last node.                                          *)
LEMMA CancellationIsKept ==
    ASSUME OneAtATime, TypeOK, SessionInStep, [Next]_vars,
           record.status = "cancelled", NEW s \in Sessions, Working(s)
    PROVE  record'.status = "cancelled"
<1>1. run[s].pc \in {"router", "agent", "running"} /\ record \in Record
      /\ \A t \in Sessions : t = s
  BY DEF OneAtATime, Working, TypeOK
<1>2. \A status : KeptStatus(status) = "cancelled"
  BY DEF KeptStatus
<1>3. ASSUME NEW request \in Requests, Start(s, request) PROVE FALSE
  BY <1>1, <1>3 DEF Start
<1>4. ~Recover(s)
  BY <1>1 DEF Recover
<1>5. CASE Step(s)
  BY <1>1, <1>2, <1>5 DEF Step, Route, RouteCancelled, AgentSeesCancel, AgentLockDenied,
     AgentStarts, AgentReturns, AgentUnroutable, Finalize, Persist, Record
<1>6. CASE Interrupt(s) \/ UNCHANGED vars
  BY <1>6 DEF Interrupt, vars
<1>7. CASE Cancel
  BY <1>1, <1>7 DEF Cancel, Record
<1>. QED  BY <1>1, <1>3, <1>4, <1>5, <1>6, <1>7 DEF Next

(* What is recorded as completed is delivered, what is recorded as failed  *)
(* is exhausted, and no session undoes a cancellation while it works.      *)
THEOREM EndsAreAlwaysEarned == OneAtATime => (Spec => EndsAreEarned)
<1> SUFFICES ASSUME OneAtATime PROVE Spec => EndsAreEarned
  OBVIOUS
<1>1. SessionInStep => CompletedMeansDelivered /\ FailedMeansExhausted
  BY DEF SessionInStep, RecordFollowsCheckpoint, EndIsEarned, CompletedMeansDelivered,
         FailedMeansExhausted
<1>2. TypeOK /\ SessionInStep /\ [Next]_vars =>
        (record.status = "cancelled" /\ (\E s \in Sessions : Working(s))
           => record'.status = "cancelled")
  BY CancellationIsKept
<1>3. Spec => []SessionInStep
  BY SessionStaysInStep
<1>. QED  BY <1>1, <1>2, <1>3, TypeCorrect, PTL DEF Spec, EndsAreEarned
=============================================================================
