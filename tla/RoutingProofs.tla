---------------------------- MODULE RoutingProofs ----------------------------
(***************************************************************************)
(* What the routing rules do to the work of a run, for any request and any *)
(* budgets: the lemmas that the proofs about WorkflowRuntime and about     *)
(* ExecutionStore share.                                                   *)
(***************************************************************************)
EXTENDS DeliveryRouting, TLAPS

(* The fields of a run state, whatever else the record holds. *)
RunFields(r) ==
    /\ {"status", "next", "last", "attempts", "ws", "meta"} \subseteq DOMAIN r
    /\ r.status \in RunStatus /\ r.next \in Agents \cup {None} /\ r.last \in Agents \cup {None}
    /\ r.attempts \in [Agents -> Nat] /\ r.ws \in WorkState /\ r.meta \in Meta

(* The first stage of a plan is one of its stages and comes before all the *)
(* others (_next_agent takes the head of the filtered sequence).           *)
LEMMA FirstOfIsFirst ==
    ASSUME NEW S \in SUBSET Agents, S # {}
    PROVE  /\ FirstOf(S) \in S
           /\ \A b \in S : Rank[FirstOf(S)] <= Rank[b]
<1>1. \E a \in S : \A b \in S : Rank[a] <= Rank[b]
  <2>1. CASE "ba" \in S
    BY <2>1 DEF Agents, Rank
  <2>2. CASE "ba" \notin S /\ "architect" \in S
    BY <2>2 DEF Agents, Rank
  <2>3. CASE {"ba", "architect"} \cap S = {} /\ "developer" \in S
    BY <2>3 DEF Agents, Rank
  <2>4. CASE {"ba", "architect", "developer"} \cap S = {} /\ "qa" \in S
    BY <2>4 DEF Agents, Rank
  <2>5. CASE {"ba", "architect", "developer", "qa"} \cap S = {} /\ "docs" \in S
    BY <2>5 DEF Agents, Rank
  <2>6. CASE S = {"pr"}
    BY <2>6 DEF Agents, Rank
  <2>. QED  BY <2>1, <2>2, <2>3, <2>4, <2>5, <2>6 DEF Agents
<1>. QED  BY <1>1 DEF FirstOf

(* Every request asks for at least one stage, and only for known ones.     *)
LEMMA PlanOfMeta ==
    ASSUME NEW meta \in Meta
    PROVE  Plan(meta) \in SUBSET Agents /\ Plan(meta) # {}
BY DEF Meta, Plan, Agents

LEMMA AgentsAreNamed == None \notin Agents
BY DEF None, Agents

LEMMA RankIsOrder == \A a \in Agents : Rank[a] \in 1 .. 6
BY DEF Rank, Agents

(* _next_agent answers with a known stage or with none. *)
LEMMA NextAgentType ==
    ASSUME NEW r, RunFields(r)
    PROVE  NextAgent(r) \in Agents \cup {None}
<1>1. Plan(r.meta) \subseteq Agents
  BY PlanOfMeta DEF RunFields
<1>2. Following(r) \in SUBSET Agents
  BY <1>1 DEF Following
<1>3. Following(r) # {} => FirstOf(Following(r)) \in Agents
  BY <1>2, FirstOfIsFirst
<1>4. "developer" \in Agents
  BY DEF Agents
<1>. QED  BY <1>3, <1>4 DEF NextAgent, RunFields

LEMMA NextMetaType ==
    ASSUME NEW r, RunFields(r)
    PROVE  NextMeta(r) \in Meta
BY DEF NextMeta, RunFields, Meta

LEMMA RoutedStatusType ==
    ASSUME NEW r, RunFields(r)
    PROVE  RoutedStatus(r) \in RunStatus
BY DEF RoutedStatus, RunFields, RunStatus

LEMMA VerdictsType ==
    ASSUME NEW a, NEW v \in VerdictsOf(a)
    PROVE  v \in Verdict \ {"pending"} /\ (v = "rejected" => a = "qa")
BY DEF VerdictsOf, Verdict

(* The pause point and the repair instructions do not change the plan, and *)
(* the pause point does not bear on what makes work coherent.              *)
LEMMA PlanIgnoresRepair ==
    ASSUME NEW r, RunFields(r)
    PROVE  Plan(NextMeta(r)) = Plan(r.meta)
BY DEF NextMeta, Plan, RunFields, Meta

LEMMA CoherentIgnoresPause ==
    ASSUME NEW last, NEW attempts, NEW ws, NEW meta \in Meta,
           Coherent(last, attempts, ws, meta)
    PROVE  Coherent(last, attempts, ws, [meta EXCEPT !.pauseAfter = None])
<1> DEFINE m == [meta EXCEPT !.pauseAfter = None]
<1>1. m.repair = meta.repair /\ m.enabled = meta.enabled /\ m.mode = meta.mode
  BY DEF Meta
<1>2. Plan(m) = Plan(meta)
  BY <1>1 DEF Plan
<1>. HIDE DEF m
<1>3. Upto(last, m) = Upto(last, meta)
  BY <1>2 DEF Upto
<1>4. Coherent(last, attempts, ws, m)
  BY <1>1, <1>2, <1>3 DEF Coherent
<1>. QED  BY <1>4 DEF m

(* No work is coherent work, whatever was asked for. *)
LEMMA FreshIsCoherent ==
    ASSUME NEW meta \in Meta, ~meta.repair
    PROVE  Coherent(None, [a \in Agents |-> 0], FreshWork, meta)
BY BudgetAssumption DEF Coherent, Budget, FreshWork, Agents

(* _next_agent writes the repair instructions only after a QA rejection.   *)
LEMMA NextMetaCoherent ==
    ASSUME NEW r, RunFields(r), Coherent(r.last, r.attempts, r.ws, r.meta)
    PROVE  Coherent(r.last, r.attempts, r.ws, NextMeta(r))
<1>1. CASE ~(r.status = "running" /\ MustRework(r))
  BY <1>1 DEF NextMeta
<1>2. CASE r.status = "running" /\ MustRework(r)
  <2> DEFINE m == NextMeta(r)
  <2>1. m.repair = TRUE
    BY <1>2 DEF NextMeta, RunFields, Meta
  <2>2. r.last = "qa" /\ r.ws.verdict["qa"] = "rejected"
    BY <1>2 DEF MustRework, LastVerdict
  <2>3. Plan(m) = Plan(r.meta)
    BY PlanIgnoresRepair
  <2>4. Upto(r.last, m) = Upto(r.last, r.meta)
    BY <2>3 DEF Upto
  <2>5. r.ws.rejections > 0
    BY <2>2 DEF Coherent
  <2>. HIDE DEF m
  <2>6. Coherent(r.last, r.attempts, r.ws, m)
    BY <2>1, <2>2, <2>3, <2>4, <2>5 DEF Coherent
  <2>. QED  BY <2>6 DEF m
<1>. QED  BY <1>1, <1>2

(***************************************************************************)
(* The routing lemma: on coherent work, the stage that the router names    *)
(* may run.  Here the four ways on that _next_agent knows are told apart:  *)
(* a fresh run, a retry, rework, and the next stage of the plan.           *)
(***************************************************************************)
LEMMA RoutedIsInHand ==
    ASSUME NEW r, RunFields(r), NEW q, RunFields(q),
           Coherent(r.last, r.attempts, r.ws, r.meta),
           r.last = None => r.next = FirstOf(Plan(r.meta)),
           RoutedStatus(r) = "running", ~Unroutable(r),
           q.next = NextAgent(r), q.meta = NextMeta(r),
           q.ws = r.ws, q.attempts = r.attempts
    PROVE  InHand(q)
<1>. DEFINE n == q.next
<1>1. r.status = "running" /\ ~Exhausted(r) /\ n # None
  BY DEF RoutedStatus, NextAgent
<1>2. /\ Plan(q.meta) = Plan(r.meta) /\ Upto(n, q.meta) = Upto(n, r.meta)
      /\ Plan(r.meta) \in SUBSET Agents /\ Plan(r.meta) # {}
  BY PlanIgnoresRepair, PlanOfMeta DEF Upto, RunFields
<1>3. /\ r.ws \in WorkState /\ r.attempts \in [Agents -> Nat] /\ r.meta \in Meta
      /\ r.last \in Agents \cup {None} /\ n \in Agents
  BY <1>1 DEF RunFields
<1>4. CASE r.last = None
  <2>1. \A a \in Agents : r.ws.verdict[a] = "pending" /\ r.attempts[a] = 0
    BY <1>4 DEF Coherent
  <2>2. n = FirstOf(Plan(r.meta)) /\ q.meta = r.meta
    BY <1>1, <1>4 DEF NextAgent, NextMeta, MustRework, None
  <2>3. n \in Plan(r.meta) /\ \A b \in Plan(r.meta) : Rank[n] <= Rank[b]
    BY <1>2, <2>2, FirstOfIsFirst
  <2>4. r.ws.rejections = 0 /\ ~r.meta.repair
    BY <1>3, <2>1 DEF Coherent, WorkState, Meta, Agents
  <2>5. Standing(q.ws, Upto(n, q.meta))
    BY <1>2, <2>3, RankIsOrder DEF Upto, Standing
  <2>6. q.attempts[n] < MaxAgentAttempts
                          + (IF n \in {"developer", "qa"} THEN q.ws.rejections ELSE 0)
    BY <1>3, <2>1, <2>4, BudgetAssumption
  <2>. QED  BY <1>2, <1>3, <2>1, <2>2, <2>3, <2>4, <2>5, <2>6, BudgetAssumption
            DEF InHand, Ahead
<1>5. CASE r.last # None /\ MayRetry(r)
  <2>1. n = r.last /\ q.meta = r.meta
    BY <1>1, <1>5 DEF NextAgent, NextMeta, MustRework, MayRetry
  <2>2. r.ws.verdict[n] = "retryable" /\ r.attempts[n] < MaxAgentAttempts
    BY <1>5, <2>1 DEF MayRetry, LastVerdict
  <2>3. r.ws.rejections <= MaxQaRejectionLoops
    BY <1>3, <2>1, <2>2, BudgetAssumption DEF Coherent, WorkState
  <2>4. /\ n \in Plan(q.meta) \cup {"developer"} /\ Ahead(n, q.ws)
        /\ Standing(q.ws, Upto(n, q.meta))
        /\ n = "developer" => (q.meta.repair <=> q.ws.rejections > 0)
    BY <1>3, <1>5, <2>1, <2>2 DEF Coherent
  <2>5. q.attempts[n] < MaxAgentAttempts
                          + (IF n \in {"developer", "qa"} THEN q.ws.rejections ELSE 0)
    BY <1>3, <2>2, BudgetAssumption DEF WorkState
  <2>. QED  BY <2>2, <2>3, <2>4, <2>5 DEF InHand
<1>6. CASE MustRework(r)
  <2>1. r.last = "qa" /\ r.ws.verdict["qa"] = "rejected" /\ r.ws.rejections <= MaxQaRejectionLoops
    BY <1>6 DEF MustRework, LastVerdict
  <2>2. n = "developer" /\ q.meta.repair = TRUE
    <3>1. ~MayRetry(r)
      BY <2>1 DEF MayRetry, LastVerdict
    <3>. QED  BY <1>1, <1>3, <1>6, <2>1, <3>1 DEF NextAgent, NextMeta, Meta, None
  <2>3. Ahead(n, q.ws)
    BY <1>3, <2>1, <2>2 DEF Coherent, Ahead, InRework, Rank, Agents, None
  <2>4. Standing(r.ws, Upto("qa", r.meta))
    BY <2>1 DEF Coherent, None
  <2>5. Upto(n, r.meta) \subseteq Upto("qa", r.meta)
    BY <1>2, <2>2 DEF Upto, Rank, Agents
  <2>6. Standing(q.ws, Upto(n, q.meta))
    BY <1>2, <2>4, <2>5 DEF Standing
  <2>7. r.ws.rejections > 0 /\ r.attempts["developer"] < MaxAgentAttempts + r.ws.rejections
    BY <2>1 DEF Coherent
  <2>. QED  BY <2>1, <2>2, <2>3, <2>6, <2>7 DEF InHand, InRework
<1>7. CASE r.last # None /\ ~MayRetry(r) /\ ~MustRework(r)
  <2>1. r.last \in Plan(r.meta)
    BY <1>1, <1>7 DEF Unroutable
  <2>2. Following(r) # {} /\ n = FirstOf(Following(r)) /\ q.meta = r.meta
    BY <1>1, <1>7 DEF NextAgent, NextMeta
  <2>3. /\ n \in Plan(r.meta) /\ Rank[n] > Rank[r.last]
        /\ \A b \in Plan(r.meta) : Rank[b] > Rank[r.last] => Rank[n] <= Rank[b]
    <3>1. Following(r) \in SUBSET Agents
      BY <1>2 DEF Following
    <3>. QED  BY <2>2, <3>1, FirstOfIsFirst DEF Following
  <2>4. r.ws.verdict[r.last] = "completed"
    <3>1. r.ws.verdict[r.last] \in Verdict \ {"pending"}
      BY <1>3, <1>7 DEF Coherent, WorkState
    <3>2. r.ws.verdict[r.last] \notin {"fatal", "retryable"}
      BY <1>1, <1>7 DEF Exhausted, LastVerdict
    <3>3. r.ws.verdict[r.last] # "rejected"
      BY <1>1, <1>7 DEF Exhausted, LastVerdict
    <3>. QED  BY <3>1, <3>2, <3>3 DEF Verdict
  <2>5. /\ Ahead(r.last, r.ws)
        /\ Standing(r.ws, Upto(r.last, r.meta) \cup (Plan(r.meta) \cap {r.last}))
    BY <1>3, <1>7, <2>4 DEF Coherent
  <2>6. Ahead(n, q.ws)
    <3>1. r.last \in Agents /\ n \in Agents
      BY <1>3, <1>7
    <3>2. ASSUME NEW b \in Agents, Rank[b] > Rank[n]
          PROVE  r.ws.verdict[b] = "pending"
      <4>1. Rank[b] > Rank[r.last]
        BY <2>3, <3>1, <3>2, RankIsOrder
      <4>2. ~(r.last = "developer" /\ b = "qa")
        BY <2>3, <3>1, <3>2 DEF Rank, Agents
      <4>. QED  BY <2>5, <4>1, <4>2 DEF Ahead, InRework
    <3>. QED  BY <3>2 DEF Ahead
  <2>7. Upto(n, r.meta) \subseteq Upto(r.last, r.meta) \cup (Plan(r.meta) \cap {r.last})
    BY <1>2, <2>1, <2>3 DEF Upto, Rank, Agents
  <2>8. Standing(q.ws, Upto(n, q.meta))
    BY <1>2, <2>5, <2>7 DEF Standing
  <2>9. r.ws.rejections <= MaxQaRejectionLoops
    BY <1>3, <2>4, BudgetAssumption DEF Coherent, WorkState
  <2>10. r.ws.verdict[n] = "pending" \/ (n = "qa" /\ r.ws.verdict["qa"] = "rejected")
    BY <1>3, <2>3, <2>5 DEF Ahead, InRework
  <2>11. q.attempts[n] < MaxAgentAttempts
                          + (IF n \in {"developer", "qa"} THEN q.ws.rejections ELSE 0)
    BY <1>3, <2>10, BudgetAssumption DEF Coherent, WorkState
  <2>12. n = "developer" => ~q.meta.repair /\ r.ws.rejections = 0
    <3> SUFFICES ASSUME n = "developer" PROVE ~r.meta.repair /\ r.ws.rejections = 0
      BY <2>2
    <3>1. r.ws.verdict["qa"] = "pending"
      <4>1. r.last \in {"ba", "architect"}
        BY <1>3, <1>7, <2>3 DEF Rank, Agents
      <4>. QED  BY <2>5, <4>1 DEF Ahead, InRework, Rank, Agents
    <3>. QED  BY <1>3, <3>1 DEF Coherent, WorkState, Meta
  <2>. QED  BY <1>2, <2>3, <2>6, <2>8, <2>9, <2>10, <2>11, <2>12 DEF InHand
<1>. QED  BY <1>3, <1>4, <1>5, <1>6, <1>7

(***************************************************************************)
(* The answer lemma: whatever the agent in hand answers, and whatever lock *)
(* it was refused, the work stays coherent.                                *)
(***************************************************************************)
LEMMA AnswerIsCoherent ==
    ASSUME NEW r, RunFields(r), NEW v \in VerdictsOf(r.next), r.next \in Agents,
           Coherent(r.last, r.attempts, r.ws, r.meta), InHand(r),
           NEW q, q = AfterAgent(r, r.next, v)
    PROVE  Coherent(q.last, q.attempts, q.ws, q.meta)
<1> DEFINE a == r.next
           ws == Applied(r.ws, a, v)
           more == IF a \in {"developer", "qa"} THEN r.ws.rejections ELSE 0
<1>1. /\ r.ws \in WorkState /\ r.attempts \in [Agents -> Nat] /\ r.meta \in Meta
      /\ a \in Agents /\ a # None /\ v \in Verdict \ {"pending"} /\ (v = "rejected" => a = "qa")
  BY VerdictsType, AgentsAreNamed DEF RunFields
<1>2. /\ q.last = a /\ q.meta = r.meta /\ q.ws = ws
      /\ q.attempts = [r.attempts EXCEPT ![a] = @ + 1]
  BY DEF AfterAgent, RunFields
<1>3. /\ \A b \in Agents : ws.verdict[b] = IF b = a THEN v ELSE r.ws.verdict[b]
      /\ \A b \in Agents : ws.finished[b] = IF b = a THEN r.ws.clock + 1 ELSE r.ws.finished[b]
      /\ ws.clock = r.ws.clock + 1
      /\ ws.rejections = IF v = "rejected" THEN r.ws.rejections + 1 ELSE r.ws.rejections
  BY <1>1 DEF Applied, WorkState
<1>4. \A b \in Agents : q.attempts[b] = IF b = a THEN r.attempts[b] + 1 ELSE r.attempts[b]
  BY <1>1, <1>2
<1>5. /\ r.ws.rejections \in Nat /\ r.ws.clock \in Nat
      /\ \A b \in Agents : r.attempts[b] \in Nat /\ r.ws.finished[b] \in Nat
  BY <1>1 DEF WorkState
<1>. HIDE DEF ws
<1>6. Budget(r.attempts, r.ws) /\ r.attempts[a] < MaxAgentAttempts + more
  BY DEF Coherent, InHand
<1>7. Budget(q.attempts, ws)
  <2>1. ws.rejections <= MaxQaRejectionLoops + 1
    BY <1>3, <1>5, <1>6, BudgetAssumption DEF InHand, Budget
  <2>2. ASSUME NEW b \in Agents
        PROVE  q.attempts[b] <= MaxAgentAttempts
                         + (IF b \in {"developer", "qa"} THEN ws.rejections ELSE 0)
    <3>1. r.attempts[b] <= MaxAgentAttempts
                         + (IF b \in {"developer", "qa"} THEN r.ws.rejections ELSE 0)
      BY <1>6 DEF Budget
    <3>2. ws.rejections \in Nat /\ r.ws.rejections <= ws.rejections
      BY <1>3, <1>5
    <3>. QED  BY <1>4, <1>5, <1>6, <3>1, <3>2, BudgetAssumption
  <2>. QED  BY <2>1, <2>2 DEF Budget
<1>8. \A b \in Agents :
        /\ ws.finished[b] <= ws.clock
        /\ ws.verdict[b] = "pending" => q.attempts[b] = 0
        /\ ws.verdict[b] # "pending" => b \in Plan(q.meta) \cup {"developer"}
        /\ ws.verdict[b] = "rejected" => b = "qa"
  BY <1>1, <1>2, <1>3, <1>4, <1>5 DEF Coherent, InHand
<1>9. /\ ws.rejections > 0 => ws.verdict["qa"] # "pending"
      /\ ws.rejections > MaxQaRejectionLoops => a = "qa" /\ ws.verdict["qa"] = "rejected"
      /\ q.meta.repair => ws.rejections > 0
  BY <1>1, <1>2, <1>3, <1>5, BudgetAssumption DEF Coherent, InHand, Agents
<1>10. ws.verdict["qa"] = "rejected" =>
        /\ ws.rejections > 0
        /\ q.attempts["qa"] < MaxAgentAttempts + ws.rejections
        /\ a = "qa" => q.attempts["developer"] < MaxAgentAttempts + ws.rejections
  <2>1. CASE a = "qa"
    BY <1>3, <1>4, <1>5, <1>6, <2>1, BudgetAssumption DEF Budget, Agents
  <2>2. CASE a # "qa"
    BY <1>1, <1>3, <1>4, <2>2 DEF Coherent, Agents
  <2>. QED  BY <2>1, <2>2
<1>11. Ahead(a, ws)
  BY <1>1, <1>3, RankIsOrder DEF InHand, Ahead, InRework, Agents
<1>12. \A b \in Upto(a, r.meta) : b \in Agents /\ b # a /\ ~(Rank[a] < Rank[b])
  BY <1>1, PlanOfMeta, RankIsOrder DEF Upto
<1>13. Standing(ws, Upto(a, r.meta))
  BY <1>3, <1>12 DEF InHand, Standing
<1>14. v = "completed" => Standing(ws, Upto(a, r.meta) \cup (Plan(r.meta) \cap {a}))
  <2> SUFFICES ASSUME v = "completed",
                      NEW b \in Upto(a, r.meta) \cup {a}
               PROVE  /\ ws.verdict[b] = "completed"
                      /\ \A c \in Upto(a, r.meta) \cup {a} :
                            Rank[c] < Rank[b] => ws.finished[c] < ws.finished[b]
    BY DEF Standing
  <2>1. CASE b = a
    BY <1>1, <1>3, <1>5, <1>12, <2>1, RankIsOrder DEF Coherent
  <2>2. CASE b \in Upto(a, r.meta)
    BY <1>12, <1>13, <2>2 DEF Standing
  <2>. QED  BY <2>1, <2>2
<1>15. a = "developer" => (q.meta.repair <=> ws.rejections > 0)
  BY <1>1, <1>2, <1>3 DEF InHand
<1>. QED  BY <1>1, <1>2, <1>3, <1>7, <1>8, <1>9, <1>10, <1>11, <1>13, <1>14, <1>15
          DEF Coherent

-----------------------------------------------------------------------------
(* The stages of a plan whose deliverable stands in ws (StandingStages).   *)
StandingIn(ws, plan) ==
    {a \in plan :
        /\ ws.verdict[a] = "completed"
        /\ a = "developer" /\ ws.verdict["qa"] = "rejected"
             => ws.finished["qa"] < ws.finished[a]}

(* While a rejection is pending, the clock tells whether the developer has *)
(* answered it; only a rejection brings in a developer nobody asked for.   *)
ReworkPending(ws) ==
    ws.verdict["qa"] = "rejected" /\ ws.verdict["developer"] = "completed"

ReworkInOrder(last, ws, meta) ==
    /\ last = "developer" /\ "developer" \notin Plan(meta) => ws.verdict["qa"] = "rejected"
    /\ ReworkPending(ws) =>
         IF last = "qa" THEN ws.finished["developer"] < ws.finished["qa"]
                        ELSE ws.finished["qa"] < ws.finished["developer"]

(* The same, of the stage in hand. *)
OnTurn(r) ==
    /\ r.next \in Plan(r.meta) \/ r.ws.verdict["qa"] = "rejected"
    /\ ReworkPending(r.ws) =>
         IF r.next = "qa" THEN r.ws.finished["qa"] < r.ws.finished["developer"]
                          ELSE r.ws.finished["developer"] < r.ws.finished["qa"]

(* Pending rework means QA or the developer ran last.                      *)
LEMMA RejectedByLast ==
    ASSUME NEW last \in Agents \cup {None}, NEW attempts, NEW ws, NEW meta \in Meta,
           Coherent(last, attempts, ws, meta), ws.verdict["qa"] = "rejected"
    PROVE  last \in {"developer", "qa"} /\ "qa" \in Plan(meta)
<1>1. "qa" \in Plan(meta) \cup {"developer"}
  BY DEF Coherent, Agents
<1>2. "qa" \in Plan(meta)
  BY <1>1
<1>3. last # None
  BY DEF Coherent, Agents
<1>4. CASE last \in {"ba", "architect"}
  <2>1. Rank["qa"] > Rank[last] /\ "qa" \in Agents
    BY <1>4 DEF Rank, Agents
  <2>. QED  BY <1>3, <1>4, <2>1 DEF Coherent, Ahead, InRework
<1>5. CASE last \in {"docs", "pr"}
  <2>1. "qa" \in Upto(last, meta)
    BY <1>2, <1>5 DEF Upto, Rank, Agents
  <2>. QED  BY <1>3, <2>1 DEF Coherent, Standing
<1>. QED  BY <1>2, <1>3, <1>4, <1>5 DEF Agents

(* The same, of the stage that may run next. *)
LEMMA RejectedInHand ==
    ASSUME NEW r, RunFields(r), Coherent(r.last, r.attempts, r.ws, r.meta), InHand(r),
           r.next \in Agents, r.ws.verdict["qa"] = "rejected"
    PROVE  r.next \in {"developer", "qa"} /\ "qa" \in Plan(r.meta)
<1>1. "qa" \in Plan(r.meta)
  BY RejectedByLast DEF RunFields
<1>2. CASE r.next \in {"ba", "architect"}
  <2>1. Rank["qa"] > Rank[r.next] /\ "qa" \in Agents
    BY <1>2 DEF Rank, Agents
  <2>. QED  BY <1>2, <2>1 DEF InHand, Ahead, InRework
<1>3. CASE r.next \in {"docs", "pr"}
  <2>1. "qa" \in Upto(r.next, r.meta)
    BY <1>1, <1>3 DEF Upto, Rank, Agents
  <2>. QED  BY <2>1 DEF InHand, Standing
<1>. QED  BY <1>1, <1>2, <1>3 DEF Agents

(* Whatever the router names is on its turn: rework first, then QA again.  *)
LEMMA RoutedOnTurn ==
    ASSUME NEW r, RunFields(r), NEW q, RunFields(q),
           Coherent(r.last, r.attempts, r.ws, r.meta),
           ReworkInOrder(r.last, r.ws, r.meta),
           r.last = None => r.next = FirstOf(Plan(r.meta)),
           RoutedStatus(r) = "running", ~Unroutable(r),
           q.next = NextAgent(r), q.meta = NextMeta(r), q.ws = r.ws
    PROVE  OnTurn(q)
<1>. DEFINE n == q.next
<1>1. r.status = "running" /\ ~Exhausted(r) /\ n # None
  BY DEF RoutedStatus, NextAgent
<1>2. Plan(q.meta) = Plan(r.meta) /\ Plan(r.meta) \in SUBSET Agents /\ Plan(r.meta) # {}
  BY PlanIgnoresRepair, PlanOfMeta DEF RunFields
<1>3. /\ r.ws \in WorkState /\ r.meta \in Meta
      /\ r.last \in Agents \cup {None} /\ n \in Agents
  BY <1>1 DEF RunFields
<1>4. CASE r.last = None
  <2>1. r.ws.verdict["qa"] = "pending"
    BY <1>4 DEF Coherent, Agents
  <2>2. n = FirstOf(Plan(r.meta))
    BY <1>1, <1>4 DEF NextAgent
  <2>. QED  BY <1>2, <2>1, <2>2, FirstOfIsFirst DEF OnTurn, ReworkPending
<1>5. CASE r.last # None /\ MayRetry(r)
  <2>1. n = r.last /\ r.ws.verdict[n] = "retryable"
    BY <1>1, <1>5 DEF NextAgent, MayRetry, LastVerdict
  <2>2. n \in Plan(r.meta) \/ r.ws.verdict["qa"] = "rejected"
    BY <1>3, <2>1 DEF Coherent, ReworkInOrder
  <2>3. ~ReworkPending(r.ws)
    BY <1>3, <1>5, <2>1, RejectedByLast DEF ReworkPending
  <2>. QED  BY <1>2, <2>2, <2>3 DEF OnTurn
<1>6. CASE MustRework(r)
  <2>1. r.last = "qa" /\ r.ws.verdict["qa"] = "rejected"
    BY <1>6 DEF MustRework, LastVerdict
  <2>2. n = "developer"
    <3>1. ~MayRetry(r)
      BY <2>1 DEF MayRetry, LastVerdict
    <3>. QED  BY <1>1, <1>6, <2>1, <3>1 DEF NextAgent, None
  <2>. QED  BY <2>1, <2>2 DEF OnTurn, ReworkInOrder
<1>7. CASE r.last # None /\ ~MayRetry(r) /\ ~MustRework(r)
  <2>1. r.last \in Plan(r.meta)
    BY <1>1, <1>7 DEF Unroutable
  <2>2. Following(r) # {} /\ n = FirstOf(Following(r))
    BY <1>1, <1>7 DEF NextAgent
  <2>3. /\ n \in Plan(r.meta) /\ Rank[n] > Rank[r.last]
        /\ \A b \in Plan(r.meta) : Rank[b] > Rank[r.last] => Rank[n] <= Rank[b]
    <3>1. Following(r) \in SUBSET Agents
      BY <1>2 DEF Following
    <3>. QED  BY <2>2, <3>1, FirstOfIsFirst DEF Following
  <2>4. ReworkPending(r.ws) => n = "qa" /\ r.last = "developer"
    <3> SUFFICES ASSUME ReworkPending(r.ws) PROVE n = "qa" /\ r.last = "developer"
      OBVIOUS
    <3>1. r.ws.verdict["qa"] = "rejected"
      BY DEF ReworkPending
    <3>2. r.last \in {"developer", "qa"} /\ "qa" \in Plan(r.meta)
      BY <1>3, <3>1, RejectedByLast
    <3>3. r.last # "qa"
      BY <1>1, <1>7, <3>1 DEF Exhausted, LastVerdict
    <3>4. Rank[n] > 3 /\ Rank[n] <= 4
      BY <2>3, <3>2, <3>3 DEF Rank
    <3>. QED  BY <1>3, <3>2, <3>3, <3>4 DEF Rank, Agents
  <2>. QED  BY <1>2, <2>3, <2>4 DEF OnTurn, ReworkInOrder
<1>. QED  BY <1>3, <1>4, <1>5, <1>6, <1>7

(* The stage in hand does not stand, and the plan before it does.          *)
LEMMA InHandIsNext ==
    ASSUME NEW r, RunFields(r), r.next \in Agents,
           Coherent(r.last, r.attempts, r.ws, r.meta), InHand(r), OnTurn(r)
    PROVE  /\ Upto(r.next, r.meta) \subseteq StandingIn(r.ws, Plan(r.meta))
           /\ r.next \notin StandingIn(r.ws, Plan(r.meta))
<1>1. r.ws \in WorkState /\ Plan(r.meta) \in SUBSET Agents
  BY PlanOfMeta DEF RunFields
<1>2. ASSUME NEW b \in Upto(r.next, r.meta)
      PROVE  b \in StandingIn(r.ws, Plan(r.meta))
  <2>1. b \in Plan(r.meta) /\ Rank[b] < Rank[r.next] /\ r.ws.verdict[b] = "completed"
    BY DEF Upto, InHand, Standing
  <2>2. CASE b = "developer" /\ r.ws.verdict["qa"] = "rejected"
    <3>1. r.next = "qa"
      <4>1. r.next \in {"developer", "qa"}
        BY <2>2, RejectedInHand
      <4>. QED  BY <2>1, <2>2, <4>1 DEF Rank
    <3>. QED  BY <2>1, <2>2, <3>1 DEF OnTurn, ReworkPending, StandingIn
  <2>. QED  BY <2>1, <2>2 DEF StandingIn
<1>3. r.next \notin StandingIn(r.ws, Plan(r.meta))
  <2> SUFFICES ASSUME r.next \in StandingIn(r.ws, Plan(r.meta)) PROVE FALSE
    OBVIOUS
  <2>1. r.next = "developer" /\ r.ws.verdict["qa"] = "rejected"
    BY DEF StandingIn, InHand, InRework
  <2>2. r.ws.verdict["developer"] = "completed" /\ r.ws.finished["qa"] < r.ws.finished["developer"]
    BY <2>1 DEF StandingIn
  <2>3. r.ws.finished["developer"] < r.ws.finished["qa"]
    BY <2>1, <2>2 DEF OnTurn, ReworkPending
  <2>4. r.ws.finished["developer"] \in Nat /\ r.ws.finished["qa"] \in Nat
    BY <1>1 DEF WorkState, Agents
  <2>. QED  BY <2>2, <2>3, <2>4
<1>. QED  BY <1>2, <1>3

(* What an answer leaves: the rework still in order, and the stage on top  *)
(* of what stood, unless it failed; a rejection takes the developer's away.*)
LEMMA AnswerStands ==
    ASSUME NEW r, RunFields(r), NEW v \in VerdictsOf(r.next), r.next \in Agents,
           Coherent(r.last, r.attempts, r.ws, r.meta), InHand(r), OnTurn(r),
           r.status = "running",
           NEW q, q = AfterAgent(r, r.next, v), ~Unroutable(q),
           NEW plan, plan = Plan(r.meta)
    PROVE  /\ ReworkInOrder(q.last, q.ws, q.meta)
           /\ v = "completed" =>
                r.next \in plan /\ StandingIn(q.ws, plan) = StandingIn(r.ws, plan) \cup {r.next}
           /\ v = "rejected" => StandingIn(q.ws, plan) = StandingIn(r.ws, plan) \ {"developer"}
           /\ v \notin {"completed", "rejected"} => StandingIn(q.ws, plan) = StandingIn(r.ws, plan)
<1> DEFINE a == r.next
           ws == Applied(r.ws, a, v)
<1>1. /\ r.ws \in WorkState /\ a \in Agents /\ a # None
      /\ v \in Verdict \ {"pending"} /\ (v = "rejected" => a = "qa")
      /\ plan \in SUBSET Agents
  BY VerdictsType, AgentsAreNamed, PlanOfMeta DEF RunFields
<1>2. q.last = a /\ q.meta = r.meta /\ q.ws = ws /\ q.status = "running"
  BY DEF AfterAgent, RunFields
<1>3. /\ \A b \in Agents : ws.verdict[b] = IF b = a THEN v ELSE r.ws.verdict[b]
      /\ \A b \in Agents : ws.finished[b] = IF b = a THEN r.ws.clock + 1 ELSE r.ws.finished[b]
  BY <1>1 DEF Applied, WorkState
<1>4. /\ r.ws.clock \in Nat
      /\ \A b \in Agents : r.ws.finished[b] \in Nat /\ r.ws.finished[b] <= r.ws.clock
  BY <1>1 DEF WorkState, Coherent
<1>5. "developer" \in Agents /\ "qa" \in Agents
  BY DEF Agents
<1>. HIDE DEF ws
<1>6. r.ws.verdict["qa"] = "rejected" => a \in {"developer", "qa"}
  BY RejectedInHand
<1>7. a \in plan \/ r.ws.verdict["qa"] = "rejected"
  BY DEF OnTurn
<1>8. v = "completed" => a \in plan
  <2> SUFFICES ASSUME v = "completed", a \notin plan PROVE FALSE
    OBVIOUS
  <2>1. ws.verdict[a] = "completed"
    BY <1>1, <1>3
  <2>. QED  BY <1>1, <1>2, <2>1 DEF Unroutable, MayRetry, MustRework, Exhausted, LastVerdict
<1>9. ReworkInOrder(q.last, q.ws, q.meta)
  <2>1. a = "developer" /\ a \notin plan => ws.verdict["qa"] = "rejected"
    BY <1>3, <1>5, <1>7
  <2>2. ASSUME ReworkPending(ws)
        PROVE  IF a = "qa" THEN ws.finished["developer"] < ws.finished["qa"]
                           ELSE ws.finished["qa"] < ws.finished["developer"]
    <3>1. ws.verdict["qa"] = "rejected"
      BY <2>2 DEF ReworkPending
    <3>2. CASE a = "qa"
      <4>1. ws.finished["qa"] = r.ws.clock + 1 /\ ws.finished["developer"] = r.ws.finished["developer"]
        BY <1>3, <1>5, <3>2
      <4>. QED  BY <1>4, <1>5, <3>2, <4>1
    <3>3. CASE a # "qa"
      <4>1. a = "developer"
        BY <1>3, <1>5, <1>6, <3>1, <3>3
      <4>2. ws.finished["developer"] = r.ws.clock + 1 /\ ws.finished["qa"] = r.ws.finished["qa"]
        BY <1>3, <1>5, <4>1
      <4>. QED  BY <1>4, <1>5, <3>3, <4>2
    <3>. QED  BY <3>2, <3>3
  <2>. QED  BY <1>2, <2>1, <2>2 DEF ReworkInOrder
<1>10. /\ Upto(a, r.meta) \subseteq StandingIn(r.ws, plan)
       /\ a \notin StandingIn(r.ws, plan)
  BY InHandIsNext
(* Who else stands is only ever changed by QA, for the developer. *)
<1>11. ASSUME NEW b \in plan, b # a, ~(b = "developer" /\ a = "qa")
       PROVE  b \in StandingIn(ws, plan) <=> b \in StandingIn(r.ws, plan)
  <2>1. ws.verdict[b] = r.ws.verdict[b] /\ ws.finished[b] = r.ws.finished[b]
    BY <1>1, <1>3, <1>11
  <2>2. b = "developer" => ws.verdict["qa"] = r.ws.verdict["qa"] /\ ws.finished["qa"] = r.ws.finished["qa"]
    BY <1>1, <1>3, <1>5, <1>11
  <2>. QED  BY <2>1, <2>2 DEF StandingIn
<1>12. ASSUME a = "qa", "developer" \in plan
       PROVE  /\ "developer" \in StandingIn(r.ws, plan)
              /\ "developer" \in StandingIn(ws, plan) <=> v # "rejected"
  <2>1. "developer" \in Upto(a, r.meta)
    BY <1>12 DEF Upto, Rank, Agents
  <2>2. "developer" \in StandingIn(r.ws, plan)
    BY <1>10, <2>1
  <2>3. ws.verdict["developer"] = "completed" /\ ws.verdict["qa"] = v
    BY <1>3, <1>5, <1>12, <2>2 DEF StandingIn
  <2>4. ws.finished["qa"] = r.ws.clock + 1 /\ ws.finished["developer"] = r.ws.finished["developer"]
    BY <1>3, <1>5, <1>12
  <2>5. ~(ws.finished["qa"] < ws.finished["developer"])
    BY <1>4, <1>5, <2>4
  <2>. QED  BY <1>12, <2>2, <2>3, <2>5 DEF StandingIn
<1>13. a \in StandingIn(ws, plan) <=> v = "completed"
  <2>1. ws.verdict[a] = v /\ ws.finished[a] = r.ws.clock + 1
    BY <1>1, <1>3
  <2>2. a = "developer" => ws.finished["qa"] = r.ws.finished["qa"]
    BY <1>3, <1>5
  <2>3. a = "developer" => ws.finished["qa"] < ws.finished[a]
    BY <1>4, <1>5, <2>1, <2>2
  <2>. QED  BY <1>8, <2>1, <2>3 DEF StandingIn
<1>14. StandingIn(ws, plan) \subseteq plan /\ StandingIn(r.ws, plan) \subseteq plan
  BY DEF StandingIn
<1>15. CASE a = "qa"
  BY <1>1, <1>2, <1>8, <1>9, <1>10, <1>11, <1>12, <1>13, <1>14, <1>15
<1>16. CASE a # "qa"
  BY <1>1, <1>2, <1>8, <1>9, <1>10, <1>11, <1>13, <1>14, <1>16
<1>. QED  BY <1>15, <1>16

(* A plan that stands for the routing rules stands for the client. *)
LEMMA StandingPlanStands ==
    ASSUME NEW ws, NEW plan, Standing(ws, plan), ws.verdict["qa"] = "rejected" => "qa" \in plan
    PROVE  StandingIn(ws, plan) = plan
BY DEF Standing, StandingIn

(***************************************************************************)
(* The end lemma: the router completes only what stands, fails only what   *)
(* is exhausted, and pauses only what is unfinished.                       *)
(***************************************************************************)
LEMMA RoutedEnds ==
    ASSUME NEW r, RunFields(r),
           Coherent(r.last, r.attempts, r.ws, r.meta),
           ReworkInOrder(r.last, r.ws, r.meta),
           r.last = None => r.next = FirstOf(Plan(r.meta)),
           r.status = "running", ~Unroutable(r),
           NEW plan, plan = Plan(r.meta)
    PROVE  /\ RoutedStatus(r) \in {"running", "completed", "failed", "paused"}
           /\ RoutedStatus(r) = "running" => NextAgent(r) # None
           /\ RoutedStatus(r) = "completed" =>
                Standing(r.ws, plan) /\ StandingIn(r.ws, plan) = plan
           /\ RoutedStatus(r) = "failed" => Exhausted(r)
           /\ RoutedStatus(r) = "paused" => StandingIn(r.ws, plan) # plan
           /\ r.last = None => RoutedStatus(r) = "running"
<1>1. /\ r.ws \in WorkState /\ r.meta \in Meta /\ r.last \in Agents \cup {None}
      /\ plan \in SUBSET Agents /\ plan # {}
  BY PlanOfMeta DEF RunFields
<1>2. /\ RoutedStatus(r) \in {"running", "completed", "failed", "paused"}
      /\ RoutedStatus(r) = "running" => NextAgent(r) # None
      /\ RoutedStatus(r) = "failed" => Exhausted(r)
  BY DEF RoutedStatus
<1>3. r.last = None => RoutedStatus(r) = "running"
  <2> SUFFICES ASSUME r.last = None PROVE RoutedStatus(r) = "running"
    OBVIOUS
  <2>1. NextAgent(r) = FirstOf(plan) /\ NextAgent(r) \in Agents
    BY <1>1, FirstOfIsFirst DEF NextAgent
  <2>. QED  BY <2>1, AgentsAreNamed DEF RoutedStatus, ShouldPause, Exhausted
<1>4. ASSUME RoutedStatus(r) = "completed"
      PROVE  Standing(r.ws, plan) /\ StandingIn(r.ws, plan) = plan
  <2>1. NextAgent(r) = None /\ ~Exhausted(r) /\ r.last # None
    BY <1>3, <1>4 DEF RoutedStatus
  <2>2. ~MayRetry(r) /\ ~MustRework(r)
    BY <1>1, <2>1, AgentsAreNamed DEF NextAgent, Agents
  <2>3. r.last \in plan
    BY <2>1, <2>2 DEF Unroutable
  <2>4. Following(r) = {}
    <3> SUFFICES ASSUME Following(r) # {} PROVE FALSE
      OBVIOUS
    <3>1. Following(r) \in SUBSET Agents
      BY <1>1 DEF Following
    <3>2. NextAgent(r) \in Agents
      BY <2>1, <2>2, <3>1, FirstOfIsFirst DEF NextAgent
    <3>. QED  BY <2>1, <3>2, AgentsAreNamed
  <2>5. r.ws.verdict[r.last] = "completed"
    <3>1. r.ws.verdict[r.last] \in Verdict \ {"pending"}
      BY <1>1, <2>1 DEF Coherent, WorkState
    <3>. QED  BY <2>1, <2>2, <3>1 DEF Exhausted, LastVerdict, Verdict
  <2>6. Standing(r.ws, Upto(r.last, r.meta) \cup (plan \cap {r.last}))
    BY <2>1, <2>5 DEF Coherent
  <2>7. plan \subseteq Upto(r.last, r.meta) \cup (plan \cap {r.last})
    BY <1>1, <2>3, <2>4 DEF Following, Upto, Rank, Agents
  <2>8. Standing(r.ws, plan)
    BY <2>6, <2>7 DEF Standing
  <2>9. r.ws.verdict["qa"] = "rejected" => "qa" \in plan
    BY <1>1, RejectedByLast
  <2>. QED  BY <2>8, <2>9, StandingPlanStands
<1>5. ASSUME RoutedStatus(r) = "paused"
      PROVE  StandingIn(r.ws, plan) # plan
  <2>1. NextAgent(r) # None /\ ~Exhausted(r) /\ r.last # None
    BY <1>3, <1>5 DEF RoutedStatus
  <2>2. CASE r.ws.verdict["qa"] = "rejected"
    <3>1. "qa" \in plan
      BY <1>1, <2>2, RejectedByLast
    <3>. QED  BY <2>2, <3>1 DEF StandingIn
  <2>3. CASE r.ws.verdict["qa"] # "rejected" /\ MayRetry(r)
    <3>1. r.ws.verdict[r.last] = "retryable"
      BY <2>3 DEF MayRetry, LastVerdict
    <3>2. r.last \in plan \cup {"developer"}
      BY <1>1, <2>1, <3>1 DEF Coherent
    <3>3. CASE r.last \in plan
      BY <3>1, <3>3 DEF StandingIn
    <3>4. CASE r.last = "developer" /\ r.last \notin plan
      BY <2>3, <3>4 DEF ReworkInOrder
    <3>. QED  BY <3>2, <3>3, <3>4
  <2>4. CASE r.ws.verdict["qa"] # "rejected" /\ ~MayRetry(r)
    <3>1. ~MustRework(r)
      BY <2>4 DEF MustRework, LastVerdict
    <3>2. Following(r) # {} /\ NextAgent(r) = FirstOf(Following(r))
      BY <2>1, <2>4, <3>1 DEF NextAgent
    <3>3. Following(r) \in SUBSET Agents
      BY <1>1 DEF Following
    <3>4. NextAgent(r) \in plan /\ Rank[NextAgent(r)] > Rank[r.last] /\ NextAgent(r) \in Agents
      BY <3>2, <3>3, FirstOfIsFirst DEF Following
    <3>5. r.ws.verdict[NextAgent(r)] = "pending"
      BY <1>1, <2>1, <2>4, <3>4 DEF Coherent, Ahead, InRework
    <3>. QED  BY <3>4, <3>5 DEF StandingIn
  <2>. QED  BY <2>2, <2>3, <2>4
<1>. QED  BY <1>2, <1>3, <1>4, <1>5
=============================================================================
