---------------------------- MODULE AgentsProofs ----------------------------
(***************************************************************************)
(* What the agents do, for any requests, reports, sequences and numbers of *)
(* attempts: the browser tests of QA, one call of an agent, the graph that *)
(* supervises the agents, and the jobs of the chat's assistant.            *)
(***************************************************************************)
EXTENDS AgentCall, QaSandbox, SupervisorGraph, ChatJobs, FiniteSetTheorems,
        SequenceTheorems, TLAPS

QaSpec == QaInit /\ [][QaNext]_qaVars

QaTypeOK ==
    /\ report \in ReportShape
    /\ qaStage \in {"asked", "commands", "browser", "evidence", "done"}
    /\ qaPassed \in BOOLEAN /\ exits \in Seq(BOOLEAN)
    /\ try \in Nat /\ at \in Nat \ {0}

(* What this attempt of the browser has done up to a step, and, from there *)
(* on, that the screenshot is this attempt's.                              *)
Did(upto) ==
    /\ \A i \in DOMAIN report.steps : i < upto => [try |-> try, step |-> i] \in trace
    /\ (\E i \in Shots : i < upto) => shot = try

(* What the verdict so far rests on, stage by stage.                       *)
VerdictSoFar ==
    /\ qaStage = "asked" => exits = <<>> /\ shown = {}
    /\ qaPassed => report.passed /\ \A i \in DOMAIN exits : exits[i]
    /\ qaStage \in {"asked", "commands"} => at = 1
    /\ qaStage \in {"asked", "commands", "browser"} => shown = {} /\ route # "continue"
    /\ qaStage \in {"browser", "evidence"} => Len(exits) = report.commands
    /\ qaStage = "evidence" => route # "continue"
    /\ qaStage = "browser" => try > 0 /\ at <= Len(report.steps) + 1 /\ Did(at)
    /\ qaStage = "evidence" /\ qaPassed =>
         /\ \A i \in DOMAIN report.steps : [try |-> try, step |-> i] \in trace
         /\ \A t \in shown : t = try /\ shot = try

QaInvariant == QaTypeOK /\ VerdictSoFar /\ VerdictIsEarned

LEMMA QaInvariantIsKept == QaInvariant /\ [QaNext]_qaVars => QaInvariant'
<1> SUFFICES ASSUME QaInvariant, [QaNext]_qaVars PROVE QaInvariant'
  OBVIOUS
<1>. USE DEF QaInvariant
<1>1. /\ report.steps \in Seq(StepKinds) /\ report.commands \in Nat /\ report.passed \in BOOLEAN
      /\ Shots \subseteq DOMAIN report.steps /\ DOMAIN report.steps = 1 .. Len(report.steps)
      /\ Len(report.steps) \in Nat
  BY DEF QaTypeOK, ReportShape, Shots
<1>2. CASE Complete
  BY <1>1, <1>2 DEF Complete, QaTypeOK, VerdictSoFar, VerdictIsEarned
<1>3. CASE RunCommand
  <2>1. PICK ok \in BOOLEAN : exits' = Append(exits, ok) /\ qaPassed' = Together(qaPassed, ok)
    BY <1>3 DEF RunCommand
  <2>2. qaPassed' \in BOOLEAN /\ (qaPassed' => qaPassed /\ ok)
    BY <2>1, Zenon DEF Together, QaTypeOK
  <2>3. exits' \in Seq(BOOLEAN) /\ ((\A i \in DOMAIN exits : exits[i]) /\ ok => \A i \in DOMAIN exits' : exits'[i])
    BY <2>1 DEF QaTypeOK
  <2>. QED  BY <1>1, <1>3, <2>2, <2>3 DEF RunCommand, QaTypeOK, VerdictSoFar, VerdictIsEarned
<1>4. CASE OpenSession
  <2>1. /\ qaStage = "commands" /\ Len(exits) = report.commands
        /\ UNCHANGED <<report, qaPassed, exits, at, page, trace, shot, shown>>
    BY <1>4 DEF OpenSession
  <2>2. CASE report.steps = <<>>
    <3>1. qaStage' = "evidence" /\ UNCHANGED <<try, route>>
      BY <1>4, <2>2 DEF OpenSession
    <3>. QED  BY <1>1, <2>1, <2>2, <3>1 DEF QaTypeOK, VerdictSoFar, VerdictIsEarned
  <2>3. CASE report.steps # <<>> /\ \E i \in DOMAIN report.steps : report.steps[i] = "unknown"
    <3>1. qaStage' = "done" /\ route' = "failed" /\ UNCHANGED try
      BY <1>4, <2>3 DEF OpenSession
    <3>. QED  BY <1>1, <2>1, <3>1 DEF QaTypeOK, VerdictSoFar, VerdictIsEarned
  <2>4. CASE report.steps # <<>> /\ ~\E i \in DOMAIN report.steps : report.steps[i] = "unknown"
    <3>1. qaStage' = "browser" /\ try' = 1 /\ UNCHANGED route
      BY <1>4, <2>4 DEF OpenSession
    <3>2. Did(at)'
      BY <1>1, <2>1 DEF Did, VerdictSoFar, Shots
    <3>. QED  BY <1>1, <2>1, <3>1, <3>2 DEF QaTypeOK, VerdictSoFar, VerdictIsEarned
  <2>. QED  BY <2>2, <2>3, <2>4
<1>5. ASSUME qaStage = "browser", AttemptFails, UNCHANGED <<trace, shot>> PROVE QaInvariant'
  <2>1. UNCHANGED <<report, exits, shown, route>>
    BY <1>5 DEF AttemptFails
  <2>2. CASE try < SandboxAttempts
    <3>1. try' = try + 1 /\ at' = 1 /\ UNCHANGED <<qaStage, qaPassed>>
      BY <1>5, <2>2 DEF AttemptFails
    <3>2. Did(at)'
      BY <1>1, <2>1, <3>1 DEF Did, Shots
    <3>. QED  BY <1>1, <1>5, <2>1, <3>1, <3>2 DEF QaTypeOK, VerdictSoFar, VerdictIsEarned
  <2>3. CASE ~(try < SandboxAttempts)
    <3>1. qaStage' = "evidence" /\ qaPassed' = Together(qaPassed, FALSE) /\ UNCHANGED <<try, at>>
      BY <1>5, <2>3 DEF AttemptFails
    <3>2. qaPassed' = FALSE
      BY <3>1, Zenon DEF Together
    <3>. QED  BY <1>5, <2>1, <3>1, <3>2 DEF QaTypeOK, VerdictSoFar, VerdictIsEarned
  <2>. QED  BY <2>2, <2>3
<1>6. CASE ExecuteStep
  <2>1. qaStage = "browser" /\ at <= Len(report.steps)
    BY <1>6 DEF ExecuteStep
  <2>2. CASE AttemptFails /\ UNCHANGED <<trace, shot>>
    BY <1>5, <2>1, <2>2
  <2>3. CASE /\ at' = at + 1 /\ trace' = trace \cup {[try |-> try, step |-> at]}
             /\ shot' = Saved(report.steps[at])
             /\ UNCHANGED <<report, qaStage, qaPassed, exits, try, shown, route>>
    <3>1. Did(at)
      BY <2>1 DEF VerdictSoFar
    <3>2. Did(at)'
      <4>1. \A i \in DOMAIN report.steps : i < at + 1 => i < at \/ i = at
        BY <1>1 DEF QaTypeOK
      <4>2. \A i \in DOMAIN report.steps : i < at + 1 => [try |-> try, step |-> i] \in trace'
        BY <2>3, <3>1, <4>1 DEF Did
      <4>3. ASSUME NEW i \in Shots, i < at + 1 PROVE shot' = try
        <5>1. CASE i = at
          BY <2>3, <4>3, <5>1 DEF Saved, Shots
        <5>2. CASE i # at
          BY <1>1, <2>3, <3>1, <4>1, <4>3, <5>2 DEF Saved, Did
        <5>. QED  BY <5>1, <5>2
      <4>. QED  BY <2>3, <4>2, <4>3 DEF Did, Shots
    <3>. QED  BY <1>1, <2>1, <2>3, <3>2 DEF QaTypeOK, VerdictSoFar, VerdictIsEarned
  <2>. QED  BY <1>6, <2>2, <2>3 DEF ExecuteStep
<1>9. CASE Finalize
  <2>1. qaStage = "browser" /\ at > Len(report.steps)
    BY <1>9 DEF Finalize
  <2>2. CASE AttemptFails /\ UNCHANGED <<trace, shot>>
    BY <1>5, <2>1, <2>2
  <2>3. CASE /\ qaStage' = "evidence" /\ qaPassed' = Together(qaPassed, TRUE)
             /\ shown' = shown \cup (IF Shots = {} THEN {} ELSE {try})
             /\ UNCHANGED <<report, exits, try, at, trace, shot, route>>
    <3>1. qaPassed' = qaPassed
      BY <2>3, Zenon DEF Together, QaTypeOK
    <3>2. Did(at) /\ shown = {} /\ \A i \in DOMAIN report.steps : i < at
      BY <1>1, <2>1 DEF VerdictSoFar, QaTypeOK
    <3>3. /\ \A i \in DOMAIN report'.steps : [try |-> try', step |-> i] \in trace'
          /\ \A t \in shown' : t = try' /\ shot' = try'
      <4>1. Shots # {} => shot = try
        BY <1>1, <3>2 DEF Did
      <4>2. \A i \in DOMAIN report.steps : [try |-> try, step |-> i] \in trace
        BY <3>2 DEF Did
      <4>3. shown' = IF Shots = {} THEN {} ELSE {try}
        BY <2>3, <3>2
      <4>4. UNCHANGED <<report, try, trace, shot>>
        BY <2>3
      <4>5. \A t \in shown' : t = try' /\ shot' = try'
        BY <4>1, <4>3, <4>4
      <4>. QED  BY <4>2, <4>4, <4>5
    <3>4. qaStage' = "evidence" /\ UNCHANGED <<report, exits, try, at, route>>
      BY <2>3
    <3>. QED  BY <1>1, <2>1, <3>1, <3>3, <3>4 DEF QaTypeOK, VerdictSoFar, VerdictIsEarned
  <2>. QED  BY <1>9, <2>2, <2>3 DEF Finalize
<1>7. CASE Conclude
  BY <1>1, <1>7 DEF Conclude, QaTypeOK, VerdictSoFar, VerdictIsEarned
<1>8. CASE UNCHANGED qaVars
  BY <1>8 DEF qaVars, QaTypeOK, VerdictSoFar, VerdictIsEarned, Did, Shots
<1>. QED  BY <1>2, <1>3, <1>4, <1>6, <1>7, <1>8, <1>9 DEF QaNext

(* The workflow goes on after QA only if the model passed the work, every  *)
(* command it named was run and returned 0, and one attempt of the browser *)
(* did every step; a screenshot the report names is of that attempt.       *)
THEOREM VerdictsAreEarned == QaSpec => []VerdictIsEarned
<1>1. QaInit => QaInvariant
  <2> SUFFICES ASSUME QaInit PROVE QaInvariant
    OBVIOUS
  <2>1. report \in ReportShape /\ exits = <<>> /\ exits \in Seq(BOOLEAN)
    BY QaAssumption DEF QaInit
  <2>2. QaTypeOK
    <3>1. qaPassed \in BOOLEAN
      BY Zenon DEF QaInit
    <3>2. try \in Nat /\ at \in Nat \ {0} /\ qaStage = "asked"
      BY DEF QaInit
    <3>. QED  BY <2>1, <3>1, <3>2 DEF QaTypeOK
  <2>3. VerdictSoFar /\ VerdictIsEarned
    BY <2>1 DEF QaInit, VerdictSoFar, VerdictIsEarned
  <2>. QED  BY <2>2, <2>3 DEF QaInvariant
<1>. QED  BY <1>1, QaInvariantIsKept, PTL DEF QaSpec, QaInvariant

-----------------------------------------------------------------------------
CallSpec == AgentInit /\ [][AgentNext]_agentVars

Permanent == {"validation", "governance", "auth", "model", "unsupported"}

(* What the engine makes of an error's signs.                              *)
LEMMA ClassifiedRight ==
    ASSUME NEW signs
    PROVE  /\ Classify(signs) = "retryable" =>
                "transient" \in signs /\ "context" \notin signs /\ signs \cap Permanent = {}
           /\ Classify(signs) = "compression" => "context" \in signs
<1>. DEFINE found(i) == /\ Classes[i][1] \in signs
                        /\ \A j \in 1 .. (i - 1) : Classes[j][1] \notin signs
<1>1. DOMAIN Classes = 1 .. 7
  BY DEF Classes
<1>2. /\ Classes[1] = <<"context", "compression">> /\ Classes[2] = <<"validation", "never">>
      /\ Classes[3] = <<"governance", "never">> /\ Classes[4] = <<"auth", "never">>
      /\ Classes[5] = <<"model", "manual">> /\ Classes[6] = <<"unsupported", "never">>
      /\ Classes[7] = <<"transient", "retryable">>
  BY DEF Classes
<1>3. CASE \E i \in 1 .. 7 : Classes[i][1] \in signs
  <2>1. \E i \in 1 .. 7 : found(i)
    <3>1. found(1) \/ found(2) \/ found(3) \/ found(4) \/ found(5) \/ found(6) \/ found(7)
      BY <1>2, <1>3
    <3>. QED  BY <3>1
  <2>2. PICK i \in 1 .. 7 : found(i) /\ Classify(signs) = Classes[i][2]
    <3>. HIDE DEF found
    <3>1. Classify(signs) = Classes[CHOOSE i \in DOMAIN Classes : found(i)][2]
      BY <1>1, <1>3 DEF Classify, found
    <3>. QED  BY <1>1, <2>1, <3>1
  <2>3. \/ i = 1 /\ Classify(signs) = "compression" /\ "context" \in signs
        \/ i \in 2 .. 6 /\ Classify(signs) \in {"never", "manual"}
        \/ i = 7 /\ Classify(signs) = "retryable"
    BY <1>2, <2>2
  <2>4. i = 7 => "transient" \in signs /\ "context" \notin signs /\ signs \cap Permanent = {}
    BY <1>2, <2>2 DEF Permanent
  <2>. QED  BY <2>3, <2>4
<1>4. CASE ~\E i \in 1 .. 7 : Classes[i][1] \in signs
  <2>1. Classify(signs) = "never"
    BY <1>1, <1>4 DEF Classify
  <2>. QED  BY <2>1
<1>. QED  BY <1>3, <1>4

SignSets == Faults \cup {{"context"}, {"validation"}, {"governance"}}

(* An attempt that was followed by another was worth it, and at most one   *)
(* of them was followed for the compression.                               *)
WorthRepeating(i) ==
    \/ "transient" \in failures[i] /\ "context" \notin failures[i] /\ i < MaxAttempts
         /\ failures[i] \cap Permanent = {}
    \/ "context" \in failures[i] /\ compressed = TRUE

AttemptsStand ==
    /\ attempt \in Nat /\ compressed \in BOOLEAN /\ failures \in Seq(SignSets)
    /\ pc = "called" => attempt = 0 /\ failures = <<>> /\ compressed = FALSE
    /\ pc \notin {"called", "answered"} => attempt = Len(failures) + 1
    /\ Len(failures) <= attempt
    /\ attempt <= MaxAttempts + (IF compressed = TRUE THEN 1 ELSE 0)
    /\ \A i \in DOMAIN failures : i < attempt => WorthRepeating(i)
    /\ \A i, j \in DOMAIN failures :
         i < attempt /\ j < attempt /\ "context" \in failures[i] /\ "context" \in failures[j]
           => i = j

LEMMA RaisesStand ==
    ASSUME AttemptsStand, pc \notin {"called", "answered"}, NEW signs \in SignSets, Raise(signs)
    PROVE  AttemptsStand'
<1>1. attempt = Len(failures) + 1 /\ Len(failures) \in Nat /\ MaxAttempts \in Nat
  BY AgentAssumption DEF AttemptsStand
<1>2. attempt < MostAttempts /\ Len(failures) < MostAttempts
  BY <1>1 DEF AttemptsStand, MostAttempts
<1>3. failures' = Append(failures, signs)
  BY <1>1, <1>2 DEF Raise
<1>4. /\ failures' \in Seq(SignSets) /\ Len(failures') = attempt /\ failures'[attempt] = signs
      /\ \A i \in DOMAIN failures' : i < attempt => i \in DOMAIN failures /\ failures'[i] = failures[i]
  BY <1>1, <1>3 DEF AttemptsStand
<1>5. compressed' = (compressed \/ Compresses(signs))
  BY DEF Raise
<1>6. compressed' \in BOOLEAN /\ (compressed = TRUE => compressed' = TRUE)
      /\ (Compresses(signs) => compressed' = TRUE /\ compressed = FALSE)
  BY <1>5, Zenon DEF AttemptsStand, Compresses
<1>7. CASE TriedAgain(signs)
  <2>1. attempt' = attempt + 1 /\ pc' \in {"resolving", "prompting"}
    BY <1>2, <1>7 DEF Raise, BeginAttempt
  <2>2. \/ Compresses(signs) /\ "context" \in signs
        \/ /\ attempt < MaxAttempts
           /\ "transient" \in signs /\ "context" \notin signs /\ signs \cap Permanent = {}
    BY <1>7, ClassifiedRight DEF TriedAgain, Compresses
  <2>3. attempt' <= MaxAttempts + (IF compressed' = TRUE THEN 1 ELSE 0)
    BY <1>1, <1>6, <2>1, <2>2 DEF AttemptsStand
  <2>4. ASSUME NEW i \in DOMAIN failures' PROVE WorthRepeating(i)'
    <3>1. CASE i < attempt
      BY <1>4, <1>6, <3>1 DEF AttemptsStand, WorthRepeating
    <3>2. CASE ~(i < attempt)
      <4>1. i = attempt
        BY <1>1, <1>4, <3>2
      <4>. QED  BY <1>4, <1>6, <2>2, <4>1 DEF WorthRepeating
    <3>. QED  BY <3>1, <3>2
  <2>5. ASSUME NEW i \in DOMAIN failures', NEW j \in DOMAIN failures',
               "context" \in failures'[i], "context" \in failures'[j]
        PROVE  i = j
    <3>1. \A k \in DOMAIN failures' : k < attempt \/ k = attempt
      BY <1>1, <1>4
    <3>2. ASSUME NEW k \in DOMAIN failures', k < attempt, "context" \in failures'[k]
          PROVE  compressed = TRUE
      BY <1>4, <3>2 DEF AttemptsStand, WorthRepeating
    <3>3. "context" \in signs => compressed = FALSE
      BY <1>6, <2>2
    <3>. QED  BY <1>4, <2>5, <3>1, <3>2, <3>3 DEF AttemptsStand
  <2>. QED  BY <1>1, <1>4, <1>6, <2>1, <2>3, <2>4, <2>5 DEF AttemptsStand
<1>8. CASE ~TriedAgain(signs)
  <2>1. pc' = "answered" /\ attempt' = attempt
    BY <1>8 DEF Raise, Answer
  <2>2. \A i \in DOMAIN failures' : i < attempt => WorthRepeating(i)'
    BY <1>4, <1>6 DEF AttemptsStand, WorthRepeating
  <2>3. attempt' <= MaxAttempts + (IF compressed' = TRUE THEN 1 ELSE 0)
    BY <1>1, <1>6, <2>1 DEF AttemptsStand
  <2>. QED  BY <1>1, <1>4, <1>6, <2>1, <2>2, <2>3 DEF AttemptsStand
<1>. QED  BY <1>7, <1>8

(* The repository the developer writes to, and what is committed there.    *)
CommitsStand ==
    /\ result.pullRequest \in BOOLEAN
    /\ result.pullRequest = TRUE => pc = "answered"
    /\ pc \in {"applying", "committing"} => head = Clone(call)
    /\ pc = "applying" => tree = Clone(call)
    /\ pc = "committing" =>
         Refused(merged, Clone(call)) = {} /\ tree = Apply(merged, Clone(call), {})

CallTypeOK ==
    /\ call \in CallShape
    /\ pc \in {"called", "prompting", "invoking", "resolving", "passing", "cloning", "applying",
               "committing", "answered"}
    /\ pc \in {"prompting", "invoking"} => call.agent # "developer"

CallInvariant == CallTypeOK /\ AttemptsStand /\ CommitsStand /\ CommitsCarryTheOutput

LEMMA NoPullRequest ==
    /\ NoResult.pullRequest = FALSE
    /\ \A s, e, r, w :
         /\ [NoResult EXCEPT !.status = s].pullRequest = FALSE
         /\ [NoResult EXCEPT !.status = s, !.error = e].pullRequest = FALSE
         /\ [Completed EXCEPT !.error = e, !.route = r].pullRequest = FALSE
         /\ [Completed EXCEPT !.route = r].pullRequest = FALSE
         /\ [Completed EXCEPT !.warned = w].pullRequest = FALSE
BY DEF NoResult, Completed

(* A step that the engine does not see: it repeats nothing.                *)
LEMMA CalmStepsStand ==
    ASSUME CallInvariant, Calm, pc' # "called",
           pc \notin {"called", "answered"}
    PROVE  AttemptsStand'
BY DEF CallInvariant, AttemptsStand, Calm, WorthRepeating

LEMMA RaisesKeepCommits ==
    ASSUME CallInvariant, pc \notin {"called", "answered"}, NEW signs \in SignSets, Raise(signs)
    PROVE  CallInvariant'
<1>1. AttemptsStand'
  BY RaisesStand DEF CallInvariant
<1>2. UNCHANGED call
  BY DEF Raise
<1>3. result.pullRequest = FALSE
  BY DEF CallInvariant, CommitsStand
<1>4. CASE TriedAgain(signs)
  <2>1. pc' \in {"resolving", "prompting"} /\ result' = result
    BY <1>4 DEF Raise, BeginAttempt
  <2>2. pc' = "prompting" => call.agent # "developer"
    BY <1>4 DEF Raise, BeginAttempt
  <2>. QED  BY <1>1, <1>2, <1>3, <2>1, <2>2
            DEF CallInvariant, CallTypeOK, CommitsStand, CommitsCarryTheOutput
<1>5. CASE ~TriedAgain(signs)
  <2>1. pc' = "answered" /\ result' = [NoResult EXCEPT !.status = "failed", !.error = ErrorType(signs)]
    BY <1>5 DEF Raise, Answer
  <2>2. result'.pullRequest = FALSE
    BY <2>1, NoPullRequest
  <2>. QED  BY <1>1, <1>2, <2>1, <2>2 DEF CallInvariant, CallTypeOK, CommitsStand, CommitsCarryTheOutput
<1>. QED  BY <1>4, <1>5

(* A step up to the repository, or an answer without a pull request.       *)
LEMMA QuietStepsStand ==
    ASSUME CallInvariant, Calm, pc \notin {"called", "answered"},
           \/ pc' \in {"invoking", "passing", "cloning"} /\ result'.pullRequest = FALSE
              /\ (pc' = "invoking" => call.agent # "developer")
           \/ pc' = "answered" /\ result'.pullRequest = FALSE
    PROVE  CallInvariant'
<1>1. AttemptsStand'
  BY CalmStepsStand
<1>2. call' = call
  BY DEF Calm
<1>. QED  BY <1>1, <1>2 DEF CallInvariant, CallTypeOK, CommitsStand, CommitsCarryTheOutput

LEMMA ExecuteWell ==
    ASSUME CallInvariant, Execute
    PROVE  CallInvariant'
<1>1. /\ pc = "called" /\ UNCHANGED <<call, compressed, failures>> /\ attempt = 0
      /\ failures = <<>> /\ compressed = FALSE /\ result.pullRequest = FALSE
  BY DEF Execute, CallInvariant, AttemptsStand, CommitsStand
<1>2. MostAttempts \in Nat /\ 0 < MostAttempts /\ MaxAttempts \in Nat /\ 1 <= MaxAttempts
  BY AgentAssumption DEF MostAttempts
<1>3. CASE call.mine
  <2>1. /\ attempt' = 1 /\ pc' \in {"resolving", "prompting"} /\ result' = result
        /\ (pc' = "prompting" => call.agent # "developer")
    BY <1>1, <1>2, <1>3 DEF Execute, BeginAttempt
  <2>. QED  BY <1>1, <1>2, <2>1 DEF CallInvariant, CallTypeOK, AttemptsStand, CommitsStand,
                                    CommitsCarryTheOutput
<1>4. CASE ~call.mine
  <2>1. attempt' = 0 /\ pc' = "answered" /\ result'.pullRequest = FALSE
    BY <1>1, <1>4, NoPullRequest DEF Execute, Answer
  <2>2. /\ failures' = <<>> /\ compressed' = FALSE /\ call' = call
        /\ Len(failures') = 0 /\ DOMAIN failures' = {} /\ failures' \in Seq(SignSets)
    BY <1>1
  <2>3. AttemptsStand'
    <3>1. compressed' \in BOOLEAN /\ attempt' \in Nat
      BY <2>1, <2>2
    <3>2. \A i \in DOMAIN failures' : FALSE
      BY <2>2
    <3>3. /\ Len(failures') <= attempt'
          /\ attempt' <= MaxAttempts + (IF compressed' = TRUE THEN 1 ELSE 0)
      BY <1>2, <2>1, <2>2
    <3>. QED  BY <2>1, <2>2, <3>1, <3>2, <3>3 DEF AttemptsStand
  <2>4. CommitsStand' /\ CommitsCarryTheOutput'
    BY <2>1 DEF CommitsStand, CommitsCarryTheOutput
  <2>5. CallTypeOK'
    BY <2>1, <2>2 DEF CallInvariant, CallTypeOK
  <2>. QED  BY <2>3, <2>4, <2>5 DEF CallInvariant
<1>. QED  BY <1>3, <1>4

LEMMA InvokeWell ==
    ASSUME CallInvariant, Prompt \/ Invoke \/ InvokeFails \/ PassMalformed \/ GitRaises
    PROVE  CallInvariant'
<1>1. /\ {"context"} \in SignSets /\ {"validation"} \in SignSets /\ {"governance"} \in SignSets
      /\ Faults \subseteq SignSets
  BY DEF SignSets
<1>2. CASE Prompt
  <2>1. CASE call.prompt = "too_large"
    BY <1>1, <1>2, <2>1, RaisesKeepCommits DEF Prompt
  <2>2. CASE call.prompt # "too_large"
    <3>1. /\ pc = "prompting" /\ pc' = "invoking" /\ Calm /\ result' = result
          /\ call.agent # "developer"
      BY <1>2, <2>2 DEF Prompt, CallInvariant, CallTypeOK
    <3>2. result.pullRequest = FALSE
      BY <3>1 DEF CallInvariant, CommitsStand
    <3>. QED  BY <3>1, <3>2, QuietStepsStand
  <2>. QED  BY <2>1, <2>2
<1>3. CASE InvokeFails
  BY <1>1, <1>3, RaisesKeepCommits DEF InvokeFails
<1>4. CASE PassMalformed
  BY <1>1, <1>4, RaisesKeepCommits DEF PassMalformed
<1>5. CASE GitRaises
  BY <1>1, <1>5, RaisesKeepCommits DEF GitRaises
<1>6. CASE Invoke
  <2>1. pc = "invoking"
    BY <1>6 DEF Invoke
  <2>2. PICK governed \in {"fine", "text", "parsed"}, valid \in BOOLEAN,
             way \in (IF call.agent = "qa" THEN {"continue", "reject"} ELSE {"none"}) :
         CASE governed = "text" -> Raise({"governance"})
           [] governed # "text" /\ ~valid /\ call.agent = "ba" -> Raise({"validation"})
           [] governed # "text" /\ ~valid /\ call.agent = "qa" ->
                /\ Answer([Completed EXCEPT !.error = "schema_contract_error", !.route = "continue"])
                /\ Calm /\ Still
           [] governed = "parsed" /\ valid -> Raise({"governance"})
           [] governed = "fine" /\ valid ->
                Answer([Completed EXCEPT !.route = way]) /\ Calm /\ Still
    BY <1>6 DEF Invoke
  <2>3. call.agent \in {"ba", "qa"}
    BY <2>1 DEF CallInvariant, CallTypeOK, CallShape
  <2>4. \/ Raise({"governance"})
        \/ Raise({"validation"})
        \/ \E r \in {[Completed EXCEPT !.error = "schema_contract_error", !.route = "continue"],
                    [Completed EXCEPT !.route = way]} : Answer(r) /\ Calm
    BY <2>2, <2>3, Zenon
  <2>5. CASE Raise({"governance"}) \/ Raise({"validation"})
    BY <1>1, <2>1, <2>5, RaisesKeepCommits
  <2>6. CASE \E r \in {[Completed EXCEPT !.error = "schema_contract_error", !.route = "continue"],
                       [Completed EXCEPT !.route = way]} : Answer(r) /\ Calm
    <3>1. pc' = "answered" /\ Calm
      BY <2>6 DEF Answer
    <3>2. \/ result' = [Completed EXCEPT !.error = "schema_contract_error", !.route = "continue"]
          \/ result' = [Completed EXCEPT !.route = way]
      BY <2>6 DEF Answer
    <3>3. result'.pullRequest = FALSE
      <4>1. CASE result' = [Completed EXCEPT !.route = way]
        BY <4>1 DEF Completed, NoResult
      <4>2. CASE result' = [Completed EXCEPT !.error = "schema_contract_error", !.route = "continue"]
        BY <4>2 DEF Completed, NoResult
      <4>. QED  BY <3>2, <4>1, <4>2
    <3>. QED  BY <2>1, <3>1, <3>3, QuietStepsStand
  <2>. QED  BY <2>4, <2>5, <2>6
<1>. QED  BY <1>2, <1>3, <1>4, <1>5, <1>6

LEMMA DevelopWell ==
    ASSUME CallInvariant, Resolve \/ DevelopPass \/ PassesEnd
    PROVE  CallInvariant'
<1>1. CASE Resolve
  <2>1. pc = "resolving" /\ Calm /\ result.pullRequest = FALSE
    BY <1>1 DEF Resolve, CallInvariant, CommitsStand
  <2>2. \/ pc' = "passing" /\ result' = result
        \/ pc' = "answered" /\ result' = [NoResult EXCEPT !.status = "failed",
                                                          !.error = "schema_contract_error"]
    BY <1>1 DEF Resolve, Answer
  <2>3. result'.pullRequest = FALSE
    BY <2>1, <2>2 DEF NoResult
  <2>. QED  BY <2>1, <2>2, <2>3, QuietStepsStand
<1>2. CASE DevelopPass
  <2>1. pc = "passing" /\ pc' = "passing" /\ Calm /\ result' = result /\ result.pullRequest = FALSE
    BY <1>2 DEF DevelopPass, CallInvariant, CommitsStand
  <2>. QED  BY <2>1, QuietStepsStand
<1>3. CASE PassesEnd
  <2>1. pc = "passing"
    BY <1>3 DEF PassesEnd
  <2>2. \/ Raise({"governance"})
        \/ \E w \in BOOLEAN : /\ Calm /\ pc' \in {"cloning", "answered"}
                              /\ result' = [Completed EXCEPT !.warned = w]
    BY <1>3, Zenon DEF PassesEnd, Answer
  <2>3. CASE Raise({"governance"})
    BY <2>1, <2>3, RaisesKeepCommits DEF SignSets
  <2>4. CASE \E w \in BOOLEAN : /\ Calm /\ pc' \in {"cloning", "answered"}
                                /\ result' = [Completed EXCEPT !.warned = w]
    <3>1. Calm /\ pc' \in {"cloning", "answered"} /\ result'.pullRequest = FALSE
      BY <2>4, NoPullRequest
    <3>. QED  BY <2>1, <3>1, QuietStepsStand
  <2>. QED  BY <2>2, <2>3, <2>4
<1>. QED  BY <1>1, <1>2, <1>3

(* A workspace to which the whole output was applied carries it.           *)
LEMMA AppliedIsCarried ==
    ASSUME call \in CallShape, Refused(merged, Clone(call)) = {}, NEW p \in Paths
    PROVE  Carries(Apply(merged, Clone(call), {}), p)
<1>. DEFINE files == Apply(merged, Clone(call), {})
            code == With(merged).code
            tests == With(merged).tests
            gone == {q \in code : merged.code[q].op = "delete"}
<1>1. DOMAIN Clone(call) = call.tracked /\ \A q \in call.tracked : Clone(call)[q] = <<"clone", 0>>
  BY DEF Clone
<1>2. /\ Done(merged, Clone(call), {}).code = code
      /\ Done(merged, Clone(call), {}).tests = tests
  BY DEF Done, Lists
<1>3. files = [q \in ((call.tracked \cup code) \ gone) \cup tests |->
                 CASE q \in tests -> <<"tests", merged.tests[q].by>>
                   [] q \in code \ tests -> <<"code", merged.code[q].by>>
                   [] OTHER -> Clone(call)[q]]
  BY <1>1, <1>2 DEF Apply
<1>4. /\ DOMAIN files = ((call.tracked \cup code) \ gone) \cup tests
      /\ \A q \in DOMAIN files :
            /\ q \in tests => files[q] = <<"tests", merged.tests[q].by>>
            /\ q \in code \ tests => files[q] = <<"code", merged.code[q].by>>
            /\ q \notin code \cup tests => files[q] = Clone(call)[q]
  BY <1>3
<1>5. gone \subseteq code /\ \A q \in code : q \in gone <=> merged.code[q].op = "delete"
  OBVIOUS
<1>6. Carries(files, p) =
        CASE p \in tests -> p \in DOMAIN files /\ files[p] = <<"tests", merged.tests[p].by>>
          [] p \in code \ tests ->
               IF merged.code[p].op = "delete" THEN p \notin DOMAIN files
               ELSE p \in DOMAIN files /\ files[p] = <<"code", merged.code[p].by>>
          [] OTHER -> /\ (p \in DOMAIN files) = (p \in call.tracked)
                      /\ p \in DOMAIN files => files[p] = <<"clone", 0>>
  BY DEF Carries
<1>. HIDE DEF files, code, tests, gone
<1>7. Carries(files, p)
  <2>1. CASE p \in tests
    BY <1>4, <1>6, <2>1
  <2>2. CASE p \in code \ tests
    BY <1>4, <1>5, <1>6, <2>2
  <2>3. CASE p \notin code \cup tests
    BY <1>1, <1>4, <1>5, <1>6, <2>3
  <2>. QED  BY <2>1, <2>2, <2>3
<1>. QED  BY <1>7 DEF files

(* What is staged of it carries what is not ignored.                       *)
LEMMA StagedIsCarried ==
    ASSUME NEW files, NEW p, Carries(files, p)
    PROVE  IF p \in call.ignored \ call.tracked THEN p \notin DOMAIN Staged(files)
           ELSE Carries(Staged(files), p)
<1>1. DOMAIN Staged(files) = {q \in DOMAIN files : q \in call.ignored => q \in call.tracked}
      /\ \A q \in DOMAIN Staged(files) : Staged(files)[q] = files[q]
  BY DEF Staged
<1>2. CASE p \in call.ignored \ call.tracked
  BY <1>1, <1>2
<1>3. CASE p \notin call.ignored \ call.tracked
  <2>1. /\ (p \in DOMAIN Staged(files)) = (p \in DOMAIN files)
        /\ p \in DOMAIN files => Staged(files)[p] = files[p]
    BY <1>1, <1>3
  <2>2. Carries(Staged(files), p)
    BY <2>1 DEF Carries
  <2>. QED  BY <1>3, <2>2
<1>. QED  BY <1>2, <1>3

(* Neither depends on anything but the output and the clone.               *)
LEMMA AppliedAlike ==
    ASSUME merged' = merged, Clone(call)' = Clone(call)
    PROVE  /\ Refused(merged, Clone(call))' = Refused(merged, Clone(call))
           /\ Apply(merged, Clone(call), {})' = Apply(merged, Clone(call), {})
<1>1. With(merged)' = With(merged)
  BY DEF With
<1>2. Refused(merged, Clone(call))' = Refused(merged, Clone(call))
  BY <1>1 DEF Refused
<1>3. Done(merged, Clone(call), {})' = Done(merged, Clone(call), {})
  BY <1>1, <1>2 DEF Done
<1>. QED  BY <1>2, <1>3, Zenon DEF Apply

LEMMA RepositoryWell ==
    ASSUME CallInvariant, CloneRepository \/ ApplyOutput \/ Commit
    PROVE  CallInvariant'
<1>0. call \in CallShape
  BY DEF CallInvariant, CallTypeOK
<1>1. CASE CloneRepository
  <2>1. pc = "cloning" /\ Calm /\ UNCHANGED <<merged, result>> /\ call' = call
    BY <1>1 DEF CloneRepository, Calm
  <2>2. result'.pullRequest = FALSE
    BY <2>1 DEF CallInvariant, CommitsStand
  <2>3. \/ tree' = Clone(call) /\ head' = Clone(call) /\ pc' \in {"applying", "answered"}
        \/ pc' = "answered"
    BY <1>1 DEF CloneRepository
  <2>4. AttemptsStand'
    BY <2>1, <2>3, CalmStepsStand
  <2>5. Clone(call)' = Clone(call)
    BY <2>1 DEF Clone
  <2>6. CommitsStand' /\ CommitsCarryTheOutput'
    BY <2>2, <2>3, <2>5 DEF CommitsStand, CommitsCarryTheOutput
  <2>. QED  BY <2>1, <2>3, <2>4, <2>6 DEF CallInvariant, CallTypeOK
<1>2. CASE ApplyOutput
  <2>1. /\ pc = "applying" /\ Calm /\ UNCHANGED <<merged, head, result>> /\ call' = call
        /\ head = Clone(call) /\ tree = Clone(call)
    BY <1>2 DEF ApplyOutput, Calm, CallInvariant, CommitsStand
  <2>2. result'.pullRequest = FALSE
    BY <2>1 DEF CallInvariant, CommitsStand
  <2>3. PICK broken : /\ tree' = Apply(merged, tree, broken)
                      /\ pc' = IF Errors(merged, tree, broken) # {} \/ Diff(tree', head) = {}
                               THEN "answered" ELSE "committing"
    BY <1>2 DEF ApplyOutput
  <2>4. AttemptsStand'
    BY <2>1, <2>3, CalmStepsStand
  <2>5. Clone(call)' = Clone(call)
    BY <2>1 DEF Clone
  <2>6. pc' = "committing" => Refused(merged, Clone(call)) = {} /\ broken = {}
    <3>. SUFFICES ASSUME pc' = "committing" PROVE Refused(merged, tree) = {} /\ broken = {}
      BY <2>1
    <3>1. Errors(merged, tree, broken) = {}
      BY <2>3
    <3>2. \A p \in Refused(merged, tree) : <<"code", p>> \in Errors(merged, tree, broken)
      BY DEF Errors
    <3>3. broken \subseteq Errors(merged, tree, broken)
      BY DEF Errors
    <3>. QED  BY <3>1, <3>2, <3>3
  <2>7. pc' = "committing" => /\ Refused(merged, Clone(call))' = {}
                              /\ tree' = Apply(merged, Clone(call), {})'
    BY <2>1, <2>3, <2>5, <2>6, AppliedAlike
  <2>8. CommitsStand' /\ CommitsCarryTheOutput'
    BY <2>1, <2>2, <2>3, <2>5, <2>7 DEF CommitsStand, CommitsCarryTheOutput
  <2>. QED  BY <2>1, <2>3, <2>4, <2>8 DEF CallInvariant, CallTypeOK
<1>3. CASE Commit
  <2>1. /\ pc = "committing" /\ Calm /\ UNCHANGED <<merged, tree>> /\ call' = call
        /\ head' \in {Staged(tree), head} /\ pc' = "answered" /\ result' = Prepared
        /\ Refused(merged, Clone(call)) = {} /\ tree = Apply(merged, Clone(call), {})
        /\ head = Clone(call)
    BY <1>3 DEF Commit, Answer, Calm, CallInvariant, CommitsStand
  <2>2. AttemptsStand'
    BY <2>1, CalmStepsStand
  <2>3. Clone(call)' = Clone(call)
    BY <2>1 DEF Clone
  <2>4. ASSUME head' # Clone(call), NEW p \in Paths
        PROVE  /\ (IF p \in call.ignored \ call.tracked THEN p \notin DOMAIN head ELSE Carries(head, p))'
               /\ (p \in With(merged).code /\ p \in call.tracked => merged.code[p].op # "create")'
    <3>1. head' = Staged(tree)
      BY <2>1, <2>4
    <3>2. Carries(tree, p)
      BY <1>0, <2>1, AppliedIsCarried
    <3>3. IF p \in call.ignored \ call.tracked THEN p \notin DOMAIN head' ELSE Carries(head', p)
      BY <3>1, <3>2, StagedIsCarried
    <3>4. p \in With(merged).code /\ p \in call.tracked => merged.code[p].op # "create"
      BY <2>1 DEF Refused, Clone
    <3>5. Carries(head, p)' = Carries(head', p) /\ With(merged)' = With(merged)
      BY <2>1 DEF Carries, With
    <3>. QED  BY <2>1, <3>3, <3>4, <3>5
  <2>5. CommitsCarryTheOutput'
    BY <2>3, <2>4 DEF CommitsCarryTheOutput
  <2>6. CommitsStand'
    BY <2>1 DEF CommitsStand, Prepared, CallInvariant
  <2>. QED  BY <2>1, <2>2, <2>5, <2>6 DEF CallInvariant, CallTypeOK
<1>. QED  BY <1>1, <1>2, <1>3

LEMMA CallInvariantIsKept == CallInvariant /\ [AgentNext]_agentVars => CallInvariant'
<1>. SUFFICES ASSUME CallInvariant, [AgentNext]_agentVars PROVE CallInvariant'
  OBVIOUS
<1>1. CASE Execute
  BY <1>1, ExecuteWell
<1>2. CASE Prompt \/ Invoke \/ InvokeFails \/ PassMalformed \/ GitRaises
  BY <1>2, InvokeWell
<1>3. CASE Resolve \/ DevelopPass \/ PassesEnd
  BY <1>3, DevelopWell
<1>4. CASE CloneRepository \/ ApplyOutput \/ Commit
  BY <1>4, RepositoryWell
<1>5. CASE UNCHANGED agentVars
  <2>1. /\ call' = call /\ pc' = pc /\ attempt' = attempt /\ compressed' = compressed
        /\ failures' = failures /\ merged' = merged /\ tree' = tree /\ head' = head
        /\ result' = result
    BY <1>5 DEF agentVars
  <2>2. CallTypeOK' /\ AttemptsStand'
    BY <2>1 DEF CallInvariant, CallTypeOK, AttemptsStand, WorthRepeating
  <2>3. Clone(call)' = Clone(call)
    BY <2>1 DEF Clone
  <2>4. CommitsStand'
    BY <2>1, <2>3, AppliedAlike DEF CallInvariant, CommitsStand
  <2>5. CommitsCarryTheOutput'
    BY <2>1, <2>3 DEF CallInvariant, CommitsCarryTheOutput, Carries, With
  <2>. QED  BY <2>2, <2>4, <2>5 DEF CallInvariant
<1>. QED  BY <1>1, <1>2, <1>3, <1>4, <1>5 DEF AgentNext

LEMMA CallInvariantHolds == CallSpec => []CallInvariant
<1>1. AgentInit => CallInvariant
  <2> SUFFICES ASSUME AgentInit PROVE CallInvariant
    OBVIOUS
  <2>1. /\ call \in CallShape /\ pc = "called" /\ attempt = 0 /\ compressed = FALSE
        /\ failures = <<>> /\ result = NoResult
    BY AgentAssumption DEF AgentInit
  <2>2. MaxAttempts \in Nat
    BY AgentAssumption
  <2>3. AttemptsStand
    <3>1. failures \in Seq(SignSets) /\ Len(failures) = 0 /\ DOMAIN failures = {}
      BY <2>1
    <3>2. /\ attempt \in Nat /\ compressed \in BOOLEAN /\ Len(failures) <= attempt
          /\ attempt <= MaxAttempts + (IF compressed = TRUE THEN 1 ELSE 0)
      <4>1. compressed \in BOOLEAN
        BY <2>1
      <4>2. attempt = 0 /\ Len(failures) = 0
        BY <2>1, <3>1
      <4>. QED  BY <2>2, <4>1, <4>2
    <3>3. \A i \in DOMAIN failures : FALSE
      BY <3>1
    <3>. QED  BY <2>1, <3>1, <3>2, <3>3 DEF AttemptsStand
  <2>4. CommitsStand /\ CommitsCarryTheOutput
    BY <2>1, NoPullRequest DEF CommitsStand, CommitsCarryTheOutput
  <2>. QED  BY <2>1, <2>3, <2>4 DEF CallInvariant, CallTypeOK
<1>. QED  BY <1>1, CallInvariantIsKept, PTL DEF CallSpec

(* An attempt of an agent is only repeated after a transient error without *)
(* a permanent sign, fewer times than the policy's attempts, or once more  *)
(* after a prompt too large for its model was compressed.                  *)
THEOREM RetriesAreAlwaysEarned == CallSpec => []RetriesAreEarned
<1>1. CallInvariant => RetriesAreEarned
  <2> SUFFICES ASSUME AttemptsStand PROVE RetriesAreEarned
    BY DEF CallInvariant
  <2>. DEFINE repeated == {i \in DOMAIN failures : i < attempt}
              large == {i \in repeated : "context" \in failures[i]}
              rest == repeated \ large
  <2>1. \A i \in repeated : WorthRepeating(i)
    BY DEF AttemptsStand
  <2>2. \A i \in rest : "transient" \in failures[i] /\ failures[i] \cap Permanent = {}
    BY <2>1 DEF WorthRepeating
  <2>3. Cardinality(large) <= 1
    <3>1. CASE large = {}
      BY <3>1, FS_EmptySet
    <3>2. CASE large # {}
      <4>1. PICK i \in large : TRUE
        BY <3>2
      <4>2. large = {i}
        BY <4>1 DEF AttemptsStand
      <4>3. Cardinality({i}) = 1
        BY FS_Singleton
      <4>. QED  BY <4>2, <4>3
    <3>. QED  BY <3>1, <3>2
  <2>4. Cardinality(rest) < MaxAttempts
    <3>1. MaxAttempts \in Nat /\ 1 <= MaxAttempts
      BY AgentAssumption
    <3>2. rest \subseteq 1 .. (MaxAttempts - 1)
      BY <2>1, <3>1 DEF AttemptsStand, WorthRepeating
    <3>3. /\ IsFiniteSet(1 .. (MaxAttempts - 1))
          /\ Cardinality(1 .. (MaxAttempts - 1)) = MaxAttempts - 1
      BY <3>1, FS_Interval
    <3>4. Cardinality(rest) \in Nat /\ Cardinality(rest) <= MaxAttempts - 1
      <4>. HIDE DEF rest
      <4>1. IsFiniteSet(rest) /\ Cardinality(rest) <= Cardinality(1 .. (MaxAttempts - 1))
        BY <3>2, <3>3, FS_Subset
      <4>2. Cardinality(rest) \in Nat
        BY <4>1, FS_CardinalityType
      <4>. QED  BY <3>3, <4>1, <4>2
    <3>. QED  BY <3>1, <3>4
  <2>. QED  BY <2>2, <2>3, <2>4 DEF RetriesAreEarned, Permanent
<1>. QED  BY <1>1, CallInvariantHolds, PTL

(* What the developer's call commits is its whole output over the clone    *)
(* and nothing else, whatever the passes answer and whatever fails.        *)
THEOREM CommitsAlwaysCarryTheOutput == CallSpec => []CommitsCarryTheOutput
<1>1. CallInvariant => CommitsCarryTheOutput
  BY DEF CallInvariant
<1>. QED  BY <1>1, CallInvariantHolds, PTL

-----------------------------------------------------------------------------
GraphSpec == GraphInit /\ [][GraphNext]_graphVars

(* A rejection sends the work back, as the default policy's qa to          *)
(* developer does in the workflow's order (RoutingPolicy); it may also     *)
(* name an agent that is not in the workflow.                              *)
RoutesGoBack ==
    \A i, j \in DOMAIN Sequence :
        Sequence[i] \in DOMAIN RejectionRoutes /\ RejectionRoutes[Sequence[i]] = Sequence[j]
          => j <= i

Snapshots == [attempt : Nat, failed : BOOLEAN, signal : Signals]

IsLast(s, a, i) ==
    /\ i \in DOMAIN s /\ s[i] = a
    /\ \A j \in DOMAIN s : j > i => s[j] # a

LastIn(s, a) == CHOOSE i \in DOMAIN s : s[i] = a /\ \A j \in DOMAIN s : j > i => s[j] # a

LEMMA LastIsUnique ==
    ASSUME NEW s \in Seq(Executables), NEW a, NEW i, IsLast(s, a, i)
    PROVE  LastIn(s, a) = i
<1>1. \A j \in DOMAIN s : s[j] = a /\ (\A k \in DOMAIN s : k > j => s[k] # a) => j = i
  BY DEF IsLast
<1>. QED  BY <1>1 DEF IsLast, LastIn

LEMMA LastAfterRun ==
    ASSUME NEW s \in Seq(Executables), NEW b \in Executables
    PROVE  /\ IsLast(Append(s, b), b, Len(s) + 1)
           /\ \A a, i : a # b /\ IsLast(s, a, i) => IsLast(Append(s, b), a, i)
BY DEF IsLast

GraphTypeOK ==
    /\ active \in Executables \cup {None}
    /\ DOMAIN snapshots \subseteq Executables
    /\ \A a \in DOMAIN snapshots : snapshots[a] \in Snapshots
    /\ journal \in Seq(Executables)
    /\ \A a \in DOMAIN snapshots : \E i \in Nat : IsLast(journal, a, i)
    /\ active \in DOMAIN snapshots \/ DOMAIN snapshots = {}

Settled(a) ==
    /\ ~snapshots[a].failed /\ snapshots[a].signal \notin {"retry", "fail"}
    /\ a \in DOMAIN RejectionRoutes /\ RejectionRoutes[a] \in Executables
         => snapshots[a].signal # "reject"

(* What lies before the active agent is done, in the order of the          *)
(* sequence; what lies after it may have to be done again.                 *)
DoneUpTo(k) ==
    \A i \in 1 .. (k - 1) :
        Sequence[i] \in DOMAIN snapshots =>
            /\ Settled(Sequence[i]) /\ Sequence[i + 1] \in DOMAIN snapshots
            /\ LastRun(Sequence[i]) < LastRun(Sequence[i + 1])

Behind ==
    \A k \in DOMAIN Sequence :
        Sequence[k] = active /\ active \in DOMAIN snapshots => DoneUpTo(k)

(* Where the supervisor sends the work: one step on from settled work, to  *)
(* the same agent, or back.                                                *)
Sent(target) ==
    \E m \in DOMAIN Sequence :
        /\ Sequence[m] = target
        /\ active \in DOMAIN snapshots =>
             \E k \in DOMAIN Sequence :
                 Sequence[k] = active /\ (m <= k \/ (m = k + 1 /\ Settled(active)))

Concluded ==
    active \in DOMAIN snapshots /\ snapshots[active].signal # "complete" =>
        Sequence[Len(Sequence)] = active /\ Settled(active)

DecisionStands ==
    /\ node = "agent" => Sent(decision.target)
    /\ node = "ended" /\ decision.signal = "complete" => Concluded

GraphInvariant == GraphTypeOK /\ Behind /\ DecisionStands

LEMMA NextAfterIs ==
    ASSUME NEW k \in DOMAIN Sequence
    PROVE  NextAfter(Sequence[k]) =
             IF k = Len(Sequence) THEN Decision(End, "complete")
             ELSE Decision(Sequence[k + 1], "continue")
<1>1. \A i \in DOMAIN Sequence : Sequence[i] = Sequence[k] => i = k
  BY SequenceAssumption DEF IsInjective
<1>2. (CHOOSE i \in DOMAIN Sequence : Sequence[i] = Sequence[k]) = k
  BY <1>1
<1>. QED  BY <1>2 DEF NextAfter

LEMMA RouteStands ==
    ASSUME RoutesGoBack, GraphTypeOK
    PROVE  /\ Route.target # End => Sent(Route.target)
           /\ Route.signal = "complete" => Concluded
<1>1. /\ \A e \in Executables : \E k \in DOMAIN Sequence : Sequence[k] = e
      /\ \A k \in DOMAIN Sequence : Sequence[k] \in Executables
  BY DEF Executables, ToSet
<1>2. Len(Sequence) \in Nat /\ DOMAIN Sequence = 1 .. Len(Sequence) /\ None \notin Executables
  BY SequenceAssumption DEF Executables
<1>3. CASE active = None
  <2>1. active \notin DOMAIN snapshots
    BY <1>2, <1>3 DEF GraphTypeOK
  <2>2. CASE Sequence = <<>>
    <3>1. Route = Decision(End, "complete")
      BY <1>3, <2>2 DEF Route
    <3>. QED  BY <2>1, <3>1 DEF Decision, Concluded
  <2>3. CASE Sequence # <<>>
    <3>1. Route = Decision(Head(Sequence), "continue")
      BY <1>3, <2>3 DEF Route
    <3>2. 1 \in DOMAIN Sequence /\ Head(Sequence) = Sequence[1]
      BY <1>2, <2>3, SequenceAssumption
    <3>. QED  BY <2>1, <3>1, <3>2 DEF Decision, Sent
  <2>. QED  BY <2>2, <2>3
<1>4. CASE active # None
  <2>1. PICK k \in DOMAIN Sequence : Sequence[k] = active
    BY <1>1, <1>4 DEF GraphTypeOK
  <2>2. NextAfter(active) = IF k = Len(Sequence) THEN Decision(End, "complete")
                            ELSE Decision(Sequence[k + 1], "continue")
    BY <2>1, NextAfterIs
  <2>3. ASSUME Route = NextAfter(active), active \in DOMAIN snapshots => Settled(active)
        PROVE  /\ Route.target # End => Sent(Route.target)
               /\ Route.signal = "complete" => Concluded
    <3>1. CASE k = Len(Sequence)
      <4>1. Route = Decision(End, "complete")
        BY <2>2, <2>3, <3>1
      <4>2. Concluded
        BY <2>1, <2>3, <3>1 DEF Concluded
      <4>. QED  BY <4>1, <4>2 DEF Decision
    <3>2. CASE k # Len(Sequence)
      <4>1. Route = Decision(Sequence[k + 1], "continue")
        BY <2>2, <2>3, <3>2
      <4>2. k + 1 \in DOMAIN Sequence
        BY <1>2, <2>1, <3>2
      <4>3. Sent(Sequence[k + 1])
        BY <2>1, <2>3, <4>2 DEF Sent
      <4>. QED  BY <4>1, <4>3 DEF Decision
    <3>. QED  BY <3>1, <3>2
  <2>4. CASE active \notin DOMAIN snapshots
    <3>1. Route = NextAfter(active)
      BY <1>4, <2>4 DEF Route
    <3>. QED  BY <2>3, <2>4, <3>1
  <2>5. CASE active \in DOMAIN snapshots
    <3>1. PICK s : s = snapshots[active]
      OBVIOUS
    <3>2. s \in Snapshots
      BY <2>5, <3>1 DEF GraphTypeOK
    <3>3. Route = CASE s.signal \in {"complete", "fail"} -> Decision(End, s.signal)
                    [] s.signal = "retry" \/ (s.failed /\ s.signal \notin {"complete", "fail"}) ->
                           RetryOrEnd(active)
                    [] s.signal = "reject" /\ ~s.failed -> RejectionOrContinue(active)
                    [] s.signal \in {"none", "continue"} /\ ~s.failed -> NextAfter(active)
      BY <1>4, <2>5, <3>1 DEF Route
    <3>4. CASE s.signal \in {"complete", "fail"}
      <4>1. Route = Decision(End, s.signal)
        BY <3>3, <3>4
      <4>. QED  BY <3>1, <3>4, <4>1 DEF Decision, Concluded
    <3>5. CASE s.signal = "retry" \/ (s.failed /\ s.signal \notin {"complete", "fail"})
      <4>1. Route = RetryOrEnd(active)
        BY <3>3, <3>5
      <4>2. Route = Decision(active, "retry") \/ Route = Decision(End, "fail")
        BY <4>1 DEF RetryOrEnd
      <4>3. Sent(active)
        BY <1>2, <2>1 DEF Sent
      <4>. QED  BY <4>2, <4>3 DEF Decision
    <3>6. CASE s.signal = "reject" /\ ~s.failed
      <4>1. Route = RejectionOrContinue(active)
        BY <3>3, <3>6
      <4>2. \/ /\ Route = NextAfter(active)
               /\ active \notin DOMAIN RejectionRoutes \/ RejectionRoutes[active] \notin Executables
            \/ Route = Decision(End, "fail")
            \/ /\ active \in DOMAIN RejectionRoutes /\ RejectionRoutes[active] \in Executables
               /\ Route = Decision(RejectionRoutes[active], "reject")
        BY <4>1 DEF RejectionOrContinue
      <4>3. CASE /\ Route = NextAfter(active)
                 /\ active \notin DOMAIN RejectionRoutes \/ RejectionRoutes[active] \notin Executables
        <5>1. Settled(active)
          BY <3>1, <3>6, <4>3 DEF Settled
        <5>. QED  BY <2>3, <4>3, <5>1
      <4>4. CASE Route = Decision(End, "fail")
        BY <4>4 DEF Decision
      <4>5. CASE /\ active \in DOMAIN RejectionRoutes /\ RejectionRoutes[active] \in Executables
                 /\ Route = Decision(RejectionRoutes[active], "reject")
        <5>1. PICK m \in DOMAIN Sequence : Sequence[m] = RejectionRoutes[active]
          BY <1>1, <4>5
        <5>2. m <= k
          BY <2>1, <4>5, <5>1 DEF RoutesGoBack
        <5>3. Sent(RejectionRoutes[active])
          BY <2>1, <5>1, <5>2 DEF Sent
        <5>. QED  BY <4>5, <5>3 DEF Decision
      <4>. QED  BY <4>2, <4>3, <4>4, <4>5
    <3>7. CASE s.signal \in {"none", "continue"} /\ ~s.failed
      <4>1. Route = NextAfter(active)
        BY <3>3, <3>7
      <4>2. Settled(active)
        BY <3>1, <3>7 DEF Settled
      <4>. QED  BY <2>3, <4>1, <4>2
    <3>8. s.signal \in Signals
      BY <3>2 DEF Snapshots
    <3>. QED  BY <3>4, <3>5, <3>6, <3>7, <3>8 DEF Signals
  <2>. QED  BY <2>4, <2>5
<1>. QED  BY <1>3, <1>4

LEMMA GraphInvariantIsKept ==
    ASSUME RoutesGoBack, GraphInvariant, [GraphNext]_graphVars
    PROVE  GraphInvariant'
<1>1. GraphTypeOK /\ Behind /\ DecisionStands
  BY DEF GraphInvariant
<1>2. Len(Sequence) \in Nat /\ DOMAIN Sequence = 1 .. Len(Sequence)
      /\ \A k \in DOMAIN Sequence : Sequence[k] \in Executables
      /\ \A i, j \in DOMAIN Sequence : Sequence[i] = Sequence[j] => i = j
  BY SequenceAssumption DEF Executables, ToSet, IsInjective
<1>3. ASSUME UNCHANGED <<active, snapshots, journal>>
      PROVE  GraphTypeOK' /\ Behind'
  <2>1. active' = active /\ snapshots' = snapshots /\ journal' = journal
    BY <1>3
  <2>2. GraphTypeOK'
    BY <1>1, <2>1 DEF GraphTypeOK
  <2>3. \A k : DoneUpTo(k) => DoneUpTo(k)'
    BY <2>1 DEF DoneUpTo, Settled, LastRun
  <2>4. Behind'
    BY <1>1, <2>1, <2>3 DEF Behind
  <2>. QED  BY <2>2, <2>4
<1>4. CASE UNCHANGED graphVars
  <2>1. DecisionStands'
    BY <1>1, <1>4 DEF graphVars, DecisionStands, Sent, Concluded, Settled
  <2>. QED  BY <1>3, <1>4, <2>1 DEF graphVars, GraphInvariant
<1>5. ASSUME node' = "raised" /\ UNCHANGED <<active, snapshots, rejections, decision, steps, journal>>
      PROVE  GraphInvariant'
  BY <1>3, <1>5 DEF GraphInvariant, DecisionStands
<1>6. CASE Supervise
  <2>1. CASE steps = RecursionLimit
    BY <1>5, <1>6, <2>1 DEF Supervise, Step
  <2>2. CASE steps # RecursionLimit
    <3>1. /\ decision' = Route /\ node' = (IF decision'.target = End THEN "ended" ELSE "agent")
          /\ UNCHANGED <<active, snapshots, journal>>
      BY <1>6, <2>2 DEF Supervise, Step
    <3>2. /\ Route.target # End => Sent(Route.target)
          /\ Route.signal = "complete" => Concluded
      BY <1>1, RouteStands
    <3>4. Concluded => Concluded'
      BY <3>1 DEF Concluded, Settled
    <3>5. DecisionStands'
      BY <3>1, <3>2, <3>4 DEF DecisionStands, Sent, Settled
    <3>. QED  BY <1>3, <3>1, <3>5 DEF GraphInvariant
  <2>. QED  BY <2>1, <2>2
<1>7. CASE RunAgent
  <2>1. CASE steps = RecursionLimit
    BY <1>5, <1>7, <2>1 DEF RunAgent, Step
  <2>2. CASE steps # RecursionLimit
    <3>1. PICK failed \in BOOLEAN, signal \in Signals :
            /\ node = "agent" /\ active' = decision.target
            /\ snapshots' = Applied(decision.target, failed, signal)
            /\ journal' = Append(journal, decision.target) /\ node' = "supervisor"
      BY <1>7, <2>2 DEF RunAgent, Step
    <3>2. PICK a : a = decision.target
      OBVIOUS
    <3>3. PICK m \in DOMAIN Sequence :
            /\ Sequence[m] = a
            /\ active \in DOMAIN snapshots =>
                 \E k \in DOMAIN Sequence :
                     Sequence[k] = active /\ (m <= k \/ (m = k + 1 /\ Settled(active)))
      BY <1>1, <3>1, <3>2 DEF DecisionStands, Sent
    <3>4. a \in Executables /\ journal \in Seq(Executables)
      BY <1>1, <1>2, <3>3 DEF GraphTypeOK
    <3>5. /\ active' = a /\ journal' = Append(journal, a) /\ journal' \in Seq(Executables)
          /\ DOMAIN snapshots' = DOMAIN snapshots \cup {a}
          /\ \A b \in DOMAIN snapshots : b # a => snapshots'[b] = snapshots[b]
          /\ snapshots'[a] \in Snapshots
      <4>1. snapshots' = [b \in DOMAIN snapshots \cup {a} |->
              IF b # a THEN snapshots[b]
              ELSE [attempt |-> IF a \in DOMAIN snapshots THEN snapshots[a].attempt + 1 ELSE 1,
                    failed |-> failed, signal |-> signal]]
        BY <3>1, <3>2 DEF Applied
      <4>2. (IF a \in DOMAIN snapshots THEN snapshots[a].attempt + 1 ELSE 1) \in Nat
        BY <1>1 DEF GraphTypeOK, Snapshots
      <4>. QED  BY <3>1, <3>2, <3>4, <4>1, <4>2 DEF Snapshots
    <3>6. /\ IsLast(journal', a, Len(journal) + 1)
          /\ \A b, i : b # a /\ IsLast(journal, b, i) => IsLast(journal', b, i)
      BY <3>4, <3>5, LastAfterRun
    <3>7. GraphTypeOK'
      <4>1. \A b \in DOMAIN snapshots' : \E i \in Nat : IsLast(journal', b, i)
        BY <1>1, <3>4, <3>5, <3>6 DEF GraphTypeOK
      <4>. QED  BY <1>1, <3>4, <3>5, <4>1 DEF GraphTypeOK
    <3>8. /\ LastRun(a)' = Len(journal) + 1
          /\ \A b \in DOMAIN snapshots : b # a => LastRun(b)' = LastRun(b) /\ LastRun(b) \in 1 .. Len(journal)
      <4>1. \A b : LastRun(b) = LastIn(journal, b) /\ LastRun(b)' = LastIn(journal', b)
        BY DEF LastRun, LastIn
      <4>2. LastIn(journal', a) = Len(journal) + 1
        BY <3>5, <3>6, LastIsUnique
      <4>3. ASSUME NEW b \in DOMAIN snapshots, b # a
            PROVE  LastIn(journal', b) = LastIn(journal, b) /\ LastIn(journal, b) \in 1 .. Len(journal)
        <5>1. PICK i \in Nat : IsLast(journal, b, i)
          BY <1>1 DEF GraphTypeOK
        <5>2. IsLast(journal', b, i)
          BY <3>6, <4>3, <5>1
        <5>3. LastIn(journal, b) = i /\ LastIn(journal', b) = i
          BY <3>4, <3>5, <5>1, <5>2, LastIsUnique
        <5>. QED  BY <3>4, <5>1, <5>3 DEF IsLast
      <4>. QED  BY <4>1, <4>2, <4>3
    <3>9. ASSUME NEW i \in 1 .. (m - 1), Sequence[i] \in DOMAIN snapshots'
          PROVE  /\ Settled(Sequence[i])' /\ Sequence[i + 1] \in DOMAIN snapshots'
                 /\ LastRun(Sequence[i])' < LastRun(Sequence[i + 1])'
      <4>1. i \in DOMAIN Sequence /\ i + 1 \in DOMAIN Sequence /\ i + 1 <= m /\ i # m
        BY <1>2, <3>3
      <4>2. Sequence[i] # a /\ Sequence[i] \in DOMAIN snapshots
        BY <1>2, <3>3, <3>5, <3>9, <4>1
      <4>3. active \in DOMAIN snapshots
        BY <1>1, <4>2 DEF GraphTypeOK
      <4>4. PICK k \in DOMAIN Sequence :
              Sequence[k] = active /\ (m <= k \/ (m = k + 1 /\ Settled(active)))
        BY <3>3, <4>3
      <4>5. DoneUpTo(k)
        BY <1>1, <4>3, <4>4 DEF Behind
      <4>6. Settled(Sequence[i])
        <5>1. i \in 1 .. (k - 1) \/ (i = k /\ Settled(active))
          BY <1>2, <3>3, <4>1, <4>4
        <5>. QED  BY <4>2, <4>4, <4>5, <5>1 DEF DoneUpTo
      <4>7. Settled(Sequence[i])'
        BY <3>5, <4>2, <4>6 DEF Settled
      <4>8. CASE i + 1 = m
        BY <3>3, <3>5, <3>8, <4>2, <4>7, <4>8
      <4>9. CASE i + 1 # m
        <5>1. i \in 1 .. (k - 1)
          BY <1>2, <3>3, <4>1, <4>4, <4>9
        <5>2. Sequence[i + 1] \in DOMAIN snapshots /\ LastRun(Sequence[i]) < LastRun(Sequence[i + 1])
          BY <4>2, <4>5, <5>1 DEF DoneUpTo
        <5>3. Sequence[i + 1] # a
          BY <1>2, <3>3, <4>1, <4>9
        <5>. QED  BY <3>5, <3>8, <4>2, <4>7, <5>2, <5>3
      <4>. QED  BY <4>8, <4>9
    <3>10. DoneUpTo(m)'
      BY <3>9 DEF DoneUpTo
    <3>11. Behind'
      <4>1. \A k \in DOMAIN Sequence : Sequence[k] = active' => k = m
        BY <1>2, <3>3, <3>5
      <4>. QED  BY <3>10, <4>1 DEF Behind
    <3>12. DecisionStands'
      BY <3>1 DEF DecisionStands
    <3>. QED  BY <3>7, <3>11, <3>12 DEF GraphInvariant
  <2>. QED  BY <2>1, <2>2
<1>. QED  BY <1>4, <1>6, <1>7 DEF GraphNext

(* When the work rejected goes back, a workflow that reaches the end of    *)
(* its sequence has been through it, however often agents failed, were     *)
(* tried again or rejected: each agent after the last run of the one       *)
(* before it, and nothing that failed or was rejected left behind.         *)
THEOREM SequencesAreWorkedThrough == RoutesGoBack => (GraphSpec => []SequenceIsWorkedThrough)
<1>. SUFFICES ASSUME RoutesGoBack PROVE GraphSpec => []SequenceIsWorkedThrough
  OBVIOUS
<1>1. GraphInit => GraphInvariant
  <2> SUFFICES ASSUME GraphInit PROVE GraphInvariant
    OBVIOUS
  <2>1. DOMAIN snapshots = {} /\ journal = <<>> /\ node = "supervisor"
    BY DEF GraphInit
  <2>2. GraphTypeOK
    BY <2>1 DEF GraphInit, GraphTypeOK
  <2>. QED  BY <2>1, <2>2 DEF GraphInvariant, Behind, DecisionStands
<1>2. GraphInvariant /\ [GraphNext]_graphVars => GraphInvariant'
  BY GraphInvariantIsKept
<1>3. GraphInvariant => SequenceIsWorkedThrough
  <2> SUFFICES ASSUME GraphInvariant, node = "ended", decision.signal = "complete",
                      active \in DOMAIN snapshots => snapshots[active].signal # "complete"
               PROVE  /\ \A a \in DOMAIN snapshots : Settled(a)
                      /\ \A i \in 1..(Len(Sequence) - 1) :
                           Sequence[i] \in DOMAIN snapshots =>
                             /\ Sequence[i + 1] \in DOMAIN snapshots
                             /\ LastRun(Sequence[i]) < LastRun(Sequence[i + 1])
    BY DEF SequenceIsWorkedThrough, Settled
  <2>1. CASE active \in DOMAIN snapshots
    <3>1. Sequence[Len(Sequence)] = active /\ Settled(active)
      BY <2>1 DEF GraphInvariant, DecisionStands, Concluded
    <3>2. Len(Sequence) \in Nat /\ DOMAIN Sequence = 1 .. Len(Sequence)
          /\ \A a \in Executables : \E k \in DOMAIN Sequence : Sequence[k] = a
      BY SequenceAssumption DEF Executables, ToSet
    <3>3. Len(Sequence) \in DOMAIN Sequence
      BY <2>1, <3>2 DEF GraphInvariant, GraphTypeOK
    <3>4. DoneUpTo(Len(Sequence))
      BY <2>1, <3>1, <3>3 DEF GraphInvariant, Behind
    <3>5. ASSUME NEW a \in DOMAIN snapshots PROVE Settled(a)
      <4>1. PICK k \in DOMAIN Sequence : Sequence[k] = a
        BY <3>2 DEF GraphInvariant, GraphTypeOK
      <4>2. k = Len(Sequence) \/ k \in 1 .. (Len(Sequence) - 1)
        BY <3>2, <4>1
      <4>. QED  BY <3>1, <3>4, <4>1, <4>2 DEF DoneUpTo
    <3>. QED  BY <3>4, <3>5 DEF DoneUpTo
  <2>2. CASE DOMAIN snapshots = {}
    BY <2>2
  <2>. QED  BY <2>1, <2>2 DEF GraphInvariant, GraphTypeOK
<1>. QED  BY <1>1, <1>2, <1>3, PTL DEF GraphSpec

-----------------------------------------------------------------------------
ChatSpec == ChatInit /\ [][ChatNext]_chatVars

Statuses == {"absent", "pending", "streaming", "completed", "failed", "cancelled"}
Thens == {"answer", "reply", "stream", "again", "first", "create", "open", "job", "idle"}
Messages == [status : Statuses, role : {"user", "assistant"}, sse : BOOLEAN, request : Nat]
ActorShape ==
    [pc : {"idle", "read", "write", "open", "new", "looking"}, id : Nat, message : Messages,
     then : Thens, adds : BOOLEAN, trying : BOOLEAN, cancelled : BOOLEAN,
     copy : [Ids -> Messages]]

(* The messages a request will still add after the one it is about to.     *)
Extra(then) ==
    CASE then \in {"answer", "reply", "stream"} -> 1
      [] then = "create" -> 2
      [] then = "again" -> 3
      [] OTHER -> 0

Unfinished(message) == message.status \in {"pending", "streaming"}

(* What a request is at, and a job, when nothing suspends: only the job of *)
(* a message, and the endpoint whose reader may go away, leave one that is *)
(* not finished.                                                           *)
RequestFits(r) ==
    /\ r.pc \in {"idle", "read", "open"}
    /\ r.pc = "open" => r.message.sse /\ r.id \in Ids
    /\ r.pc = "read" /\ ~r.adds =>
         /\ r.id \in Ids
         /\ \/ r.message.sse /\ r.then \in {"open", "idle"}
            \/ r.message.status = "cancelled" /\ r.then = "idle" /\ ~r.trying
    /\ r.pc = "read" /\ r.adds =>
         /\ ~r.trying
         /\ 1 <= r.id /\ r.id + Extra(r.then) <= MaxMessages[repository]
         /\ Unfinished(r.message) /\ ~r.message.sse => r.then = "job"
         /\ r.then = "first" => r.message.sse
         /\ r.then # "open"

JobFits(m, r) ==
    r.pc # "idle" =>
        /\ r.id = m /\ ~r.adds /\ r.pc \in {"new", "read", "open"}
        /\ r.pc = "read" => r.then = "open" \/ (r.then = "idle" /\ ~Unfinished(r.message))

Fits(a, r) ==
    /\ r \in ActorShape
    /\ a \in Clients => RequestFits(r)
    /\ a \in Ids => JobFits(a, r)

ChatTypeOK ==
    /\ repository \in Repositories /\ created \in Nat
    /\ conversation \in [exists : BOOLEAN, messages : [Ids -> Messages]]
    /\ DOMAIN actor = Actors
    /\ \A a \in Actors : Fits(a, actor[a])

(* Who will finish a message: its job, unless that was cancelled before it *)
(* could record it, or a request that is about to mark it.                 *)
JobWill(m) == actor[m].pc # "idle" /\ (actor[m].cancelled => actor[m].trying)
Marks(r, m) ==
    /\ r.pc = "read" /\ ~r.adds /\ r.id = m
    /\ r.then = "idle" /\ r.message.status = "cancelled"

Tended(m) ==
    conversation.exists /\ Unsettled(m) /\ ~conversation.messages[m].sse =>
        JobWill(m) \/ \E c \in Clients : Marks(actor[c], m)

ChatInvariant == ChatTypeOK /\ \A m \in Ids : Tended(m)

LEMMA Apart ==
    /\ Clients \cap Ids = {} /\ Actors = Clients \cup Ids
    /\ \A r \in Repositories : 1 .. MaxMessages[r] \subseteq Ids /\ MaxMessages[r] \in Nat
    /\ \A m \in Ids : m \in Nat
BY ChatAssumption DEF Ids, Actors

LEMMA NobodyFits ==
    /\ NoMessage \in Messages /\ NoMessages \in [Ids -> Messages] /\ NoActor \in ActorShape
    /\ \A a : Fits(a, NoActor)
<1>1. NoMessage \in Messages
  BY DEF NoMessage, Messages, Statuses
<1>2. NoMessages \in [Ids -> Messages]
  BY <1>1 DEF NoMessages
<1>3. NoActor \in ActorShape
  BY <1>1, <1>2 DEF NoActor, ActorShape, Thens
<1>. QED  BY <1>1, <1>2, <1>3 DEF NoActor, Fits, RequestFits, JobFits

LEMMA AddFits ==
    ASSUME repository \in Repositories, NEW c \in Clients,
           NEW id \in Nat, NEW message \in Messages, NEW then \in Thens \ {"open"},
           1 <= id, id + Extra(then) <= MaxMessages[repository],
           Unfinished(message) /\ ~message.sse => then = "job",
           then = "first" => message.sse
    PROVE  Fits(c, Add(c, id, message, then)) /\ ~Marks(Add(c, id, message, then), id)
<1>. DEFINE r == Add(c, id, message, then)
<1>1. /\ r.pc = "read" /\ r.id = id /\ r.message = message /\ r.then = then /\ r.adds
      /\ ~r.trying
  BY DEF Add, NoActor
<1>2. r \in ActorShape
  BY NobodyFits DEF Add, ActorShape
<1>. HIDE DEF r
<1>3. RequestFits(r)
  BY <1>1 DEF RequestFits
<1>4. c \notin Ids
  BY Apart
<1>5. ~Marks(r, id)
  BY <1>1 DEF Marks
<1>. QED  BY <1>2, <1>3, <1>4, <1>5 DEF Fits, r

LEMMA UpdateIs ==
    ASSUME NEW a, actor[a] \in ActorShape, NEW status \in Statuses, NEW then \in Thens
    PROVE  /\ Update(a, status, then) \in ActorShape
           /\ Update(a, status, then).pc = "read" /\ Update(a, status, then).id = actor[a].id
           /\ Update(a, status, then).then = then /\ ~Update(a, status, then).adds
           /\ Update(a, status, then).message.status = status
           /\ Update(a, status, then).message.sse = actor[a].message.sse
           /\ Update(a, status, then).trying = actor[a].trying
           /\ Update(a, status, then).cancelled = actor[a].cancelled
BY NobodyFits DEF Update, ActorShape, Messages

(* A job's next change of its message, and the streaming endpoint's.       *)
LEMMA UpdateFits ==
    ASSUME NEW a \in Actors, Fits(a, actor[a]), actor[a].pc # "idle",
           NEW status \in Statuses, NEW then \in {"open", "idle"},
           a \in Ids /\ then = "idle" => status \notin {"pending", "streaming"},
           a \in Clients => actor[a].message.sse /\ actor[a].id \in Ids,
           NEW r \in ActorShape, r.pc = "read", r.id = actor[a].id, r.then = then, ~r.adds,
           r.message.status = status, r.message.sse = actor[a].message.sse
    PROVE  Fits(a, r)
BY DEF Fits, RequestFits, JobFits, Unfinished

LEMMA AfterFits ==
    ASSUME repository \in Repositories, NEW a \in Actors, Fits(a, actor[a]), actor[a].pc = "read"
    PROVE  /\ Fits(a, After(a, actor[a].then))
           /\ a \in Ids /\ actor[a].then = "open" =>
                After(a, "open").pc = "open" /\ After(a, "open").trying
<1>. DEFINE then == actor[a].then
            request == actor[a].message.request
<1>1. /\ actor[a] \in ActorShape /\ then \in Thens /\ actor[a].id \in Nat /\ request \in Nat
      /\ actor[a].message \in Messages
  BY DEF Fits, ActorShape, Messages
<1>2. ASSUME NEW s \in Statuses, NEW sse \in BOOLEAN
      PROVE  /\ Assistant(s, sse, request) \in Messages
             /\ Assistant(s, sse, request).sse = sse /\ Assistant(s, sse, request).status = s
  BY <1>1 DEF Assistant, Messages
<1>3. User(request) \in Messages /\ ~Unfinished(User(request))
  BY <1>1 DEF User, Messages, Statuses, Unfinished
<1>. HIDE DEF request
<1>4. CASE then = "open"
  <2>1. After(a, then) = [actor[a] EXCEPT !.pc = "open", !.trying = TRUE, !.copy = NoMessages]
    BY <1>4 DEF After
  <2>2. /\ After(a, then) \in ActorShape /\ After(a, then).pc = "open" /\ After(a, then).trying
        /\ After(a, then).id = actor[a].id /\ After(a, then).message = actor[a].message
        /\ After(a, then).adds = actor[a].adds
    BY <1>1, <2>1, NobodyFits DEF ActorShape
  <2>. QED  BY <1>4, <2>2 DEF Fits, RequestFits, JobFits
<1>5. CASE then \in {"answer", "reply", "stream", "again", "first", "create"}
  <2>1. a \in Clients /\ a \notin Ids /\ actor[a].adds
    BY <1>5, Apart DEF Fits, JobFits, RequestFits
  <2>2. /\ actor[a].id + Extra(then) <= MaxMessages[repository] /\ 1 <= actor[a].id
        /\ MaxMessages[repository] \in Nat
        /\ then = "first" => actor[a].message.sse
    BY <2>1, Apart DEF Fits, RequestFits
  <2>0. ASSUME NEW message \in Messages, NEW next \in Thens \ {"open"},
               Extra(then) = Extra(next) + 1,
               Unfinished(message) /\ ~message.sse => next = "job",
               next = "first" => message.sse
        PROVE  Fits(a, Add(a, actor[a].id + 1, message, next))
    <3>1. Extra(next) \in Nat
      BY DEF Extra
    <3>2. actor[a].id + 1 + Extra(next) <= MaxMessages[repository] /\ 1 <= actor[a].id + 1
      BY <1>1, <2>0, <2>2, <3>1
    <3>3. actor[a].id + 1 \in Nat
      BY <1>1
    <3>. HIDE DEF then
    <3>. QED  BY <2>0, <2>1, <3>2, <3>3, AddFits
  <2>3. CASE then = "answer"
    <3>1. PICK message \in Messages : message = Assistant("pending", FALSE, request)
      BY <1>2, <1>3 DEF Statuses, Unfinished, Assistant
    <3>2. Extra(then) = Extra("job") + 1 /\ "job" \in Thens \ {"open"}
      BY <2>3 DEF Extra, Thens
    <3>3. Fits(a, Add(a, actor[a].id + 1, message, "job"))
      BY <2>0, <3>1, <3>2
    <3>. QED  BY <2>3, <3>1, <3>3 DEF After, request
  <2>4. CASE then = "reply"
    <3>1. PICK message \in Messages : message = Assistant("completed", FALSE, request) /\ ~Unfinished(message)
      BY <1>2, <1>3 DEF Statuses, Unfinished, Assistant
    <3>2. Extra(then) = Extra("idle") + 1 /\ "idle" \in Thens \ {"open"}
      BY <2>4 DEF Extra, Thens
    <3>3. Fits(a, Add(a, actor[a].id + 1, message, "idle"))
      BY <2>0, <3>1, <3>2
    <3>. QED  BY <2>4, <3>1, <3>3 DEF After, request
  <2>5. CASE then = "stream"
    <3>1. PICK message \in Messages : message = Assistant("pending", TRUE, request) /\ message.sse
      BY <1>2, <1>3 DEF Statuses, Unfinished, Assistant
    <3>2. Extra(then) = Extra("first") + 1 /\ "first" \in Thens \ {"open"}
      BY <2>5 DEF Extra, Thens
    <3>3. Fits(a, Add(a, actor[a].id + 1, message, "first"))
      BY <2>0, <3>1, <3>2
    <3>. QED  BY <2>5, <3>1, <3>3 DEF After, request
  <2>6. CASE then = "again"
    <3>1. PICK message \in Messages : message = Assistant("pending", TRUE, request) /\ message.sse
      BY <1>2, <1>3 DEF Statuses, Unfinished, Assistant
    <3>2. Extra(then) = Extra("create") + 1 /\ "create" \in Thens \ {"open"}
      BY <2>6 DEF Extra, Thens
    <3>3. Fits(a, Add(a, actor[a].id + 1, message, "create"))
      BY <2>0, <3>1, <3>2
    <3>. QED  BY <2>6, <3>1, <3>3 DEF After, request
  <2>7. CASE then = "create"
    <3>1. PICK message \in Messages : message = User(request) /\ ~Unfinished(message)
      BY <1>2, <1>3 DEF Statuses, Unfinished, Assistant
    <3>2. Extra(then) = Extra("reply") + 1 /\ "reply" \in Thens \ {"open"}
      BY <2>7 DEF Extra, Thens
    <3>3. Fits(a, Add(a, actor[a].id + 1, message, "reply"))
      BY <2>0, <3>1, <3>2
    <3>. QED  BY <2>7, <3>1, <3>3 DEF After, request
  <2>8. CASE then = "first"
    <3>1. actor[a].id \in Ids /\ actor[a].message.sse
      BY <1>1, <2>2, <2>8, Apart DEF Extra
    <3>2. Fits(a, Update(a, "streaming", "open"))
      BY <1>1, <2>1, <3>1, UpdateIs, UpdateFits DEF Thens, Statuses
    <3>. QED  BY <2>8, <3>2 DEF After
  <2>. QED  BY <1>5, <2>3, <2>4, <2>5, <2>6, <2>7, <2>8
<1>6. CASE then \in {"job", "idle"}
  <2>1. After(a, then) = NoActor
    BY <1>6 DEF After
  <2>. QED  BY <1>6, <2>1, NobodyFits
<1>. QED  BY <1>1, <1>4, <1>5, <1>6 DEF Thens

(* One actor moves on: a job will still see to its message, if it would    *)
(* have, and a request that was about to mark one still is.                *)
LEMMA ActorMovesOn ==
    ASSUME ChatInvariant, NEW a \in Actors, NEW r, Fits(a, r),
           actor' = [actor EXCEPT ![a] = r], UNCHANGED <<repository, conversation>>,
           created' \in Nat,
           conversation.exists =>
             /\ a \in Ids /\ JobWill(a) => r.pc # "idle" /\ (r.cancelled => r.trying)
             /\ a \in Clients => \A m \in Ids : ~Marks(actor[a], m)
    PROVE  ChatInvariant'
<1>1. ChatTypeOK /\ \A m \in Ids : Tended(m)
  BY DEF ChatInvariant
<1>2. /\ DOMAIN actor' = Actors /\ actor'[a] = r
      /\ \A b \in Actors : b # a => actor'[b] = actor[b]
  BY <1>1 DEF ChatTypeOK
<1>3. \A b, q : Fits(b, q) => Fits(b, q)'
  BY DEF Fits, RequestFits, JobFits
<1>4. \A b \in Actors : Fits(b, actor[b])'
  BY <1>1, <1>2, <1>3 DEF ChatTypeOK
<1>5. ChatTypeOK'
  BY <1>1, <1>2, <1>4 DEF ChatTypeOK
<1>6. ASSUME NEW m \in Ids, conversation'.exists, Unsettled(m)', ~conversation'.messages[m].sse
      PROVE  JobWill(m)' \/ \E c \in Clients : Marks(actor[c], m)'
  <2>1. JobWill(m) \/ \E c \in Clients : Marks(actor[c], m)
    BY <1>1, <1>6 DEF Tended, Unsettled
  <2>2. CASE JobWill(m)
    <3>1. conversation.exists
      BY <1>6
    <3>. QED  BY <1>2, <2>2, <3>1, Apart DEF JobWill
  <2>3. CASE \E c \in Clients : Marks(actor[c], m)
    <3>1. PICK c \in Clients : Marks(actor[c], m)
      BY <2>3
    <3>2. c # a /\ actor'[c] = actor[c]
      BY <1>2, <1>6, <3>1, Apart
    <3>. QED  BY <3>1, <3>2
  <2>. QED  BY <2>1, <2>2, <2>3
<1>7. \A m \in Ids : Tended(m)'
  BY <1>6 DEF Tended, Marks
<1>. QED  BY <1>5, <1>7 DEF ChatInvariant

LEMMA StoreKeeps ==
    ASSUME ChatInvariant, ~Suspends, NEW a \in Actors, Store(a)
    PROVE  ChatInvariant'
<1>1. ChatTypeOK /\ \A m \in Ids : Tended(m)
  BY DEF ChatInvariant
<1>2. PICK then : then = actor[a].then
  OBVIOUS
<1>3. PICK id : id = actor[a].id
  OBVIOUS
<1>4. PICK new : new = [NoActor EXCEPT !.pc = "new", !.id = id, !.message = actor[a].message]
  OBVIOUS
<1>5. /\ actor[a].pc = "read" /\ conversation.exists /\ repository' = repository /\ created' = created
      /\ conversation' = [exists |-> TRUE, messages |-> Changed(conversation.messages, a)]
      /\ actor' = [b \in Actors |->
           IF b = a THEN After(a, then)
           ELSE IF then = "job" /\ b = id THEN new ELSE actor[b]]
  BY <1>2, <1>3, <1>4 DEF Store, Writable
<1>6. /\ Fits(a, actor[a]) /\ actor[a] \in ActorShape /\ repository \in Repositories
      /\ conversation.messages \in [Ids -> Messages] /\ id \in Nat
      /\ actor[a].message \in Messages /\ then \in Thens
  BY <1>1, <1>2, <1>3 DEF ChatTypeOK, Fits, ActorShape
<1>7. Fits(a, After(a, then)) /\ (a \in Ids /\ then = "open" => After(a, "open").pc = "open"
                                                              /\ After(a, "open").trying)
  BY <1>2, <1>5, <1>6, AfterFits
<1>8. then = "job" => a \in Clients /\ a \notin Ids /\ actor[a].adds /\ id \in Ids
  <2>1. CASE a \in Clients
    BY <1>2, <1>3, <1>5, <1>6, <2>1, Apart DEF Fits, RequestFits, Extra
  <2>2. CASE a \in Ids
    BY <1>2, <1>5, <1>6, <2>2 DEF Fits, JobFits
  <2>. QED  BY <2>1, <2>2, Apart
<1>9. /\ new \in ActorShape /\ new.pc = "new" /\ new.id = id /\ ~new.adds /\ ~new.cancelled
  BY <1>4, <1>6, NobodyFits DEF ActorShape, NoActor
<1>10. id \in Ids => Fits(id, new)
  BY <1>9, Apart DEF Fits, JobFits
<1>11. \A b, q : Fits(b, q) => Fits(b, q)'
  BY <1>5 DEF Fits, RequestFits, JobFits
<1>12. \A b \in Actors : Fits(b, actor[b])'
  BY <1>1, <1>5, <1>7, <1>8, <1>10, <1>11 DEF ChatTypeOK
<1>13. PICK messages : messages = Changed(conversation.messages, a)
  OBVIOUS
<1>14. /\ messages \in [Ids -> Messages]
       /\ \A m \in Ids : m # id => messages[m] = conversation.messages[m]
       /\ id \in Ids => \/ messages[id] = actor[a].message
                        \/ ~actor[a].adds /\ messages[id] = NoMessage
  BY <1>3, <1>6, <1>13 DEF Changed
<1>15. conversation'.exists = TRUE /\ conversation'.messages = messages
  BY <1>5, <1>13
<1>16. ChatTypeOK'
  BY <1>1, <1>5, <1>12, <1>13, <1>14 DEF ChatTypeOK
<1>17. ASSUME NEW m \in Ids, messages[m].status \in {"pending", "streaming"}, ~messages[m].sse
       PROVE  JobWill(m)' \/ \E c \in Clients : Marks(actor[c], m)'
  <2>1. CASE m # id
    <3>1. JobWill(m) \/ \E c \in Clients : Marks(actor[c], m)
      BY <1>1, <1>5, <1>14, <1>17, <2>1 DEF Tended, Unsettled
    <3>2. CASE JobWill(m)
      <4>1. m # a
        BY <1>1, <1>3, <1>5, <1>6, <2>1 DEF Fits, JobFits
      <4>2. actor'[m] = actor[m]
        BY <1>5, <2>1, <4>1, Apart
      <4>. QED  BY <3>2, <4>2 DEF JobWill
    <3>3. CASE \E c \in Clients : Marks(actor[c], m)
      <4>1. PICK c \in Clients : Marks(actor[c], m)
        BY <3>3
      <4>2. c # a
        BY <1>3, <2>1, <4>1 DEF Marks
      <4>3. actor'[c] = actor[c]
        BY <1>5, <1>8, <4>2, Apart
      <4>. QED  BY <4>1, <4>3
    <3>. QED  BY <3>1, <3>2, <3>3
  <2>2. CASE m = id
    <3>1. messages[id] = actor[a].message
      BY <1>14, <1>17, <2>2 DEF NoMessage
    <3>2. Unfinished(actor[a].message) /\ ~actor[a].message.sse
      BY <1>17, <2>2, <3>1 DEF Unfinished
    <3>3. CASE a \in Clients
      <4>1. then = "job"
        BY <1>2, <1>5, <1>6, <3>2, <3>3 DEF Fits, RequestFits, Unfinished
      <4>2. m # a /\ actor'[m] = new
        BY <1>5, <1>8, <2>2, <4>1, Apart
      <4>. QED  BY <1>9, <4>2 DEF JobWill
    <3>4. CASE a \in Ids
      <4>1. a = m /\ then = "open"
        BY <1>2, <1>3, <1>5, <1>6, <2>2, <3>2, <3>4 DEF Fits, JobFits
      <4>2. actor'[m] = After(a, "open")
        BY <1>5, <4>1
      <4>. QED  BY <1>7, <3>4, <4>1, <4>2 DEF JobWill
    <3>. QED  BY <3>3, <3>4, Apart
  <2>. QED  BY <2>1, <2>2
<1>18. \A m \in Ids : Tended(m)'
  BY <1>15, <1>17 DEF Tended, Unsettled, Marks
<1>. QED  BY <1>16, <1>18 DEF ChatInvariant

LEMMA RequestKeeps ==
    ASSUME ChatInvariant, ~Suspends, NEW c \in Clients, Request(c)
    PROVE  ChatInvariant'
<1>1. ChatTypeOK /\ \A m \in Ids : Tended(m)
  BY DEF ChatInvariant
<1>2. /\ c \in Actors /\ c \notin Ids /\ created \in Nat /\ repository \in Repositories
      /\ MaxMessages[repository] \in Nat
      /\ conversation.messages \in [Ids -> Messages] /\ DOMAIN actor = Actors
      /\ \A b \in Actors : Fits(b, actor[b])
  BY <1>1, Apart DEF ChatTypeOK
<1>3. CASE \E then \in {"answer", "reply", "stream", "again"} : CreateMessage(c, then)
  <2>1. PICK then \in {"answer", "reply", "stream", "again"} : CreateMessage(c, then)
    BY <1>3
  <2>2. PICK uses : uses = IF then = "again" THEN 4 ELSE 2
    OBVIOUS
  <2>3. /\ actor[c].pc = "idle" /\ created + uses <= MaxMessages[repository]
        /\ created' = created + uses /\ UNCHANGED <<repository, conversation>>
        /\ actor' = [actor EXCEPT ![c] = Add(c, created + 1, User(created + 1), then)]
    BY <2>1, <2>2 DEF CreateMessage
  <2>4. created + 1 + Extra(then) <= MaxMessages[repository] /\ uses \in Nat
    BY <1>2, <2>2, <2>3 DEF Extra
  <2>5. PICK message \in Messages : message = User(created + 1) /\ ~Unfinished(message)
    <3>1. created + 1 \in Nat
      BY <1>2
    <3>2. User(created + 1) \in Messages
      BY <3>1 DEF User, Messages, Statuses
    <3>3. ~Unfinished(User(created + 1))
      BY DEF User, Unfinished
    <3>. QED  BY <3>2, <3>3
  <2>6. Fits(c, Add(c, created + 1, message, then))
    <3>1. then \in Thens \ {"open"} /\ then # "first" /\ created + 1 \in Nat /\ 1 <= created + 1
      BY <1>2 DEF Thens
    <3>. QED  BY <1>2, <2>4, <2>5, <3>1, AddFits
  <2>7. \A m \in Ids : ~Marks(actor[c], m)
    BY <2>3 DEF Marks
  <2>8. created' \in Nat
    BY <1>2, <2>3, <2>4
  <2>. QED  BY <1>2, <2>3, <2>5, <2>6, <2>7, <2>8, ActorMovesOn
<1>4. CASE \E m \in Ids : RetryMessage(c, m)
  <2>1. PICK m \in Ids : RetryMessage(c, m)
    BY <1>4
  <2>2. PICK message : message = Assistant("pending", FALSE, conversation.messages[m].request)
    OBVIOUS
  <2>3. /\ actor[c].pc = "idle" /\ created < MaxMessages[repository]
        /\ created' = created + 1 /\ UNCHANGED <<repository, conversation>>
        /\ actor' = [actor EXCEPT ![c] = Add(c, created + 1, message, "job")]
    BY <2>1, <2>2 DEF RetryMessage
  <2>4. message \in Messages
    <3>1. conversation.messages[m].request \in Nat
      BY <1>2 DEF Messages
    <3>. QED  BY <2>2, <3>1 DEF Assistant, Messages, Statuses
  <2>5. Fits(c, Add(c, created + 1, message, "job"))
    <3>1. created + 1 + Extra("job") <= MaxMessages[repository] /\ "job" \in Thens \ {"open"}
          /\ created + 1 \in Nat /\ 1 <= created + 1
      BY <1>2, <2>3 DEF Extra, Thens
    <3>. QED  BY <1>2, <2>4, <3>1, AddFits
  <2>6. \A n \in Ids : ~Marks(actor[c], n)
    BY <2>3 DEF Marks
  <2>7. created' \in Nat
    BY <1>2, <2>3
  <2>. QED  BY <1>2, <2>3, <2>5, <2>6, <2>7, ActorMovesOn
<1>5. CASE \E m \in Ids : CancelAsked(c, m)
  BY <1>5 DEF CancelAsked
<1>6. CASE Disconnect(c)
  <2>1. \A m \in Ids : ~Marks(actor[c], m)
    BY <1>6 DEF Disconnect, Marks
  <2>2. actor' = [actor EXCEPT ![c] = NoActor] /\ UNCHANGED <<repository, conversation>>
        /\ created' \in Nat
    BY <1>2, <1>6 DEF Disconnect
  <2>. QED  BY <1>2, <2>1, <2>2, NobodyFits, ActorMovesOn
<1>7. CASE \E m \in Ids : Cancel(c, m)
  <2>1. PICK m \in Ids : Cancel(c, m)
    BY <1>7
  <2>2. PICK r : r = [NoActor EXCEPT !.pc = "read", !.id = m,
                        !.message = [conversation.messages[m] EXCEPT !.status = "cancelled"]]
    OBVIOUS
  <2>3. PICK job : job = [actor[m] EXCEPT !.cancelled = (actor[m].pc # "idle")]
    OBVIOUS
  <2>4. /\ actor[c].pc = "idle" /\ UNCHANGED <<repository, conversation, created>>
        /\ actor' = [actor EXCEPT ![m].cancelled = (actor[m].pc # "idle"), ![c] = r]
    BY <2>1, <2>2 DEF Cancel
  <2>5. m \in Actors /\ m # c
    BY <1>2, Apart
  <2>6. /\ DOMAIN actor' = Actors /\ actor'[c] = r /\ actor'[m] = job
        /\ \A b \in Actors : b # c /\ b # m => actor'[b] = actor[b]
    BY <1>2, <2>3, <2>4, <2>5
  <2>7. /\ r \in ActorShape /\ r.pc = "read" /\ r.id = m /\ ~r.adds /\ r.then = "idle"
        /\ r.message.status = "cancelled" /\ ~r.trying
    <3>1. PICK message : message = [conversation.messages[m] EXCEPT !.status = "cancelled"]
      OBVIOUS
    <3>2. message \in Messages /\ message.status = "cancelled"
      BY <1>2, <3>1 DEF Messages, Statuses
    <3>3. r = [NoActor EXCEPT !.pc = "read", !.id = m, !.message = message]
      BY <2>2, <3>1
    <3>4. m \in Nat
      BY Apart
    <3>. QED  BY <3>2, <3>3, <3>4, NobodyFits DEF ActorShape, NoActor
  <2>8. Fits(c, r)
    BY <1>2, <2>7 DEF Fits, RequestFits
  <2>9. Fits(m, job) /\ job.pc = actor[m].pc
    <3>1. actor[m] \in ActorShape /\ JobFits(m, actor[m]) /\ m \notin Clients
      BY <1>2, <2>5, Apart DEF Fits
    <3>2. /\ job \in ActorShape /\ job.pc = actor[m].pc /\ job.id = actor[m].id
          /\ job.adds = actor[m].adds /\ job.then = actor[m].then
          /\ job.message = actor[m].message
      BY <2>3, <3>1 DEF ActorShape
    <3>. QED  BY <3>1, <3>2 DEF Fits, JobFits
  <2>10. \A b, q : Fits(b, q) => Fits(b, q)'
    BY <2>4 DEF Fits, RequestFits, JobFits
  <2>11. \A b \in Actors : Fits(b, actor[b])'
    BY <1>2, <2>6, <2>8, <2>9, <2>10
  <2>12. ChatTypeOK'
    BY <1>1, <2>4, <2>6, <2>11 DEF ChatTypeOK
  <2>13. ASSUME NEW n \in Ids, Tended(n) PROVE Tended(n)'
    <3>1. CASE n = m
      <4>1. Marks(actor[c], n)'
        BY <2>6, <2>7, <3>1 DEF Marks
      <4>. QED  BY <4>1 DEF Tended
    <3>2. CASE n # m
      <4>1. actor'[n] = actor[n]
        BY <1>2, <2>6, <3>2, Apart
      <4>2. \A d \in Clients : Marks(actor[d], n) => Marks(actor[d], n)'
        BY <2>4, <2>5, <2>6, Apart DEF Marks
      <4>3. conversation' = conversation
        BY <2>4
      <4>. QED  BY <2>13, <4>1, <4>2, <4>3 DEF Tended, JobWill, Unsettled
    <3>. QED  BY <3>1, <3>2
  <2>. QED  BY <1>1, <2>12, <2>13 DEF ChatInvariant
<1>. QED  BY <1>3, <1>4, <1>5, <1>6, <1>7 DEF Request

LEMMA JobKeeps ==
    ASSUME ChatInvariant, ~Suspends, NEW a \in Actors,
           Missing(a) \/ Chunk(a) \/ Ends(a) \/ (a \in Ids /\ (JobStarts(a) \/ CancelReaches(a)))
    PROVE  ChatInvariant'
<1>1. /\ repository \in Repositories /\ created \in Nat /\ DOMAIN actor = Actors
      /\ Fits(a, actor[a]) /\ actor[a] \in ActorShape
  BY DEF ChatInvariant, ChatTypeOK, Fits
<1>2. UNCHANGED <<repository, conversation>> /\ created' \in Nat
  BY <1>1 DEF Missing, Chunk, Ends, AnswerEnds, JobStarts, CancelReaches
<1>3. a \in Clients /\ actor[a].pc = "open" => actor[a].message.sse /\ actor[a].id \in Ids
  BY <1>1 DEF Fits, RequestFits
<1>4. CASE Chunk(a) \/ (a \in Ids /\ JobStarts(a))
  <2>1. PICK r : r = Update(a, "streaming", "open")
    OBVIOUS
  <2>2. /\ actor' = [actor EXCEPT ![a] = r] /\ ~actor[a].cancelled
        /\ actor[a].pc \in {"open", "new"} /\ (actor[a].pc = "new" => a \in Ids)
    BY <1>4, <2>1 DEF Chunk, JobStarts
  <2>3. /\ r \in ActorShape /\ r.pc = "read" /\ r.id = actor[a].id /\ r.then = "open" /\ ~r.adds
        /\ r.message.status = "streaming" /\ r.message.sse = actor[a].message.sse
        /\ r.cancelled = actor[a].cancelled
    BY <1>1, <2>1, UpdateIs DEF Statuses, Thens
  <2>4. Fits(a, r)
    BY <1>1, <1>3, <2>2, <2>3, UpdateFits, Apart DEF Statuses
  <2>5. \A m \in Ids : ~Marks(actor[a], m)
    BY <2>2 DEF Marks
  <2>. QED  BY <1>2, <2>2, <2>3, <2>4, <2>5, ActorMovesOn
<1>5. ASSUME NEW r, r \in ActorShape, r.pc = "read", r.id = actor[a].id, r.then = "idle", ~r.adds,
             r.message.status \in {"completed", "failed", "cancelled"},
             r.message.sse = actor[a].message.sse, actor[a].pc # "idle",
             a \in Clients => actor[a].message.sse /\ actor[a].id \in Ids,
             conversation.exists /\ r.cancelled => r.trying,
             conversation.exists => actor[a].pc = "open" \/ a \in Ids,
             actor' = [actor EXCEPT ![a] = r]
      PROVE  ChatInvariant'
  <2>1. Fits(a, r)
    BY <1>1, <1>5, UpdateFits DEF Statuses
  <2>2. conversation.exists /\ a \in Clients => \A m \in Ids : ~Marks(actor[a], m)
    BY <1>5, Apart DEF Marks
  <2>. QED  BY <1>2, <1>5, <2>1, <2>2, ActorMovesOn
<1>6. /\ Failed(a) \in ActorShape /\ Failed(a).pc = "read" /\ Failed(a).id = actor[a].id
      /\ Failed(a).then = "idle" /\ ~Failed(a).adds /\ Failed(a).message.status = "failed"
      /\ Failed(a).message.sse = actor[a].message.sse
      /\ Failed(a).cancelled = actor[a].cancelled
  <2>1. PICK u : u = Update(a, "failed", "idle")
    OBVIOUS
  <2>2. /\ u \in ActorShape /\ u.pc = "read" /\ u.id = actor[a].id /\ u.then = "idle" /\ ~u.adds
        /\ u.message.status = "failed" /\ u.message.sse = actor[a].message.sse
        /\ u.cancelled = actor[a].cancelled
    BY <1>1, <2>1, UpdateIs DEF Statuses, Thens
  <2>3. Failed(a) = [u EXCEPT !.trying = FALSE]
    BY <2>1 DEF Failed
  <2>. QED  BY <2>2, <2>3 DEF ActorShape
<1>7. CASE Ends(a)
  <2>1. PICK status \in {"completed", "failed"} : AnswerEnds(a, status)
    BY <1>7 DEF Ends
  <2>2. PICK r : r = IF status = "failed" THEN Failed(a) ELSE Update(a, status, "idle")
    OBVIOUS
  <2>3. actor[a].pc = "open" /\ ~actor[a].cancelled /\ actor' = [actor EXCEPT ![a] = r]
    BY <2>1, <2>2 DEF AnswerEnds
  <2>4. /\ r \in ActorShape /\ r.pc = "read" /\ r.id = actor[a].id /\ r.then = "idle" /\ ~r.adds
        /\ r.message.status \in {"completed", "failed", "cancelled"}
        /\ r.message.sse = actor[a].message.sse /\ r.cancelled = actor[a].cancelled
    <3>1. CASE status = "failed"
      BY <1>6, <2>2, <3>1
    <3>2. CASE status # "failed"
      BY <1>1, <2>2, <3>2, UpdateIs DEF Statuses, Thens
    <3>. QED  BY <3>1, <3>2
  <2>. QED  BY <1>3, <1>5, <2>3, <2>4
<1>8. CASE a \in Ids /\ CancelReaches(a)
  <2>1. PICK u : u = Update(a, "cancelled", "idle")
    OBVIOUS
  <2>2. PICK r : r = [u EXCEPT !.cancelled = FALSE, !.trying = FALSE]
    OBVIOUS
  <2>3. /\ actor[a].pc # "idle" /\ actor[a].cancelled /\ a \notin Clients
        /\ actor' = [actor EXCEPT ![a] = IF actor[a].trying THEN r ELSE NoActor]
    BY <1>8, <2>1, <2>2, Apart DEF CancelReaches
  <2>4. CASE actor[a].trying
    <3>1. /\ u \in ActorShape /\ u.pc = "read" /\ u.id = actor[a].id /\ u.then = "idle" /\ ~u.adds
          /\ u.message.status = "cancelled" /\ u.message.sse = actor[a].message.sse
      BY <1>1, <2>1, UpdateIs DEF Statuses, Thens
    <3>2. /\ r \in ActorShape /\ r.pc = "read" /\ r.id = actor[a].id /\ r.then = "idle" /\ ~r.adds
          /\ r.message.status = "cancelled" /\ r.message.sse = actor[a].message.sse
          /\ ~r.cancelled
      BY <2>2, <3>1 DEF ActorShape
    <3>3. actor' = [actor EXCEPT ![a] = r]
      BY <2>3, <2>4
    <3>. QED  BY <1>5, <1>8, <2>3, <3>2, <3>3
  <2>5. CASE ~actor[a].trying
    <3>1. actor' = [actor EXCEPT ![a] = NoActor] /\ ~JobWill(a)
      BY <2>3, <2>5 DEF JobWill
    <3>. QED  BY <1>2, <2>3, <3>1, NobodyFits, ActorMovesOn
  <2>. QED  BY <2>4, <2>5
<1>9. CASE Missing(a)
  <2>1. /\ actor[a].pc = "read" /\ ~conversation.exists
        /\ actor' = [actor EXCEPT ![a] = IF actor[a].trying THEN Failed(a) ELSE NoActor]
    BY <1>9 DEF Missing
  <2>2. CASE actor[a].trying
    <3>1. a \in Clients => actor[a].message.sse /\ actor[a].id \in Ids
      BY <1>1, <2>1, <2>2 DEF Fits, RequestFits
    <3>2. actor' = [actor EXCEPT ![a] = Failed(a)]
      BY <2>1, <2>2
    <3>. QED  BY <1>5, <1>6, <2>1, <3>1, <3>2
  <2>3. CASE ~actor[a].trying
    <3>1. actor' = [actor EXCEPT ![a] = NoActor]
      BY <2>1, <2>3
    <3>. QED  BY <1>2, <2>1, <3>1, NobodyFits, ActorMovesOn
  <2>. QED  BY <2>2, <2>3
<1>. QED  BY <1>4, <1>7, <1>8, <1>9

LEMMA ChatInvariantIsKept ==
    (~Suspends => ChatInvariant) /\ [ChatNext]_chatVars => (~Suspends => ChatInvariant)'
<1>. SUFFICES ASSUME ~Suspends => ChatInvariant, [ChatNext]_chatVars, ~Suspends'
              PROVE  ChatInvariant'
  OBVIOUS
<1>1. repository' = repository
  BY DEF ChatNext, chatVars, DeleteConversation, Request, CreateMessage, RetryMessage, CancelAsked,
         Cancel, Disconnect, JobStarts, CancelReaches, Proceeds, Fetch, Store, Missing, Chunk,
         Ends, AnswerEnds
<1>2. ~Suspends /\ ChatInvariant
  BY <1>1 DEF Suspends
<1>3. CASE UNCHANGED chatVars
  <2>1. /\ repository' = repository /\ conversation' = conversation /\ actor' = actor
        /\ created' = created
    BY <1>3 DEF chatVars
  <2>2. \A b, q : Fits(b, q) => Fits(b, q)'
    BY <2>1 DEF Fits, RequestFits, JobFits
  <2>3. ChatTypeOK'
    BY <1>2, <2>1, <2>2 DEF ChatInvariant, ChatTypeOK
  <2>4. \A m \in Ids : Tended(m)'
    BY <1>2, <2>1 DEF ChatInvariant, Tended, JobWill, Marks, Unsettled
  <2>. QED  BY <2>3, <2>4 DEF ChatInvariant
<1>4. CASE DeleteConversation
  <2>1. /\ repository' = repository /\ actor' = actor /\ created' = created
        /\ conversation' = [exists |-> FALSE, messages |-> NoMessages]
    BY <1>4 DEF DeleteConversation
  <2>2. \A b, q : Fits(b, q) => Fits(b, q)'
    BY <2>1 DEF Fits, RequestFits, JobFits
  <2>3. conversation' \in [exists : BOOLEAN, messages : [Ids -> Messages]]
    BY <2>1, NobodyFits
  <2>4. ChatTypeOK'
    BY <1>2, <2>1, <2>2, <2>3 DEF ChatInvariant, ChatTypeOK
  <2>5. \A m \in Ids : Tended(m)'
    BY <2>1 DEF Tended
  <2>. QED  BY <2>4, <2>5 DEF ChatInvariant
<1>5. CASE \E c \in Clients : Request(c)
  BY <1>2, <1>5, RequestKeeps
<1>6. CASE \E m \in Ids : JobStarts(m) \/ CancelReaches(m)
  BY <1>2, <1>6, JobKeeps, Apart
<1>7. CASE \E a \in Actors : Proceeds(a) \/ Chunk(a) \/ Ends(a)
  BY <1>2, <1>7, JobKeeps, StoreKeeps DEF Proceeds, Fetch
<1>. QED  BY <1>3, <1>4, <1>5, <1>6, <1>7 DEF ChatNext

(* With the file repository no change of a conversation is lost: a message *)
(* of the chat that is not finished has a job, or a request that cancels   *)
(* it, that will finish it.                                                *)
THEOREM WritesAreAlwaysKept == ChatSpec => []WritesAreKept
<1>1. ChatInit => ChatInvariant
  <2> SUFFICES ASSUME ChatInit PROVE ChatInvariant
    OBVIOUS
  <2>1. /\ repository \in Repositories /\ created = 0 /\ actor = [a \in Actors |-> NoActor]
        /\ conversation = [exists |-> TRUE, messages |-> NoMessages]
    BY DEF ChatInit
  <2>2. ChatTypeOK
    BY <2>1, NobodyFits DEF ChatTypeOK
  <2>3. \A m \in Ids : ~Unsettled(m)
    BY <2>1 DEF Unsettled, NoMessages, NoMessage
  <2>. QED  BY <2>2, <2>3 DEF ChatInvariant, Tended
<1>2. (~Suspends => ChatInvariant) => WritesAreKept
  <2> SUFFICES ASSUME ChatInvariant, conversation.exists, NEW m \in Ids, Unsettled(m),
                      ~conversation.messages[m].sse
               PROVE  \E a \in Actors : actor[a].pc # "idle" /\ actor[a].id = m
    BY DEF WritesAreKept
  <2>1. JobWill(m) \/ \E c \in Clients : Marks(actor[c], m)
    BY DEF ChatInvariant, Tended
  <2>2. JobWill(m) => actor[m].pc # "idle" /\ actor[m].id = m
    BY Apart DEF ChatInvariant, ChatTypeOK, Fits, JobFits, JobWill
  <2>. QED  BY <2>1, <2>2, Apart DEF Marks
<1>. QED  BY <1>1, <1>2, ChatInvariantIsKept, PTL DEF ChatSpec

(* Nor does a job, or a request that is late, write a deleted conversation *)
(* back.                                                                   *)
THEOREM DeletedAlwaysStaysDeleted == ChatSpec => DeletedStaysDeleted
<1>1. ASSUME [ChatNext]_chatVars, ~Suspends, ~conversation.exists
      PROVE  ~conversation'.exists
  BY <1>1 DEF ChatNext, chatVars, DeleteConversation, Request, CreateMessage, RetryMessage,
              CancelAsked, Cancel, Disconnect, JobStarts, CancelReaches, Proceeds, Fetch, Store,
              Writable, Missing, Chunk, Ends, AnswerEnds
<1>2. [ChatNext]_chatVars => [~Suspends /\ ~conversation.exists => ~conversation'.exists]_chatVars
  BY <1>1
<1>. QED  BY <1>2, PTL DEF ChatSpec, DeletedStaysDeleted
=============================================================================
