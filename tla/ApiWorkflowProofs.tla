------------------------- MODULE ApiWorkflowProofs -------------------------
(***************************************************************************)
(* ApiWorkflow for any workflows, gates, calls in flight, statuses a run   *)
(* returns with, requests and restarts: where a pause points, who runs in  *)
(* safe mode, when a workflow is recovered, and when the state store is    *)
(* current.                                                                *)
(***************************************************************************)
EXTENDS ApiWorkflow, FiniteSetTheorems, TLAPS

ApiSpec == ApiInit /\ [][ApiNext]_apiVars

Statuses == {"absent", "running", "completed", "failed", "paused", "cancelled"}

Doc == [status : Statuses, execution : BOOLEAN, safe : BOOLEAN]

Call == [pc : {"idle", "opening", "saving", "loading", "queued", "running"},
         run : {"start", "recover"}, wf : Workflows \cup {None}, doc : Doc,
         safe : BOOLEAN, known : Statuses]

Gate == [status : {"absent", "pending", "approved", "refused"},
         wf : Workflows \cup {None}]

ApiTypeOK ==
    /\ memory \in [Workflows -> Doc]
    /\ stored \in [Workflows -> Doc]
    /\ record \in [Workflows -> Statuses]
    /\ call \in [Calls -> Call]
    /\ gate \in [Gates -> Gate]
    /\ pause \in [Workflows -> Gates \cup {None}]

(* A call in flight is about a workflow somebody triggered, and carries a  *)
(* version of it.                                                          *)
CallsAreOfWorkflows ==
    \A c \in Calls : call[c].pc # "idle" =>
        /\ call[c].wf \in Workflows
        /\ call[c].doc.status # "absent"
        /\ memory[call[c].wf] = NoDoc => stored[call[c].wf] # NoDoc

GatesAreOfWorkflows ==
    \A g \in Gates : gate[g].status # "absent" => gate[g].wf \in Workflows

(* NoDoc is the one document without a status. *)
DocsAreWhole ==
    \A w \in Workflows :
        /\ memory[w].status = "absent" => memory[w] = NoDoc
        /\ stored[w].status = "absent" => stored[w] = NoDoc

ApiShape == ApiTypeOK /\ CallsAreOfWorkflows /\ GatesAreOfWorkflows /\ DocsAreWhole

LEMMA InitHasShape == ApiInit => ApiShape
BY ApiAssumption DEF ApiInit, ApiShape, ApiTypeOK, CallsAreOfWorkflows, DocsAreWhole, GatesAreOfWorkflows, NoWorkflows,
   NoCalls, NoGates, NoPauses, NoDoc, NoCall, NoGate, Doc, Call, Gate, Statuses

(* A Write leaves a version of the workflow in memory and in one call.     *)
LEMMA WriteKeepsShape ==
    ASSUME ApiShape, NEW c \in Calls, NEW w \in Workflows,
           NEW doc \in Doc, doc.status # "absent",
           NEW pc \in {"opening", "saving"}, NEW safe \in BOOLEAN,
           Write(c, w, doc, pc, safe), stored' = stored
    PROVE  /\ memory' \in [Workflows -> Doc] /\ call' \in [Calls -> Call]
           /\ CallsAreOfWorkflows' /\ DocsAreWhole'
<1>1. memory' = [memory EXCEPT ![w] = doc] /\ memory' \in [Workflows -> Doc]
  BY DEF Write, ApiShape, ApiTypeOK
<1>2. PICK new \in Call : /\ call' = [call EXCEPT ![c] = new]
                          /\ new.wf = w /\ new.doc = doc
  <2>. DEFINE new == [NoCall EXCEPT !.pc = pc, !.wf = w, !.doc = doc, !.safe = safe]
  <2>1. new \in Call /\ new.wf = w /\ new.doc = doc
    BY DEF NoCall, NoDoc, Call, Doc, Statuses
  <2>. QED  BY <2>1 DEF Write
<1>3. call' \in [Calls -> Call]
  BY <1>2 DEF ApiShape, ApiTypeOK
<1>4. doc # NoDoc
  BY DEF NoDoc
<1>5. DocsAreWhole'
  BY <1>1 DEF ApiShape, DocsAreWhole, ApiTypeOK
<1>6. CallsAreOfWorkflows'
  <2> SUFFICES ASSUME NEW d \in Calls, call'[d].pc # "idle"
               PROVE  /\ call'[d].wf \in Workflows
                      /\ call'[d].doc.status # "absent"
                      /\ memory'[call'[d].wf] = NoDoc => stored'[call'[d].wf] # NoDoc
    BY DEF CallsAreOfWorkflows
  <2>1. CASE d = c
    BY <1>1, <1>2, <1>4, <2>1 DEF ApiShape, ApiTypeOK
  <2>2. CASE d # c
    BY <1>1, <1>2, <1>4, <2>2 DEF ApiShape, ApiTypeOK, CallsAreOfWorkflows
  <2>. QED  BY <2>1, <2>2
<1>. QED  BY <1>1, <1>3, <1>5, <1>6

(* What a run that ended, a pause and a resumption write are versions too. *)
LEMMA MarkedIsWhole ==
    ASSUME ApiShape, NEW w \in Workflows, NEW status \in Statuses \ {"absent"}
    PROVE  Marked(w, status) \in Doc /\ Marked(w, status).status = status
           /\ Marked(w, status).execution = memory[w].execution
BY DEF ApiShape, ApiTypeOK, Marked, Doc

LEMMA FinishedIsWhole ==
    ASSUME ApiShape, NEW c \in Calls, call[c].pc = "running",
           NEW status \in Statuses \ {"absent"}
    PROVE  Finished(c, status) \in Doc /\ Finished(c, status).status = status
<1>1. call[c] \in Call /\ call[c].wf \in Workflows
  BY DEF ApiShape, ApiTypeOK, CallsAreOfWorkflows
<1>2. memory[call[c].wf] \in Doc /\ call[c].doc \in Doc /\ call[c].safe \in BOOLEAN
  BY <1>1 DEF ApiShape, ApiTypeOK, Call
<1>. QED  BY <1>2 DEF Finished, Doc

(* A call that only moves on, or that picks up a version of a workflow     *)
(* that is there, keeps the shape.                                         *)
LEMMA MoveKeepsShape ==
    ASSUME ApiShape, NEW c \in Calls, NEW new \in Call,
           call' = [call EXCEPT ![c] = new],
           new.pc # "idle" =>
               /\ new.wf \in Workflows
               /\ new.doc.status # "absent"
               /\ memory[new.wf] = NoDoc => stored[new.wf] # NoDoc,
           memory' = memory, stored' = stored
    PROVE  call' \in [Calls -> Call] /\ CallsAreOfWorkflows' /\ DocsAreWhole'
BY DEF ApiShape, ApiTypeOK, CallsAreOfWorkflows, DocsAreWhole

LEMMA ShapeIsKept == ApiShape /\ [ApiNext]_apiVars => ApiShape'
<1> SUFFICES ASSUME ApiShape, [ApiNext]_apiVars PROVE ApiShape'
  OBVIOUS
<1> USE DEF ApiShape
<1>a. NoDoc \in Doc /\ NoCall \in Call /\ NoGate \in Gate /\ NoCall.pc = "idle"
  BY DEF NoDoc, NoCall, NoGate, Doc, Call, Gate, Statuses
<1>b. \A c \in Calls : call[c] \in Call /\ call[c].doc \in Doc
  BY DEF ApiTypeOK, Call
<1>c. \A d \in Doc : d # NoDoc => d.execution \in BOOLEAN
  BY DEF Doc
<1>1. ASSUME NEW c \in Calls, NEW w \in Workflows, NEW o \in Overrides, Trigger(c, w, o)
      PROVE  ApiShape'
  <2>. DEFINE doc == [NoDoc EXCEPT !.status = "running", !.safe = (o = "on")]
  <2>2. doc \in Doc /\ doc.status # "absent"
    BY DEF NoDoc, Doc, Statuses
  <2>3. Safe(o) \in BOOLEAN
    BY ApiAssumption DEF Safe
  <2>4. Write(c, w, doc, "opening", Safe(o)) /\ UNCHANGED <<stored, record, gate, pause>>
    BY <1>1 DEF Trigger, approvals
  <2>. HIDE DEF doc
  <2>. QED  BY <2>2, <2>3, <2>4, WriteKeepsShape DEF ApiTypeOK, GatesAreOfWorkflows
<1>2. ASSUME NEW c \in Calls, NEW w \in Workflows, Recover(c, w) PROVE ApiShape'
  <2>1. UNCHANGED <<stored, record, gate, pause>>
    BY <1>2 DEF Recover, approvals
  <2>2. CASE Write(c, w, Marked(w, "running"), "saving", FALSE)
    <3>1. "running" \in Statuses \ {"absent"}
      BY DEF Statuses
    <3>2. Marked(w, "running") \in Doc /\ Marked(w, "running").status # "absent"
      BY <3>1, MarkedIsWhole
    <3>. QED  BY <2>1, <2>2, <3>2, WriteKeepsShape DEF ApiTypeOK, GatesAreOfWorkflows
  <2>3. CASE call' = [call EXCEPT ![c] = [NoCall EXCEPT !.pc = "queued", !.run = "recover",
                                                   !.wf = w, !.doc = memory[w]]]
             /\ memory' = memory
    <3>. DEFINE new == [NoCall EXCEPT !.pc = "queued", !.run = "recover",
                                      !.wf = w, !.doc = memory[w]]
    <3>1. memory[w] \in Doc /\ memory[w] # NoDoc
      BY <1>2 DEF Recover, ApiTypeOK
    <3>2. new \in Call /\ new.wf = w /\ new.doc = memory[w]
      BY <3>1 DEF NoCall, Call, Statuses
    <3>3. memory[w].status # "absent"
      BY <3>1 DEF DocsAreWhole
    <3>. HIDE DEF new
    <3>4. call' = [call EXCEPT ![c] = new]
      BY <2>3 DEF new
    <3>5. /\ new.wf \in Workflows /\ new.doc.status # "absent"
          /\ memory[new.wf] = NoDoc => stored[new.wf] # NoDoc
      BY <3>1, <3>2, <3>3
    <3>6. memory' = memory /\ stored' = stored
      BY <2>1, <2>3
    <3>7. call' \in [Calls -> Call] /\ CallsAreOfWorkflows' /\ DocsAreWhole'
      BY <3>2, <3>4, <3>5, <3>6, MoveKeepsShape
    <3>. QED  BY <3>7, <2>1, <2>3 DEF ApiTypeOK, GatesAreOfWorkflows
  <2>. QED  BY <1>2, <2>2, <2>3 DEF Recover
<1>3. ASSUME NEW c \in Calls, NEW w \in Workflows, LoadReads(c, w) PROVE ApiShape'
  <2>. DEFINE new == [NoCall EXCEPT !.pc = "loading", !.wf = w, !.doc = stored[w]]
  <2>1. stored[w] \in Doc /\ stored[w] # NoDoc
    BY <1>3 DEF LoadReads, ApiTypeOK
  <2>2. new \in Call /\ new.wf = w /\ new.doc = stored[w]
    BY <2>1 DEF NoCall, Call, Statuses
  <2>3. stored[w].status # "absent"
    BY <2>1 DEF DocsAreWhole
  <2>4. call' = [call EXCEPT ![c] = new] /\ UNCHANGED <<memory, stored, record, gate, pause>>
    BY <1>3 DEF LoadReads, approvals
  <2>. HIDE DEF new
  <2>. QED  BY <2>1, <2>2, <2>3, <2>4, MoveKeepsShape DEF ApiTypeOK, GatesAreOfWorkflows
<1>4. ASSUME NEW c \in Calls, NEW w \in Workflows, NEW g \in Gates, CreateGate(c, g, w)
      PROVE  ApiShape'
  <2>1. gate' \in [Gates -> Gate] /\ pause' \in [Workflows -> Gates \cup {None}]
        /\ GatesAreOfWorkflows'
    BY <1>4 DEF CreateGate, ApiTypeOK, Gate, GatesAreOfWorkflows
  <2>2. UNCHANGED <<stored, record>>
    BY <1>4 DEF CreateGate
  <2>3. CASE UNCHANGED <<memory, call>>
    BY <2>1, <2>2, <2>3 DEF ApiTypeOK, CallsAreOfWorkflows, GatesAreOfWorkflows, DocsAreWhole
  <2>4. CASE Write(c, w, Marked(w, "paused"), "saving", FALSE)
    <3>1. "paused" \in Statuses \ {"absent"}
      BY DEF Statuses
    <3>2. Marked(w, "paused") \in Doc /\ Marked(w, "paused").status # "absent"
      BY <3>1, MarkedIsWhole
    <3>. QED  BY <2>1, <2>2, <2>4, <3>2, WriteKeepsShape DEF ApiTypeOK, GatesAreOfWorkflows
  <2>. QED  BY <1>4, <2>3, <2>4 DEF CreateGate
<1>5. ASSUME NEW c \in Calls, NEW g \in Gates, Approve(c, g) PROVE ApiShape'
  <2>. DEFINE w == gate[g].wf
  <2>1. gate' \in [Gates -> Gate] /\ pause' \in [Workflows -> Gates \cup {None}]
        /\ GatesAreOfWorkflows' /\ w \in Workflows
    BY <1>5 DEF Approve, Cleared, ApiTypeOK, Gate, GatesAreOfWorkflows
  <2>2. UNCHANGED <<stored, record>>
    BY <1>5 DEF Approve
  <2>3. CASE UNCHANGED <<memory, call>>
    BY <2>1, <2>2, <2>3 DEF ApiTypeOK, CallsAreOfWorkflows, GatesAreOfWorkflows, DocsAreWhole
  <2>4. CASE Write(c, w, Marked(w, "running"), "saving", FALSE)
    <3>1. "running" \in Statuses \ {"absent"}
      BY DEF Statuses
    <3>2. Marked(w, "running") \in Doc /\ Marked(w, "running").status # "absent"
      BY <2>1, <3>1, MarkedIsWhole
    <3>. QED  BY <2>1, <2>2, <2>4, <3>2, WriteKeepsShape DEF ApiTypeOK, GatesAreOfWorkflows
  <2>. QED  BY <1>5, <2>3, <2>4 DEF Approve
<1>6. ASSUME NEW g \in Gates, Refuse(g) PROVE ApiShape'
  BY <1>6 DEF Refuse, ApiTypeOK, Gate, CallsAreOfWorkflows, GatesAreOfWorkflows, DocsAreWhole
<1>7. CASE Restart
  <2>1. NoGate.status = "absent"
    BY DEF NoGate
  <2>2. memory' = [w \in Workflows |-> NoDoc] /\ call' = [c \in Calls |-> NoCall]
        /\ gate' = [g \in Gates |-> NoGate] /\ pause' = [w \in Workflows |-> None]
        /\ UNCHANGED <<stored, record>>
    BY <1>7 DEF Restart, NoWorkflows, NoCalls, NoGates, NoPauses
  <2>. QED  BY <1>a, <2>1, <2>2 DEF ApiTypeOK, CallsAreOfWorkflows, GatesAreOfWorkflows, DocsAreWhole
<1>8. ASSUME NEW c \in Calls, RunStarts(c) PROVE ApiShape'
  <2>1. record' \in [Workflows -> Statuses]
    BY <1>8 DEF RunStarts, ApiTypeOK, Statuses
  <2>2. call[c].wf \in Workflows /\ record[call[c].wf] \in Statuses
    BY <1>8 DEF RunStarts, CallsAreOfWorkflows, ApiTypeOK
  <2>. DEFINE new == [call[c] EXCEPT !.pc = "running", !.known = record[call[c].wf]]
  <2>3. new \in Call /\ new.wf = call[c].wf /\ new.doc = call[c].doc
    BY <1>b, <2>2 DEF Call
  <2>4. call' = [call EXCEPT ![c] = new] /\ UNCHANGED <<memory, stored, gate, pause>>
    BY <1>8 DEF RunStarts, approvals, ApiTypeOK
  <2>5. call[c].pc # "idle"
    BY <1>8 DEF RunStarts
  <2>. HIDE DEF new
  <2>. QED  BY <2>1, <2>3, <2>4, <2>5, MoveKeepsShape DEF ApiTypeOK, GatesAreOfWorkflows, CallsAreOfWorkflows
<1>9. ASSUME NEW c \in Calls, Persist(c) PROVE ApiShape'
  <2>. DEFINE w == call[c].wf
              new == IF call[c].pc = "opening" THEN [call[c] EXCEPT !.pc = "queued"]
                     ELSE NoCall
  <2>1. w \in Workflows /\ call[c].doc \in Doc /\ call[c].doc.status # "absent"
        /\ call[c].doc # NoDoc
    BY <1>9, <1>b DEF Persist, CallsAreOfWorkflows, NoDoc
  <2>2. stored' = [stored EXCEPT ![w] = call[c].doc] /\ stored' \in [Workflows -> Doc]
    BY <1>9, <2>1 DEF Persist, ApiTypeOK
  <2>3. new \in Call
    BY <1>a, <1>b DEF Call
  <2>4. new.pc # "idle" => new.wf = w /\ new.doc = call[c].doc
    BY <1>a, <1>b DEF Call
  <2>5. call' = [call EXCEPT ![c] = new] /\ UNCHANGED <<memory, record, gate, pause>>
    BY <1>9 DEF Persist, approvals, ApiTypeOK
  <2>. HIDE DEF new
  <2>. QED  BY <2>1, <2>2, <2>3, <2>4, <2>5 DEF ApiTypeOK, CallsAreOfWorkflows, GatesAreOfWorkflows, DocsAreWhole
<1>10. ASSUME NEW c \in Calls, LoadReturns(c) PROVE ApiShape'
  <2>1. call[c].wf \in Workflows /\ call[c].doc \in Doc /\ call[c].doc.status # "absent"
        /\ call[c].doc # NoDoc
    BY <1>10, <1>b DEF LoadReturns, CallsAreOfWorkflows, NoDoc
  <2>. QED  BY <1>10, <1>a, <2>1 DEF LoadReturns, approvals, ApiTypeOK, CallsAreOfWorkflows,
            GatesAreOfWorkflows, DocsAreWhole
<1>11. ASSUME NEW c \in Calls, RunRaises(c) PROVE ApiShape'
  BY <1>11, <1>a DEF RunRaises, approvals, ApiTypeOK, CallsAreOfWorkflows, GatesAreOfWorkflows, DocsAreWhole
<1>12. ASSUME NEW c \in Calls, NEW s \in RunEnd, RunEnds(c, s) PROVE ApiShape'
  <2>1. s \in Statuses \ {"absent"}
    BY ApiAssumption DEF Statuses
  <2>2. call[c].wf \in Workflows /\ UNCHANGED <<stored, gate, pause>>
    BY <1>12 DEF RunEnds, approvals, CallsAreOfWorkflows
  <2>3. record' \in [Workflows -> Statuses]
    BY <1>12, <2>1 DEF RunEnds, ApiTypeOK
  <2>4. Write(c, call[c].wf, Finished(c, s), "saving", FALSE) /\ call[c].pc = "running"
    BY <1>12 DEF RunEnds
  <2>. QED  BY <2>1, <2>2, <2>3, <2>4, WriteKeepsShape, FinishedIsWhole DEF ApiTypeOK, GatesAreOfWorkflows
<1>13. CASE UNCHANGED apiVars
  BY <1>13 DEF apiVars, ApiTypeOK, CallsAreOfWorkflows, GatesAreOfWorkflows, DocsAreWhole
<1>. QED  BY <1>1, <1>2, <1>3, <1>4, <1>5, <1>6, <1>7, <1>8, <1>9, <1>10, <1>11, <1>12, <1>13
          DEF ApiNext, Reviewer, Client, Work

-----------------------------------------------------------------------------
(* The call that is let through the semaphore holds it while it runs. *)
SemaphoreIsHeld == \A c \in Running : Guarded(c) => semaphore = c

(* The calls on their way into the first run of a workflow.  While there   *)
(* is one, there is no other, and no copy of the workflow, in memory, in   *)
(* the store or in a call, has an execution's id.                          *)
Starting == {c \in Calls : call[c].run = "start" /\ call[c].pc \in {"opening", "queued", "running"}}

FirstRunIsAlone ==
    \A c \in Starting :
        LET w == call[c].wf IN
        /\ memory[w] # NoDoc /\ ~memory[w].execution /\ ~stored[w].execution
        /\ \A d \in Calls : call[d].pc # "idle" /\ call[d].wf = w =>
               ~call[d].doc.execution /\ (d \in Starting => d = c)

RecoveriesKnowTheExecution ==
    \A c \in Calls : call[c].run = "recover" => call[c].doc.execution

(* Who saves a workflow that nobody overtook saves the copy in memory; who *)
(* loads one that is not in memory brings the copy in the store.           *)
CopiesAgree ==
    \A w \in Workflows :
        /\ memory[w] = NoDoc =>
             /\ Saving(w) = {}
             /\ \A c \in Calls : call[c].pc = "loading" /\ call[c].wf = w => call[c].doc = stored[w]
        /\ w \notin raced => \A c \in Saving(w) : Saving(w) = {c} /\ call[c].doc = memory[w]

(* Every call and every gate is of a workflow, and a workflow that memory  *)
(* or the store does not have has left nothing there.                      *)
THEOREM ApiShapeHolds == ApiSpec => []ApiShape
BY InitHasShape, ShapeIsKept, PTL DEF ApiSpec

(* What the steps that write a workflow do to the copies and the calls.    *)
Written(c, w, doc, new) ==
    /\ memory' = [memory EXCEPT ![w] = doc]
    /\ call' = [call EXCEPT ![c] = new]
    /\ new \in Call /\ new.run = "start" /\ new.wf = w /\ new.doc = doc
    /\ raced' = IF Saving(w) \ {c} = {} THEN raced \ {w} ELSE raced \cup {w}

LEMMA WriteWrites ==
    ASSUME NEW c \in Calls, NEW w \in Workflows, NEW doc \in Doc,
           NEW pc \in {"opening", "saving"}, NEW safe \in BOOLEAN, Write(c, w, doc, pc, safe)
    PROVE  \E new : Written(c, w, doc, new) /\ new.pc = pc
<1>. DEFINE new == [NoCall EXCEPT !.pc = pc, !.wf = w, !.doc = doc, !.safe = safe]
<1>1. new \in Call /\ new.run = "start" /\ new.wf = w /\ new.doc = doc /\ new.pc = pc
  BY DEF NoCall, NoDoc, Call, Doc, Statuses
<1>2. call' = [call EXCEPT ![c] = new]
  BY DEF Write
<1>. HIDE DEF new
<1>. QED  BY <1>1, <1>2 DEF Write, Written

Opens(c, w) ==
    \E new :
        /\ call[c].pc = "idle" /\ memory[w] = NoDoc /\ stored[w] = NoDoc
        /\ Written(c, w, new.doc, new) /\ new.pc = "opening"
        /\ ~new.doc.execution /\ new.doc # NoDoc
        /\ UNCHANGED <<stored, semaphore>>

Marks(c, w) ==
    \E new :
        /\ call[c].pc = "idle" /\ memory[w] # NoDoc
        /\ Written(c, w, new.doc, new) /\ new.pc = "saving"
        /\ new.doc.execution = memory[w].execution /\ new.doc # NoDoc
        /\ UNCHANGED <<stored, semaphore>>

Ends(c) ==
    \E new :
        /\ call[c].pc = "running" /\ new.doc # NoDoc
        /\ Written(c, call[c].wf, new.doc, new) /\ new.pc = "saving"
        /\ call[c].run = "recover" => new.doc.execution = call[c].doc.execution
        /\ semaphore' = Released(c, TRUE) /\ UNCHANGED stored

Reads(c, w) ==
    \E new :
        /\ call[c].pc = "idle" /\ new \in Call /\ new.wf = w
        /\ call' = [call EXCEPT ![c] = new]
        /\ \/ new.pc = "queued" /\ new.run = "recover" /\ new.doc = memory[w]
              /\ memory[w].execution
           \/ new.pc = "loading" /\ new.run = "start" /\ new.doc = stored[w]
        /\ UNCHANGED <<memory, stored, semaphore, raced>>

LeavesCallsAlone == UNCHANGED <<memory, stored, call, semaphore, raced>>

StepOf(c) ==
    \/ \E w \in Workflows : Opens(c, w) \/ Marks(c, w) \/ Reads(c, w)
    \/ RunStarts(c) \/ Persist(c) \/ LoadReturns(c) \/ RunRaises(c) \/ Ends(c)

(* A step is a step of one call, one that touches only the gates, or a     *)
(* restart.                                                                *)
LEMMA StepsAreOfOneCall ==
    ASSUME ApiShape, [ApiNext]_apiVars
    PROVE  (\E c \in Calls : StepOf(c)) \/ LeavesCallsAlone \/ Restart
<1> USE DEF ApiShape
<1>a. \A doc : doc.status # "absent" => doc # NoDoc
  BY DEF NoDoc
<1>1. ASSUME NEW c \in Calls, NEW w \in Workflows, NEW status \in {"running", "paused"},
             call[c].pc = "idle", memory[w] # NoDoc, UNCHANGED <<stored, semaphore>>,
             Write(c, w, Marked(w, status), "saving", FALSE)
      PROVE  Marks(c, w)
  <2>. DEFINE doc == Marked(w, status)
  <2>1. doc \in Doc /\ doc.status # "absent" /\ doc.execution = memory[w].execution
    BY MarkedIsWhole DEF Statuses
  <2>. HIDE DEF doc
  <2>2. \E new : Written(c, w, doc, new) /\ new.pc = "saving"
    BY <2>1, <1>1, WriteWrites DEF doc
  <2>3. PICK new : Written(c, w, new.doc, new) /\ new.pc = "saving" /\ new.doc = doc
    BY <2>2 DEF Written
  <2>. QED  BY <1>1, <1>a, <2>1, <2>3 DEF Marks
<1>2. ASSUME NEW c \in Calls, NEW w \in Workflows, NEW o \in Overrides, Trigger(c, w, o)
      PROVE  Opens(c, w)
  <2>. DEFINE doc == [NoDoc EXCEPT !.status = "running", !.safe = (o = "on")]
  <2>1. doc \in Doc /\ doc.status # "absent" /\ ~doc.execution
    BY DEF NoDoc, Doc, Statuses
  <2>2. Write(c, w, doc, "opening", Safe(o)) /\ Safe(o) \in BOOLEAN
    BY <1>2, ApiAssumption DEF Trigger, Safe
  <2>. HIDE DEF doc
  <2>3. PICK new : Written(c, w, new.doc, new) /\ new.pc = "opening" /\ new.doc = doc
    BY <2>1, <2>2, WriteWrites DEF Written
  <2>. QED  BY <1>2, <1>a, <2>1, <2>3 DEF Opens, Trigger
<1>3. ASSUME NEW c \in Calls, NEW w \in Workflows, Recover(c, w)
      PROVE  Marks(c, w) \/ Reads(c, w)
  <2>1. CASE /\ memory[w].execution
             /\ call' = [call EXCEPT ![c] = [NoCall EXCEPT !.pc = "queued", !.run = "recover",
                                                           !.wf = w, !.doc = memory[w]]]
             /\ UNCHANGED <<memory, raced>>
    <3>. DEFINE new == [NoCall EXCEPT !.pc = "queued", !.run = "recover",
                                      !.wf = w, !.doc = memory[w]]
    <3>1. memory[w] \in Doc
      BY DEF ApiTypeOK
    <3>2. /\ new \in Call /\ new.wf = w /\ new.doc = memory[w]
          /\ new.pc = "queued" /\ new.run = "recover"
      BY <3>1 DEF NoCall, Call, Statuses
    <3>3. call' = [call EXCEPT ![c] = new]
      BY <2>1
    <3>. HIDE DEF new
    <3>. QED  BY <3>2, <3>3, <1>3, <2>1 DEF Reads, Recover
  <2>2. CASE Write(c, w, Marked(w, "running"), "saving", FALSE)
    BY <2>2, <1>1, <1>3 DEF Recover
  <2>. QED  BY <2>1, <2>2, <1>3 DEF Recover
<1>4. ASSUME NEW c \in Calls, NEW w \in Workflows, LoadReads(c, w) PROVE Reads(c, w)
  <2>. DEFINE new == [NoCall EXCEPT !.pc = "loading", !.wf = w, !.doc = stored[w]]
  <2>1. stored[w] \in Doc
    BY DEF ApiTypeOK
  <2>2. /\ new \in Call /\ new.wf = w /\ new.doc = stored[w]
        /\ new.pc = "loading" /\ new.run = "start"
    BY <2>1 DEF NoCall, Call, Statuses
  <2>3. call' = [call EXCEPT ![c] = new]
    BY <1>4 DEF LoadReads
  <2>. HIDE DEF new
  <2>. QED  BY <1>4, <2>2, <2>3 DEF LoadReads, Reads
<1>5. ASSUME NEW c \in Calls, NEW w \in Workflows, NEW g \in Gates, CreateGate(c, g, w)
      PROVE  LeavesCallsAlone \/ Marks(c, w)
  BY <1>1, <1>5 DEF CreateGate, LeavesCallsAlone
<1>6. ASSUME NEW c \in Calls, NEW g \in Gates, Approve(c, g)
      PROVE  LeavesCallsAlone \/ Marks(c, gate[g].wf)
  <2>1. gate[g].wf \in Workflows
    BY <1>6 DEF Approve, GatesAreOfWorkflows
  <2>. QED  BY <1>1, <1>6, <2>1 DEF Approve, LeavesCallsAlone
<1>7. ASSUME NEW c \in Calls, NEW g \in Gates, Approve(c, g) PROVE gate[g].wf \in Workflows
  BY <1>7 DEF Approve, GatesAreOfWorkflows
<1>8. ASSUME NEW c \in Calls, NEW s \in RunEnd, RunEnds(c, s) PROVE Ends(c)
  <2>. DEFINE doc == Finished(c, s)
  <2>1. s \in Statuses \ {"absent"} /\ call[c].wf \in Workflows
    BY <1>8, ApiAssumption DEF Statuses, RunEnds, CallsAreOfWorkflows
  <2>2. doc \in Doc /\ doc.status # "absent"
    BY <2>1, <1>8, FinishedIsWhole DEF RunEnds
  <2>3. call[c].run = "recover" => doc.execution = call[c].doc.execution
    <3>1. call[c].doc \in Doc
      BY DEF ApiTypeOK, Call
    <3>. QED  BY <3>1 DEF Finished, Doc
  <2>4. Write(c, call[c].wf, doc, "saving", FALSE)
    BY <1>8 DEF RunEnds
  <2>. HIDE DEF doc
  <2>5. PICK new : Written(c, call[c].wf, new.doc, new) /\ new.pc = "saving" /\ new.doc = doc
    <3>1. \E new : Written(c, call[c].wf, doc, new) /\ new.pc = "saving"
      BY <2>1, <2>2, <2>4, WriteWrites
    <3>. QED  BY <3>1 DEF Written
  <2>. QED  BY <1>8, <1>a, <2>2, <2>3, <2>5 DEF Ends, RunEnds
<1>9. ASSUME NEW g \in Gates, Refuse(g) PROVE LeavesCallsAlone
  BY <1>9 DEF Refuse, LeavesCallsAlone
<1>10. CASE UNCHANGED apiVars
  BY <1>10 DEF apiVars, LeavesCallsAlone
<1>. QED  BY <1>2, <1>3, <1>4, <1>5, <1>6, <1>7, <1>8, <1>9, <1>10
          DEF ApiNext, Reviewer, Client, Work, StepOf

LEMMA OneCallMoves ==
    ASSUME ApiShape, NEW c \in Calls, StepOf(c)
    PROVE  \A d \in Calls \ {c} : call'[d] = call[d]
BY DEF ApiShape, ApiTypeOK, StepOf, Opens, Marks, Reads, Ends, Written, RunStarts, Persist, LoadReturns, RunRaises

LEMMA SemaphoreStaysHeld ==
    ASSUME ApiShape, SemaphoreIsHeld, [ApiNext]_apiVars
    PROVE  SemaphoreIsHeld'
<1>0. NoCall.pc = "idle"
  BY DEF NoCall
<1>1. ASSUME NEW c \in Calls, StepOf(c) PROVE SemaphoreIsHeld'
  <2> SUFFICES ASSUME NEW d \in Calls, call'[d].pc = "running", Guarded(d)'
               PROVE  semaphore' = d
    BY DEF SemaphoreIsHeld, Running
  <2>1. ASSUME d # c PROVE call'[d] = call[d] /\ semaphore = d
    <3>1. call'[d] = call[d]
      BY <1>1, <2>1, OneCallMoves
    <3>. QED  BY <3>1 DEF Guarded, SemaphoreIsHeld, Running
  <2>2. CASE RunStarts(c)
    <3>1. CASE d = c
      <4>1. call'[c].run = call[c].run /\ call'[c].doc = call[c].doc
        BY <2>2 DEF RunStarts, ApiShape, ApiTypeOK, Call
      <4>2. Guarded(c)
        BY <3>1, <4>1 DEF Guarded
      <4>. QED  BY <2>2, <3>1, <4>2 DEF RunStarts
    <3>2. CASE d # c
      BY <2>1, <2>2, <3>2, ApiAssumption DEF RunStarts, MayRun
    <3>. QED  BY <3>1, <3>2
  <2>3. CASE RunRaises(c) \/ Ends(c)
    <3>1. call'[c].pc # "running"
      BY <2>3, <1>0 DEF RunRaises, Ends, Written, ApiShape, ApiTypeOK
    <3>. QED  BY <2>1, <2>3, <3>1 DEF RunRaises, Ends, Released
  <2>4. CASE \/ \E w \in Workflows : Opens(c, w) \/ Marks(c, w) \/ Reads(c, w)
             \/ Persist(c) \/ LoadReturns(c)
    <3>1. call'[c].pc # "running"
      BY <2>4, <1>0 DEF Opens, Marks, Reads, Written, Persist, LoadReturns,
         ApiShape, ApiTypeOK, Call
    <3>. QED  BY <2>1, <2>4, <3>1 DEF Opens, Marks, Reads, Persist, LoadReturns
  <2>. QED  BY <1>1, <2>2, <2>3, <2>4 DEF StepOf
<1>2. CASE LeavesCallsAlone
  BY <1>2 DEF LeavesCallsAlone, SemaphoreIsHeld, Running, Guarded
<1>3. CASE Restart
  BY <1>3, <1>0 DEF Restart, NoCalls, SemaphoreIsHeld, Running
<1>. QED  BY <1>1, <1>2, <1>3, StepsAreOfOneCall

(* In safe mode, of two runs at once one recovers a workflow whose request *)
(* opted out, whatever else is in flight.                                  *)
THEOREM SafeModeAlwaysRunsAlone == ApiSpec => []SafeModeRunsAlone
<1>1. ApiInit => SemaphoreIsHeld
  BY DEF ApiInit, NoCalls, NoCall, SemaphoreIsHeld, Running
<1>2. ApiShape /\ SemaphoreIsHeld => SafeModeRunsAlone
  <2> SUFFICES ASSUME ApiShape, SemaphoreIsHeld, SafeMode
               PROVE  Cardinality({c \in Running : ~OptedOut(c)}) <= 1
    BY DEF SafeModeRunsAlone
  <2>. DEFINE Alone == {c \in Running : ~OptedOut(c)}
  <2>1. \A c \in Alone : c = semaphore
    <3> SUFFICES ASSUME NEW c \in Calls, call[c].pc = "running", ~OptedOut(c)
                 PROVE  c = semaphore
      BY DEF Running
    <3>1. call[c].run \in {"start", "recover"}
      BY DEF ApiShape, ApiTypeOK, Call
    <3>. QED  BY <3>1 DEF SemaphoreIsHeld, Running, Guarded, OptedOut
  <2>2. Alone = {} \/ Alone = {semaphore}
    BY <2>1
  <2>. HIDE DEF Alone
  <2>3. Cardinality(Alone) = 0 \/ Cardinality(Alone) = 1
    BY <2>2, FS_EmptySet, FS_Singleton
  <2>4. Cardinality(Alone) <= 1
    BY <2>3
  <2>. QED  BY <2>4 DEF Alone
<1>. QED  BY <1>1, <1>2, SemaphoreStaysHeld, ApiShapeHolds, PTL DEF ApiSpec

LEMMA RecoveriesStayInformed ==
    ASSUME ApiShape, RecoveriesKnowTheExecution, [ApiNext]_apiVars
    PROVE  RecoveriesKnowTheExecution'
<1>0. NoCall.run = "start"
  BY DEF NoCall
<1>1. ASSUME NEW c \in Calls, StepOf(c) PROVE RecoveriesKnowTheExecution'
  <2> SUFFICES ASSUME NEW d \in Calls, call'[d].run = "recover"
               PROVE  call'[d].doc.execution
    BY DEF RecoveriesKnowTheExecution
  <2>1. CASE d # c
    BY <1>1, <2>1, OneCallMoves DEF RecoveriesKnowTheExecution
  <2>2. CASE d = c
    <3>1. call[c] \in Call /\ call[c].run = "recover" => call[c].doc.execution
      BY DEF ApiShape, ApiTypeOK, RecoveriesKnowTheExecution
    <3>2. CASE \E w \in Workflows : Opens(c, w) \/ Marks(c, w) \/ Reads(c, w)
      BY <2>2, <3>2 DEF Opens, Marks, Reads, Written, ApiShape, ApiTypeOK
    <3>3. CASE Ends(c)
      BY <2>2, <3>3 DEF Ends, Written, ApiShape, ApiTypeOK
    <3>4. CASE RunStarts(c)
      BY <2>2, <3>1, <3>4 DEF RunStarts, ApiShape, ApiTypeOK, Call
    <3>5. CASE Persist(c)
      BY <1>0, <2>2, <3>1, <3>5 DEF Persist, ApiShape, ApiTypeOK, Call
    <3>6. CASE LoadReturns(c) \/ RunRaises(c)
      BY <1>0, <2>2, <3>6 DEF LoadReturns, RunRaises, ApiShape, ApiTypeOK
    <3>. QED  BY <1>1, <3>2, <3>3, <3>4, <3>5, <3>6 DEF StepOf
  <2>. QED  BY <2>1, <2>2
<1>2. CASE LeavesCallsAlone
  BY <1>2 DEF LeavesCallsAlone, RecoveriesKnowTheExecution
<1>3. CASE Restart
  BY <1>3, <1>0 DEF Restart, NoCalls, RecoveriesKnowTheExecution
<1>. QED  BY <1>1, <1>2, <1>3, StepsAreOfOneCall

LEMMA FirstRunStaysAlone ==
    ASSUME ApiShape, RecoveriesKnowTheExecution, FirstRunIsAlone, [ApiNext]_apiVars
    PROVE  FirstRunIsAlone'
<1>0. NoCall.pc = "idle" /\ ~NoDoc.execution
  BY DEF NoCall, NoDoc
<1>1. ASSUME NEW c \in Calls, StepOf(c) PROVE FirstRunIsAlone'
  <2>a. /\ memory \in [Workflows -> Doc] /\ stored \in [Workflows -> Doc]
        /\ call \in [Calls -> Call]
    BY DEF ApiShape, ApiTypeOK
  <2>b. \A d \in Calls \ {c} : call'[d] = call[d]
    BY <1>1, OneCallMoves
  <2>c. \A d \in Calls : call[d].pc # "idle" => call[d].wf \in Workflows
    BY DEF ApiShape, CallsAreOfWorkflows
  <2>1. ASSUME NEW v \in Workflows, Opens(c, v)
        PROVE  FirstRunIsAlone'
    <3>1. \A d \in Calls : call[d].pc # "idle" => call[d].wf # v
      BY <2>1 DEF Opens, ApiShape, CallsAreOfWorkflows
    <3>. QED  BY <1>0, <2>1, <2>a, <2>b, <2>c, <3>1
              DEF Opens, Written, FirstRunIsAlone, Starting
  <2>2. ASSUME NEW v \in Workflows, Marks(c, v)
        PROVE  FirstRunIsAlone'
    BY <1>0, <2>2, <2>a, <2>b, <2>c DEF Marks, Written, FirstRunIsAlone, Starting
  <2>3. ASSUME NEW v \in Workflows, Reads(c, v)
        PROVE  FirstRunIsAlone'
    BY <1>0, <2>3, <2>a, <2>b, <2>c DEF Reads, FirstRunIsAlone, Starting
  <2>4. CASE RunStarts(c)
    BY <1>0, <2>4, <2>a, <2>b, <2>c DEF RunStarts, FirstRunIsAlone, Starting, Call
  <2>5. CASE Persist(c)
    BY <1>0, <2>5, <2>a, <2>b, <2>c DEF Persist, FirstRunIsAlone, Starting, Call
  <2>6. CASE LoadReturns(c)
    <3>1. call[c].doc # NoDoc /\ call[c].wf \in Workflows
      BY <2>6 DEF LoadReturns, ApiShape, CallsAreOfWorkflows, NoDoc
    <3>2. memory' = [memory EXCEPT ![call[c].wf] = call[c].doc] /\ stored' = stored
          /\ call'[c].pc = "idle"
      BY <1>0, <2>6, <2>a DEF LoadReturns
    <3>. QED  BY <2>6, <2>a, <2>b, <2>c, <3>1, <3>2 DEF LoadReturns, FirstRunIsAlone, Starting
  <2>7. CASE RunRaises(c)
    BY <1>0, <2>7, <2>a, <2>b, <2>c DEF RunRaises, FirstRunIsAlone, Starting, Call
  <2>8. CASE Ends(c)
    BY <1>0, <2>8, <2>a, <2>b, <2>c DEF Ends, Written, FirstRunIsAlone, Starting, Call,
       RecoveriesKnowTheExecution
  <2>. QED  BY <1>1, <2>1, <2>2, <2>3, <2>4, <2>5, <2>6, <2>7, <2>8 DEF StepOf
<1>2. CASE LeavesCallsAlone
  BY <1>2 DEF LeavesCallsAlone, FirstRunIsAlone, Starting
<1>3. CASE Restart
  BY <1>3, <1>0 DEF Restart, NoCalls, FirstRunIsAlone, Starting
<1>. QED  BY <1>1, <1>2, <1>3, StepsAreOfOneCall

(* While the first run of a workflow is in flight no recovery of it runs,  *)
(* however triggers, recoveries, loads and restarts interleave.            *)
THEOREM RecoveryAlwaysFollowsTheRun == ApiSpec => []RecoveryFollowsTheRun
<1>1. ApiInit => FirstRunIsAlone /\ RecoveriesKnowTheExecution
  BY DEF ApiInit, NoCalls, NoCall, FirstRunIsAlone, Starting, RecoveriesKnowTheExecution
<1>2. ApiShape /\ FirstRunIsAlone /\ RecoveriesKnowTheExecution => RecoveryFollowsTheRun
  BY DEF RecoveryFollowsTheRun, Running, FirstRunIsAlone, Starting, RecoveriesKnowTheExecution,
         ApiShape, ApiTypeOK, Call
<1>. QED  BY <1>1, <1>2, RecoveriesStayInformed, FirstRunStaysAlone, ApiShapeHolds, PTL
          DEF ApiSpec

LEMMA PausesStayOpen ==
    ASSUME ApiShape, PauseNamesAnOpenGate, [ApiNext]_apiVars
    PROVE  PauseNamesAnOpenGate'
<1>0. /\ gate \in [Gates -> Gate] /\ pause \in [Workflows -> Gates \cup {None}]
      /\ NoGate.status = "absent"
  BY DEF ApiShape, ApiTypeOK, NoGate
<1>1. ASSUME NEW c \in Calls, NEW w \in Workflows, NEW g \in Gates, CreateGate(c, g, w)
      PROVE  PauseNamesAnOpenGate'
  BY <1>0, <1>1 DEF CreateGate, PauseNamesAnOpenGate, Gate
<1>2. ASSUME NEW c \in Calls, NEW g \in Gates, Approve(c, g)
      PROVE  PauseNamesAnOpenGate'
  BY <1>0, <1>2 DEF Approve, Cleared, PauseNamesAnOpenGate, Gate
<1>3. ASSUME NEW g \in Gates, Refuse(g) PROVE PauseNamesAnOpenGate'
  BY <1>0, <1>3 DEF Refuse, PauseNamesAnOpenGate, Gate
<1>4. CASE Restart
  BY <1>4 DEF Restart, NoPauses, PauseNamesAnOpenGate
<1>5. CASE UNCHANGED approvals
  BY <1>5 DEF approvals, PauseNamesAnOpenGate
<1>6. ASSUME NEW c \in Calls,
             \/ \E w \in Workflows : (\E o \in Overrides : Trigger(c, w, o)) \/ Recover(c, w)
                                     \/ LoadReads(c, w)
             \/ RunStarts(c) \/ Work(c)
      PROVE  UNCHANGED approvals
  BY <1>6 DEF Trigger, Recover, LoadReads, RunStarts, Work, Persist, LoadReturns, RunRaises, RunEnds
<1>. QED  BY <1>1, <1>2, <1>3, <1>4, <1>5, <1>6 DEF ApiNext, Reviewer, Client, apiVars, approvals

(* The gate a workflow waits for is its own and was never approved,        *)
(* although clear_pause does not look at which gate it clears.             *)
THEOREM PausesAlwaysNameOpenGates == ApiSpec => []PauseNamesAnOpenGate
<1>1. ApiInit => PauseNamesAnOpenGate
  BY DEF ApiInit, NoPauses, PauseNamesAnOpenGate
<1>. QED  BY <1>1, PausesStayOpen, ApiShapeHolds, PTL DEF ApiSpec

LEMMA CopiesStayInAgreement ==
    ASSUME ApiShape, StoreIsCurrent, CopiesAgree, [ApiNext]_apiVars
    PROVE  StoreIsCurrent' /\ CopiesAgree'
<1>0. NoCall.pc = "idle"
  BY DEF NoCall
<1> DEFINE Goal == StoreIsCurrent' /\ CopiesAgree'
<1>1. ASSUME NEW c \in Calls, StepOf(c) PROVE Goal
  <2>a. /\ memory \in [Workflows -> Doc] /\ stored \in [Workflows -> Doc]
        /\ call \in [Calls -> Call]
    BY DEF ApiShape, ApiTypeOK
  <2>b. \A d \in Calls \ {c} : call'[d] = call[d]
    BY <1>1, OneCallMoves
  <2>c. \A d \in Calls : call[d].pc # "idle" => call[d].wf \in Workflows /\ call[d].doc # NoDoc
    BY DEF ApiShape, CallsAreOfWorkflows, NoDoc
  <2>1. ASSUME NEW w \in Workflows, NEW new, Written(c, w, new.doc, new),
               new.pc \in {"opening", "saving"}, call[c].pc \in {"idle", "running"},
               new.doc # NoDoc, UNCHANGED stored
        PROVE  Goal
    <3>1. \A v \in Workflows : Saving(v)' = IF v = w THEN Saving(v) \cup {c} ELSE Saving(v)
      BY <2>1, <2>a DEF Written, Saving
    <3>2. \A v \in Workflows \ {w} : memory'[v] = memory[v] /\ (v \in raced' <=> v \in raced)
      BY <2>1, <2>a DEF Written
    <3>3. memory'[w] = new.doc /\ c \notin Saving(w) /\ call'[c] = new
      BY <2>1, <2>a DEF Written, Saving
    <3>4. w \notin raced' => Saving(w) = {}
      BY <2>1, <3>3 DEF Written
    <3>5. StoreIsCurrent'
      BY <2>1, <3>1, <3>2 DEF StoreIsCurrent
    <3>6. \A v \in Workflows \ {w} : \A d \in Saving(v) : call'[d] = call[d]
      BY <2>1, <2>b DEF Saving
    <3>7. CopiesAgree'
      BY <2>1, <2>b, <3>1, <3>2, <3>3, <3>4, <3>6 DEF CopiesAgree
    <3>. QED  BY <3>5, <3>7
  <2>2. ASSUME NEW w \in Workflows, Reads(c, w) PROVE Goal
    <3>1. \A v \in Workflows : Saving(v)' = Saving(v)
      BY <2>2, <2>a DEF Reads, Saving
    <3>2. \A v \in Workflows : \A d \in Saving(v) : call'[d] = call[d]
      BY <2>2, <2>b DEF Reads, Saving
    <3>. QED  BY <2>2, <2>a, <2>b, <3>1, <3>2 DEF Reads, StoreIsCurrent, CopiesAgree
  <2>3. CASE RunStarts(c) \/ RunRaises(c)
    <3>1. /\ call'[c].pc \in {"idle", "running"} /\ call[c].pc \in {"queued", "running"}
          /\ UNCHANGED <<memory, stored, raced>>
      BY <1>0, <2>3, <2>a DEF RunStarts, RunRaises, Call
    <3>2. \A v \in Workflows : Saving(v)' = Saving(v)
      BY <2>b, <3>1 DEF Saving
    <3>3. \A v \in Workflows : \A d \in Saving(v) : call'[d] = call[d]
      BY <2>b, <3>1 DEF Saving
    <3>. QED  BY <2>b, <3>1, <3>2, <3>3 DEF StoreIsCurrent, CopiesAgree
  <2>4. CASE Persist(c)
    <3>. DEFINE w == call[c].wf
    <3>1. /\ w \in Workflows /\ c \in Saving(w) /\ memory[w] # NoDoc
      BY <2>4, <2>c DEF Persist, Saving, CopiesAgree
    <3>2. /\ UNCHANGED <<memory, raced>> /\ stored' = [stored EXCEPT ![w] = call[c].doc]
          /\ call'[c].pc \in {"idle", "queued"}
      BY <1>0, <2>4, <2>a DEF Persist, Call
    <3>3. \A v \in Workflows : Saving(v)' = Saving(v) \ {c}
      BY <2>b, <3>2 DEF Saving
    <3>4. \A v \in Workflows : \A d \in Saving(v) \ {c} : call'[d] = call[d]
      BY <2>b DEF Saving
    <3>5. \A v \in Workflows \ {w} : c \notin Saving(v) /\ stored'[v] = stored[v]
      BY <2>a, <3>2 DEF Saving
    <3>6. stored'[w] = call[c].doc
      BY <2>a, <3>1, <3>2
    <3>. HIDE DEF w
    <3>7. StoreIsCurrent'
      <4>1. w \notin raced => memory[w] = call[c].doc
        BY <3>1 DEF CopiesAgree
      <4>2. \A v \in Workflows \ {w} : Saving(v) \ {c} = Saving(v)
        BY <3>5
      <4>. QED  BY <3>2, <3>3, <3>5, <3>6, <4>1, <4>2 DEF StoreIsCurrent
    <3>8. CopiesAgree'
      <4>1. \A v \in Workflows : memory[v] = NoDoc => v # w
        BY <3>1
      <4>2. \A d \in Calls : call'[d].pc = "loading" => d # c
        BY <3>2
      <4>. QED  BY <2>b, <3>2, <3>3, <3>4, <3>5, <4>1, <4>2 DEF CopiesAgree
    <3>. QED  BY <3>7, <3>8
  <2>5. CASE LoadReturns(c)
    <3>. DEFINE w == call[c].wf
    <3>1. /\ w \in Workflows /\ call[c].doc # NoDoc /\ call[c].pc = "loading"
          /\ memory[w] = NoDoc => Saving(w) = {} /\ call[c].doc = stored[w]
      BY <2>5, <2>c DEF LoadReturns, CopiesAgree
    <3>2. /\ memory' = [memory EXCEPT ![w] = call[c].doc] /\ stored' = stored
          /\ call'[c].pc = "idle"
          /\ raced' = IF memory[w] = NoDoc THEN raced ELSE raced \cup {w}
      BY <1>0, <2>5, <2>a DEF LoadReturns
    <3>3. \A v \in Workflows : Saving(v)' = Saving(v)
      BY <2>b, <3>1, <3>2 DEF Saving
    <3>4. \A v \in Workflows : \A d \in Saving(v) : call'[d] = call[d]
      BY <2>b, <3>1 DEF Saving
    <3>5. memory'[w] = call[c].doc /\ \A v \in Workflows \ {w} : memory'[v] = memory[v]
      BY <2>a, <3>1, <3>2
    <3>. HIDE DEF w
    <3>6. w \notin raced' => memory[w] = NoDoc
      BY <3>2
    <3>7. \A v \in Workflows \ {w} : v \in raced' <=> v \in raced
      BY <3>2
    <3>8. StoreIsCurrent'
      BY <3>1, <3>2, <3>3, <3>5, <3>6, <3>7 DEF StoreIsCurrent
    <3>9. CopiesAgree'
      BY <2>b, <3>1, <3>2, <3>3, <3>4, <3>5, <3>6, <3>7 DEF CopiesAgree
    <3>. QED  BY <3>8, <3>9
  <2>6. ASSUME NEW w \in Workflows, Opens(c, w) \/ Marks(c, w) PROVE Goal
    BY <2>1, <2>6 DEF Opens, Marks
  <2>7. CASE Ends(c)
    BY <2>1, <2>7, <2>c DEF Ends
  <2>. QED  BY <1>1, <2>2, <2>3, <2>4, <2>5, <2>6, <2>7 DEF StepOf
<1>2. CASE LeavesCallsAlone
  BY <1>2 DEF LeavesCallsAlone, StoreIsCurrent, CopiesAgree, Saving
<1>3. CASE Restart
  <2>1. memory' = [w \in Workflows |-> NoDoc] /\ \A w \in Workflows : Saving(w)' = {}
        /\ \A c \in Calls : call'[c].pc = "idle"
    BY <1>3, <1>0 DEF Restart, NoWorkflows, NoCalls, Saving
  <2>. QED  BY <2>1 DEF StoreIsCurrent, CopiesAgree
<1>. QED  BY <1>1, <1>2, <1>3, StepsAreOfOneCall

(* Whoever reads the workflow from the store, once every call on its way   *)
(* there has returned, reads what is in memory, unless two of them         *)
(* overlapped.                                                             *)
THEOREM StoreIsAlwaysCurrent == ApiSpec => []StoreIsCurrent
<1>1. ApiInit => StoreIsCurrent /\ CopiesAgree
  BY DEF ApiInit, NoWorkflows, NoCalls, NoCall, StoreIsCurrent, CopiesAgree, Saving
<1>. QED  BY <1>1, CopiesStayInAgreement, ApiShapeHolds, PTL DEF ApiSpec
=============================================================================
