----------------------------- MODULE ApiWorkflow -----------------------------
(***************************************************************************)
(* The API's view of a workflow: ExecutionService's copies of it in memory *)
(* and in the state store, the calls that write them while the runtime is  *)
(* running, and the approval gates that pause and resume it                *)
(* (app/services/execution_service.py, app/services/approval_service.py,   *)
(* core/approvals/service.py).                                             *)
(*                                                                         *)
(* A call is cut where it awaits the store, the safe-mode semaphore or the *)
(* runtime.  The runtime is seen from outside: it creates the execution's  *)
(* record, takes its time, and returns a status or raises.                 *)
(***************************************************************************)
EXTENDS Naturals, FiniteSets

CONSTANTS
    Workflows, Gates, Calls,
    None,           \* no gate, no call
    SafeMode,       \* LOCAL_LM_STUDIO_SAFE_MODE is set
    RunEnd,         \* the statuses a run may return with
    Overrides,      \* what requests say of safe mode: {"unset"}, or also "on", "off"
    MaxRestarts     \* bound on the restarts of the API process

ASSUME ApiAssumption ==
    /\ None \notin Calls
    /\ SafeMode \in BOOLEAN
    /\ RunEnd \subseteq {"completed", "failed", "paused", "cancelled"}
    /\ Overrides \subseteq {"unset", "on", "off"}
    /\ MaxRestarts \in Nat

VARIABLES
    memory,         \* ExecutionService._workflows
    stored,         \* the api_workflows bucket of the state store
    record,         \* status of each workflow's execution in the repository
    call,           \* the calls in flight
    semaphore,      \* the call that holds _local_safe_mode_semaphore
    gate,           \* ApprovalRecord.status and workflow
    pause,          \* _pauses_by_workflow: the gate a workflow waits for
    raced,          \* history: workflows whose last writes overlapped
    restarts

apiVars == <<memory, stored, record, call, semaphore, gate, pause, raced, restarts>>

approvals == <<gate, pause>>

Final == {"completed", "failed", "cancelled"}

(* A WorkflowResponse: its status, and whether its metadata has            *)
(* execution_id and local_lm_studio_safe_mode.                             *)
NoDoc == [status |-> "absent", execution |-> FALSE, safe |-> FALSE]

NoCall == [pc |-> "idle", run |-> "start", wf |-> None, doc |-> NoDoc,
           safe |-> FALSE, known |-> "running"]

NoGate == [status |-> "absent", wf |-> None]

NoWorkflows == [w \in Workflows |-> NoDoc]
NoCalls == [c \in Calls |-> NoCall]
NoGates == [g \in Gates |-> NoGate]
NoPauses == [w \in Workflows |-> None]

ApiInit ==
    /\ memory = NoWorkflows /\ call = NoCalls /\ semaphore = None
    /\ gate = NoGates /\ pause = NoPauses
    /\ stored = NoWorkflows
    /\ record = [w \in Workflows |-> "absent"]
    /\ raced = {}
    /\ restarts = 0

-----------------------------------------------------------------------------
Saving(w) == {c \in Calls : call[c].wf = w /\ call[c].pc \in {"opening", "saving"}}

(* The workflow is replaced in memory at once; _persist_workflow then      *)
(* awaits the store with the copy it was given.                            *)
Write(c, w, doc, pc, safe) ==
    /\ memory' = [memory EXCEPT ![w] = doc]
    /\ call' = [call EXCEPT ![c] = [NoCall EXCEPT !.pc = pc, !.wf = w, !.doc = doc,
                                                  !.safe = safe]]
    /\ raced' = IF Saving(w) \ {c} = {} THEN raced \ {w} ELSE raced \cup {w}

(* Seeded fault: an insert, not an upsert. *)
PersistOnce(c) ==
    /\ call[c].pc \in {"opening", "saving"}
    /\ stored' = IF stored[call[c].wf] # NoDoc THEN stored
                 ELSE [stored EXCEPT ![call[c].wf] = call[c].doc]
    /\ call' = [call EXCEPT ![c] = IF @.pc = "opening" THEN [@ EXCEPT !.pc = "queued"]
                                   ELSE NoCall]
    /\ UNCHANGED <<memory, record, semaphore, approvals, raced, restarts>>

(* _persist_workflow, when the upsert is done *)
Persist(c) ==
    /\ call[c].pc \in {"opening", "saving"}
    /\ stored' = [stored EXCEPT ![call[c].wf] = call[c].doc]
    /\ call' = [call EXCEPT ![c] = IF @.pc = "opening" THEN [@ EXCEPT !.pc = "queued"]
                                   ELSE NoCall]
    /\ UNCHANGED <<memory, record, semaphore, approvals, raced, restarts>>

Safe(override) == IF override = "unset" THEN SafeMode ELSE override = "on"

(* trigger_workflow, trigger_workflow_live: the workflow is RUNNING before *)
(* anything runs.                                                          *)
Trigger(c, w, override) ==
    /\ call[c].pc = "idle"
    /\ memory[w] = NoDoc /\ stored[w] = NoDoc
    /\ Write(c, w, [NoDoc EXCEPT !.status = "running", !.safe = (override = "on")],
             "opening", Safe(override))
    /\ UNCHANGED <<stored, record, semaphore, approvals, restarts>>

(* Seeded fault: the semaphore is not looked at. *)
MayRunAtOnce(c) == TRUE

(* The call that executes a workflow goes by the process's own setting,    *)
(* one that recovers it by the workflow's metadata.                        *)
Guarded(c) == IF call[c].run = "start" THEN SafeMode ELSE call[c].doc.safe

MayRun(c) == Guarded(c) => semaphore = None

(* runtime.start creates the record; runtime.recover finds it. *)
RunStarts(c) ==
    LET w == call[c].wf IN
    /\ call[c].pc = "queued"
    /\ MayRun(c)
    /\ semaphore' = IF Guarded(c) THEN c ELSE semaphore
    /\ call' = [call EXCEPT ![c].pc = "running", ![c].known = record[w]]
    /\ record' = [record EXCEPT ![w] = IF @ \in Final THEN @ ELSE "running"]
    /\ UNCHANGED <<memory, stored, approvals, raced, restarts>>

(* Seeded fault: an exception leaves the semaphore taken. *)
ReleasedOnSuccess(c, ok) == IF semaphore = c /\ ok THEN None ELSE semaphore

Released(c, ok) == IF semaphore = c THEN None ELSE semaphore

(* _execute_workflow and recover_workflow, after the runtime returned:     *)
(* the first takes the workflow as it is now and replaces its metadata,    *)
(* the second merges into the workflow it read before the run.             *)
Finished(c, status) ==
    IF call[c].run = "start"
    THEN [memory[call[c].wf] EXCEPT !.status = status, !.execution = TRUE,
                                    !.safe = call[c].safe]
    ELSE [call[c].doc EXCEPT !.status = status]

RunEnds(c, status) ==
    LET w == call[c].wf IN
    /\ call[c].pc = "running"
    /\ status = call[c].known \/ call[c].known \notin Final
    /\ record' = [record EXCEPT ![w] = status]
    /\ semaphore' = Released(c, TRUE)
    /\ Write(c, w, Finished(c, status), "saving", FALSE)
    /\ UNCHANGED <<stored, approvals, restarts>>

(* An exception out of the runtime ends the call and nothing else. *)
RunRaises(c) ==
    /\ call[c].pc = "running"
    /\ semaphore' = Released(c, FALSE)
    /\ call' = [call EXCEPT ![c] = NoCall]
    /\ UNCHANGED <<memory, stored, record, approvals, raced, restarts>>

(* pause_workflow and resume_workflow change the status, whatever it was,  *)
(* and merge their metadata in.                                            *)
Marked(w, status) == [memory[w] EXCEPT !.status = status]

(* Seeded fault: the execution id is not asked for. *)
RecoverAnyway(c, w) ==
    /\ call[c].pc = "idle"
    /\ memory[w] # NoDoc
    /\ call' = [call EXCEPT ![c] = [NoCall EXCEPT !.pc = "queued", !.run = "recover",
                                                  !.wf = w, !.doc = memory[w]]]
    /\ UNCHANGED <<memory, stored, record, semaphore, approvals, raced, restarts>>

(* recover_workflow: without an execution id there is nothing to recover,  *)
(* and the workflow is only marked RUNNING.                                *)
Recover(c, w) ==
    /\ call[c].pc = "idle"
    /\ memory[w] # NoDoc
    /\ \/ /\ memory[w].execution
          /\ call' = [call EXCEPT ![c] = [NoCall EXCEPT !.pc = "queued", !.run = "recover",
                                                        !.wf = w, !.doc = memory[w]]]
          /\ UNCHANGED <<memory, raced>>
       \/ /\ ~memory[w].execution
          /\ Write(c, w, Marked(w, "running"), "saving", FALSE)
    /\ UNCHANGED <<stored, record, semaphore, approvals, restarts>>

-----------------------------------------------------------------------------
(* create_approval: the gate and the pause are kept even when the workflow *)
(* is not in memory and pausing it raises.                                 *)
CreateGate(c, g, w) ==
    /\ call[c].pc = "idle"
    /\ gate[g] = NoGate
    /\ memory[w] # NoDoc \/ stored[w] # NoDoc
    /\ gate' = [gate EXCEPT ![g] = [status |-> "pending", wf |-> w]]
    /\ pause' = [pause EXCEPT ![w] = g]
    /\ \/ memory[w] = NoDoc /\ UNCHANGED <<memory, call, raced>>
       \/ memory[w] # NoDoc /\ Write(c, w, Marked(w, "paused"), "saving", FALSE)
    /\ UNCHANGED <<stored, record, semaphore, restarts>>

(* Seeded fault: an approval leaves the pause where it is. *)
NotCleared(g) == pause

(* clear_pause does not look at which gate the workflow waits for. *)
Cleared(g) == [pause EXCEPT ![gate[g].wf] = None]

(* decide, an approval: the pause goes and the workflow is marked RUNNING. *)
Approve(c, g) ==
    LET w == gate[g].wf IN
    /\ call[c].pc = "idle"
    /\ gate[g].status = "pending"
    /\ gate' = [gate EXCEPT ![g].status = "approved"]
    /\ pause' = Cleared(g)
    /\ \/ memory[w] = NoDoc /\ UNCHANGED <<memory, call, raced>>
       \/ memory[w] # NoDoc /\ Write(c, w, Marked(w, "running"), "saving", FALSE)
    /\ UNCHANGED <<stored, record, semaphore, restarts>>

(* decide, a rejection or a cancellation: the pause stays. *)
Refuse(g) ==
    /\ gate[g].status = "pending"
    /\ gate' = [gate EXCEPT ![g].status = "refused"]
    /\ UNCHANGED <<memory, stored, record, call, semaphore, pause, raced, restarts>>

(* resume_decision: what the API answers when asked if w may go on. *)
CanResume(w) == pause[w] = None

-----------------------------------------------------------------------------
(* get_workflow, latest_workflow: a workflow that is not in memory is      *)
(* fetched, and what was fetched is put there when the store answers.      *)
LoadReads(c, w) ==
    /\ call[c].pc = "idle"
    /\ memory[w] = NoDoc
    /\ stored[w] # NoDoc
    /\ call' = [call EXCEPT ![c] = [NoCall EXCEPT !.pc = "loading", !.wf = w, !.doc = stored[w]]]
    /\ UNCHANGED <<memory, stored, record, semaphore, approvals, raced, restarts>>

LoadReturns(c) ==
    LET w == call[c].wf IN
    /\ call[c].pc = "loading"
    /\ memory' = [memory EXCEPT ![w] = call[c].doc]
    /\ call' = [call EXCEPT ![c] = NoCall]
    /\ raced' = IF memory[w] = NoDoc THEN raced ELSE raced \cup {w}
    /\ UNCHANGED <<stored, record, semaphore, approvals, restarts>>

(* The process stops between any two awaits: the store and the repository  *)
(* stay; the calls, the gates and the pauses go.                           *)
Restart ==
    /\ restarts < MaxRestarts
    /\ restarts' = restarts + 1
    /\ memory' = NoWorkflows /\ call' = NoCalls /\ semaphore' = None
    /\ gate' = NoGates /\ pause' = NoPauses
    /\ raced' = {}
    /\ UNCHANGED <<stored, record>>

-----------------------------------------------------------------------------
(* The clients call, and the process may stop, as they please. *)
Client(c) ==
    \E w \in Workflows :
        \/ \E o \in Overrides : Trigger(c, w, o)
        \/ Recover(c, w)
        \/ LoadReads(c, w)
        \/ \E g \in Gates : CreateGate(c, g, w)

Reviewer ==
    \E g \in Gates :
        \/ \E c \in Calls : Approve(c, g)
        \/ Refuse(g)

Work(c) ==
    \/ Persist(c)
    \/ LoadReturns(c)
    \/ RunRaises(c)
    \/ \E s \in RunEnd : RunEnds(c, s)

ApiNext ==
    \/ Reviewer \/ Restart
    \/ \E c \in Calls : Client(c) \/ RunStarts(c) \/ Work(c)

(* The event loop runs what is ready, every run ends (WorkflowRuntime's    *)
(* EverySessionEnds), and asyncio.Semaphore serves its waiters in turn.    *)
ApiFairness == \A c \in Calls : WF_apiVars(Work(c)) /\ SF_apiVars(RunStarts(c))

-----------------------------------------------------------------------------
Running == {c \in Calls : call[c].pc = "running"}

OptedOut(c) == call[c].run = "recover" /\ ~call[c].doc.safe

(* Safe mode exists for a model server that takes one request at a time:   *)
(* of two runs at once, one recovers a workflow whose request opted out.   *)
SafeModeRunsAlone ==
    SafeMode => Cardinality({c \in Running : ~OptedOut(c)}) <= 1

(* A workflow is never recovered while its first run is still in flight,   *)
(* because nobody knows the execution's id before that run has returned.   *)
RecoveryFollowsTheRun ==
    \A c, d \in Running :
        call[c].wf = call[d].wf /\ call[c].run = "start" => call[d].run = "start"

(* The gate a workflow is said to wait for is a gate of that workflow, and *)
(* not one that has been approved.                                         *)
PauseNamesAnOpenGate ==
    \A w \in Workflows : pause[w] # None =>
        gate[pause[w]].wf = w /\ gate[pause[w]].status \notin {"absent", "approved"}

(* With no call on its way to the store, the stored workflow is the one in *)
(* memory, unless two writes of it, or a write and a load, overlapped.     *)
StoreIsCurrent ==
    \A w \in Workflows :
        memory[w] # NoDoc /\ w \notin raced /\ Saving(w) = {} => stored[w] = memory[w]

(* Every call returns: the semaphore is always given on. *)
EveryCallEnds ==
    \A c \in Calls : call[c].pc # "idle" ~> call[c].pc = "idle"
=============================================================================
