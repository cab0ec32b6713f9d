# Verification of the delivery platform

This directory holds TLA+ models of the delivery platform: the program that
takes a task through business analysis, architecture, development, QA,
documentation and a pull request, with one agent per stage, and the API, the
chat and the document stores around it. The models are written from the Python
sources under `src/`; `PROJECT.json` maps every definition to the lines it stands
for, and lists the hazards of the code with the properties that cover them.
Paths below are relative to `src/`.

## The system

| Component | State it keeps | Operations | Interacts with |
|---|---|---|---|
| Workflow execution runtime (`core/graph/execution.py`) | run state of each call: status, next and last agent, attempts, workflow state, metadata | `start`, `recover`, `cancel`; router node, agent nodes, `_finalize` | repository (every node reads and writes the record), agent runtimes (awaited), event hook |
| Execution repositories (`core/graph/persistence.py`) | one record per execution, with checkpoints, attempts, metadata and agent locks | `create`, `get`, `update`, `append_checkpoint`, `cancel` | shared by backend and worker when backed by PostgreSQL |
| Recovery worker (`core/graph/worker.py`) | none | polls the store, recovers executions it owns | repository, runtime |
| Supervisor graph (`core/graph/supervisor.py`, `routing.py`, `orchestrator.py`) | workflow state, rejections | the older router and its LangGraph | agents |
| Execution service (`app/services/execution_service.py`) | workflow records in memory and in the state store, artifact directories, playground, uploads | trigger, pause, resume, recover, improve, playground | runtime, event bus, approvals |
| Approval gates (`core/approvals`) | approvals and the pause of each workflow, in memory | create a gate, decide | execution service |
| Chat (`core/chat`, `app/services/chat_service.py`) | conversations, assistant jobs | send, stream, retry, cancel, delete | execution service, model |
| Events and progress (`core/streaming`, `app/websocket`) | log, subscriber queues, step counters | publish, subscribe, history, track | runtime's hook, WebSockets |
| Prompt studio, governance management | versioned documents | save, roll back, delete, seed | agents read them |
| Workspaces (`core/workspaces`) | workspaces and projects | create | API |
| Agent runtime, retry engine, repository runtime (`core/runtime`, `core/agents/llm_runtime.py`, `core/repository`) | attempts of one execution, the workspace of a target repository | run with retries and compression, apply, diff, commit | model client, git |
| Context engineering, context governor, model clients (`core/context_engineering`, `core/runtime/context_governor.py`, `core/agents/model_clients.py`) | none | select, compress, budget, cut, send | memory, repository files |
| Provider registry (`core/agents/providers.py`, `app/services/provider_service.py`) | providers, assignments, model profiles | save, delete, assign, refresh, load, unload | LM Studio over HTTP |
| Governance engine (`core/governance`) | none | effective policy, two checks of an output | documents, files |
| Output validation (`core/runtime/validation.py`) | none | parse, repair, normalise, check | agent runtime |
| QA sandbox (`core/qa_sandbox`, `core/agents/qa`) | one browser session | commands, browser attempts, evidence | drivers |
| Memory (`core/memory`) | records, indexed texts | remember, index, recall, retrieve | context engineering |

The supervisor graph, the QA runtime of `core/agents/qa` and the `MemorySystem`
are constructed by the repository's tests only; the running backend uses the
execution runtime and the agents of `llm_runtime.py`.

### What is hard here

* The runtime, `cancel()`, a second `recover()` and the worker share one record
  that each reads, keeps across awaits and writes back whole. The chat, the
  document stores, the workspaces and the API's workflows repeat that pattern.
* A run may die between any two of its writes and is then resumed from a
  checkpoint and a record that were written by different statements.
* Retries, rework after a QA rejection, pauses and resumptions steer one router,
  with three counters (attempts, rejections, the pause point) that must agree.
* The same facts are kept twice: a workflow in memory and in the store, a run in
  its record and in the API's workflow, a stage in the log and in five views of
  it, a document in the database and in the file it came from.
* Pipelines of small pure steps (selection, budgets, governance, validation)
  where each step is simple and what the last one lets through is not.

## Modules

| Module | Models | Kind |
|---|---|---|
| `DeliveryRouting` | `_next_agent`, `_sequence_for_metadata`, `_should_pause`, `_apply_result`; what it means that work stands, is coherent and is in hand | operators |
| `WorkflowRuntime` | one execution: `start`, `recover`, `cancel`, all nodes, locks, persistence, `_finalize`, interruptions | state machine |
| `DeliveryContract` | what a client may rely on, seen through the record | abstract specification |
| `ExecutionStore` | the same execution behind the PostgreSQL repository, with the recovery worker | state machine |
| `SupervisorGraph` | the older orchestrator with its router | state machine |
| `ApiWorkflow` | workflows in memory and in the store, the calls that run them, the approval gates | state machine |
| `VersionedDocuments` | prompt studio and governance management | state machine |
| `Workspaces` | `create_project` | state machine |
| `EventStream` | the bus, the hook, the tracker, the views, the WebSockets | state machine |
| `ArtifactFiles` | the files of an agent's directory | state machine |
| `Playground` | single runs, their handoffs, uploads | state machine |
| `ChatJobs` | a conversation and the assistant's jobs | state machine |
| `AgentCall` | one execution of an agent, the developer's passes, the repository | state machine |
| `QaSandbox` | commands and browser attempts of QA | state machine |
| `MemorySystem` | memories, index, retrieval | state machine |
| `ContextSelection` | the context of an agent | pipeline |
| `PromptBudget` | two budgets of a prompt, the compact one built again, two cuts | pipeline |
| `ProviderRegistry` | the providers and LM Studio's models | state machine |
| `GovernanceChecks` | the policy, both checks of an output and what is made of them | pipeline |
| `OutputValidation` | from an answer to the output and QA's verdict | pipeline |
| `RoutingProofs` | lemmas about `DeliveryRouting` | proofs |
| `WorkflowRuntimeProofs`, `DeliveryContractProofs` | theorems about `WorkflowRuntime`, and that it implements `DeliveryContract` | proofs |
| `ExecutionStoreProofs` | theorems about `ExecutionStore`, and that it implements `DeliveryContract` | proofs |
| `ApiWorkflowProofs` | theorems about `ApiWorkflow` | proofs |
| `ServicesProofs` | theorems about `Workspaces`, `EventStream`, `VersionedDocuments`, `Playground`, `ArtifactFiles` | proofs |
| `AgentsProofs` | theorems about `QaSandbox`, `AgentCall`, `SupervisorGraph`, `ChatJobs` | proofs |
| `ContextProofs` | theorems about `PromptBudget`, `GovernanceChecks`, `OutputValidation`, `ProviderRegistry`, `MemorySystem`, `ContextSelection` | proofs |
| `MC...` | instances for TLC | model checking |

`MCServices`, `MCAgents` and `MCAgentContext` hold several components that do not
call one another: a variable `part` says which of them a behaviour looks at, and
the others do not start. So one run covers them without multiplying their states.
`MCApi` has the API's workflows beside a conversation of the chat, which is in
`MCAgents` too, with fewer messages, for both repositories and for what must happen
to its jobs. `MCWorkflowRuntime` has one session at a time, `MCWorkflowPairs` two of
the backend's and one of a worker's, any two of them at once (`TwoAtOnce`).

### The execution runtime

`record` is the `WorkflowExecutionRecord` (status, owner, active and next agent,
`metadata["attempts"]`, `metadata["runtime_metadata"]`, agent locks) and
`checkpoint` the newest `WorkflowCheckpoint`; the runtime never reads older ones.
`run[s]` is the `RealWorkflowRuntimeState` of call `s`, with a program counter
that says which node it is in. A session is one call of `start()` or `recover()`;
several may be in flight. The in-memory repository never suspends, so the code
between two awaits that do (the boundaries of the graph's nodes and the agent's
work) is one action:

| Action | Code |
|---|---|
| `Start`, `Recover`, `Cancel` | the public methods; calls that return at once or raise change nothing and are left out |
| `Route`, `RouteCancelled` | `_router_node`, `_persist_state`, `_route_from_router` |
| `AgentSeesCancel`, `AgentLockDenied`, `AgentStarts` | `_execute_agent` before the agent works |
| `AgentReturns`, `AgentUnroutable` | `_execute_agent` once it has answered: lock released, result applied, persisted; or the lookup of the next stage raises |
| `Finalize` | `_finalize` |
| `Interrupt` | the process or the call dies; what is persisted stays |

An agent's answer is one of four verdicts: completed, completed with QA's
`reject` signal, failed, failed with `retry_allowed` false. `ws.clock` counts
applied results and stands for the wall clock of `completed_at`, so that "after"
can be said.

`DeliveryContract` knows only the status, the plan, which planned stages stand
and how often QA rejected. `ImplementsContract` shows that the runtime, one call
at a time, is that contract, in memory and behind PostgreSQL. A stage stands when
the newest checkpoint has it completed and, for the developer's, QA has not
rejected it since.

In `ExecutionStore`, `doc` is the stored JSON document, `call[s].copy` the copy a
call has fetched and not yet written back, `canceller` the copy of a `cancel()` in
flight. An action is the code from one store operation to the next:

| Actions | Code |
|---|---|
| `Start` | `start`, whose `create` is one upsert |
| `Recover`, `RecoverStatus`, `RecoverCheckpoint`, `RecoverRecord`, `RecoverWrite` | `recover`: three gets and an upsert |
| `Sweep`, `RecoveryFailed` | `_recover_running_records`: the list and its filter, and the except branch, which writes back the record that was listed |
| `Route` | `_router_node` up to `_persist_state` |
| `PersistRead`, `AppendRead`, `AppendWrite`, `UpdateRead`, `UpdateWrite` | `_persist_state` |
| `AgentRead`, `LockRead`, `LockWrite`, `AgentAnswers`, `UnlockRead`, `UnlockWrite`, `AgentReturns` | `_execute_agent` with its lock |
| `FinalRead`, `FinalWrite` | `_finalize` |
| `CancelRead`, `CancelWrite` | `cancel` of the repository |
| `Interrupt` | the process dies between two store operations |

### The API and the services

* `ApiWorkflow`. `memory` is `ExecutionService._workflows`, `stored` the
  `api_workflows` bucket, `record` the status of the runtime's execution, `gate` and
  `pause` the approvals. A call is cut where it awaits the store, the semaphore or
  the runtime, which is seen from outside: it takes its time and returns a status
  (`RunEnds`) or raises (`RunRaises`). `Trigger`, `Recover`, `CreateGate`, `Approve`,
  `Refuse`, `LoadReads` are the requests, `Persist` and `LoadReturns` their later
  halves, `Restart` loses everything but `stored` and `record`.
* `VersionedDocuments` serves both studios and all three kinds of repository;
  with PostgreSQL a save is three awaits (`Save` lists, `WriteDocument`,
  `WriteVersion`), else one step. `Seed` is the process's start, `Restart` a new one.
  Governance and the prompt studio save the files that have no document, one by one;
  a process started away from the prompt files (`inTree` is false) saves the prompt
  studio's own defaults in their place, all of them if there is no document at all
  (`LeftToSeed`). `EngineReads` is the text that governance then uses.
* `EventStream`. `StageStarts` and `StageEnds` queue the events the hook emits for
  a stage, `Publish` and `Store` bring them into the log and the history,
  `ReadHistory`, `Subscribe` and `Deliver` are a WebSocket's steps, and the views
  (`NodeStatus`, `RetryCount`, `Totals`) are computed from the log as the code does.
* `ArtifactFiles`. A file is who wrote it, in which attempt, and whether it is
  sparse. `Bundle` writes an attempt's files, fills the gaps and indexes; `Improve`
  is the improve request.
* `Playground`: a request goes through `RunStarts`, `RunEnds`, `StoreArtifact`, or
  edits, lists, uploads; `overlapped` remembers which artifacts two writes raced on.
* `ChatJobs`. A client or job reads the conversation (`Fetch`), changes and writes
  it (`Store`); with the file repository the two are one step. `Chunk` is a piece of
  the model's answer, `CancelAsked` and `CancelReaches` the two ends of a
  `task.cancel()`, `Disconnect` the reader of a streaming answer going away. A
  streamed request that starts a workflow makes two messages of its own and two by
  `create_message` (`then = "again"`).

### The agents

* `AgentCall`: `Execute`, `Prompt`, `Invoke` and `Resolve` are `BaseAgent.execute`
  around one provider call, with `RetryEngine.run` deciding (`Classify`,
  `TriedAgain`) on the signs found in an error's text; `DevelopPass`, `Merge` and
  `Augment` build the developer's output, and `CloneRepository`, `ApplyOutput`,
  `Commit` change `tree` (disk) and `head` (committed). The output is two lists, code
  changes and tests, each without duplicates, and a path may be in both. `With` drops
  what has no content, a delete too, `Apply` writes the tests after the code, and
  `Staged` leaves out new files that git ignores. `GitRaises` may happen at each git
  step.
* `PromptBudget`: in the local safe mode an agent's prompt over its budget is built
  again from the task (`CompactSystem`, `CompactUser`), and cut if that is over the
  budget still; the developer's own `_execute_once` never asks the governor, so its
  prompts meet the client's cut only.
* `GovernanceChecks`: `Judge` rejects what a check raises, but a developer's call
  keeps it as a warning unless it names a critical thing; `Unreadable` is an answer
  that does not fit its schema, which has no second check.
* `OutputValidation`: `Payload` reads an answer with the parser its request names;
  the markdown sections that business analysis' and the architect's profiles name
  are read by business analysis' parser whoever the agent is (`Sectioned`). An answer
  of QA or of the documentation that does not fit is kept for a review and told to go
  on (`Validate`).
* `SupervisorGraph`: `Supervise` routes, `RunAgent` takes any signal an agent may
  leave; LangGraph's step limit ends a run by raising.
* `QaSandbox`: `RunCommand`, `OpenSession`, `ExecuteStep`, `Finalize`, `Conclude`;
  `AttemptFails` tries again on the page the driver has kept.
* `MemorySystem`, `ContextSelection`, `ProviderRegistry`: what an agent is given and
  whom it is sent to; candidates are the rules, the files, both summaries, the
  upstream artifacts and both memories.

Texts are sizes (tokens, characters), topics, or what their readers look for in them.

## Runs

Eight runs pass, four show a disagreement.

| Run | Question | States |
|---|---|---|
| `runtime_single` | Does one call after another, with cancellations, pauses, retries, rework and two crashes, build on standing work, bound its rework, earn its ends, end at all, and implement the contract? | 58,914 |
| `runtime_pair` | What survives two calls on one execution, and does the owner check keep another owner's runtime out of the stages? | 499,050 |
| `store_single` | What does a crash between any two store operations cost behind PostgreSQL, and is the contract still implemented? | 549,128 |
| `store_worker` | Does the worker bring every execution of its own to an end? | 149,182 |
| `api` | Do requests, runs, gates and restarts leave the workflows consistent, and does every call end? Does a conversation keep what was written to it? | 243,468 |
| `services` | Documents, workspaces, events, artifact files and the playground, each with concurrent requests and restarts | 882,959 |
| `agent_context` | Memory, context, budgets, providers, governance, validation | 742,822 |
| `agents` | Agent calls, browser tests, the supervisor graph, chat jobs | 70,505 |
| `worker_idle` | Does the worker recover the backend's executions? No. | |
| `changes_uncommitted` | Is what the developer applied committed? No. | |
| `edits_ignored` | Does an edited governance document take effect? No. | |
| `governance_warned` | Is an invalid output always rejected? Not a developer's. | |

Some of the properties, and what they mean for the code:

* `EndsAreEarned`: an execution is completed only with all planned stages standing
  and failed only for a cause the routing rules accept, and a cancellation is not
  undone by the session at work (`_persist_state`'s check).
* `CrashesCostOneAttempt`: a crash between any two store operations costs at most
  one attempt of one agent, and no checkpoint, completed stage or order of stages.
* `StoreIsCurrent`: when nothing overlapped, memory and store hold the same
  workflow; `raced` marks the overlaps, where the code lets the last write win.
* `PauseNamesAnOpenGate`, `RecoveryFollowsTheRun`, `SafeModeRunsAlone`: gates,
  recoveries and the semaphore do what the rest of the service relies on.
* `HistoryStands`, `StartsFillIn`: what versions and seeds keep, whatever saves,
  rollbacks, deletions, restarts overlap.
* `ViewsShowTheRun`: statuses, telemetry, counters and totals say how the run
  stands, however it was retried and reworked.
* `ArtifactsStand`: a document of substance is never replaced by a template, and
  the required files are always there.
* `RetriesAreEarned`, `CommitsCarryTheOutput`, `VerdictIsEarned`,
  `SequenceIsWorkedThrough`: retries only after errors that allow it, a commit is
  the whole output as far as it has content, the tests over the code, QA goes on
  only with all its evidence, and the end of the sequence is reached only over work
  that stands.
* `NothingIsSentCut`: neither cut ever makes a prompt fit, so no text reaches a model
  broken off: the cuts are there to shorten it, and what they do is refuse it. What is
  sent in place of a prompt that was too large is the compact one built again, in the
  safe mode and never for a developer. `RequestsFitTheWindow`: what is sent fits.
* `StandardsHold`: what a standard forbids and the mode blocks is accepted of nobody
  but a developer, and of a developer only uncritical and named in the warning, or of
  controllers where the validator excuses it.
* `VerdictsFollowTheAnswer`: QA's rejection carries a request to fix wherever its
  answer names one, and the work goes on only on a verdict of passing, or marked for a
  review when the JSON does not fit the schema.
* `HigherFirst`, `MemoryStaysApart`, `TheDefaultStands`: what the budget keeps, an
  agent retrieves, and who is called when nobody is named.
* `WritesAreKept`, `DeletedStaysDeleted`: behind the file repository no message is
  left unfinished with nobody at work on it, and no conversation comes back. The
  messages of the streaming endpoint are excepted: their reader may go away, and a
  streamed request that starts a workflow leaves the message it made for the answer
  pending (`app/services/chat_service.py:247`).

### Bounds

2 attempts and 2 rejection loops are the defaults of the code
(`core/graph/execution.py:62`); the requests cover the three modes, a pause at the
first stage, in the middle and before rework, lanes that skip stages and a lane
with QA and no developer. Two sessions are enough for every pairwise race; a
third adds more of the same writes. `MaxFaults` is 2 in `runtime_single`, which
allows a crash during a recovery from a crash, and 1 in `ExecutionStore`, where
`MaxInFlight` keeps the passing runs to one call at a time (next to a cancellation
in `store_worker`); two calls at once are checked, and proved about, at the
granularity of `WorkflowRuntime`. `MaxRecoveries` bounds the clients' calls of
`recover()`: a plan that a rejection makes unroutable raises at every recovery
and stores a checkpoint more each time, for ever.

In the services two clients (three for workspaces and the playground), two
documents' files with and without a shared key, three saves, one restart; in
`EventStream` three attempts per run, so that a stage can fail, be retried and be
reworked, and a PostgreSQL run is at most `MaxLag` events ahead of a socket. `api`
has two calls, one workflow and two gates: the races of one workflow need two
calls, and the pause that a second gate takes over needs two gates. In `agents` each
component's counters are at their code's relation (two attempts, one loop, two
passes) with paths, messages and steps few enough for every order; of the three paths
one is in both lists, and the repositories track, ignore and generate some of each.
`api`'s conversation has one client, the four messages that a streamed request which
starts a workflow needs, and only the file repository, where nothing suspends. The budgets of
`agent_context` are grids around the limits, and proved about beyond them.
Deadlock is not checked: an execution, call or conversation that ended may rest.

`EndsAreEarned` and the contract are promised for one call at a time. With two
in flight the record mixes both, and they do not hold; `runtime_pair` checks what
does. Where a property excepts an overlap (`raced`, `torn`, `overlapped`,
`~Suspends`), the code loses something there: see "What the models show".

### Fairness

* Runtime and store: weak fairness of each session's steps. The event loop runs
  every task that can go on, and every provider call has a timeout
  (`core/agents/model_clients.py:52`), so an agent answers or raises. Nobody has to
  start, recover, cancel or crash anything. The worker's `Sweep` is fair: its `main`
  polls in an endless loop (`worker.py:26`), and its container restarts when it dies
  (`docker-compose.yml:118`).
* `ApiWorkflow`: weak fairness of a call's work, as above; strong fairness of taking
  the semaphore, because `asyncio.Semaphore` serves its waiters in turn.
* `AgentCall`: weak fairness of the one task; git has no timeout in the code and
  is taken to end.
* `ChatJobs`: weak fairness of every task and of a requested cancellation; strong
  fairness of the end of an answer, since a provider's answer is finite.

`store_worker` starts executions on a runtime constructed with the worker's owner
name (a parameter, `core/graph/execution.py:67`), because the worker leaves all
others alone. No caller in the repository does so today: that is what
`worker_idle` shows. So `store_worker` says that the worker's logic is right for
the records it was written for.

## Proofs

The theorems hold for every value of the constants that satisfies the named
assumptions: any number of sessions, clients, workflows or sockets, any budgets,
any number of crashes. TLC evaluates the assumptions in every run. A theorem is
about the part's initial states and steps (`ApiSpec`, `DocSpec`, ...); none uses
fairness.

### The execution runtime

`RoutingProofs` holds what both models of the runtime need to know of the routing
rules: `RoutedIsInHand` (on coherent work the router only names a stage that may
run), `AnswerIsCoherent` (any answer of the stage in hand leaves coherent work).

`WorkflowRuntimeProofs`, from `BudgetAssumption` and `RuntimeAssumption` only:
`TypeCorrect`; `WorkStaysCoherent`, the inductive invariant `CoherentWork`; from
it `StagesBuildOnStandingWork`, `CompletedWorkIsKept` and `ReworkIsBounded` (with
its parts `RetriesAreBounded` and `ReworkIsTargeted`); and `OnlyTheOwnerRunsStages`,
with its own small induction. Why an invariant is needed: that a stage runs only
on standing work does not follow from the router's last decision; it needs to
know that everything behind the last agent stands, everything ahead of it is
pending (but for QA during rework), and that what is persisted, which the next
recovery starts from, tells the same story. `Coherent` says that of a (last
agent, attempts, workflow state, metadata) quadruple, `InHand` of a stage about
to run. All but two actions move quadruples between sessions, record and
checkpoint.

`DeliveryContractProofs`: with one session at a time (`OneAtATime`),
`RuntimeImplementsContract` is the refinement, each step a step of the contract or
a stutter, and `EndsAreAlwaysEarned` the ends. `SessionInStep` is the invariant: the
session's work is what the newest checkpoint has, its status the record's unless
somebody cancelled, and its stage the one whose turn it is in the plan
(`OnTurn`), which `CoherentWork` alone does not say. `OneAtATime` is a hypothesis
because the code does not enforce it: two calls write one record, and
`runtime_pair` shows what survives that.

`ExecutionStoreProofs`: `StoreStaysSound`, `StoreImplementsContract` and
`CrashesAlwaysCostOneAttempt`. The code writes one thing in several store
operations, so between them the document is behind the run. The invariant
`StoreInvariant` says by how much: in the attempts of one agent and the repair
instructions after a checkpoint was stored and before the record is updated
(`Counted`, `Trails`), and by one answer while it is being saved (`Answers`: a
delivery, a rejection, or nothing that a client sees). The lemma
`LaggingIsSound` says that such a document is still coherent work, which is why
a recovery from it may go on. `asked` counts what agents were asked to do; it
exceeds the stored attempts by at most one per call that died. The hypothesis
`OneCallAtATime` asks for one call, no worker and no cancellation in flight, and
for requests of the whole sequence. All of it is needed: nothing in the store
serialises two writers of one document, so a concurrent one writes back the copy
it read; and a request for a part of the sequence that dies between its first
checkpoint and its metadata is recovered as a request for all of it
(`OnlyRequestedStagesRun`, below).

### The API and the services

`ApiWorkflowProofs`, from `ApiAssumption` (no call is named like the mark for no
call): `ApiShapeHolds`; `SafeModeAlwaysRunsAlone`, because whoever runs guarded
holds the semaphore (`SemaphoreIsHeld`); `RecoveryAlwaysFollowsTheRun`, because
until the first run is over no copy of the workflow, in memory, store or a call,
has an execution's id (`FirstRunIsAlone`); `PausesAlwaysNameOpenGates`; and
`StoreIsAlwaysCurrent`, because who saves a workflow nobody overtook saves the copy
in memory (`CopiesAgree`). The last needs the case that memory is empty after a
restart: then nobody is saving, and who loads brings the stored copy.

`ServicesProofs`:

* `WorkspacesListTheirProjects` (`ReadingsStand`: a request nobody overtook has
  read the list as it is).
* `EventsAlwaysArriveInOrder` (`SocketsStand`: what a socket has sent, what waits
  in its queue and where it subscribed add up to the log).
* `ViewsAlwaysShowTheRun`, from `StreamAssumption` (compact mode is on or off). The
  views are read from the whole log, so the invariant (`ViewsInvariant`) is about
  the log followed by what the hook has still to publish: it already tells of each
  agent how the run stands (`LogTells`), the last of its events that the hook looks
  at gives its status (`HookTells`), and the tracker has counted what is in the
  store (`TrackerTells`).
* `HistoriesAlwaysStand`, `StartsOnlyFillIn`, from `DocumentsAssumption`. The
  invariant (`DocInvariant`) follows a save through its two writes: a text that a
  document shows is in its history, or a job that has it is about to record it,
  or a crash came between (`TextsAreRecorded`); a document's numbers are without
  gaps while nobody overtook (`NumbersStand`); a document that came from a file
  has that file's key (`SourcesStand`). `Seeder \notin Clients` and
  `Nothing \notin Files \cup Keys` say that marks of the model are no clients,
  files or keys.
* `AnswersAlwaysStand`, from `PlaygroundAssumption` (the same of the playground's
  marks). The invariant (`PlayInvariant`) says of each artifact which write is due
  and who is about to make it.
* `ArtifactsAlwaysStand`: the required files are none that an answer writes by
  itself (`RequiredFilesAreDocuments`), and filling the gaps leaves all others as
  they are (`FinalizingFillsTheGaps`).

### The agents

`AgentsProofs`:

* `VerdictsAreEarned`, from `QaAssumption`: stage by stage, what the verdict so far
  rests on (`VerdictSoFar`).
* `RetriesAreAlwaysEarned`, `CommitsAlwaysCarryTheOutput`, from `AgentAssumption`:
  the failures so far were each worth repeating (`AttemptsStand`), and what is in
  the tree at each stage of a call is the clone or the clone with the merged
  output applied (`CommitsStand`), less what `Staged` leaves out once committed.
* `SequencesAreWorkedThrough`, from `SequenceAssumption` (the agents of a workflow
  are distinct) and `RoutesGoBack`: a rejection sends the work to the agent itself
  or an earlier one, as the default policy does. What lies before the active agent
  is settled and ran in order (`Behind`); what lies after it may have to be done
  again. A route forward would skip agents, so the hypothesis is needed.
* `WritesAreAlwaysKept`, `DeletedAlwaysStaysDeleted`, behind the file repository,
  from `ChatAssumption` (clients are not named like messages): each unfinished
  message has its job or a cancellation on its way, whatever request has what in
  hand (`ChatInvariant`).

`ContextProofs`:

* `PromptsAreSentUncut`, `RequestsFit`, for all sizes of messages, budgets and
  models. The heart is arithmetic: of two messages whose tokens are together over
  a budget, one keeps its size and the other keeps at least the share that the
  budget is of both, and the notice is larger than all the rounding
  (`SharesAreTooLarge`), so each cut leaves a prompt that is still over
  (`GovernorNeverFits`, `ClientNeverFits`). The floating-point product may come out
  one character short, which `slack` allows for.
* `StandardsAlwaysHold`, from `GovernanceAssumption` and `StemsApart`: rules are
  merged by ids that are made of a layer's name and a file's stem, so no other
  layer replaces a standard, and two standards do not replace each other if their
  files have distinct stems. The three files of `repository/standards` have; the
  loader looks into subdirectories too, where nothing would keep them apart.
* `VerdictsAlwaysFollowTheAnswer`, from `AnswersAssumption` (answers are of the
  shape the parser tells apart, the limits are positive).
* `TheDefaultAlwaysStands`, from `ProvidersAssumption`.
* `MemoryAlwaysStaysApart`, from `MemoryAssumption` (the mark of an open question is
  no agent and no thread; the bounds are numbers). A document keeps the agent and
  the scope of its source (`Indexable`); what fewer than the limit come before is
  found, so nothing is left out for something less close (`CloserIsFound`) and the
  last of what matches is found (`LastIsFound`).
* `HigherAlwaysFirst`, from `ContextAssumption` (what is offered is finite, sizes are
  numbers). What a set of items takes is stated as the number of its tokens, so that
  sums are cardinalities and need no induction (`TotalWithOneMore`, `SmallerTotal`).
  The invariant (`CtxInvariant`): what was considered has no lower priority than
  what was not, and what was dropped had no room beside what is kept of its own and
  the higher priorities (`NoRoom`).

### What is only model-checked

* Liveness, which is outside the prover's reach: `EverySessionEnds`,
  `OrphansAreSettled`, `EveryCallEnds`, `EveryCallAnswers`, `EveryJobEnds`.
* What holds of two calls at once behind the store, next to a worker or a
  cancellation: `store_worker` looks at it, and at the granularity of
  `WorkflowRuntime` the theorems do not restrict the number of sessions.

## What the models show

Four runs have a counterexample; each quotes the line of the repository that
says otherwise (`PROJECT.json`, findings):

* `worker_idle`: the worker only recovers records whose owner is
  `langgraph-worker`, which the backend never writes.
* `changes_uncommitted`: an output that only adds files leaves them untracked in
  the workspace; `git diff` is empty and nothing is committed.
* `governance_warned`: a developer's output that breaks a blocking rule is committed
  and completed, with the violation as `governance_warning`, unless the words on it
  name a secret or the like (`core/agents/llm_runtime.py:422`).
* `edits_ignored`: the engine reads the file a governance document was seeded from
  in place of the document's edited text.

Further statements are in the modules, not in a run; a configuration that names
one shows its counterexample:

* `CancelIsFinal` (`WorkflowRuntime`): `_finalize` writes the status the graph
  reached over a cancellation that came after the last node.
* `ForeignRecoveryIsBlocked`: `recover()` marks the record RUNNING before any owner
  check, and the refused lock then marks it FAILED.
* `SessionsSettleTheRecord`: a plan with QA and no developer ends a call with an
  exception after a rejection, with the record left RUNNING.
* `CancelHoldsWhileWorking` (`ExecutionStore`): `_persist_state` looks for a
  cancellation in its first read only and writes its own status twice after it.
* `OnlyRequestedStagesRun`: the first checkpoint is stored before the metadata; a
  crash in between lets the recovery run the whole sequence.
* `RejectionsAreSentBack` (`OutputValidation`): an answer of QA that says the work
  failed and does not fit the schema tells the workflow to go on
  (`core/runtime/agent.py:121`).
* `PreflightIsSound` (`ProviderRegistry`): the check before a workflow passes an
  agent whose model is not the loaded one (`core/agents/providers.py:472`).
* `RetriesStartAfresh` (`QaSandbox`): a retried browser test goes on with the page
  of the failed attempt (`core/qa_sandbox/drivers.py:129`).

What the exceptions in the properties stand for, with PostgreSQL:

* Two upserts of one document take the same version number or create two
  documents; a crash between the writes leaves a text outside its history.
* Two projects created at once: one is missing in the workspace's list.
* A chat answer is overwritten by another change of the conversation, and a
  deleted conversation comes back.
* `get_workflow` puts an older stored workflow over a newer one in memory.
* Events published between a socket's history and its subscription are not sent.

Whatever the store: the prompt studio's own defaults, those of a process started
away from the prompt files, are not completed after a start that died half way;
a delete without content is dropped from the developer's changes; approving one
gate clears the pause that another holds (`core/approvals/service.py:83`); `resume_workflow` marks a workflow RUNNING with no
run behind it; two governance files that share a key re-seed over each other's
edits at every start; the same rejection limit of one lets the older router stop
where the runtime reworks once more.

## Not modelled

* The registry with a database: `list()` reloads rows in the middle of `upsert`'s
  loop (`core/agents/providers.py:125`), which can leave two defaults. The model is
  the registry without one, where operations run undisturbed.
* `langgraph`'s limit of steps in the execution runtime: the code sets none and
  does not pin the library, so there is no number to model. `SupervisorGraph` takes
  it as a constant.
* Side effects of an agent outside the record when two sessions of one owner run
  the same stage.
* The wall clock running backwards, which would let `get_latest` return an older
  checkpoint of the memory.
* Prompt, report and code text: `ba_intelligence`, `architect_intelligence`, the
  patterns of the governance validator, templates. A model of them would restate
  them.
* Ingestion, repository intelligence, PR review: sequential reading and scoring
  with no state. Observability: counters nothing reads. Access control, routers,
  middleware, the front end: outside the scope.
* The API's `delete` of an execution record and the listing endpoints.

## Plan

1. The execution runtime, its store, its contract and theorems: done.
2. API, approvals, documents, workspaces, chat, events, artifacts, playground,
   agents, context, providers, governance, validation, QA, memory: done.
3. Theorems: the runtime, its refinement in memory and behind the store, and the
   safety of the API, the services and the agents: done.
4. Next, as theorems: `ExecutionStore` next to a worker.
5. Next, as models: the provider registry behind a database, and `ApiWorkflow`
   composed with `WorkflowRuntime` in place of its view from outside.
