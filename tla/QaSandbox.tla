------------------------------ MODULE QaSandbox ------------------------------
(***************************************************************************)
(* The autonomous QA agent (core/agents/qa): a model's report is enriched  *)
(* by running its test commands and its browser steps, and the verdict of  *)
(* the three together routes the workflow.  The browser steps run in one   *)
(* session of the sandbox (core/qa_sandbox), which tries them all again    *)
(* when one of them raises.                                                *)
(*                                                                         *)
(* A step is what it does to the session: "act" (navigate, click, fill,    *)
(* assert), "shot" (a screenshot under the default name), "log", "video",  *)
(* "unknown".  What a page, a command or a browser answers is external.    *)
(***************************************************************************)
EXTENDS Naturals, Sequences

CONSTANTS
    Reports,        \* what the model may report, as in ReportShape
    SandboxAttempts \* max_retries + 1

StepKinds == {"act", "shot", "log", "video", "unknown"}

ReportShape ==
    [passed : BOOLEAN, commands : Nat, bugs : BOOLEAN,
     engine : {"playwright", "selenium"},
     steps : Seq(StepKinds)]

ASSUME QaAssumption == Reports \subseteq ReportShape /\ SandboxAttempts \in Nat \ {0}

VARIABLES
    report,
    qaStage,        \* "asked", "commands", "browser", "evidence", "done"
    qaPassed,       \* the verdict so far
    exits,          \* whether each command run so far returned 0
    try, at,        \* the sandbox's attempt, and its next step
    page,           \* the session's page: the steps it has seen, or NoPage
    trace,          \* what every attempt did
    shot, shown,    \* the attempt whose screenshot the file holds, and those
                    \* whose screenshots the report names (0: a blank page's)
    route

qaVars == <<report, qaStage, qaPassed, exits, try, at, page, trace, shot, shown, route>>

NoPage == <<0>>
NoShot == 99

QaInit ==
    /\ report \in Reports /\ qaStage = "asked" /\ qaPassed = FALSE /\ exits = <<>>
    /\ try = 0 /\ at = 1 /\ page = NoPage /\ trace = {} /\ shot = NoShot
    /\ shown = {} /\ route = "none"

(* A model that fails twice, and a report that is malformed, are failures. *)
Complete ==
    /\ qaStage = "asked"
    /\ UNCHANGED <<report, exits, try, at, page, trace, shot, shown>>
    /\ \/ qaStage' = "commands" /\ qaPassed' = report.passed /\ UNCHANGED route
       \/ qaStage' = "done" /\ route' = "failed" /\ UNCHANGED qaPassed

-----------------------------------------------------------------------------
(* Seeded fault: the last command decides. *)
LastDecides(sofar, ok) == ok

Together(sofar, ok) ==
    sofar /\ ok

(* A command that cannot be started counts as one that returned 1. *)
RunCommand ==
    /\ qaStage = "commands" /\ Len(exits) < report.commands
    /\ \E ok \in BOOLEAN :
         exits' = Append(exits, ok) /\ qaPassed' = Together(qaPassed, ok)
    /\ UNCHANGED <<report, qaStage, try, at, page, trace, shot, shown, route>>

Raises(kind) == kind = "video" /\ report.engine = "selenium"

(* A step of an unknown action fails the whole execution. *)
OpenSession ==
    /\ qaStage = "commands" /\ Len(exits) = report.commands
    /\ UNCHANGED <<report, qaPassed, exits, at, page, trace, shot, shown>>
    /\ CASE report.steps = <<>> -> qaStage' = "evidence" /\ UNCHANGED <<try, route>>
         [] \E i \in DOMAIN report.steps : report.steps[i] = "unknown" ->
                qaStage' = "done" /\ route' = "failed" /\ UNCHANGED try
         [] OTHER -> qaStage' = "browser" /\ try' = 1 /\ UNCHANGED route

(* QASandboxExecutor.execute, when an attempt has raised. *)
AttemptFails ==
    /\ UNCHANGED <<report, exits, shown, route>>
    /\ IF try < SandboxAttempts
       THEN try' = try + 1 /\ at' = 1 /\ UNCHANGED <<qaStage, qaPassed>>
       ELSE /\ qaStage' = "evidence" /\ qaPassed' = Together(qaPassed, FALSE)
            /\ UNCHANGED <<try, at>>

Opened == IF page = NoPage THEN <<>> ELSE page

(* A file's name is its step's: the next one of that name is written over  *)
(* it.                                                                     *)
Saved(kind) == IF kind = "shot" THEN try ELSE shot

(* The page is the session's, whichever attempt opened it.  A step that    *)
(* raises may have done to it what it does.                                *)
ExecuteStep ==
    /\ qaStage = "browser" /\ at <= Len(report.steps)
    /\ LET kind == report.steps[at] IN
         \/ /\ ~Raises(kind)
            /\ page' = Append(Opened, at) /\ at' = at + 1
            /\ trace' = trace \cup {[try |-> try, step |-> at]}
            /\ shot' = Saved(kind)
            /\ UNCHANGED <<report, qaStage, qaPassed, exits, try, shown, route>>
         \/ /\ page' \in {page, Opened} \cup (IF Raises(kind) THEN {} ELSE {Append(Opened, at)})
            /\ AttemptFails /\ UNCHANGED <<trace, shot>>

Shots == {i \in DOMAIN report.steps : report.steps[i] = "shot"}

(* The page is forgotten before it is closed, which may raise. *)
Finalize ==
    /\ qaStage = "browser" /\ at > Len(report.steps) /\ page' = NoPage
    /\ \/ AttemptFails /\ UNCHANGED <<trace, shot>>
       \/ /\ qaStage' = "evidence" /\ qaPassed' = Together(qaPassed, TRUE)
          /\ shown' = shown \cup (IF Shots = {} THEN {} ELSE {try})
          /\ UNCHANGED <<report, exits, try, at, trace, shot, route>>

(* Bugs without a screenshot get one, of a page that was just opened; no   *)
(* harm is done when it fails.                                             *)
Conclude ==
    /\ qaStage = "evidence" /\ qaStage' = "done"
    /\ shown' \in (IF shown = {} /\ report.bugs THEN {{}, {0}} ELSE {shown})
    /\ route' = IF qaPassed THEN "continue" ELSE "reject"
    /\ UNCHANGED <<report, qaPassed, exits, try, at, page, trace, shot>>

QaNext ==
    \/ Complete \/ RunCommand \/ OpenSession \/ ExecuteStep \/ Finalize \/ Conclude

-----------------------------------------------------------------------------
(* Properties.                                                             *)

(* The workflow goes on only if the model passed the work, every command   *)
(* it named was run and returned 0, and one attempt of the browser did     *)
(* every step; a screenshot that the report names is of that attempt and   *)
(* no other has been written over it (QAAgentRuntime.execute).             *)
VerdictIsEarned ==
    qaStage = "done" /\ route = "continue" =>
      /\ report.passed
      /\ Len(exits) = report.commands /\ \A i \in DOMAIN exits : exits[i]
      /\ \A i \in DOMAIN report.steps : [try |-> try, step |-> i] \in trace
      /\ \A t \in shown : t # 0 => t = try /\ shot = try

(* core/qa_sandbox/executor.py, of the executor: "Executes isolated        *)
(* browser test sessions with retry-safe semantics."  The page that an     *)
(* attempt works on has seen what this attempt did, and no more.           *)
RetriesStartAfresh ==
    qaStage = "browser" /\ page # NoPage => page = [i \in 1..(at - 1) |-> i]
=============================================================================
