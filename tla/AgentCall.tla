------------------------------ MODULE AgentCall ------------------------------
(***************************************************************************)
(* One execution of an LLM agent: BaseAgent.execute and the retry engine   *)
(* around it (core/runtime/agent.py, core/runtime/retry.py), the agents of *)
(* core/agents/llm_runtime.py, and for the developer the passes and the    *)
(* repository changes (core/repository).                                   *)
(*                                                                         *)
(* "ba" stands for the agents whose malformed answer is an error (ba,      *)
(* architect), "qa" for those whose malformed answer is passed on for      *)
(* review (qa, docs, pr).  The text of an error is the set of signs the    *)
(* classifier looks for in it; a file's content is who wrote it: the       *)
(* repository, or the code changes or the tests of a pass of the developer *)
(* or of the project generator.  What is written is not what was there.    *)
(***************************************************************************)
EXTENDS Naturals, Sequences, FiniteSets

CONSTANTS
    Code, Tests,    \* the paths of code changes and of tests; they may overlap
    Calls,          \* the calls looked at, records as in CallShape
    Faults,         \* the errors a provider, git or the file system may raise
    MaxAttempts,    \* the policy's attempts (2 for the LLM agents)
    MaxPasses,      \* the developer's passes
    PerPass,        \* the code changes, and the tests, one pass may add
    MaxKept         \* the code changes, and the tests, that are kept

VARIABLES
    call,           \* the request
    pc,             \* where the execution is
    attempt, compressed,        \* the engine's counter and its flag
    failures,       \* the errors the engine has seen
    pass, merged,   \* the developer's pass, and the output so far
    tree, head,     \* the workspace: the files on disk, those committed
    result          \* what is returned

agentVars == <<call, pc, attempt, compressed, failures, pass, merged, tree, head, result>>

Paths == Code \cup Tests
Generator == MaxPasses + 1
Lists == {"code", "tests"}
Clone(c) == [p \in c.tracked |-> <<"clone", 0>>]
NoFiles == [p \in {} |-> 0]
NoOutput == [list \in Lists |-> NoFiles]
NoResult == [status |-> "none", error |-> "none", route |-> "none",
             warned |-> FALSE, pullRequest |-> FALSE]

(* Stands for the seven of the architect's documents that the developer    *)
(* cannot do without.                                                      *)
Documents == {"handoff", "contracts"}

CallShape ==
    [agent : {"ba", "qa", "developer"},
     mine : BOOLEAN,                               \* it names this agent
     prompt : {"fits", "compacts", "too_large"},   \* in the local safe mode
     compression : {"none", "works", "fails"},     \* run()'s callback; execute() has none
     inputs : [Documents -> SUBSET {"upstream", "disk"}],   \* where each is found
     repository : BOOLEAN,                         \* a repository is named
     tracked : SUBSET Paths,
     ignored : SUBSET Paths,                       \* by its .gitignore
     generated : [code : SUBSET Code, tests : SUBSET Tests]]

ASSUME AgentAssumption ==
    /\ Calls \subseteq CallShape
    /\ MaxAttempts \in Nat \ {0}
    /\ {MaxPasses, PerPass, MaxKept} \subseteq Nat

AgentInit ==
    /\ call \in Calls /\ pc = "called"
    /\ attempt = 0 /\ compressed = FALSE /\ failures = <<>>
    /\ pass = 0 /\ merged = NoOutput /\ tree = NoFiles /\ head = NoFiles
    /\ result = NoResult

-----------------------------------------------------------------------------
(* The retry engine.                                                       *)

Classes == <<<<"context", "compression">>, <<"validation", "never">>,
             <<"governance", "never">>, <<"auth", "never">>, <<"model", "manual">>,
             <<"unsupported", "never">>, <<"transient", "retryable">>>>

(* Seeded fault: a transient sign is looked for first. *)
TransientFirst(signs) ==
    IF "transient" \in signs THEN "retryable"
    ELSE IF "context" \in signs THEN "compression" ELSE "never"

(* The first of the signs found decides. *)
Classify(signs) ==
    IF \E i \in DOMAIN Classes : Classes[i][1] \in signs
    THEN Classes[CHOOSE i \in DOMAIN Classes :
                    /\ Classes[i][1] \in signs
                    /\ \A j \in 1..(i - 1) : Classes[j][1] \notin signs][2]
    ELSE "never"

(* What execute() calls the error in the result. *)
ErrorType(signs) ==
    CASE "validation" \in signs -> "schema_contract_error"
      [] "validation" \notin signs /\ "governance" \in signs -> "governance_validation_error"
      [] OTHER -> "runtime_error"

(* Seeded fault: the compression is offered again. *)
CompressesAgain(signs) == Classify(signs) = "compression" /\ call.compression # "none"

Compresses(signs) ==
    Classify(signs) = "compression" /\ call.compression # "none" /\ ~compressed

(* An error is tried again after the one compression that worked, or when  *)
(* it is transient and attempts are left.                                  *)
TriedAgain(signs) ==
    \/ Compresses(signs) /\ call.compression = "works"
    \/ Classify(signs) = "retryable" /\ attempt < MaxAttempts

Answer(r) == pc' = "answered" /\ result' = r

(* The counter and the history stop at one more than can be reached.       *)
MostAttempts == MaxAttempts + 2

BeginAttempt ==
    /\ attempt' = (IF attempt < MostAttempts THEN attempt + 1 ELSE attempt) /\ pass' = 0
    /\ merged' = NoOutput /\ tree' = NoFiles /\ head' = NoFiles
    /\ pc' = IF call.agent = "developer" THEN "resolving" ELSE "prompting"

(* Raise: the operation raises; the engine decides.                        *)
Raise(signs) ==
    /\ failures' = IF Len(failures) < MostAttempts THEN Append(failures, signs) ELSE failures
    /\ compressed' = (compressed \/ Compresses(signs))
    /\ UNCHANGED call
    /\ IF TriedAgain(signs) THEN BeginAttempt /\ UNCHANGED result
       ELSE /\ Answer([NoResult EXCEPT !.status = "failed", !.error = ErrorType(signs)])
            /\ UNCHANGED <<attempt, pass, merged, tree, head>>

Calm == UNCHANGED <<call, attempt, compressed, failures>>
Still == UNCHANGED <<pass, merged, tree, head>>
Completed == [NoResult EXCEPT !.status = "completed"]

Execute ==
    /\ pc = "called" /\ UNCHANGED <<call, compressed, failures>>
    /\ IF call.mine THEN BeginAttempt /\ UNCHANGED result
       ELSE Answer([NoResult EXCEPT !.status = "failed"]) /\ Still /\ UNCHANGED attempt

-----------------------------------------------------------------------------
(* The agents but the developer.                                           *)

Prompt ==
    /\ pc = "prompting"
    /\ IF call.prompt = "too_large" THEN Raise({"context"})
       ELSE pc' = "invoking" /\ Calm /\ Still /\ UNCHANGED result

InvokeFails ==
    pc \in {"invoking", "passing"} /\ \E signs \in Faults : Raise(signs)

(* A malformed answer is passed on for review or raised; governance may    *)
(* reject the text before it is parsed, or what was parsed.                *)
Invoke ==
    /\ pc = "invoking"
    /\ \E governed \in {"fine", "text", "parsed"}, valid \in BOOLEAN,
          route \in (IF call.agent = "qa" THEN {"continue", "reject"} ELSE {"none"}) :
         CASE governed = "text" -> Raise({"governance"})
           [] governed # "text" /\ ~valid /\ call.agent = "ba" -> Raise({"validation"})
           [] governed # "text" /\ ~valid /\ call.agent = "qa" ->
                /\ Answer([Completed EXCEPT !.error = "schema_contract_error", !.route = "continue"])
                /\ Calm /\ Still
           [] governed = "parsed" /\ valid -> Raise({"governance"})
           [] governed = "fine" /\ valid ->
                Answer([Completed EXCEPT !.route = route]) /\ Calm /\ Still

-----------------------------------------------------------------------------
(* The developer.                                                          *)

(* Each from the upstream artifacts, or else from the architect's files,   *)
(* by their index or by their usual names.                                 *)
InputsFound(c) == \A d \in DOMAIN c.inputs : c.inputs[d] # {}

(* Missing inputs are returned as a failure, so they are not tried again.  *)
Resolve ==
    /\ pc = "resolving" /\ Calm /\ Still
    /\ IF InputsFound(call) THEN pc' = "passing" /\ UNCHANGED result
       ELSE Answer([NoResult EXCEPT !.status = "failed", !.error = "schema_contract_error"])

(* Code changes and tests, each at most once for a path.  Of a change       *)
(* without content the operation does not count: a delete stands for all.  *)
PassAnswers ==
    LET Upto(paths, changes) ==
          UNION {[S -> changes] : S \in {S \in SUBSET paths : Cardinality(S) <= PerPass}} IN
      [code : Upto(Code, [op : {"create", "update", "delete"}, content : {TRUE}]
                           \cup [op : {"delete"}, content : {FALSE}]),
       tests : Upto(Tests, [op : {"update"}, content : BOOLEAN])]

(* The new paths that a list can take: as many as there is room for.       *)
Taken(have, new) ==
    LET free == MaxKept - Cardinality(have)
        most == IF free < Cardinality(new) THEN free ELSE Cardinality(new) IN
      {kept \in SUBSET new : Cardinality(kept) = most}

(* What a pass adds to each list: the paths that no earlier pass has there. *)
(* A path an earlier pass has keeps that pass's change; a path may be in   *)
(* both lists.                                                             *)
Merge(output, now, by, kept) ==
    [list \in Lists |->
        [p \in DOMAIN output[list] \cup kept[list] |->
            IF p \in DOMAIN output[list] THEN output[list][p]
            ELSE [by |-> by, op |-> now[list][p].op, content |-> now[list][p].content]]]

(* The project generated from the architect's documents, as much of it as  *)
(* the request's mode and its repairs leave, fills the paths that no pass  *)
(* has in the same list.                                                   *)
Augment(output) ==
    [list \in Lists |->
        [p \in DOMAIN output[list] \cup call.generated[list] |->
            IF p \in DOMAIN output[list] THEN output[list][p]
            ELSE [by |-> Generator, op |-> IF list = "code" THEN "create" ELSE "update",
                  content |-> TRUE]]]

DevelopPass ==
    /\ pc = "passing" /\ pass < MaxPasses /\ Calm /\ UNCHANGED <<tree, head, result>>
    /\ pass' = pass + 1 /\ pc' = "passing"
    /\ \E now \in PassAnswers :
         LET Taking(list) == Taken(DOMAIN merged[list], DOMAIN now[list] \ DOMAIN merged[list]) IN
           \E kept \in [code : Taking("code"), tests : Taking("tests")] :
             merged' = Merge(merged, now, pass + 1, kept)

(* A malformed pass fails the attempt.  Of the governance errors only the  *)
(* critical ones do; the others become a warning.                          *)
PassMalformed == pc = "passing" /\ pass < MaxPasses /\ Raise({"validation"})

PassesEnd ==
    /\ pc = "passing" /\ pass = MaxPasses
    /\ \E governed \in {"fine", "warned", "critical"} :
         IF governed = "critical" THEN Raise({"governance"})
         ELSE /\ merged' = Augment(merged) /\ Calm /\ UNCHANGED <<pass, tree, head>>
              /\ LET r == [Completed EXCEPT !.warned = (governed = "warned")] IN
                   IF call.repository THEN pc' = "cloning" /\ result' = r ELSE Answer(r)

Leave == pc' = "answered" /\ Calm /\ UNCHANGED <<pass, merged, result>>
GitRaises == pc \in {"cloning", "applying", "committing"} /\ \E signs \in Faults : Raise(signs)

(* A clone or a branch that git refuses ends the changes, not the answer.  *)
CloneRepository ==
    /\ pc = "cloning" /\ Calm /\ UNCHANGED <<pass, merged, result>>
    /\ \/ tree' = Clone(call) /\ head' = Clone(call) /\ pc' \in {"applying", "answered"}
       \/ pc' = "answered" /\ UNCHANGED <<tree, head>>

(* apply_developer_output leaves out every change without content, a       *)
(* delete too, and puts the tests, always written over what is there,      *)
(* after the code.                                                         *)
With(output) ==
    [list \in Lists |-> {p \in DOMAIN output[list] : output[list][p].content}]

(* RepositoryFileModificationEngine.apply: every change is tried; a create *)
(* over a file is an error, a delete of a missing file is skipped.         *)
(* `broken`: the changes, each of a list, that raise.                      *)
Refused(output, files) ==
    {p \in With(output).code : output.code[p].op = "create" /\ p \in DOMAIN files}
Done(output, files, broken) ==
    [list \in Lists |->
        {p \in With(output)[list] :
            <<list, p>> \notin broken /\ (list = "code" => p \notin Refused(output, files))}]
Apply(output, files, broken) ==
    LET done == Done(output, files, broken)
        gone == {p \in done.code : output.code[p].op = "delete"} IN
      [p \in ((DOMAIN files \cup done.code) \ gone) \cup done.tests |->
          CASE p \in done.tests -> <<"tests", output.tests[p].by>>
            [] p \in done.code \ done.tests -> <<"code", output.code[p].by>>
            [] OTHER -> files[p]]

(* git diff compares the tracked files only. *)
Diff(files, base) ==
    {p \in DOMAIN base : p \notin DOMAIN files \/ files[p] # base[p]}

(* Seeded fault: only the refused creates end the changes. *)
ErrorsOfCreates(output, files, broken) == {"code"} \X Refused(output, files)

Errors(output, files, broken) ==
    ({"code"} \X Refused(output, files)) \cup broken

(* Errors, and an empty diff, end the changes before the commit. *)
ApplyOutput ==
    /\ pc = "applying" /\ Calm /\ UNCHANGED <<pass, merged, head, result>>
    /\ \E broken \in {{}} \cup {{<<list, p>>} : list \in Lists, p \in Paths} :
         /\ \A change \in broken : change[2] \in With(merged)[change[1]]
         /\ tree' = Apply(merged, tree, broken)
         /\ pc' = IF Errors(merged, tree, broken) # {} \/ Diff(tree', head) = {}
                  THEN "answered" ELSE "committing"

Prepared == [result EXCEPT !.pullRequest = TRUE]

(* What `git add --all` stages: all but what is ignored and not tracked.   *)
Staged(files) ==
    [p \in {p \in DOMAIN files : p \in call.ignored => p \in call.tracked} |-> files[p]]

(* git's refusal, of either command, is not looked at.                     *)
Commit ==
    /\ pc = "committing" /\ Calm /\ UNCHANGED <<pass, merged, tree>>
    /\ head' \in {Staged(tree), head}
    /\ Answer(Prepared)

AgentNext ==
    \/ Execute \/ Prompt \/ InvokeFails \/ Invoke \/ Resolve \/ DevelopPass
    \/ PassMalformed \/ PassesEnd \/ GitRaises \/ CloneRepository \/ ApplyOutput \/ Commit

AgentFairness == WF_agentVars(AgentNext)

-----------------------------------------------------------------------------
(* Properties.                                                             *)

(* An attempt is only repeated after an error that is transient and        *)
(* carries no permanent sign, or once after a prompt that was too large    *)
(* for its model and that could be compressed (RetryEngine.run).           *)
RetriesAreEarned ==
    LET Permanent == {"validation", "governance", "auth", "model", "unsupported"}
        Repeated  == {i \in DOMAIN failures : i < attempt}
        TooLarge  == {i \in Repeated : "context" \in failures[i]} IN
      /\ \A i \in Repeated \ TooLarge :
            "transient" \in failures[i] /\ failures[i] \cap Permanent = {}
      /\ Cardinality(TooLarge) <= 1 /\ Cardinality(Repeated \ TooLarge) < MaxAttempts

(* The last change with content of a path, or the repository's own file. *)
Carries(files, p) ==
    CASE p \in With(merged).tests ->
            p \in DOMAIN files /\ files[p] = <<"tests", merged.tests[p].by>>
      [] p \in With(merged).code \ With(merged).tests ->
            IF merged.code[p].op = "delete" THEN p \notin DOMAIN files
            ELSE p \in DOMAIN files /\ files[p] = <<"code", merged.code[p].by>>
      [] OTHER -> /\ (p \in DOMAIN files) = (p \in call.tracked)
                  /\ p \in DOMAIN files => files[p] = <<"clone", 0>>

(* A commit is the whole output and nothing but the output, but for the    *)
(* changes without content, deletes among them, and the new files that are *)
(* ignored: every path shows its test, or else its code change, and no     *)
(* other file is touched; no change that was refused or failed is left out *)
(* of it, and no file of the repository was to be created                  *)
(* (_execute_repository_changes).                                          *)
CommitsCarryTheOutput ==
    pc = "answered" /\ result.pullRequest /\ head # Clone(call) =>
        \A p \in Paths :
            /\ IF p \in call.ignored \ call.tracked THEN p \notin DOMAIN head ELSE Carries(head, p)
            /\ p \in With(merged).code /\ p \in call.tracked => merged.code[p].op # "create"

(* Every execution is answered, if the engine is scheduled, the provider   *)
(* answers or fails, and git ends.                                         *)
EveryCallAnswers == <>(pc = "answered")

(* README.md, of what the system does with a repository: "clone, branch,   *)
(* modify files, diff, commit, and prepare PR artifacts".  An output that  *)
(* is wholly in the workspace, and of which git has something to stage, is *)
(* committed.                                                              *)
AppliedChangesAreCommitted ==
    pc = "answered" /\ result.status = "completed" /\ tree # NoFiles /\ Staged(tree) # Clone(call)
      /\ (\A p \in Paths : Carries(tree, p)) => result.pullRequest
=============================================================================
