-------------------------- MODULE GovernanceChecks --------------------------
(***************************************************************************)
(* The governance of an agent's output: the policy put together from its   *)
(* layers (core/governance/engine.py, inheritance.py, merger.py,           *)
(* loader.py) and the two checks of an answer against it, of the text as   *)
(* it came and of what was parsed from it (core/governance/validator.py,   *)
(* core/runtime/agent.py).  What a check raises rejects the output, but a  *)
(* developer's call keeps most of it as a warning and goes on              *)
(* (core/agents/llm_runtime.py).                                           *)
(*                                                                         *)
(* A rule is a line of a file: its id is its layer, the file's name        *)
(* without its directory, and the line.  What a rule is about is a topic;  *)
(* an output is described by the topics its text touches.  A rule is       *)
(* critical when the words on a violation of it, its id and its pattern or *)
(* its text, name a secret, a credential or the like.  The patterns and    *)
(* the classification of secrets are left out.                             *)
(***************************************************************************)
EXTENDS Naturals, SequencesExt

CONSTANTS
    GlobalRules,    \* the defaults: a function from ids
    Enterprise,     \* the files of repository/standards, in path order
    AgentFiles,     \* the files of the agents' directories
    Edited,         \* the governance documents of the database

    Authors,        \* the agents whose output is looked at
    Outputs

ASSUME GovernanceAssumption ==
    "enterprise" \notin Authors /\ Enterprise \in Seq(ToSet(Enterprise))

(* The severities, by rank. *)
Info     == 0
Warning  == 1
Review   == 2
Blocking == 3
Serious  == 4       \* CRITICAL

VARIABLES
    author, mode, output,
    edits,          \* the documents in the database
    policy,         \* the rules in effect, by id
    govStage,       \* "asked", "governed", "parsed", "accepted", "rejected"
    found,          \* the violations of the last check
    warning         \* the developer's governance_warning: those it came past

govVars == <<author, mode, output, edits, policy, govStage, found, warning>>

Over(first, second) == [x \in DOMAIN first \cup DOMAIN second |->
                            IF x \in DOMAIN second THEN second[x] ELSE first[x]]
NoRules == [x \in {} |-> {}]

(* The rules of one file. *)
RulesOf(scope, file) ==
    [id \in {<<scope, file.stem, line>> : line \in DOMAIN file.rules} |-> file.rules[id[3]]]

(* The ids that some files' rules have, and the files with a rule of one.  *)
Ids(scope, files) == UNION {DOMAIN RulesOf(scope, files[n]) : n \in DOMAIN files}
Holding(scope, files, id) == {n \in DOMAIN files : id \in DOMAIN RulesOf(scope, files[n])}

(* Of the files with a rule of one id the last has it. *)
LastWins(scope, files) ==
    [id \in Ids(scope, files) |-> RulesOf(scope, files[Max(Holding(scope, files, id))])[id]]

(* A rule that is inherited gives way to the agent's own only if it says so.  *)
Merged(inherited, own) ==
    Over(own, [id \in {i \in DOMAIN inherited :
                         i \notin DOMAIN own \/ ~inherited[i].yields} |-> inherited[id]])

(* Of the agent's files with a rule of one id the first has it, because no *)
(* rule of a file yields.                                                  *)
LocalRules(name) ==
    LET files == AgentFiles[name] IN
      [id \in Ids(name, files) |-> RulesOf(name, files[Min(Holding(name, files, id))])[id]]

(* What was edited comes last and replaces whatever has its id.  Documents *)
(* of one kind number their rules alike, and the last of them has the ids. *)
EffectivePolicy(name) ==
    Over(Merged(Over(GlobalRules, LastWins("enterprise", Enterprise)), LocalRules(name)),
         LastWins("runtime", edits))

GovInit ==
    /\ author \in Authors /\ mode \in {"advisory", "balanced", "strict"}
    /\ output \in Outputs
    /\ \E docs \in SUBSET Edited : edits \in SetToSeqs(docs)
    /\ policy = NoRules /\ govStage = "asked" /\ found = {} /\ warning = {}

Assemble ==
    /\ govStage = "asked" /\ govStage' = "governed"
    /\ policy' = EffectivePolicy(author)
    /\ UNCHANGED <<author, mode, output, edits, found, warning>>

-----------------------------------------------------------------------------
Blocks(severity, inMode) ==
    CASE inMode = "advisory" -> FALSE
      [] inMode = "strict"   -> severity >= Review
      [] OTHER               -> severity >= Blocking

Violation(id, severity, inMode) ==
    [rule |-> id, severity |-> severity, blocking |-> Blocks(severity, inMode), kind |-> "forbidden",
     critical |-> id \in DOMAIN policy /\ policy[id].critical]

Downgraded(v) == [v EXCEPT !.blocking = FALSE, !.severity = Warning]

(* What a forbidding rule finds.  A developer may write of controllers as  *)
(* guidance, or outside the code of controllers.                           *)
Forbidden(inMode, parsed) ==
    LET touched == {id \in DOMAIN policy : policy[id].effect = "forbid"
                                             /\ policy[id].topic \in output.topics}
        excused(id) == author = "developer" /\ policy[id].topic = "controller"
        code == parsed /\ output.controllers IN
      {LET v == Violation(id, policy[id].severity, inMode) IN
         IF excused(id) /\ ~(code /\ "controller" \in output.code) THEN Downgraded(v) ELSE v :
           id \in {i \in touched : ~(excused(i) /\ output.guidance)}}

(* What a requiring rule misses, and how much it matters to this agent.    *)
Misses(topic) ==
    CASE topic = "tests"      -> ~output.tests
      [] topic = "input"      -> author \in {"developer", "architect"} /\ ~output.validates
      [] topic = "boundaries" -> "controller" \in output.topics
      [] OTHER                -> FALSE

EffectiveSeverity(id) ==
    IF author = "architect" /\ id \in DOMAIN GlobalRules /\ policy[id].topic \in {"input", "boundaries"}
    THEN Warning ELSE policy[id].severity

(* A violation whose evidence is too short does not block. *)
Required(inMode) ==
    {LET v == [Violation(id, EffectiveSeverity(id), inMode) EXCEPT !.kind = "required"] IN
       IF v.blocking /\ output.short THEN Downgraded(v) ELSE v :
         id \in {i \in DOMAIN policy : policy[i].effect = "require" /\ Misses(policy[i].topic)}}

(* What a developer's code changes break, whatever rule there is on it.    *)
CleanBoundaries == <<"global", "architecture", 1>>

Architecture(inMode) ==
    LET severity == IF CleanBoundaries \in DOMAIN policy THEN policy[CleanBoundaries].severity ELSE Review IN
      IF author = "developer" /\ \E id \in DOMAIN policy : policy[id].category = "architecture"
      THEN {[Violation(CleanBoundaries, severity, inMode) EXCEPT !.kind = topic, !.critical = FALSE] :
              topic \in output.code}
      ELSE {}

(* Seeded fault: the leniency of the first check is kept for the second. *)
StaysLenient(raw) == IF author = "developer" THEN "advisory" ELSE mode

(* The raw text of a developer is looked at in the advisory mode. *)
CheckMode(raw) ==
    IF raw /\ author = "developer" THEN "advisory" ELSE mode

(* Blocking violations are raised and the output is rejected.  In a        *)
(* developer's call, whose checks are one after the other in one `try`,    *)
(* only what names a critical thing is raised again: the rest becomes the  *)
(* warning of an output that is accepted, without the second check if the  *)
(* first raised.                                                           *)
Judge(violations, next) ==
    LET errors == {v \in violations : v.blocking} IN
      /\ found' = violations
      /\ \/ errors = {} /\ govStage' = next /\ UNCHANGED warning
         \/ /\ errors # {} /\ (author = "developer" => \E v \in errors : v.critical)
            /\ govStage' = "rejected" /\ UNCHANGED warning
         \/ /\ errors # {} /\ author = "developer" /\ \A v \in errors : ~v.critical
            /\ govStage' = "accepted" /\ warning' = errors

CheckRaw ==
    /\ govStage = "governed" /\ UNCHANGED <<author, mode, output, edits, policy>>
    /\ IF policy = NoRules THEN Judge({}, "parsed")
                           ELSE Judge(Forbidden(CheckMode(TRUE), FALSE), "parsed")

CheckParsed ==
    /\ govStage = "parsed" /\ UNCHANGED <<author, mode, output, edits, policy>>
    /\ LET now == CheckMode(FALSE) IN
         Judge(Forbidden(now, TRUE) \cup Required(now) \cup Architecture(now), "accepted")

(* What does not satisfy its schema has no second check: QA's, the         *)
(* documentation's and the pull request's is kept as it is, for a review.  *)
(* A developer's is read before the first check.                           *)
Unreadable ==
    /\ govStage = "parsed" /\ author # "developer"
    /\ govStage' = IF author \in {"qa", "docs", "pr"} THEN "accepted" ELSE "rejected"
    /\ UNCHANGED <<author, mode, output, edits, policy, found, warning>>

GovNext == Assemble \/ CheckRaw \/ CheckParsed \/ Unreadable

-----------------------------------------------------------------------------
(* Properties.                                                             *)

(* What passes although it does something that a standard forbids and the  *)
(* mode blocks, whatever the agent's own files and the documents edited at *)
(* runtime say: a developer's words on controllers, as long as the code of *)
(* the controllers does not do what they say, and a developer's output     *)
(* whose warning names the violation, which is not a critical one.  No     *)
(* other agent's output passes, and nothing passes in silence              *)
(* (_enforce_governance_output, DeveloperRepositoryAgentRuntime).          *)
StandardsHold ==
    govStage = "accepted" =>
      \A i \in DOMAIN Enterprise : \A line \in DOMAIN Enterprise[i].rules :
        LET r == Enterprise[i].rules[line]
            id == <<"enterprise", Enterprise[i].stem, line>> IN
          r.effect = "forbid" /\ Blocks(r.severity, mode) /\ r.topic \in output.topics =>
            /\ author = "developer"
            /\ \/ /\ r.topic = "controller"
                  /\ output.guidance \/ ~(output.controllers /\ "controller" \in output.code)
               \/ ~r.critical /\ \E v \in warning : v.rule = id

(* README.md, "Governance Should Affect Runtime Behavior": the rules are   *)
(* "validated at runtime, and used to reject invalid outputs".  Not true   *)
(* of a developer's output: a run shows one that a standard blocks         *)
(* accepted, with the violation in its metadata.                           *)
InvalidOutputsAreRejected ==
    govStage = "accepted" => \A v \in found : ~v.blocking
=============================================================================
