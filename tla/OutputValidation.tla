-------------------------- MODULE OutputValidation --------------------------
(***************************************************************************)
(* How an agent's text becomes its output (core/runtime/validation.py):    *)
(* a JSON object is looked for and repaired, or the text is read by its    *)
(* sections; what was found is normalised, cut to the schema and checked;  *)
(* what becomes of an answer that does not fit (core/runtime/agent.py);    *)
(* and what the QA agent tells the workflow (core/agents/llm_runtime.py):  *)
(* its verdict and its requests for fixes.                                 *)
(*                                                                         *)
(* An answer is what its text holds.  A finding, an issue or a request is  *)
(* its title and severity; a code change is the path it is given and the   *)
(* path its content names.                                                 *)
(***************************************************************************)
EXTENDS Naturals, SequencesExt

CONSTANTS
    Answers,        \* as in AnswerShape
    Titles, Paths,
    Nowhere,        \* no path
    MostFindings,   \* the findings and requests kept (20)
    MostFixes,      \* the requests made of findings (12)
    MostBlocks,     \* the blocks of code read from prose (6)
    MostDecisions,  \* the decisions read from prose (5)
    MostItems       \* the changes, tests, stories, criteria kept (3)

(* form: a JSON object can be had, or only prose, or nothing at all.       *)
(* sectioned: the request's parser is that of markdown sections, as in the *)
(* profiles of business analysis and the architect, or it is business      *)
(* analysis in the safe mode.                                              *)
(* words: what prose says anywhere.  Of the validations that failed some   *)
(* are records and others mere texts.  An odd severity is not the schema's. *)
(* beside: the reports and bugs under the schema's names; the              *)
(* recommendations if they are only named.                                 *)
(* stories: each by the number of its criteria.  items: the decisions of an *)
(* architect, or the documents.  The pull request's agent is as "docs".    *)
Findings == [title : Titles, severity : {"low", "high", "odd"}]
AnswerShape ==
    LET Change == [path : Paths \cup {Nowhere}, names : Paths \cup {Nowhere}, test : BOOLEAN] IN
      [of : {"qa", "developer", "ba", "architect", "docs"}, form : {"json", "prose", "blank"},
       sectioned : BOOLEAN, fits : BOOLEAN,
       words : SUBSET {"pass", "fail", "error", "recommendations"},
       passed : {"true", "false", "absent"}, status : {"passed", "failed", "other"},
       findings : Seq(Findings), issues : Seq(Findings), failed : Seq(Findings), texts : BOOLEAN,
       beside : SUBSET {"reports", "recommendations", "bugs"},
       blocks : Seq(Change), stories : Seq(Nat), items : Nat]

ASSUME AnswersAssumption ==
    /\ Answers \subseteq AnswerShape
    /\ MostFindings \in Nat \ {0} /\ MostFixes \in Nat \ {0}

VARIABLES
    answer,
    parsing,        \* "answered", "parsed", "normalized", "accepted", "rejected", "told"
    out,            \* the payload, the output at last
    told            \* what QA tells the workflow

valVars == <<answer, parsing, out, told>>

First(n, s) == IF Len(s) <= n THEN s ELSE SubSeq(s, 1, n)

Nothing == [empty |-> TRUE, passed |-> "absent", status |-> "other", findings |-> <<>>,
            issues |-> <<>>, failed |-> <<>>, texts |-> FALSE, beside |-> {}, fixes |-> <<>>,
            changes |-> <<>>, tests |-> <<>>, stories |-> <<>>, items |-> 0]

ValInit ==
    /\ answer \in Answers /\ parsing = "answered" /\ out = Nothing
    /\ told = [route |-> "none", fixes |-> <<>>, review |-> FALSE]

-----------------------------------------------------------------------------
(* Prose passes if it speaks of passing and neither of failing nor of an   *)
(* error.                                                                  *)
ParseQaSections(words) ==
    [Nothing EXCEPT !.empty = FALSE, !.status =
        CASE words \cap {"fail", "error"} # {} -> "failed"
          [] words \cap {"pass", "fail", "error"} = {"pass"} -> "passed"
          [] OTHER -> "other"]

(* The blocks of code, or the whole text when there is none. *)
Whole == [path |-> Nowhere, names |-> Nowhere, test |-> FALSE]

ParseDeveloperSections(blocks) ==
    LET read == First(MostBlocks, blocks) IN
      [Nothing EXCEPT !.empty = FALSE,
        !.changes = IF blocks = <<>> THEN <<Whole>> ELSE SelectSeq(read, LAMBDA b : ~b.test),
        !.tests = SelectSeq(read, LAMBDA b : b.test)]

ParseBaSections(stories) == [Nothing EXCEPT !.empty = FALSE, !.stories = First(MostItems, stories)]

(* A decision for each line of a list; a document of the whole text. *)
ParseOtherSections(items) ==
    [Nothing EXCEPT !.empty = FALSE,
        !.items = CASE answer.of = "docs" -> 1
                    [] answer.of # "docs" /\ items <= MostDecisions -> items
                    [] OTHER -> MostDecisions]

FromJson ==
    [Nothing EXCEPT !.empty = FALSE, !.passed = answer.passed, !.status = answer.status,
        !.findings = answer.findings, !.issues = answer.issues, !.failed = answer.failed,
        !.texts = answer.texts, !.beside = answer.beside,
        !.stories = answer.stories, !.items = answer.items,
        !.changes = SelectSeq(answer.blocks, LAMBDA b : ~b.test),
        !.tests = SelectSeq(answer.blocks, LAMBDA b : b.test)]

FromProse ==
    CASE answer.of = "qa"        -> ParseQaSections(answer.words)
      [] answer.of = "developer" -> ParseDeveloperSections(answer.blocks)
      [] answer.of = "ba"        -> ParseBaSections(answer.stories)
      [] answer.of \in {"architect", "docs"} -> ParseOtherSections(answer.items)

(* The parser of markdown sections is that of business analysis for every  *)
(* agent but the developer, and does not look for JSON: it finds no        *)
(* section there.                                                          *)
Sectioned == answer.sectioned /\ answer.of # "developer"

Payload ==
    CASE Sectioned -> ParseBaSections(IF answer.form = "prose" THEN answer.stories ELSE <<>>)
      [] ~Sectioned /\ answer.form = "json" -> FromJson
      [] ~Sectioned /\ answer.form = "prose" -> FromProse
      [] ~Sectioned /\ answer.form = "blank" ->
           IF answer.of = "ba" THEN ParseBaSections(<<>>) ELSE Nothing

Parse ==
    /\ parsing = "answered" /\ parsing' = "parsed" /\ UNCHANGED <<answer, told>>
    /\ out' = Payload

-----------------------------------------------------------------------------
Graded(item) == [item EXCEPT !.severity = IF @ = "odd" THEN "medium" ELSE @]
MapQaIssues(issues) == First(MostFindings, [i \in DOMAIN issues |-> Graded(issues[i])])

(* The validations that failed are the requests, or else the findings; of  *)
(* validations that are but texts none comes.                              *)
MapQaFixRequests(failed, texts, findings) ==
    CASE failed # <<>> -> MapQaIssues(failed)
      [] failed = <<>> /\ texts -> <<>>
      [] OTHER -> MapQaIssues(findings)

Fallback == [title |-> "QA extraction fallback", severity |-> "medium"]

(* The text, however it was parsed, names the fields of findings. *)
Speaks ==
    \/ /\ answer.form = "json"
       /\ \/ answer.issues # <<>> \/ answer.failed # <<>>
          \/ answer.texts \/ "recommendations" \in answer.beside
    \/ answer.form = "prose" /\ "recommendations" \in answer.words

NormalizeQaPayload(p) ==
    IF p.empty THEN [p EXCEPT !.passed = "false"]
    ELSE LET findings == p.findings \o MapQaIssues(p.issues)
             fixes == MapQaFixRequests(p.failed, p.texts, findings) IN
      [p EXCEPT
        !.passed = IF @ # "absent" THEN @ ELSE IF p.status = "passed" THEN "true" ELSE "false",
        !.fixes = fixes,
        !.findings = IF /\ findings = <<>> /\ p.beside \cap {"reports", "bugs"} = {}
                        /\ fixes # <<>> \/ Speaks
                     THEN <<Fallback>> ELSE findings]

(* A change without a path goes where its content says, or to a file named *)
(* after its place.  `by`: which change of the answer it is.               *)
Placed(changes) ==
    First(MostItems, [i \in DOMAIN changes |->
        [by |-> i, path |-> CASE changes[i].path # Nowhere -> changes[i].path
                              [] changes[i].path = Nowhere /\ changes[i].names # Nowhere -> changes[i].names
                              [] OTHER -> <<"generated", i - 1>>]])

Draft == [path |-> <<"generated", 0>>, by |-> 0]

NormalizeDeveloperPayload(p) ==
    [p EXCEPT !.tests = Placed(@),
              !.changes = IF @ = <<>> /\ answer.form # "blank" THEN <<Draft>> ELSE Placed(@)]

(* The text of an architect without decisions is a decision. *)
NormalizeArchitectPayload(p) ==
    [p EXCEPT !.items = IF @ = 0 /\ answer.form # "blank" THEN 1 ELSE @]

Normalize ==
    /\ parsing = "parsed" /\ parsing' = "normalized" /\ UNCHANGED <<answer, told>>
    /\ out' = CASE answer.of = "qa" -> NormalizeQaPayload(out)
                [] answer.of = "developer" -> NormalizeDeveloperPayload(out)
                [] answer.of = "architect" -> NormalizeArchitectPayload(out)
                [] answer.of \in {"ba", "docs"} -> out

(* Fields the schema does not have are dropped, the first stories are kept *)
(* with their first criteria, and the rest must fit.                       *)
Sanitized(p) ==
    [p EXCEPT !.stories =
        First(MostItems, [i \in DOMAIN @ |-> IF @[i] < MostItems THEN @[i] ELSE MostItems])]

FitsSchema ==
    /\ answer.form = "json" /\ ~Sectioned => answer.fits
    /\ \A i \in DOMAIN out.findings : out.findings[i].severity # "odd"

(* What does not fit is rejected, but of QA and of the documentation it is *)
(* kept as it is, for a review, and the workflow is told to go on.         *)
Validate ==
    /\ parsing = "normalized" /\ out' = Sanitized(out) /\ UNCHANGED answer
    /\ \/ FitsSchema /\ parsing' = "accepted" /\ UNCHANGED told
       \/ /\ ~FitsSchema /\ answer.of \in {"qa", "docs"} /\ answer.form # "blank"
          /\ parsing' = "told" /\ told' = [route |-> "continue", fixes |-> <<>>, review |-> TRUE]
       \/ /\ ~FitsSchema /\ (answer.of \in {"qa", "docs"} => answer.form = "blank")
          /\ parsing' = "rejected" /\ UNCHANGED told

(* Seeded fault: the requests are the normaliser's, or none. *)
NormalizersOwn(o) == o.fixes

(* Requests there are none of are made of the findings. *)
FixRequests(o) ==
    IF o.fixes # <<>> THEN o.fixes ELSE First(MostFixes, o.findings)

ResultMetadata ==
    /\ parsing = "accepted" /\ answer.of = "qa" /\ parsing' = "told" /\ UNCHANGED <<answer, out>>
    /\ told' = [route |-> IF out.passed = "true" THEN "continue" ELSE "reject",
                fixes |-> FixRequests(out), review |-> FALSE]

ValNext == Parse \/ Normalize \/ Validate \/ ResultMetadata

-----------------------------------------------------------------------------
(* Properties.                                                             *)

(* A developer who is sent the work back is told what to repair: when QA   *)
(* rejects and its JSON names a finding, an issue or a record of a         *)
(* validation that failed, or a validation or a recommendation in words    *)
(* without a report or a bug beside it, there is a request for a fix; and  *)
(* if only issues are named, one for each of them.  Words beside a report  *)
(* make none, and neither does JSON that is read by its sections           *)
(* (_normalize_qa_payload, QAAgentRuntime.result_metadata).                *)
RejectionsCarryFixes ==
    parsing = "told" /\ told.route = "reject" /\ answer.form = "json" /\ ~Sectioned =>
      /\ \/ answer.findings \o answer.issues \o answer.failed # <<>>
         \/ /\ answer.texts \/ "recommendations" \in answer.beside
            /\ answer.beside \cap {"reports", "bugs"} = {}
         => told.fixes # <<>>
      /\ answer.failed = <<>> /\ ~answer.texts =>
           \A i \in 1..Len(answer.issues) : i + Len(answer.findings) <= MostFindings =>
             \E j \in DOMAIN told.fixes : told.fixes[j].title = answer.issues[i].title

(* QA passes nothing that speaks of failing, and nothing in silence: the   *)
(* work goes on only if the JSON says that it passed, or prose says so and *)
(* names neither a failure nor an error; or, marked for a review, if the   *)
(* JSON does not fit the schema, whatever it says.  What is read by the    *)
(* sections of business analysis never passes (BaseAgent._execute_once,    *)
(* result_metadata).                                                       *)
SilenceNeverPasses ==
    parsing = "told" /\ answer.of = "qa" /\ told.route = "continue" =>
      /\ ~Sectioned
      /\ \/ /\ answer.form = "json" /\ ~told.review
            /\ answer.passed = "true" \/ (answer.passed = "absent" /\ answer.status = "passed")
         \/ /\ answer.form = "prose" /\ ~told.review
            /\ answer.words \cap {"pass", "fail", "error"} = {"pass"}
         \/ /\ answer.form = "json" /\ told.review
            /\ ~answer.fits \/ \E i \in DOMAIN answer.findings : answer.findings[i].severity = "odd"

(* What QA tells the workflow follows from what it answered. *)
VerdictsFollowTheAnswer == RejectionsCarryFixes /\ SilenceNeverPasses

(* README.md, "Delivery Workflow": "QA -->|approved| Docs" and "QA         *)
(* -->|rejected| Developer".  Not true of a rejection that does not fit    *)
(* the schema, which goes on (core/runtime/agent.py:121), so no run has it.*)
RejectionsAreSentBack ==
    parsing = "told" /\ answer.of = "qa" /\ answer.form = "json" /\ answer.passed = "false" =>
        told.route = "reject"
=============================================================================
