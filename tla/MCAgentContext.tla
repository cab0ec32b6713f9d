--------------------------- MODULE MCAgentContext ---------------------------
(* Small instances, for TLC, of what an agent is given and held to, and of *)
(* how its answer is read: its memory, its context, its prompt, its        *)
(* provider, its governance and the validation of its output.  Each        *)
(* behaviour looks at one part; the others do not start.                   *)
EXTENDS MemorySystem, ContextSelection, PromptBudget, ProviderRegistry, GovernanceChecks,
        OutputValidation, TLC

CONSTANTS o1, o2, p1, p2, m1, m2, m3

VARIABLE part

vars == <<memVars, ctxVars, promptVars, regVars, govVars, valVars, part>>

OwnersAreAlike == Permutations(Owners)

(* The agent's rules, the repository's files, what others left, memory.    *)
SomeDocuments ==
    {[id |-> 1, section |-> "gravity_rules", text |-> <<2, 2>>],
     [id |-> 2, section |-> "standards", text |-> <<1, 1>>],
     [id |-> 3, section |-> "general", text |-> <<1>>]}
SomeFiles ==
    {[id |-> 4, arch |-> TRUE, score |-> 1, text |-> <<2, 1>>],
     [id |-> 5, arch |-> FALSE, score |-> 3, text |-> <<2, 1>>]}
SomeSummaries == {[id |-> 6, source |-> "repository_summary", text |-> <<1>>]}
TwoAnswers == {[id |-> 7, text |-> <<2>>], [id |-> 8, text |-> <<2>>]}
SomeMemories ==
    {[id |-> 9, source |-> "memory", text |-> <<1>>, owner |-> "ba", score |-> 0],
     [id |-> 10, source |-> "vector_memory", text |-> <<1>>, owner |-> "ba", score |-> 1],
     [id |-> 11, source |-> "memory", text |-> <<2>>, owner |-> "qa", score |-> 2]}

(* Sizes around the cuts: small ones, and a grid up to the largest budget. *)
SomeUsers == {0, 300, 301, 399, 400, 401, 460, 500, 1199, 1200} \cup {i * 397 : i \in 1..20}
SomeTasks == {0, 270, 271, 400, 1500} \cup {i * 811 : i \in 1..7}
SomeSystems == {0, 3, 8} \cup {i * 1013 : i \in 1..3}
SomeModels ==
    {[window |-> w, output |-> o, profiled |-> p, configured |-> c, local |-> l] :
        w \in {1500, 2048, 4096}, o \in {450, 1024}, p \in BOOLEAN, c \in {0, 900}, l \in BOOLEAN}

TwoOffers == (p1 :> {m1, m2}) @@ (p2 :> {m3})

Rule(effect, topic, category, severity, yields) ==
    [effect |-> effect, topic |-> topic, category |-> category,
     severity |-> severity, yields |-> yields, critical |-> topic = "secret"]

(* One of the defaults yields to the agent's own rule. *)
ThreeDefaults ==
    (<<"global", "architecture", 1>> :> Rule("require", "boundaries", "architecture", Review, FALSE))
    @@ (<<"global", "security", 2>> :> Rule("require", "input", "security", Warning, FALSE))
    @@ (<<"global", "coding", 3>> :> Rule("require", "tests", "qa", Blocking, TRUE))
TwoStandards ==
    <<[stem |-> "clean", rules |-> <<Rule("forbid", "sql", "general", Blocking, FALSE),
                                     Rule("forbid", "controller", "general", Blocking, FALSE),
                                     Rule("forbid", "secret", "security", Review, FALSE)>>]>>
(* Two of an agent's files have one stem. *)
TwoFiles ==
    [a \in {"developer", "architect", "qa"} |->
        <<[stem |-> "gravity", rules |-> <<Rule("recommend", "sql", "general", Blocking, FALSE)>>],
          [stem |-> "gravity", rules |-> <<Rule("forbid", "controller", "general", Serious, FALSE),
                                           Rule("require", "tests", "general", Blocking, FALSE)>>]>>]
TwoEdits ==
    {[stem |-> "other", rules |-> <<Rule("recommend", "sql", "general", Blocking, FALSE)>>],
     [stem |-> "other", rules |-> <<Rule("require", "tests", "general", Info, FALSE)>>]}
SomeOutputs ==
    {o \in [topics : SUBSET {"sql", "controller", "secret"}, code : SUBSET {"sql", "controller"},
            controllers : BOOLEAN, guidance : BOOLEAN, tests : BOOLEAN,
            validates : BOOLEAN, short : BOOLEAN] :
        o.code \subseteq o.topics /\ ("controller" \in o.code => o.controllers)}

BaseAnswer ==
    [of |-> "qa", form |-> "json", sectioned |-> FALSE, fits |-> TRUE, words |-> {}, passed |-> "absent",
     status |-> "other", findings |-> <<>>, issues |-> <<>>, failed |-> <<>>, texts |-> FALSE,
     beside |-> {}, blocks |-> <<>>, stories |-> <<>>, items |-> 0]

Found(title, severity) == [title |-> title, severity |-> severity]
Block(path, names, test) == [path |-> path, names |-> names, test |-> test]

(* The answers of QA, of the developer and of the others; every form of    *)
(* naming a finding and a path is among them.                              *)
SomeAnswers ==
    {[BaseAnswer EXCEPT !.passed = p, !.status = s, !.findings = f, !.issues = i, !.failed = v,
                        !.texts = t, !.beside = b, !.fits = fit, !.sectioned = by] :
        p \in {"true", "false", "absent"}, s \in {"passed", "failed"},
        f \in {<<>>, <<Found("f", "low")>>, <<Found("f", "odd")>>},
        i \in {<<>>, <<Found("i", "odd")>>, <<Found("i", "low"), Found("j", "high")>>},
        v \in {<<>>, <<Found("v", "high")>>}, t \in BOOLEAN,
        b \in SUBSET {"reports", "recommendations", "bugs"}, fit \in BOOLEAN, by \in BOOLEAN}
    \cup {[BaseAnswer EXCEPT !.form = f, !.words = w, !.sectioned = by] :
            f \in {"prose", "blank"}, by \in BOOLEAN,
            w \in SUBSET {"pass", "fail", "error", "recommendations"}}
    \cup {[BaseAnswer EXCEPT !.of = "developer", !.form = f, !.blocks = b, !.sectioned = by] :
            f \in {"json", "prose", "blank"}, by \in BOOLEAN,
            b \in {<<>>, <<Block("p", "p", FALSE)>>,
                   <<Block(Nowhere, "p", TRUE), Block(Nowhere, Nowhere, FALSE), Block("q", Nowhere, FALSE)>>,
                   <<Block("p", "q", FALSE), Block(Nowhere, "p", FALSE),
                     Block(Nowhere, Nowhere, FALSE), Block(Nowhere, "q", TRUE)>>}}
    \cup {[BaseAnswer EXCEPT !.of = "ba", !.form = f, !.stories = s, !.sectioned = by] :
            f \in {"json", "prose", "blank"}, s \in {<<>>, <<1, 4>>, <<0, 5, 2, 1>>}, by \in BOOLEAN}
    \cup {[BaseAnswer EXCEPT !.of = a, !.form = f, !.items = n, !.sectioned = by, !.fits = fit] :
            a \in {"architect", "docs"}, f \in {"json", "prose", "blank"}, n \in 0..3,
            by \in BOOLEAN, fit \in BOOLEAN}

Idle == "idle"

Init ==
    /\ part \in {"memory", "context", "prompt", "providers", "governance", "answer"}
    /\ IF part = "memory" THEN MemInit
       ELSE records = <<>> /\ indexed = <<>> /\ backend = Idle
    /\ IF part = "context" THEN CtxInit
       ELSE /\ ctxStage = Idle /\ items = {} /\ selected = {} /\ dropped = {}
            /\ prompts = {} /\ config = Idle
    /\ IF part = "prompt" THEN PromptInit
       ELSE /\ agent = Idle /\ safe = FALSE /\ user = 0 /\ system = 0 /\ form = Idle
            /\ limits = Idle /\ model = Idle /\ stage = Idle
    /\ IF part = "providers" THEN RegInit
       ELSE registry = [p \in {} |-> Idle] /\ server = [p \in Local |-> {}]
    /\ IF part = "governance" THEN GovInit
       ELSE /\ author = Idle /\ mode = Idle /\ output = Idle /\ edits = <<>>
            /\ policy = NoRules /\ govStage = Idle /\ found = {} /\ warning = {}
    /\ IF part = "answer" THEN ValInit
       ELSE answer = BaseAnswer /\ parsing = Idle /\ out = Nothing /\ told = Idle

Next ==
    /\ UNCHANGED part
    /\ \/ /\ part = "memory" /\ MemNext
          /\ UNCHANGED <<ctxVars, promptVars, regVars, govVars, valVars>>
       \/ /\ part = "context" /\ CtxNext
          /\ UNCHANGED <<memVars, promptVars, regVars, govVars, valVars>>
       \/ /\ part = "prompt" /\ PromptNext
          /\ UNCHANGED <<memVars, ctxVars, regVars, govVars, valVars>>
       \/ /\ part = "providers" /\ RegNext
          /\ UNCHANGED <<memVars, ctxVars, promptVars, govVars, valVars>>
       \/ /\ part = "governance" /\ GovNext
          /\ UNCHANGED <<memVars, ctxVars, promptVars, regVars, valVars>>
       \/ /\ part = "answer" /\ ValNext
          /\ UNCHANGED <<memVars, ctxVars, promptVars, regVars, govVars>>

Spec == Init /\ [][Next]_vars
=============================================================================
