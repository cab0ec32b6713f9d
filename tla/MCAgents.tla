------------------------------ MODULE MCAgents ------------------------------
(* Small instances, for TLC, of what the agents do: one call of an agent,  *)
(* the browser tests of QA, the graph that supervises the agents, and the  *)
(* jobs of the chat's assistant.  Each behaviour looks at one part; the    *)
(* others do not start, or have ended.                                     *)
EXTENDS AgentCall, QaSandbox, SupervisorGraph, ChatJobs, TLC

CONSTANTS c1, c2, t1, u1

VARIABLE part

vars == <<agentVars, qaVars, graphVars, chatVars, part>>

SomeFaults ==
    {{}, {"transient"}, {"context"}, {"context", "transient"}, {"validation", "transient"},
     {"governance", "transient"}, {"auth", "transient"}, {"model"}, {"unsupported", "transient"}}

BaseCall == [agent |-> "ba", mine |-> TRUE, prompt |-> "fits", compression |-> "none",
             inputs |-> [d \in Documents |-> {"disk"}], repository |-> FALSE, tracked |-> {}, ignored |-> {},
             generated |-> [code |-> {}, tests |-> {}]]

(* What a repository tracks and ignores, and what is generated for it. *)
SomeRepositories ==
    {<<{c1}, {c2}, {c2}>>, <<{c2}, {c2}, {}>>, <<{c1, t1}, {}, {c2}>>}

SomeCalls ==
    {[BaseCall EXCEPT !.agent = a, !.mine = m, !.prompt = p, !.compression = c] :
        a \in {"ba", "qa"}, m \in BOOLEAN, p \in {"fits", "compacts", "too_large"},
        c \in {"none", "works", "fails"}}
    \cup {[BaseCall EXCEPT !.agent = "developer", !.inputs["handoff"] = found] :
            found \in {{}, {"upstream"}}}
    \cup {[BaseCall EXCEPT !.agent = "developer", !.repository = TRUE, !.tracked = r[1], !.ignored = r[2],
                           !.generated = [code |-> r[3], tests |-> r[3] \cap Tests]] :
            r \in SomeRepositories}

SomeReports ==
    [passed : BOOLEAN, commands : 0..2, bugs : BOOLEAN, engine : {"playwright", "selenium"},
     steps : {<<>>, <<"act">>, <<"act", "shot">>, <<"shot", "video", "act">>, <<"log", "unknown">>}]
BaseReport == [passed |-> FALSE, commands |-> 0, bugs |-> FALSE, engine |-> "selenium", steps |-> <<>>]

ThreeAgents == <<"developer", "qa", "docs">>
QaToDeveloper == "qa" :> "developer"

(* With the file repository nothing suspends, and one more message is in   *)
(* reach.                                                                  *)
TwoOrThree == [r \in Repositories |-> IF r = "postgres" THEN 2 ELSE 3]

Idle == "idle"

Init ==
    /\ part \in {"call", "browser", "graph", "chat"}
    /\ IF part = "call" THEN AgentInit
       ELSE /\ call = BaseCall /\ pc = "answered" /\ attempt = 0 /\ compressed = FALSE
            /\ failures = <<>> /\ pass = 0 /\ merged = NoOutput /\ tree = NoFiles
            /\ head = NoFiles /\ result = NoResult
    /\ IF part = "browser" THEN QaInit
       ELSE /\ report = BaseReport /\ qaStage = Idle /\ qaPassed = FALSE /\ exits = <<>>
            /\ try = 0 /\ at = 1 /\ page = NoPage /\ trace = {} /\ shot = NoShot
            /\ shown = {} /\ route = Idle
    /\ IF part = "graph" THEN GraphInit
       ELSE /\ active = None /\ snapshots = [a \in {} |-> 0] /\ rejections = [a \in {} |-> 0]
            /\ decision = Decision(None, "none") /\ steps = 0 /\ journal = <<>> /\ node = Idle
    /\ ChatInit /\ (part # "chat" => repository = "file")

Next ==
    /\ UNCHANGED part
    /\ \/ part = "call" /\ AgentNext /\ UNCHANGED <<qaVars, graphVars, chatVars>>
       \/ part = "browser" /\ QaNext /\ UNCHANGED <<agentVars, graphVars, chatVars>>
       \/ part = "graph" /\ GraphNext /\ UNCHANGED <<agentVars, qaVars, chatVars>>
       \/ part = "chat" /\ ChatNext /\ UNCHANGED <<agentVars, qaVars, graphVars>>

Spec == Init /\ [][Next]_vars /\ AgentFairness /\ ChatFairness
=============================================================================
