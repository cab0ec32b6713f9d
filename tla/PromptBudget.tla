---------------------------- MODULE PromptBudget ----------------------------
(***************************************************************************)
(* What becomes of a prompt that may be too large for its model.           *)
(*                                                                         *)
(* A prompt is a system message and a user message, measured in            *)
(* characters; budgets are measured in tokens of four characters.  In the  *)
(* local safe mode an agent's prompt that is over its budget is built      *)
(* again, of the task and a list of what comes from upstream, and what is  *)
(* over the budget still is cut by the context governor                    *)
(* (core/runtime/agent.py, core/runtime/context_governor.py); the model    *)
(* client cuts a prompt over the client's limit                            *)
(* (core/agents/model_clients.py), which ProviderRegistry.build_client     *)
(* computes from the model's profile.  Both cuts keep the share of the     *)
(* message that the budget is of the WHOLE prompt, append a notice, and    *)
(* refuse the prompt when it is still too large.  A developer's prompts    *)
(* meet the client only.                                                   *)
(*                                                                         *)
(* The share is a floating-point product that may come out one character   *)
(* short of the exact one: `slack`.                                        *)
(***************************************************************************)
EXTENDS Integers

CONSTANTS
    Systems, Users,     \* the sizes of messages, in characters
    Tasks,              \* the sizes of a task with the list of what is upstream
    Overrides,          \* the governor's budgets that agents' profiles name
    Models              \* what is known of a model: see ModelShape

(* A model's window and output in tokens, whether they come from a profile *)
(* of its own, the provider's prompt limit (0: none), and whether the      *)
(* provider is an LM Studio.                                               *)
ModelShape == [window : Nat \ {0}, output : Nat \ {0}, profiled : BOOLEAN, configured : Nat,
               local : BOOLEAN]

ASSUME SizesAssumption ==
    /\ Systems \subseteq Nat /\ Users \subseteq Nat /\ Tasks \subseteq Nat /\ Overrides \subseteq Nat
    /\ Models \subseteq ModelShape

VARIABLES
    agent, safe,    \* whose prompt it is; the local safe mode
    system, user,   \* the two messages
    form,           \* of the user message: "whole", "compact" or "cut"
    limits,         \* the client's: what the prompt and the output may have
    model,          \* the model
    stage           \* "built", "governed", "sent" or "refused"

promptVars == <<agent, safe, system, user, form, limits, model, stage>>

Larger(a, b)  == IF a < b THEN b ELSE a
Smaller(a, b) == IF a < b THEN a ELSE b

(* One message in tokens, and a prompt in tokens. *)
EstimateTokens(length) == Larger(1, length \div 4)
EstimateMessages(s, u) == EstimateTokens(s) + EstimateTokens(u)

(* The governor's budgets of the local mode, and the client's caps. *)
LocalBudgets == [ba |-> 900, architect |-> 1200, developer |-> 1500,
                 qa |-> 1000, docs |-> 900, pr |-> 700]
SafePrompts  == [LocalBudgets EXCEPT !.developer = 1400]
SafeOutputs  == [ba |-> 450, architect |-> 600, developer |-> 700,
                 qa |-> 500, docs |-> 500, pr |-> 350]

(* The share of a text that is kept: budget / total, at least 1 / floor.   *)
Share(length, budget, total, floor) ==
    IF floor * budget < total THEN length \div floor
                              ELSE (length * budget) \div total

(* Seeded fault: the output is not taken off the window. *)
WholeWindow(name, capped, m) ==
    [prompt |-> Larger(512, m.window - 300), output |-> m.output]

(* build_client: what the window leaves beside the output and a reserve of *)
(* 300, but 512 at least, unless the provider says.  The safe mode caps    *)
(* both for an LM Studio.  Without a profile the cap stands alone, and     *)
(* without a cap either the client leaves no reserve.                      *)
RequestLimits(name, capped, m) ==
    LET room == CASE m.configured # 0 -> m.configured
                  [] m.configured = 0 /\ m.profiled -> Larger(512, m.window - m.output - 300)
                  [] m.configured = 0 /\ ~m.profiled /\ capped -> SafePrompts[name]
                  [] OTHER -> Larger(512, m.window - m.output) IN
      IF capped THEN [prompt |-> Smaller(room, SafePrompts[name]),
                      output |-> Smaller(m.output, SafeOutputs[name])]
                ELSE [prompt |-> room, output |-> m.output]

PromptInit ==
    /\ agent \in DOMAIN LocalBudgets /\ safe \in BOOLEAN
    /\ system \in Systems /\ user \in Users /\ form = "whole"
    /\ model \in Models /\ limits = RequestLimits(agent, safe /\ model.local, model)
    /\ stage = "built"

-----------------------------------------------------------------------------
(* Seeded fault: the notice is left out. *)
SilentCut(s, u, budget, slack) ==
    Smaller(u, Larger(300, Share(u, budget, EstimateMessages(s, u), 5) - slack))

(* The governor keeps a fifth at least and 300 characters at least, and    *)
(* adds its notice of 35 characters.                                       *)
GovernorCut(s, u, budget, slack) ==
    Smaller(u, Larger(300, Share(u, budget, EstimateMessages(s, u), 5) - slack)) + 35

(* The prompt built again around a task: its headings have 29 characters,  *)
(* business analysis is told its sections (174) by a system message of its *)
(* own, and the architect what to write (124).                             *)
CompactSystem == IF agent = "ba" THEN 93 ELSE system
CompactUser(task) ==
    task + (CASE agent = "ba" -> 29 + 174
              [] agent = "architect" -> 29 + 124
              [] OTHER -> 29)

Governed(u, is) == user' = u /\ form' = is /\ stage' = "governed"

GovernedBy(budget) ==
    \/ /\ ~safe \/ agent = "developer" \/ EstimateMessages(system, user) <= budget
       /\ Governed(user, form) /\ UNCHANGED system
    \/ /\ safe /\ agent # "developer" /\ EstimateMessages(system, user) > budget
       /\ system' = CompactSystem
       /\ \E task \in Tasks :
            \/ /\ EstimateMessages(system', CompactUser(task)) <= budget
               /\ Governed(CompactUser(task), "compact")
            \/ /\ EstimateMessages(system', CompactUser(task)) > budget
               /\ \E slack \in {0, 1} :
                    LET cut == GovernorCut(system', CompactUser(task), budget, slack) IN
                      IF EstimateMessages(system', cut) <= budget THEN Governed(cut, "cut")
                      ELSE stage' = "refused" /\ UNCHANGED <<user, form>>

Govern ==
    /\ stage = "built" /\ UNCHANGED <<agent, safe, limits, model>>
    /\ \E budget \in {LocalBudgets[agent]} \cup Overrides : GovernedBy(budget)

(* The client keeps a quarter at least and 400 characters at least, and    *)
(* adds its notice of 60 characters only when something was cut.           *)
ClientKeeps(s, u, budget, slack) ==
    Larger(400, Share(u, budget, EstimateMessages(s, u), 4) - slack)

ClientCut(s, u, budget, slack) ==
    LET kept == ClientKeeps(s, u, budget, slack) IN IF kept < u THEN kept + 60 ELSE u

Send ==
    /\ stage = "governed" /\ UNCHANGED <<agent, safe, system, limits, model>>
    /\ IF EstimateMessages(system, user) <= limits.prompt
       THEN stage' = "sent" /\ UNCHANGED <<user, form>>
       ELSE \E slack \in {0, 1} :
              /\ user' = ClientCut(system, user, limits.prompt, slack)
              /\ form' = IF ClientKeeps(system, user, limits.prompt, slack) < user THEN "cut" ELSE form
              /\ stage' = IF EstimateMessages(system, user') > limits.prompt
                          THEN "refused" ELSE "sent"

PromptNext == Govern \/ Send

PromptSpec == PromptInit /\ [][PromptNext]_promptVars

-----------------------------------------------------------------------------
(* Properties.                                                             *)

(* Neither cut ever makes a prompt fit: of two messages that are together  *)
(* over the budget, the one keeps its size and the other keeps the share   *)
(* the budget is of both, plus the notice.  A prompt is therefore sent as  *)
(* it was built, or as it was built again from the task in the safe mode,  *)
(* which no developer's is, or not at all: no text is broken off on its    *)
(* way to the model (_enforce_local_safe_prompt_budget,                    *)
(* enforce_prompt_budget, _fit_messages_to_budget).                        *)
NothingIsSentCut ==
    stage = "sent" => form = "whole" \/ (form = "compact" /\ safe /\ agent # "developer")

(* What is sent, and the output that is asked for, fit the model's window  *)
(* together, when the provider sets no limit of its own, the window has    *)
(* room for the output, the reserve and the smallest prompt, and an LM     *)
(* Studio's model has a profile in the safe mode (build_client,            *)
(* _build_payload).                                                        *)
RequestsFitTheWindow ==
    stage = "sent" /\ model.configured = 0 /\ (safe /\ model.local => model.profiled)
      /\ model.window >= model.output + 812 =>
        EstimateMessages(system, user) + limits.output <= model.window
=============================================================================
