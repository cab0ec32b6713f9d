---------------------------- MODULE ContextProofs ----------------------------
(***************************************************************************)
(* Proofs about what an agent is given and what its answer is held to: the *)
(* size of its prompt, of any prompts, budgets and models; the governance  *)
(* of its output; what is made of QA's answer; the providers' default; its *)
(* memory; its context.                                                    *)
(***************************************************************************)
EXTENDS PromptBudget, GovernanceChecks, OutputValidation, ProviderRegistry, MemorySystem,
        ContextSelection, FiniteSetTheorems, SequenceTheorems, TLAPS

-----------------------------------------------------------------------------
(* What becomes of a prompt.                                               *)

(* A quotient is within one of the fraction. *)
LEMMA DivBounds ==
    ASSUME NEW a \in Nat, NEW b \in Nat \ {0}
    PROVE  a \div b \in Nat /\ b * (a \div b) <= a /\ a < b * (a \div b) + b
  OBVIOUS

(* A product grows with its factors. *)
LEMMA TimesMonotonic ==
    ASSUME NEW a \in Int, NEW b \in Int, NEW c \in Nat, a <= b
    PROVE  a * c <= b * c /\ c * a <= c * b
  OBVIOUS

(* Tokens are a quarter of the characters, and one at least. *)
LEMMA Quarter ==
    ASSUME NEW n \in Nat
    PROVE  /\ EstimateTokens(n) \in Nat \ {0}
           /\ n <= 4 * EstimateTokens(n) + 3
           /\ n >= 4 => 4 * EstimateTokens(n) <= n
  BY DEF EstimateTokens, Larger

LEMMA TokensGrow ==
    ASSUME NEW m \in Nat, NEW n \in Nat, m <= n
    PROVE  EstimateTokens(m) <= EstimateTokens(n)
  BY DEF EstimateTokens, Larger

(* The core of the argument: a message that keeps, in tokens, more than    *)
(* the budget's share of it does not fit beside the other message.         *)
LEMMA TheRestIsTooLarge ==
    ASSUME NEW S \in Nat, NEW U \in Nat, NEW E \in Nat, NEW b \in Nat,
           b < S + U, E * (S + U) > U * b
    PROVE  S + E > b
<1> SUFFICES ASSUME S + E <= b PROVE FALSE
  OBVIOUS
<1>1. E * (S + U) <= (b - S) * (S + U)
  BY TimesMonotonic
<1>2. (b - S) * (S + U) = b * S + b * U - S * (S + U)
  OBVIOUS
<1>3. S * b <= S * (S + U)
  BY TimesMonotonic
<1> QED
  BY <1>1, <1>2, <1>3

(* What the share leaves of a text is, times the whole, at least the       *)
(* budget's part of the text less one whole.                               *)
LEMMA ShareBound ==
    ASSUME NEW u \in Nat, NEW b \in Nat, NEW T \in Nat \ {0}, NEW floor \in {4, 5}, b < T
    PROVE  /\ Share(u, b, T, floor) \in Nat
           /\ Share(u, b, T, floor) * T + T > u * b
<1> DEFINE k == Share(u, b, T, floor)
<1>0. u * b \in Nat
  OBVIOUS
<1>1. CASE floor * b < T
  <2>1. k = u \div floor
    BY <1>1 DEF Share
  <2>2. k \in Nat /\ u < floor * k + floor
    BY <2>1
  <2>3. u * (floor * b) <= u * T
    BY <1>1, TimesMonotonic
  <2>4. u * T <= (floor * k + floor - 1) * T
    BY <2>2, TimesMonotonic
  <2>5. floor * (u * b) <= floor * (k * T) + (floor - 1) * T
    BY <2>2, <2>3, <2>4
  <2> HIDE DEF k
  <2>6. k * T \in Nat
    BY <2>2
  <2>7. k * T + T > u * b
    <3> DEFINE ub == u * b
               kT == k * T
    <3>1. ub \in Nat /\ kT \in Nat /\ floor * ub <= floor * kT + (floor - 1) * T
      BY <1>0, <2>5, <2>6
    <3> HIDE DEF ub, kT
    <3>2. kT + T > ub
      BY <3>1
    <3> QED
      BY <3>2 DEF ub, kT
  <2> QED
    BY <2>2, <2>7 DEF k
<1>2. CASE ~(floor * b < T)
  <2>1. k = (u * b) \div T
    BY <1>2 DEF Share
  <2> QED
    BY <1>0, <2>1, DivBounds
<1> QED
  BY <1>1, <1>2

(* A message cut to that share, with a notice of 35 characters or more, is *)
(* still too large.                                                        *)
LEMMA SharesAreTooLarge ==
    ASSUME NEW s \in Nat, NEW u \in Nat, NEW b \in Nat, NEW kept \in Nat, NEW notice \in {35, 60},
           NEW floor \in {4, 5},
           u >= 4, EstimateMessages(s, u) > b,
           kept + 1 >= Share(u, b, EstimateMessages(s, u), floor)
    PROVE  EstimateMessages(s, kept + notice) > b
<1> DEFINE S == EstimateTokens(s)
           U == EstimateTokens(u)
           E == EstimateTokens(kept + notice)
           T == S + U
           k == Share(u, b, T, floor)
<1>1. /\ S \in Nat \ {0} /\ U \in Nat \ {0} /\ 4 * U <= u
      /\ E \in Nat /\ kept + notice <= 4 * E + 3
  BY Quarter
<1>2. k \in Nat /\ k * T + T > u * b /\ b < T /\ kept + 1 >= k
  <2>1. T \in Nat \ {0} /\ EstimateMessages(s, u) = T
    BY <1>1 DEF EstimateMessages
  <2>2. b < T
    BY <2>1
  <2> HIDE DEF T
  <2>3. k \in Nat /\ k * T + T > u * b
    BY <2>1, <2>2, ShareBound
  <2> QED
    BY <2>1, <2>2, <2>3
<1> HIDE DEF S, U, E, k
<1>3. (k + 1) * T <= (4 * E) * T
  BY <1>1, <1>2, TimesMonotonic
<1>4. (4 * U) * b <= u * b
  BY <1>1, TimesMonotonic
<1>5. E * T > U * b
  BY <1>1, <1>2, <1>3, <1>4
<1>6. S + E > b
  BY <1>1, <1>2, <1>5, TheRestIsTooLarge
<1> QED
  BY <1>6 DEF EstimateMessages, S, E

LEMMA TheShareIsNat ==
    ASSUME NEW s \in Nat, NEW u \in Nat, NEW b \in Nat, NEW floor \in {4, 5},
           EstimateMessages(s, u) > b
    PROVE  Share(u, b, EstimateMessages(s, u), floor) \in Nat
<1>1. EstimateMessages(s, u) \in Nat \ {0}
  BY Quarter DEF EstimateMessages
<1> QED
  BY <1>1, ShareBound

(* The governor's cut never fits. *)
LEMMA GovernorNeverFits ==
    ASSUME NEW s \in Nat, NEW u \in Nat, NEW b \in Nat, NEW slack \in {0, 1},
           EstimateMessages(s, u) > b
    PROVE  /\ GovernorCut(s, u, b, slack) \in Nat
           /\ EstimateMessages(s, GovernorCut(s, u, b, slack)) > b
<1> DEFINE k == Share(u, b, EstimateMessages(s, u), 5)
           kept == Larger(300, k - slack)
<1>1. k \in Nat
  BY TheShareIsNat
<1>2. GovernorCut(s, u, b, slack) = Smaller(u, kept) + 35
  BY DEF GovernorCut
<1> HIDE DEF k
<1>3. kept \in Nat /\ kept >= 300 /\ kept + 1 >= k
  BY <1>1 DEF Larger
<1> HIDE DEF kept
<1>4. CASE u < kept
  <2>1. Smaller(u, kept) = u
    BY <1>4 DEF Smaller
  <2>2. EstimateTokens(u) <= EstimateTokens(u + 35)
    BY TokensGrow
  <2>3. EstimateTokens(s) \in Nat /\ EstimateTokens(u) \in Nat /\ EstimateTokens(u + 35) \in Nat
    BY Quarter
  <2> QED
    BY <1>2, <2>1, <2>2, <2>3 DEF EstimateMessages
<1>5. CASE ~(u < kept)
  <2>1. Smaller(u, kept) = kept /\ u >= 4
    BY <1>3, <1>5 DEF Smaller
  <2>2. EstimateMessages(s, kept + 35) > b
    BY <1>3, <2>1, SharesAreTooLarge DEF k
  <2> QED
    BY <1>2, <1>3, <2>1, <2>2
<1> QED
  BY <1>4, <1>5

(* What the client cuts never fits, and what it leaves alone did not. *)
LEMMA ClientNeverFits ==
    ASSUME NEW s \in Nat, NEW u \in Nat, NEW b \in Nat, NEW slack \in {0, 1},
           EstimateMessages(s, u) > b
    PROVE  /\ ClientCut(s, u, b, slack) \in Nat
           /\ EstimateMessages(s, ClientCut(s, u, b, slack)) > b
<1> DEFINE k == Share(u, b, EstimateMessages(s, u), 4)
           kept == Larger(400, k - slack)
<1>1. k \in Nat
  BY TheShareIsNat
<1>2. ClientCut(s, u, b, slack) = IF kept < u THEN kept + 60 ELSE u
  BY DEF ClientCut, ClientKeeps
<1> HIDE DEF k
<1>3. kept \in Nat /\ kept >= 400 /\ kept + 1 >= k
  BY <1>1 DEF Larger
<1> HIDE DEF kept
<1>4. CASE kept < u
  <2>1. EstimateMessages(s, kept + 60) > b
    BY <1>3, <1>4, SharesAreTooLarge DEF k
  <2> QED
    BY <1>2, <1>3, <1>4, <2>1
<1>5. CASE ~(kept < u)
  BY <1>2, <1>5
<1> QED
  BY <1>4, <1>5

-----------------------------------------------------------------------------
(* The invariant: until a prompt is refused it is whole, or built again    *)
(* where that is done, and it is sent under the limits of its model.       *)
PromptTypeOK ==
    /\ agent \in DOMAIN LocalBudgets /\ safe \in BOOLEAN
    /\ system \in Nat /\ user \in Nat /\ model \in ModelShape
    /\ form \in {"whole", "compact", "cut"}
    /\ stage \in {"built", "governed", "sent", "refused"}

Uncut ==
    stage # "refused" => form = "whole" \/ (form = "compact" /\ safe /\ agent # "developer")
WithinLimits == stage = "sent" => EstimateMessages(system, user) <= limits.prompt
ModelsLimits == limits = RequestLimits(agent, safe /\ model.local, model)

PromptInv == PromptTypeOK /\ Uncut /\ WithinLimits /\ ModelsLimits

LEMMA LimitsAreNat ==
    ASSUME NEW name \in DOMAIN LocalBudgets, NEW capped \in BOOLEAN, NEW m \in ModelShape
    PROVE  /\ RequestLimits(name, capped, m).prompt \in Nat
           /\ RequestLimits(name, capped, m).output \in Nat
           /\ LocalBudgets[name] \in Nat
  BY DEF RequestLimits, ModelShape, LocalBudgets, SafePrompts, SafeOutputs, Larger, Smaller

LEMMA GovernKeepsInv ==
    ASSUME PromptInv, Govern PROVE PromptInv'
<1> USE DEF PromptInv, PromptTypeOK, Uncut, WithinLimits, ModelsLimits
<1>1. PICK budget \in {LocalBudgets[agent]} \cup Overrides : GovernedBy(budget)
  BY DEF Govern
<1>2. budget \in Nat
  BY <1>1, SizesAssumption, LimitsAreNat
<1>3. stage = "built" /\ UNCHANGED <<agent, safe, limits, model>>
  BY DEF Govern
<1>4. CASE /\ ~safe \/ agent = "developer" \/ EstimateMessages(system, user) <= budget
           /\ Governed(user, form) /\ UNCHANGED system
  BY <1>3, <1>4 DEF Governed
<1>5. CASE /\ safe /\ agent # "developer" /\ system' = CompactSystem
           /\ \E task \in Tasks :
                \/ /\ EstimateMessages(system', CompactUser(task)) <= budget
                   /\ Governed(CompactUser(task), "compact")
                \/ /\ EstimateMessages(system', CompactUser(task)) > budget
                   /\ \E slack \in {0, 1} :
                        LET cut == GovernorCut(system', CompactUser(task), budget, slack) IN
                          IF EstimateMessages(system', cut) <= budget THEN Governed(cut, "cut")
                          ELSE stage' = "refused" /\ UNCHANGED <<user, form>>
  <2>1. PICK task \in Tasks :
          \/ /\ EstimateMessages(system', CompactUser(task)) <= budget
             /\ Governed(CompactUser(task), "compact")
          \/ /\ EstimateMessages(system', CompactUser(task)) > budget
             /\ \E slack \in {0, 1} :
                  LET cut == GovernorCut(system', CompactUser(task), budget, slack) IN
                    IF EstimateMessages(system', cut) <= budget THEN Governed(cut, "cut")
                    ELSE stage' = "refused" /\ UNCHANGED <<user, form>>
    BY <1>5
  <2>2. system' \in Nat /\ CompactUser(task) \in Nat
    BY <1>5, SizesAssumption DEF CompactSystem, CompactUser
  <2>3. CASE Governed(CompactUser(task), "compact")
    BY <1>3, <1>5, <2>2, <2>3 DEF Governed
  <2>4. CASE ~Governed(CompactUser(task), "compact")
    <3>1. EstimateMessages(system', CompactUser(task)) > budget
      BY <2>1, <2>4
    <3>2. PICK slack \in {0, 1} :
            LET cut == GovernorCut(system', CompactUser(task), budget, slack) IN
              IF EstimateMessages(system', cut) <= budget THEN Governed(cut, "cut")
              ELSE stage' = "refused" /\ UNCHANGED <<user, form>>
      BY <2>1, <2>4
    <3> DEFINE cut == GovernorCut(system', CompactUser(task), budget, slack)
    <3>3. cut \in Nat /\ EstimateMessages(system', cut) > budget
      BY <1>2, <2>2, <3>1, GovernorNeverFits
    <3>4. EstimateMessages(system', cut) \in Nat
      BY <2>2, <3>3, Quarter DEF EstimateMessages
    <3> HIDE DEF cut
    <3>5. stage' = "refused" /\ UNCHANGED <<user, form>>
      BY <1>2, <3>2, <3>3, <3>4 DEF cut
    <3> QED
      BY <1>3, <1>5, <2>2, <3>5
  <2> QED
    BY <2>3, <2>4
<1> QED
  BY <1>1, <1>4, <1>5 DEF GovernedBy

LEMMA SendKeepsInv ==
    ASSUME PromptInv, Send PROVE PromptInv'
<1> USE DEF PromptInv, PromptTypeOK, Uncut, WithinLimits, ModelsLimits
<1>1. stage = "governed" /\ UNCHANGED <<agent, safe, system, limits, model>>
  BY DEF Send
<1>2. limits.prompt \in Nat
  <2>1. (safe /\ model.local) \in BOOLEAN
    BY DEF ModelShape
  <2> QED
    BY <2>1, LimitsAreNat
<1>3. CASE EstimateMessages(system, user) <= limits.prompt
  <2>1. stage' = "sent" /\ user' = user /\ form' = form
    BY <1>3 DEF Send
  <2>2. EstimateMessages(system', user') <= limits'.prompt
    BY <1>1, <1>3, <2>1
  <2> QED
    BY <1>1, <2>1, <2>2
<1>4. CASE ~(EstimateMessages(system, user) <= limits.prompt)
  <2>1. PICK slack \in {0, 1} :
          /\ user' = ClientCut(system, user, limits.prompt, slack)
          /\ form' = IF ClientKeeps(system, user, limits.prompt, slack) < user THEN "cut" ELSE form
          /\ stage' = IF EstimateMessages(system, user') > limits.prompt THEN "refused" ELSE "sent"
    BY <1>4 DEF Send
  <2>2. EstimateMessages(system, user) > limits.prompt
    BY <1>2, <1>4, Quarter DEF EstimateMessages
  <2>3. user' \in Nat /\ EstimateMessages(system, user') > limits.prompt
    BY <1>2, <2>1, <2>2, ClientNeverFits
  <2> QED
    BY <1>1, <2>1, <2>3
<1> QED
  BY <1>3, <1>4

LEMMA PromptInvariant == PromptSpec => []PromptInv
<1>1. PromptInit => PromptInv
  BY SizesAssumption
     DEF PromptInit, PromptInv, PromptTypeOK, Uncut, WithinLimits, ModelsLimits
<1>2. PromptInv /\ [PromptNext]_promptVars => PromptInv'
  <2>1. PromptInv /\ UNCHANGED promptVars => PromptInv'
    BY DEF PromptInv, PromptTypeOK, Uncut, WithinLimits, ModelsLimits, promptVars
  <2> QED
    BY <2>1, GovernKeepsInv, SendKeepsInv DEF PromptNext
<1> QED
  BY <1>1, <1>2, PTL DEF PromptSpec

(* No prompt of any size is sent cut: whatever the budgets, the overrides, *)
(* the tasks and the models' windows, what is too large is built again in  *)
(* the safe mode, or refused (_enforce_local_safe_prompt_budget,           *)
(* enforce_prompt_budget, _fit_messages_to_budget).                        *)
THEOREM PromptsAreSentUncut == PromptSpec => []NothingIsSentCut
<1>1. PromptInv => NothingIsSentCut
  BY DEF PromptInv, Uncut, NothingIsSentCut
<1> QED
  BY <1>1, PromptInvariant, PTL

(* A request leaves room for its answer: the prompt that is sent and the   *)
(* output that is asked for are together no more than the model's window   *)
(* (build_client).                                                         *)
THEOREM RequestsFit == PromptSpec => []RequestsFitTheWindow
<1>1. ASSUME PromptInv PROVE RequestsFitTheWindow
  <2>1. SUFFICES ASSUME stage = "sent", model.configured = 0, safe /\ model.local => model.profiled,
                        model.window >= model.output + 812
                 PROVE  EstimateMessages(system, user) + limits.output <= model.window
    BY DEF RequestsFitTheWindow
  <2>2. /\ model.window \in Nat /\ model.output \in Nat /\ limits = RequestLimits(agent, safe /\ model.local, model)
        /\ EstimateMessages(system, user) <= limits.prompt /\ EstimateMessages(system, user) \in Nat
    BY <1>1, <2>1, Quarter
       DEF PromptInv, PromptTypeOK, WithinLimits, ModelsLimits, ModelShape, EstimateMessages
  <2>3. /\ limits.prompt <= model.window - model.output
        /\ limits.output <= model.output /\ limits.prompt \in Nat /\ limits.output \in Nat
    BY <1>1, <2>1, <2>2, LimitsAreNat
       DEF PromptInv, PromptTypeOK, RequestLimits, ModelShape, LocalBudgets, SafePrompts, SafeOutputs,
           Larger, Smaller
  <2> QED
    BY <2>2, <2>3
<1> QED
  BY <1>1, PromptInvariant, PTL

-----------------------------------------------------------------------------
(* The governance of an output.                                            *)

GovSpec == GovInit /\ [][GovNext]_govVars

(* The files of the standards are told apart by their names, as those of   *)
(* repository/standards are.                                               *)
StemsApart ==
    \A i, j \in DOMAIN Enterprise : Enterprise[i].stem = Enterprise[j].stem => i = j

LEMMA MaxOfOne == ASSUME NEW n \in Int PROVE Max({n}) = n
BY DEF Max

(* Neither the agent's files nor the documents edited at runtime replace   *)
(* a rule of a standard.                                                   *)
LEMMA StandardsAreInEffect ==
    ASSUME StemsApart, NEW name \in Authors,
           NEW i \in DOMAIN Enterprise, NEW line \in DOMAIN Enterprise[i].rules
    PROVE  LET id == <<"enterprise", Enterprise[i].stem, line>> IN
             /\ id \in DOMAIN EffectivePolicy(name)
             /\ EffectivePolicy(name)[id] = Enterprise[i].rules[line]
<1>. DEFINE id == <<"enterprise", Enterprise[i].stem, line>>
            standards == LastWins("enterprise", Enterprise)
            inherited == Over(GlobalRules, standards)
            own == LocalRules(name)
            edited == LastWins("runtime", edits)
            merged == Merged(inherited, own)
<1>1. \A scope, file : DOMAIN RulesOf(scope, file) = {<<scope, file.stem, l>> : l \in DOMAIN file.rules}
  BY DEF RulesOf
<1>2. \A scope, files, x : x \in Ids(scope, files) => x[1] = scope
  <2>1. ASSUME NEW scope, NEW files, NEW x \in Ids(scope, files) PROVE x[1] = scope
    <3>1. PICK n \in DOMAIN files : x \in DOMAIN RulesOf(scope, files[n])
      BY DEF Ids
    <3>2. DOMAIN RulesOf(scope, files[n]) = {<<scope, files[n].stem, l>> : l \in DOMAIN files[n].rules}
      BY <1>1
    <3>3. PICK l \in DOMAIN files[n].rules : x = <<scope, files[n].stem, l>>
      BY <3>1, <3>2
    <3>. QED  BY <3>3
  <2>. QED  BY <2>1
<1>3. id[1] = "enterprise" /\ id[2] = Enterprise[i].stem /\ id[3] = line
  OBVIOUS
<1>4. id \in DOMAIN standards /\ standards[id] = Enterprise[i].rules[line]
  <2>1. id \in DOMAIN RulesOf("enterprise", Enterprise[i])
    BY <1>1
  <2>2. id \in Ids("enterprise", Enterprise)
    BY <2>1 DEF Ids
  <2>3. Holding("enterprise", Enterprise, id) = {i}
    <3>1. ASSUME NEW n \in DOMAIN Enterprise, id \in DOMAIN RulesOf("enterprise", Enterprise[n])
          PROVE  n = i
      <4>1. DOMAIN RulesOf("enterprise", Enterprise[n])
              = {<<"enterprise", Enterprise[n].stem, l>> : l \in DOMAIN Enterprise[n].rules}
        BY <1>1
      <4>2. PICK l \in DOMAIN Enterprise[n].rules : id = <<"enterprise", Enterprise[n].stem, l>>
        BY <3>1, <4>1
      <4>. QED  BY <4>2 DEF StemsApart
    <3>. QED  BY <2>1, <3>1 DEF Holding
  <2>4. Max({i}) = i
    <3>1. DOMAIN Enterprise \subseteq Nat
      BY GovernanceAssumption
    <3>. QED  BY <3>1, MaxOfOne
  <2>5. RulesOf("enterprise", Enterprise[i])[id] = Enterprise[i].rules[line]
    BY <1>1, <1>3, <2>1 DEF RulesOf
  <2>. QED  BY <2>2, <2>3, <2>4, <2>5 DEF LastWins
<1>5. id \notin DOMAIN own
  <2>1. DOMAIN own = Ids(name, AgentFiles[name])
    BY DEF LocalRules
  <2>. QED  BY <1>2, <1>3, <2>1, GovernanceAssumption
<1>6. id \notin DOMAIN edited
  <2>1. DOMAIN edited = Ids("runtime", edits)
    BY DEF LastWins
  <2>. QED  BY <1>2, <1>3, <2>1
<1>. HIDE DEF id, standards, own, edited
<1>7. id \in DOMAIN inherited /\ inherited[id] = Enterprise[i].rules[line]
  BY <1>4 DEF Over
<1>8. id \in DOMAIN merged /\ merged[id] = Enterprise[i].rules[line]
  BY <1>5, <1>7 DEF Merged, Over
<1>9. EffectivePolicy(name) = Over(merged, edited)
  BY DEF EffectivePolicy, standards, own, edited
<1>10. id \in DOMAIN EffectivePolicy(name) /\ EffectivePolicy(name)[id] = Enterprise[i].rules[line]
  BY <1>6, <1>8, <1>9 DEF Over
<1>. QED  BY <1>10 DEF id

(* What no agent but the developer is let pass with. *)
NothingForbidden(parsed) == \A v \in Forbidden(mode, parsed) : ~v.blocking

GovInvariant ==
    /\ author \in Authors
    /\ govStage \in {"asked", "governed", "parsed", "accepted", "rejected"}
    /\ govStage # "asked" => policy = EffectivePolicy(author)
    /\ author # "developer" /\ govStage \in {"parsed", "accepted"} => NothingForbidden(FALSE)
    /\ author = "developer" /\ govStage = "accepted" =>
         \/ \A v \in Forbidden(mode, TRUE) : v.blocking => v \in warning /\ ~v.critical
         \/ NothingForbidden(TRUE)

(* To all but the developer it is the same whether an output was parsed.   *)
LEMMA ParsedOrNot ==
    ASSUME author # "developer", NEW m
    PROVE  Forbidden(m, TRUE) = Forbidden(m, FALSE)
BY DEF Forbidden

(* A developer's raw text is looked at in a mode that blocks nothing. *)
LEMMA AdvisoryNeverBlocks ==
    ASSUME NEW v \in Forbidden("advisory", FALSE) PROVE ~v.blocking
<1>1. \A id, severity : Violation(id, severity, "advisory").blocking = FALSE
  BY DEF Violation, Blocks
<1>2. \A id, severity : Downgraded(Violation(id, severity, "advisory")).blocking = FALSE
  BY DEF Violation, Downgraded
<1>. QED  BY <1>1, <1>2 DEF Forbidden

LEMMA GovInvariantIsKept == GovInvariant /\ [GovNext]_govVars => GovInvariant'
<1>. SUFFICES ASSUME GovInvariant, [GovNext]_govVars PROVE GovInvariant'
  OBVIOUS
<1>1. UNCHANGED <<author, mode, output, edits>> => EffectivePolicy(author)' = EffectivePolicy(author)
  BY DEF EffectivePolicy
<1>2. UNCHANGED <<author, mode, output, policy>> =>
        \A parsed \in BOOLEAN : Forbidden(mode, parsed)' = Forbidden(mode, parsed)
  BY DEF Forbidden, Violation, Blocks, Downgraded
<1>3. CASE Assemble
  BY <1>1, <1>3 DEF Assemble, GovInvariant
<1>4. CASE CheckRaw
  <2>1. /\ govStage = "governed" /\ UNCHANGED <<author, mode, output, edits, policy>>
        /\ Judge(IF policy = NoRules THEN {} ELSE Forbidden(CheckMode(TRUE), FALSE), "parsed")
    BY <1>4 DEF CheckRaw
  <2>2. govStage' \in {"parsed", "accepted", "rejected"}
    BY <2>1 DEF Judge
  <2>3. CASE author = "developer"
    <3>1. \A v \in Forbidden(CheckMode(TRUE), FALSE) : ~v.blocking
      BY <2>3, AdvisoryNeverBlocks DEF CheckMode
    <3>2. govStage' = "parsed"
      BY <2>1, <3>1 DEF Judge
    <3>. QED  BY <1>1, <2>1, <2>3, <3>2 DEF GovInvariant
  <2>4. CASE author # "developer"
    <3>1. CASE policy = NoRules
      <4>1. Forbidden(mode, FALSE) = {}
        BY <3>1 DEF Forbidden, NoRules
      <4>. QED  BY <1>1, <1>2, <2>1, <2>2, <2>4, <4>1 DEF GovInvariant, NothingForbidden
    <3>2. CASE policy # NoRules
      <4>1. Judge(Forbidden(mode, FALSE), "parsed")
        BY <2>1, <2>4, <3>2 DEF CheckMode
      <4>2. govStage' # "rejected" => NothingForbidden(FALSE)
        BY <2>4, <4>1 DEF Judge, NothingForbidden
      <4>. QED  BY <1>1, <1>2, <2>1, <2>2, <2>4, <4>2 DEF GovInvariant, NothingForbidden
    <3>. QED  BY <3>1, <3>2
  <2>. QED  BY <2>3, <2>4
<1>5. CASE CheckParsed
  <2>1. /\ govStage = "parsed" /\ UNCHANGED <<author, mode, output, edits, policy>>
        /\ Judge(Forbidden(mode, TRUE) \cup Required(mode) \cup Architecture(mode), "accepted")
    BY <1>5 DEF CheckParsed, CheckMode
  <2>2. govStage' \in {"accepted", "rejected"}
    BY <2>1 DEF Judge
  <2>3. CASE author = "developer"
    <3>1. govStage' = "accepted" =>
            \/ \A v \in Forbidden(mode, TRUE) : v.blocking => v \in warning' /\ ~v.critical
            \/ NothingForbidden(TRUE)
      BY <2>1, <2>3 DEF Judge, NothingForbidden
    <3>. QED  BY <1>1, <1>2, <2>1, <2>2, <2>3, <3>1 DEF GovInvariant, NothingForbidden
  <2>4. CASE author # "developer"
    BY <1>1, <1>2, <2>1, <2>2, <2>4 DEF GovInvariant, NothingForbidden
  <2>. QED  BY <2>3, <2>4
<1>6. CASE Unreadable
  <2>1. /\ govStage = "parsed" /\ author # "developer" /\ govStage' \in {"accepted", "rejected"}
        /\ UNCHANGED <<author, mode, output, edits, policy, found, warning>>
    BY <1>6 DEF Unreadable
  <2>. QED  BY <1>1, <1>2, <2>1 DEF GovInvariant, NothingForbidden
<1>7. CASE UNCHANGED govVars
  <2>1. /\ author' = author /\ mode' = mode /\ output' = output /\ edits' = edits
        /\ policy' = policy /\ govStage' = govStage /\ warning' = warning
    BY <1>7 DEF govVars
  <2>. QED  BY <1>1, <1>2, <2>1 DEF GovInvariant, NothingForbidden
<1>. QED  BY <1>3, <1>4, <1>5, <1>6, <1>7 DEF GovNext

(* No output passes that does what a standard of the enterprise forbids    *)
(* and the mode blocks, whatever rules the agent's files and the edited    *)
(* documents hold, but for a developer's words on controllers and for what *)
(* a developer's warning names and is not critical                         *)
(* (_enforce_governance_output, DeveloperRepositoryAgentRuntime).          *)
THEOREM StandardsAlwaysHold ==
    StemsApart => (GovSpec => []StandardsHold)
<1>. SUFFICES ASSUME StemsApart PROVE GovSpec => []StandardsHold
  OBVIOUS
<1>1. GovInit => GovInvariant
  BY DEF GovInit, GovInvariant
<1>2. GovInvariant => StandardsHold
  <2> SUFFICES ASSUME GovInvariant, govStage = "accepted",
                      NEW i \in DOMAIN Enterprise, NEW line \in DOMAIN Enterprise[i].rules,
                      NEW id, id = <<"enterprise", Enterprise[i].stem, line>>,
                      NEW r, r = Enterprise[i].rules[line],
                      r.effect = "forbid", Blocks(r.severity, mode), r.topic \in output.topics
               PROVE  /\ author = "developer"
                      /\ \/ /\ r.topic = "controller"
                            /\ output.guidance \/ ~(output.controllers /\ "controller" \in output.code)
                         \/ ~r.critical /\ \E v \in warning : v.rule = id
    BY DEF StandardsHold
  <2>1. id \in DOMAIN policy /\ policy[id] = r
    BY StandardsAreInEffect DEF GovInvariant
  <2>2. PICK w : w = Violation(id, r.severity, mode)
    OBVIOUS
  <2>3. w.blocking /\ (w.critical <=> r.critical) /\ w.rule = id
    <3>1. w.rule = id /\ w.blocking = Blocks(r.severity, mode)
      BY <2>2 DEF Violation
    <3>2. w.critical = (id \in DOMAIN policy /\ policy[id].critical)
      BY <2>2 DEF Violation
    <3>. QED  BY <2>1, <3>1, <3>2
  <2>4. CASE author # "developer"
    <3>1. w \in Forbidden(mode, FALSE)
      BY <2>1, <2>2, <2>4 DEF Forbidden
    <3>. QED  BY <2>3, <2>4, <3>1 DEF GovInvariant, NothingForbidden
  <2>5. CASE /\ author = "developer"
             /\ ~(/\ r.topic = "controller"
                  /\ output.guidance \/ ~(output.controllers /\ "controller" \in output.code))
    <3>1. w \in Forbidden(mode, TRUE)
      BY <2>1, <2>2, <2>5 DEF Forbidden
    <3>. QED  BY <2>3, <2>5, <3>1 DEF GovInvariant, NothingForbidden
  <2>. QED  BY <2>4, <2>5
<1>. QED  BY <1>1, <1>2, GovInvariantIsKept, PTL DEF GovSpec

-----------------------------------------------------------------------------
(* What is made of QA's answer.                                            *)
ValSpec == ValInit /\ [][ValNext]_valVars

Items == [title : Titles, severity : {"low", "medium", "high", "odd"}]

LEMMA FirstProperties ==
    ASSUME NEW S, NEW s \in Seq(S), NEW n \in Nat
    PROVE  /\ First(n, s) \in Seq(S)
           /\ Len(First(n, s)) = IF Len(s) <= n THEN Len(s) ELSE n
           /\ \A i \in 1..Len(First(n, s)) : First(n, s)[i] = s[i]
<1>1. CASE Len(s) <= n
  BY <1>1 DEF First
<1>2. CASE Len(s) > n
  <2>1. First(n, s) = SubSeq(s, 1, n)
    BY <1>2 DEF First
  <2>2. 1 \in 1..(Len(s) + 1) /\ n \in 0..Len(s)
    BY <1>2, LenProperties
  <2>3. n >= 1 \/ n = 0
    OBVIOUS
  <2>. QED  BY <2>1, <2>2, <2>3, SubSeqProperties
<1>. QED  BY <1>1, <1>2, LenProperties

(* The issues that are kept keep their order and their titles, and have    *)
(* severities of the schema's.                                             *)
LEMMA IssuesAreKept ==
    ASSUME NEW issues \in Seq(Items)
    PROVE  /\ MapQaIssues(issues) \in Seq(Items)
           /\ Len(MapQaIssues(issues))
                = IF Len(issues) <= MostFindings THEN Len(issues) ELSE MostFindings
           /\ \A i \in 1..Len(MapQaIssues(issues)) :
                /\ MapQaIssues(issues)[i].title = issues[i].title
                /\ MapQaIssues(issues)[i].severity # "odd"
<1>. DEFINE graded == [i \in DOMAIN issues |-> Graded(issues[i])]
<1>1. \A x \in Items : Graded(x) \in Items /\ Graded(x).title = x.title /\ Graded(x).severity # "odd"
  BY DEF Graded, Items
<1>2. DOMAIN issues = 1..Len(issues) /\ Len(issues) \in Nat /\ \A i \in DOMAIN issues : issues[i] \in Items
  BY LenProperties
<1>3. graded \in [1..Len(issues) -> Items]
  BY <1>1, <1>2
<1>4. graded \in Seq(Items) /\ Len(graded) = Len(issues)
  BY <1>2, <1>3, SeqDef, LenProperties
<1>5. \A i \in 1..Len(issues) : graded[i].title = issues[i].title /\ graded[i].severity # "odd"
  BY <1>1, <1>2
<1>. HIDE DEF graded
<1>6. MostFindings \in Nat
  BY AnswersAssumption
<1>7. MapQaIssues(issues) = First(MostFindings, graded)
  BY DEF MapQaIssues, graded
<1>. QED  BY <1>2, <1>4, <1>5, <1>6, <1>7, FirstProperties

LEMMA PayloadFields ==
    ASSUME answer \in Answers, answer.of = "qa"
    PROVE  /\ {"passed", "fixes", "findings", "stories"} \subseteq DOMAIN Payload
           /\ Payload.empty \in BOOLEAN
           /\ Payload.findings \in Seq(Items) /\ Payload.issues \in Seq(Items)
           /\ ~(answer.form = "json" /\ ~Sectioned) => Payload.findings = <<>>
           /\ answer.form = "blank" /\ ~Sectioned => Payload.empty
           /\ Sectioned => ~Payload.empty /\ Payload.passed = "absent" /\ Payload.status = "other"
           /\ answer.form = "prose" /\ ~Sectioned =>
                /\ ~Payload.empty /\ Payload.passed = "absent"
                /\ Payload.status = "passed" => answer.words \cap {"pass", "fail", "error"} = {"pass"}
           /\ answer.form = "json" /\ ~Sectioned =>
                /\ ~Payload.empty
                /\ Payload.passed = answer.passed /\ Payload.status = answer.status
                /\ Payload.findings = answer.findings /\ Payload.issues = answer.issues
                /\ Payload.failed = answer.failed /\ Payload.texts = answer.texts
                /\ Payload.beside = answer.beside
<1>1. answer \in AnswerShape
  BY AnswersAssumption
<1>2. /\ answer.form \in {"json", "prose", "blank"}
      /\ answer.findings \in Seq(Findings) /\ answer.issues \in Seq(Findings)
  BY <1>1 DEF AnswerShape
<1>3. answer.findings \in Seq(Items) /\ answer.issues \in Seq(Items) /\ <<>> \in Seq(Items)
  <2>1. Findings \subseteq Items
    BY DEF Findings, Items
  <2>. QED  BY <1>2, <2>1, SeqMonotonic, EmptySeq
<1>4. CASE Sectioned
  <2>1. Payload = ParseBaSections(IF answer.form = "prose" THEN answer.stories ELSE <<>>)
    BY <1>4 DEF Payload
  <2>. QED  BY <1>3, <1>4, <2>1 DEF ParseBaSections, Nothing
<1>5. CASE ~Sectioned /\ answer.form = "blank"
  <2>1. Payload = Nothing
    BY <1>5 DEF Payload
  <2>. QED  BY <1>3, <1>5, <2>1 DEF Nothing
<1>6. CASE ~Sectioned /\ answer.form = "prose"
  <2>1. Payload = ParseQaSections(answer.words)
    BY <1>6 DEF Payload, FromProse
  <2>2. Payload.status = "passed" => answer.words \cap {"pass", "fail", "error"} = {"pass"}
    BY <2>1 DEF ParseQaSections, Nothing
  <2>. QED  BY <1>3, <1>6, <2>1, <2>2 DEF ParseQaSections, Nothing
<1>7. CASE ~Sectioned /\ answer.form = "json"
  <2>1. Payload = FromJson
    BY <1>7 DEF Payload
  <2>. QED  BY <1>3, <1>7, <2>1 DEF FromJson, Nothing
<1>. QED  BY <1>2, <1>4, <1>5, <1>6, <1>7

(* Only what the answer itself says can be odd.                            *)
LEMMA OddFindings ==
    ASSUME NEW p, {"passed", "fixes", "findings"} \subseteq DOMAIN p, p.empty \in BOOLEAN,
           p.findings \in Seq(Items), p.issues \in Seq(Items),
           NEW i \in DOMAIN NormalizeQaPayload(p).findings,
           NormalizeQaPayload(p).findings[i].severity = "odd"
    PROVE  \E j \in DOMAIN p.findings : p.findings[j].severity = "odd"
<1>. DEFINE n == NormalizeQaPayload(p)
            kept == MapQaIssues(p.issues)
            all == p.findings \o kept
<1>1. CASE p.empty
  <2>1. n.findings = p.findings
    BY <1>1 DEF NormalizeQaPayload
  <2>. QED  BY <2>1
<1>2. CASE ~p.empty
  <2>1. n.findings = all \/ n.findings = <<Fallback>>
    BY <1>2 DEF NormalizeQaPayload
  <2>2. n.findings # <<Fallback>>
    <3>. SUFFICES ASSUME n.findings = <<Fallback>> PROVE FALSE
      OBVIOUS
    <3>1. \A f : \A k \in DOMAIN <<f>> : <<f>>[k] = f
      OBVIOUS
    <3>2. DOMAIN n.findings = DOMAIN <<Fallback>> /\ n.findings[i] = <<Fallback>>[i]
      OBVIOUS
    <3>3. n.findings[i] = Fallback
      BY <3>1, <3>2
    <3>4. n.findings[i].severity = "odd"
      OBVIOUS
    <3>5. Fallback.severity = "medium"
      BY DEF Fallback
    <3>. HIDE DEF n
    <3>6. "medium" # "odd"
      OBVIOUS
    <3>. QED  BY <3>3, <3>4, <3>5, <3>6
  <2>3. /\ kept \in Seq(Items) /\ all \in Seq(Items)
        /\ \A l \in 1..Len(kept) : kept[l].severity # "odd"
    BY IssuesAreKept, ConcatProperties
  <2>4. i \in DOMAIN all /\ all[i].severity = "odd"
    BY <2>1, <2>2
  <2>. HIDE DEF kept
  <2>5. /\ Len(all) = Len(p.findings) + Len(kept) /\ Len(kept) \in Nat /\ Len(p.findings) \in Nat
        /\ i \in 1..Len(all)
        /\ all[i] = IF i <= Len(p.findings) THEN p.findings[i] ELSE kept[i - Len(p.findings)]
    <3>1. i \in 1..Len(all)
      BY <2>3, <2>4, LenProperties
    <3>. QED  BY <2>3, <3>1, ConcatProperties, LenProperties
  <2>6. CASE i <= Len(p.findings)
    <3>1. i \in DOMAIN p.findings
      BY <2>5, <2>6, LenProperties
    <3>. QED  BY <2>4, <2>5, <2>6, <3>1
  <2>7. CASE ~(i <= Len(p.findings))
    <3>1. i - Len(p.findings) \in 1..Len(kept)
      BY <2>5, <2>7
    <3>. QED  BY <2>3, <2>4, <2>5, <2>7, <3>1
  <2>. QED  BY <2>6, <2>7
<1>. QED  BY <1>1, <1>2

(* Every stage holds what the stages before it made of the answer, and     *)
(* what is told without a verdict did not fit the schema.                  *)
ValInvariant ==
    /\ answer \in Answers
    /\ answer.of = "qa" =>
         /\ parsing = "parsed" => out = Payload
         /\ parsing = "normalized" => out = NormalizeQaPayload(Payload)
         /\ parsing \in {"accepted", "rejected", "told"} => out = Sanitized(NormalizeQaPayload(Payload))
    /\ parsing \in {"answered", "parsed", "normalized", "accepted", "rejected", "told"}
    /\ parsing = "told" =>
         \/ /\ answer.of = "qa" /\ told.review = FALSE
            /\ told.route = IF out.passed = "true" THEN "continue" ELSE "reject"
            /\ told.fixes = FixRequests(out)
         \/ /\ told.review = TRUE /\ told.route = "continue"
            /\ answer.of = "qa" =>
                 /\ answer.form = "json" /\ ~Sectioned
                 /\ ~answer.fits \/ \E i \in DOMAIN answer.findings : answer.findings[i].severity = "odd"

LEMMA ValInvariantIsKept == ValInvariant /\ [ValNext]_valVars => ValInvariant'
<1>. SUFFICES ASSUME ValInvariant, [ValNext]_valVars PROVE ValInvariant'
  OBVIOUS
<1>1. answer' = answer => /\ Payload' = Payload /\ Sectioned' = Sectioned
                          /\ NormalizeQaPayload(Payload)' = NormalizeQaPayload(Payload)
                          /\ Sanitized(NormalizeQaPayload(Payload))' = Sanitized(NormalizeQaPayload(Payload))
  BY DEF Payload, Sectioned, FromJson, FromProse, ParseOtherSections, NormalizeQaPayload, Speaks, Sanitized
<1>. USE DEF ValInvariant
<1>2. CASE Parse
  BY <1>1, <1>2 DEF Parse
<1>3. CASE Normalize
  <2>1. answer.of = "qa" => out' = NormalizeQaPayload(Payload)
    BY <1>3 DEF Normalize
  <2>. QED  BY <1>1, <1>3, <2>1 DEF Normalize
<1>4. CASE Validate
  <2>1. parsing = "normalized" /\ answer' = answer /\ out' = Sanitized(out)
    BY <1>4 DEF Validate
  <2>2. answer.of = "qa" => out' = Sanitized(NormalizeQaPayload(Payload))
    BY <2>1
  <2>3. CASE parsing' \in {"accepted", "rejected"}
    BY <1>1, <2>1, <2>2, <2>3
  <2>4. CASE ~FitsSchema /\ parsing' = "told"
               /\ told' = [route |-> "continue", fixes |-> <<>>, review |-> TRUE]
    <3>1. ASSUME answer.of = "qa"
          PROVE  /\ answer.form = "json" /\ ~Sectioned
                 /\ ~answer.fits \/ \E i \in DOMAIN answer.findings : answer.findings[i].severity = "odd"
      <4>1. CASE answer.form = "json" /\ ~Sectioned /\ ~answer.fits
        BY <4>1
      <4>2. CASE ~(answer.form = "json" /\ ~Sectioned /\ ~answer.fits)
        <5>1. PICK i \in DOMAIN out.findings : out.findings[i].severity = "odd"
          BY <2>4, <4>2 DEF FitsSchema
        <5>2. out = NormalizeQaPayload(Payload)
          BY <2>1, <3>1
        <5>3. \E j \in DOMAIN Payload.findings : Payload.findings[j].severity = "odd"
          BY <3>1, <5>1, <5>2, PayloadFields, OddFindings
        <5>. QED  BY <3>1, <5>3, PayloadFields
      <4>. QED  BY <4>1, <4>2
    <3>. QED  BY <1>1, <2>1, <2>2, <2>4, <3>1
  <2>. QED  BY <1>4, <2>3, <2>4 DEF Validate
<1>5. CASE ResultMetadata
  <2>1. /\ parsing = "accepted" /\ answer.of = "qa" /\ parsing' = "told"
        /\ answer' = answer /\ out' = out /\ told'.review = FALSE
        /\ told'.route = (IF out.passed = "true" THEN "continue" ELSE "reject")
        /\ told'.fixes = FixRequests(out)
    BY <1>5 DEF ResultMetadata
  <2>. QED  BY <1>1, <2>1
<1>6. CASE UNCHANGED valVars
  BY <1>1, <1>6 DEF valVars
<1>. QED  BY <1>2, <1>3, <1>4, <1>5, <1>6 DEF ValNext

(* What the normaliser and the schema leave of a payload's fields. *)
LEMMA NormalizedFields ==
    ASSUME NEW p, {"passed", "fixes", "findings", "stories"} \subseteq DOMAIN p, p.empty \in BOOLEAN
    PROVE  LET o == Sanitized(NormalizeQaPayload(p))
               all == p.findings \o MapQaIssues(p.issues) IN
             /\ p.empty => o.passed = "false"
             /\ ~p.empty =>
                  /\ all = <<>> /\ p.beside \cap {"reports", "bugs"} = {} /\ Speaks => o.findings = <<Fallback>>
                  /\ o.passed = IF p.passed # "absent" THEN p.passed
                                ELSE IF p.status = "passed" THEN "true" ELSE "false"
                  /\ o.fixes = MapQaFixRequests(p.failed, p.texts, all)
                  /\ all # <<>> => o.findings = all
<1>1. PICK n : n = NormalizeQaPayload(p)
  OBVIOUS
<1>2. CASE p.empty
  <2>1. n.passed = "false" /\ DOMAIN n = DOMAIN p
    BY <1>1, <1>2 DEF NormalizeQaPayload
  <2>2. Sanitized(n).passed = n.passed
    BY <2>1 DEF Sanitized
  <2>. QED  BY <1>1, <1>2, <2>1, <2>2
<1>3. CASE ~p.empty
  <2>1. DOMAIN n = DOMAIN p
    BY <1>1, <1>3 DEF NormalizeQaPayload
  <2>2. n.passed = IF p.passed # "absent" THEN p.passed
                   ELSE IF p.status = "passed" THEN "true" ELSE "false"
    BY <1>1, <1>3 DEF NormalizeQaPayload
  <2>3. n.fixes = MapQaFixRequests(p.failed, p.texts, p.findings \o MapQaIssues(p.issues))
    BY <1>1, <1>3 DEF NormalizeQaPayload
  <2>4. p.findings \o MapQaIssues(p.issues) # <<>> => n.findings = p.findings \o MapQaIssues(p.issues)
    BY <1>1, <1>3 DEF NormalizeQaPayload
  <2>6. p.findings \o MapQaIssues(p.issues) = <<>> /\ p.beside \cap {"reports", "bugs"} = {} /\ Speaks
          => n.findings = <<Fallback>>
    BY <1>1, <1>3 DEF NormalizeQaPayload
  <2>5. Sanitized(n).passed = n.passed /\ Sanitized(n).fixes = n.fixes /\ Sanitized(n).findings = n.findings
    BY <2>1 DEF Sanitized
  <2>. QED  BY <1>1, <1>3, <2>2, <2>3, <2>4, <2>5, <2>6
<1>. QED  BY <1>2, <1>3

(* QA's verdict follows from its answer: a rejection carries the requests  *)
(* that the answer gives reason for, and neither silence nor a word of a   *)
(* failure passes.                                                         *)
THEOREM VerdictsAlwaysFollowTheAnswer == ValSpec => []VerdictsFollowTheAnswer
<1>1. ValInit => ValInvariant
  BY DEF ValInit, ValInvariant
<1>2. ValInvariant => VerdictsFollowTheAnswer
  <2>. SUFFICES ASSUME ValInvariant, parsing = "told", answer.of = "qa" \/ told.route = "reject"
                PROVE  VerdictsFollowTheAnswer
    BY DEF VerdictsFollowTheAnswer, RejectionsCarryFixes, SilenceNeverPasses
  <2>. DEFINE all == answer.findings \o MapQaIssues(answer.issues)
              Verdict == /\ told.review = FALSE
                         /\ told.route = IF out.passed = "true" THEN "continue" ELSE "reject"
                         /\ told.fixes = FixRequests(out)
              Misfit == /\ told.review = TRUE /\ told.route = "continue"
                        /\ answer.form = "json" /\ ~Sectioned
                        /\ ~answer.fits \/ \E i \in DOMAIN answer.findings : answer.findings[i].severity = "odd"
  <2>1. answer.of = "qa" /\ answer \in Answers /\ out = Sanitized(NormalizeQaPayload(Payload))
    BY DEF ValInvariant
  <2>0. Verdict \/ Misfit
    BY <2>1 DEF ValInvariant
  <2>2. /\ answer.form \in {"json", "prose", "blank"} /\ answer.passed \in {"true", "false", "absent"}
        /\ answer.findings \in Seq(Findings) /\ answer.issues \in Seq(Findings)
        /\ answer.failed \in Seq(Findings) /\ answer.texts \in BOOLEAN
    BY <2>1, AnswersAssumption DEF AnswerShape
  <2>3. SilenceNeverPasses
    <3>. SUFFICES ASSUME told.route = "continue", Verdict, ~Misfit
                  PROVE  /\ ~Sectioned
                         /\ \/ /\ answer.form = "json"
                               /\ \/ answer.passed = "true"
                                  \/ answer.passed = "absent" /\ answer.status = "passed"
                            \/ /\ answer.form = "prose"
                               /\ answer.words \cap {"pass", "fail", "error"} = {"pass"}
      BY <2>0 DEF SilenceNeverPasses
    <3>1. out.passed = "true"
      OBVIOUS
    <3>2. ~Payload.empty
      BY <2>1, <3>1, PayloadFields, NormalizedFields
    <3>3. "true" = IF Payload.passed # "absent" THEN Payload.passed
                   ELSE IF Payload.status = "passed" THEN "true" ELSE "false"
      BY <2>1, <3>1, <3>2, PayloadFields, NormalizedFields
    <3>4. Payload.passed = "true" \/ (Payload.passed = "absent" /\ Payload.status = "passed")
      BY <3>3
    <3>. QED  BY <2>1, <2>2, <3>2, <3>4, PayloadFields
  <2>4. RejectionsCarryFixes
    <3>. DEFINE Alone == /\ answer.texts \/ "recommendations" \in answer.beside
                         /\ answer.beside \cap {"reports", "bugs"} = {}
    <3>. SUFFICES ASSUME answer.form = "json", ~Sectioned, told.route = "reject"
                  PROVE  /\ answer.findings \o answer.issues \o answer.failed # <<>> \/ Alone
                              => told.fixes # <<>>
                         /\ answer.failed = <<>> /\ ~answer.texts =>
                              \A i \in 1..Len(answer.issues) : i + Len(answer.findings) <= MostFindings =>
                                \E j \in DOMAIN told.fixes : told.fixes[j].title = answer.issues[i].title
      BY DEF RejectionsCarryFixes
    <3>0. told.fixes = FixRequests(out)
      BY <2>0
    <3>1. /\ out.fixes = MapQaFixRequests(answer.failed, answer.texts, all)
          /\ all # <<>> => out.findings = all
          /\ all = <<>> /\ Alone => out.findings = <<Fallback>>
      <4>1. /\ {"passed", "fixes", "findings", "stories"} \subseteq DOMAIN Payload
            /\ Payload.empty \in BOOLEAN /\ ~Payload.empty
            /\ Payload.findings = answer.findings /\ Payload.issues = answer.issues
            /\ Payload.failed = answer.failed /\ Payload.texts = answer.texts
            /\ Payload.beside = answer.beside
        BY <2>1, PayloadFields
      <4>2. LET o == Sanitized(NormalizeQaPayload(Payload))
                whole == Payload.findings \o MapQaIssues(Payload.issues) IN
              /\ o.fixes = MapQaFixRequests(Payload.failed, Payload.texts, whole)
              /\ whole # <<>> => o.findings = whole
              /\ whole = <<>> /\ Payload.beside \cap {"reports", "bugs"} = {} /\ Speaks
                    => o.findings = <<Fallback>>
        BY <4>1, NormalizedFields
      <4>3. Alone => Speaks
        BY DEF Speaks
      <4>. QED  BY <2>1, <4>1, <4>2, <4>3
    <3>2. /\ answer.findings \in Seq(Items) /\ answer.issues \in Seq(Items) /\ answer.failed \in Seq(Items)
      <4>1. Findings \subseteq Items
        BY DEF Findings, Items
      <4>2. \A s \in Seq(Findings) : s \in Seq(Items)
        BY <4>1, SeqMonotonic
      <4>. QED  BY <2>2, <4>2
    <3>3. MapQaIssues(answer.issues) \in Seq(Items) /\ all \in Seq(Items)
      BY <3>2, IssuesAreKept, ConcatProperties
    <3>4. MostFindings \in Nat \ {0} /\ MostFixes \in Nat \ {0}
      BY AnswersAssumption
    <3>5. \A s \in Seq(Items) : (s = <<>>) <=> (Len(s) = 0)
      BY EmptySeq
    <3>6. \A s \in Seq(Items) : s # <<>> => MapQaIssues(s) # <<>> /\ First(MostFixes, s) # <<>>
      <4>. SUFFICES ASSUME NEW s \in Seq(Items), s # <<>>
                    PROVE  MapQaIssues(s) # <<>> /\ First(MostFixes, s) # <<>>
        OBVIOUS
      <4>1. Len(s) \in Nat /\ Len(s) # 0
        BY <3>5, LenProperties
      <4>2. Len(MapQaIssues(s)) # 0 /\ MapQaIssues(s) \in Seq(Items)
        BY <3>4, <4>1, IssuesAreKept
      <4>3. Len(First(MostFixes, s)) # 0 /\ First(MostFixes, s) \in Seq(Items)
        BY <3>4, <4>1, FirstProperties
      <4>. QED  BY <3>5, <4>2, <4>3
    <3>7. ASSUME answer.findings \o answer.issues \o answer.failed # <<>> \/ Alone
          PROVE  told.fixes # <<>>
      <4>1. CASE out.fixes # <<>>
        BY <3>0, <4>1 DEF FixRequests
      <4>2. CASE out.fixes = <<>> /\ all # <<>>
        BY <3>0, <3>1, <3>3, <3>6, <4>2 DEF FixRequests
      <4>3. CASE out.fixes = <<>> /\ all = <<>>
        <5>1. answer.failed = <<>>
          BY <3>1, <3>2, <3>6, <4>3 DEF MapQaFixRequests
        <5>2. answer.findings = <<>> /\ MapQaIssues(answer.issues) = <<>>
          BY <3>2, <3>3, <4>3, ConcatEqualIffEmpty
        <5>3. answer.issues = <<>>
          BY <3>2, <3>6, <5>2
        <5>4. Alone
          BY <3>2, <3>7, <5>1, <5>2, <5>3, ConcatEmptySeq
        <5>5. told.fixes = First(MostFixes, <<Fallback>>)
          BY <3>0, <3>1, <4>3, <5>4 DEF FixRequests
        <5>6. First(MostFixes, <<Fallback>>) = <<Fallback>>
          BY <3>4 DEF First
        <5>. QED  BY <5>5, <5>6
      <4>. QED  BY <4>1, <4>2, <4>3
    <3>8. ASSUME answer.failed = <<>>, ~answer.texts, NEW i \in 1..Len(answer.issues),
                 i + Len(answer.findings) <= MostFindings
          PROVE  \E j \in DOMAIN told.fixes : told.fixes[j].title = answer.issues[i].title
      <4>. DEFINE kept == MapQaIssues(answer.issues)
                  j == Len(answer.findings) + i
      <4>1. out.fixes = MapQaIssues(all)
        BY <3>1, <3>8 DEF MapQaFixRequests
      <4>11. /\ kept \in Seq(Items) /\ all \in Seq(Items) /\ all = answer.findings \o kept
             /\ Len(kept) = IF Len(answer.issues) <= MostFindings THEN Len(answer.issues) ELSE MostFindings
             /\ \A l \in 1..Len(kept) : kept[l].title = answer.issues[l].title
        BY <3>2, <3>3, IssuesAreKept
      <4>. HIDE DEF kept, all
      <4>2. Len(answer.findings) \in Nat /\ Len(answer.issues) \in Nat
        BY <3>2, LenProperties
      <4>3. i \in 1..Len(kept) /\ kept[i].title = answer.issues[i].title
        BY <3>4, <3>8, <4>2, <4>11
      <4>4. Len(all) = Len(answer.findings) + Len(kept) /\ Len(kept) \in Nat
        BY <3>2, <4>11, ConcatProperties, LenProperties
      <4>5. all[j] = kept[i]
        <5>1. j \in 1..(Len(answer.findings) + Len(kept)) /\ ~(j <= Len(answer.findings))
          BY <4>2, <4>3, <4>4
        <5>2. j - Len(answer.findings) = i
          BY <4>2, <4>3, <4>4
        <5>3. all[j] = kept[j - Len(answer.findings)]
          BY <3>2, <4>11, <5>1, ConcatProperties
        <5>. QED  BY <5>2, <5>3
      <4>6. MapQaIssues(all) \in Seq(Items) /\ j \in 1..Len(MapQaIssues(all))
        <5>1. j \in 1..Len(all) /\ j <= MostFindings
          BY <3>4, <3>8, <4>2, <4>3, <4>4
        <5>2. /\ MapQaIssues(all) \in Seq(Items)
              /\ Len(MapQaIssues(all)) = IF Len(all) <= MostFindings THEN Len(all) ELSE MostFindings
          BY <4>11, IssuesAreKept
        <5>. QED  BY <3>4, <4>2, <4>4, <5>1, <5>2
      <4>7. MapQaIssues(all)[j].title = all[j].title
        BY <4>6, <4>11, IssuesAreKept
      <4>8. j \in DOMAIN MapQaIssues(all) /\ MapQaIssues(all) # <<>>
        BY <4>6, LenProperties, <3>5
      <4>9. told.fixes = MapQaIssues(all)
        BY <3>0, <4>1, <4>8 DEF FixRequests
      <4>. QED  BY <4>3, <4>5, <4>7, <4>8, <4>9
    <3>. QED  BY <3>7, <3>8
  <2>. QED  BY <2>3, <2>4 DEF VerdictsFollowTheAnswer
<1>. QED  BY <1>1, <1>2, ValInvariantIsKept, PTL DEF ValSpec

-----------------------------------------------------------------------------
(* The providers' default.                                                 *)
RegSpec == RegInit /\ [][RegNext]_regVars

(* A flag is a Boolean, and no two providers have it. *)
RegInvariant ==
    /\ Known \subseteq Providers
    /\ \A p \in Known : registry[p] \in Provider(p)
    /\ \A p, q \in Defaults : p = q

(* What a saved provider leaves of the defaults. *)
LEMMA UpsertKeepsOneDefault ==
    ASSUME RegInvariant, NEW p \in Providers, NEW new \in Provider(p), registry' = Upsert(p, new),
           new.default \/ (p \notin Known /\ Defaults # {}) \/ (p \in Known /\ ~registry[p].default)
    PROVE  RegInvariant' /\ (Defaults # {} => Defaults' # {})
<1>1. /\ Known' = Known \cup {p} /\ registry'[p] = new
      /\ \A q \in Known \ {p} : registry'[q] = IF new.default THEN [registry[q] EXCEPT !.default = FALSE]
                                               ELSE registry[q]
  BY DEF Upsert, Known
<1>2. \A q \in Known : registry[q] \in Provider(q) /\ [registry[q] EXCEPT !.default = FALSE] \in Provider(q)
  BY DEF RegInvariant, Provider
<1>3. \A q \in Known' : registry'[q] \in Provider(q)
  BY <1>1, <1>2
<1>4. new.default \in BOOLEAN /\ \A q \in Known : registry[q].default \in BOOLEAN
  BY <1>2 DEF Provider
<1>5. CASE new.default
  <2>1. \A q \in Known \ {p} : registry'[q] = [registry[q] EXCEPT !.default = FALSE]
    BY <1>1, <1>5
  <2>2. \A q \in Known \ {p} : ~registry'[q].default
    BY <1>2, <2>1 DEF Provider
  <2>3. Defaults' = {p}
    BY <1>1, <1>5, <2>2 DEF Defaults
  <2>. QED  BY <1>1, <1>3, <2>3 DEF RegInvariant
<1>6. CASE ~new.default
  <2>1. \A q \in Known \ {p} : registry'[q] = registry[q]
    BY <1>1, <1>6
  <2>2. Defaults' = Defaults
    BY <1>1, <1>6, <2>1 DEF Defaults
  <2>. QED  BY <1>1, <1>3, <2>2 DEF RegInvariant
<1>. QED  BY <1>5, <1>6

(* An operation on one provider that leaves its flag alone. *)
LEMMA ChangeKeepsOneDefault ==
    ASSUME RegInvariant, NEW p \in Known, NEW new \in Provider(p), registry' = Upsert(p, new),
           new.default = registry[p].default
    PROVE  RegInvariant' /\ (Defaults # {} => Defaults' # {})
<1>1. p \in Providers /\ registry[p] \in Provider(p)
  BY DEF RegInvariant
<1>2. new.default \in BOOLEAN
  BY DEF Provider
<1>. QED  BY <1>1, <1>2, UpsertKeepsOneDefault

LEMMA ProfilesAreOffered ==
    ASSUME NEW p \in Known, registry[p] \in Provider(p), NEW m \in Offers[p],
           NEW status \in {"unknown", "loaded", "unloaded"}
    PROVE  Profiled(p, m, status) \in
             UNION {[S -> {"unknown", "loaded", "unloaded"}] : S \in SUBSET Offers[p]}
<1>1. PICK S \in SUBSET Offers[p] : registry[p].profiles \in [S -> {"unknown", "loaded", "unloaded"}]
  BY DEF Provider
<1>2. Profiled(p, m, status) \in [S \cup {m} -> {"unknown", "loaded", "unloaded"}]
  BY <1>1 DEF Profiled
<1>. QED  BY <1>1, <1>2

LEMMA RegInvariantIsKept ==
    ASSUME RegInvariant, RegNext
    PROVE  RegInvariant' /\ (Defaults # {} /\ Defaults' = {} => ~(Defaults \subseteq Known'))
<1>. DEFINE Statuses == {"unknown", "loaded", "unloaded"}
            Profiles(p) == UNION {[S -> Statuses] : S \in SUBSET Offers[p]}
<1>1. PICK p \in Providers : \/ Save(p) \/ Delete(p) \/ Assign(p) \/ UpdateProfile(p)
                             \/ Refresh(p) \/ Load(p) \/ Unload(p)
  BY DEF RegNext
<1>2. CASE Save(p)
  <2>1. PICK new \in [default : BOOLEAN, model : Offers[p], assigned : [Agents -> Offers[p] \cup {Nobody}]] :
          \E last \in (IF p \in Known THEN {Nobody, registry[p].last} ELSE {Nobody}) :
            registry' = Upsert(p,
              [model |-> new.model, assigned |-> new.assigned, last |-> last,
               default |-> new.default \/ (IF p \in Known THEN registry[p].default ELSE Defaults = {}),
               profiles |-> IF p \in Known THEN registry[p].profiles ELSE [x \in {} |-> "unknown"]])
    BY <1>2 DEF Save
  <2>2. PICK last \in (IF p \in Known THEN {Nobody, registry[p].last} ELSE {Nobody}) :
            registry' = Upsert(p,
              [model |-> new.model, assigned |-> new.assigned, last |-> last,
               default |-> new.default \/ (IF p \in Known THEN registry[p].default ELSE Defaults = {}),
               profiles |-> IF p \in Known THEN registry[p].profiles ELSE [x \in {} |-> "unknown"]])
    BY <2>1
  <2>3. p \in Known => registry[p] \in Provider(p)
    BY DEF RegInvariant
  <2>4. last \in Offers[p] \cup {Nobody}
    BY <2>2, <2>3 DEF Provider
  <2>5. PICK flag \in BOOLEAN :
          flag <=> (new.default \/ (IF p \in Known THEN registry[p].default ELSE Defaults = {}))
    <3>1. (new.default \/ (IF p \in Known THEN registry[p].default ELSE Defaults = {})) \in BOOLEAN
      BY <2>3 DEF Provider
    <3>. QED  BY <3>1
  <2>6. (IF p \in Known THEN registry[p].profiles ELSE [x \in {} |-> "unknown"]) \in Profiles(p)
    <3>1. [x \in {} |-> "unknown"] \in [{} -> Statuses]
      OBVIOUS
    <3>. QED  BY <2>3, <3>1 DEF Provider
  <2>7. PICK provider : provider =
          [model |-> new.model, assigned |-> new.assigned, last |-> last,
           default |-> new.default \/ (IF p \in Known THEN registry[p].default ELSE Defaults = {}),
           profiles |-> IF p \in Known THEN registry[p].profiles ELSE [x \in {} |-> "unknown"]]
    OBVIOUS
  <2>8. provider \in Provider(p)
    <3>1. provider.default \in BOOLEAN
      BY <2>3, <2>7 DEF Provider
    <3>. QED  BY <2>4, <2>6, <2>7, <3>1 DEF Provider
  <2>9. provider.default \/ (p \notin Known /\ Defaults # {}) \/ (p \in Known /\ ~registry[p].default)
    BY <2>7
  <2>. QED  BY <2>2, <2>7, <2>8, <2>9, UpsertKeepsOneDefault
<1>3. CASE Delete(p)
  <2>1. p \in Known /\ registry' = [q \in Known \ {p} |-> registry[q]]
    BY <1>3 DEF Delete
  <2>2. Known' = Known \ {p}
    BY <2>1 DEF Known
  <2>3. \A q \in Known' : registry'[q] = registry[q]
    BY <2>1, <2>2
  <2>4. Defaults' = Defaults \ {p}
    BY <2>2, <2>3 DEF Defaults
  <2>5. Defaults # {} /\ Defaults' = {} => ~(Defaults \subseteq Known')
    BY <2>2, <2>4
  <2>. QED  BY <2>2, <2>3, <2>4, <2>5 DEF RegInvariant
<1>4. \A k \in Known : registry[k] \in Provider(k)
  BY DEF RegInvariant
<1>5. CASE Assign(p)
  <2>1. p \in Known
    BY <1>5 DEF Assign
  <2>2. PICK a \in Agents, m \in Offers[p] : registry' = Upsert(p, [registry[p] EXCEPT !.assigned[a] = m])
    BY <1>5 DEF Assign
  <2>3. [registry[p] EXCEPT !.assigned[a] = m] \in Provider(p)
    BY <1>4, <2>1 DEF Provider
  <2>4. [registry[p] EXCEPT !.assigned[a] = m].default = registry[p].default
    BY <1>4, <2>1 DEF Provider
  <2>. QED  BY <2>1, <2>2, <2>3, <2>4, ChangeKeepsOneDefault
<1>6. CASE UpdateProfile(p)
  <2>1. p \in Known
    BY <1>6 DEF UpdateProfile
  <2>2. PICK m \in Offers[p] : registry' = Upsert(p, [registry[p] EXCEPT !.profiles = Profiled(p, m, "unknown")])
    BY <1>6 DEF UpdateProfile
  <2>3. Profiled(p, m, "unknown") \in Profiles(p)
    BY <1>4, <2>1, ProfilesAreOffered
  <2>4. [registry[p] EXCEPT !.profiles = Profiled(p, m, "unknown")] \in Provider(p)
    BY <1>4, <2>1, <2>3 DEF Provider
  <2>5. [registry[p] EXCEPT !.profiles = Profiled(p, m, "unknown")].default = registry[p].default
    BY <1>4, <2>1 DEF Provider
  <2>. QED  BY <2>1, <2>2, <2>4, <2>5, ChangeKeepsOneDefault
<1>7. CASE Refresh(p)
  <2>1. p \in Known
    BY <1>7 DEF Refresh
  <2>2. PICK listed \in SUBSET Offers[p] :
          registry' = Upsert(p, [registry[p] EXCEPT !.profiles =
              [m \in (IF listed = {} THEN {registry[p].model} ELSE listed) |->
                 IF p \in Local /\ m \in server[p] THEN "loaded" ELSE "unknown"]])
    BY <1>7 DEF Refresh
  <2>3. PICK S : S = IF listed = {} THEN {registry[p].model} ELSE listed
    OBVIOUS
  <2>4. S \in SUBSET Offers[p]
    BY <1>4, <2>1, <2>3 DEF Provider
  <2>5. PICK known : known = [m \in S |-> IF p \in Local /\ m \in server[p] THEN "loaded" ELSE "unknown"]
    OBVIOUS
  <2>6. known \in Profiles(p)
    <3>1. known \in [S -> Statuses]
      BY <2>5
    <3>. QED  BY <2>4, <3>1
  <2>7. registry' = Upsert(p, [registry[p] EXCEPT !.profiles = known])
    BY <2>2, <2>3, <2>5
  <2>8. [registry[p] EXCEPT !.profiles = known] \in Provider(p)
    BY <1>4, <2>1, <2>6 DEF Provider
  <2>9. [registry[p] EXCEPT !.profiles = known].default = registry[p].default
    BY <1>4, <2>1 DEF Provider
  <2>. QED  BY <2>1, <2>7, <2>8, <2>9, ChangeKeepsOneDefault
<1>8. CASE Load(p)
  <2>1. p \in Known
    BY <1>8 DEF Load
  <2>2. PICK m \in Offers[p] :
          registry' = Upsert(p, [registry[p] EXCEPT !.model = m, !.last = m,
                                                    !.profiles = Profiled(p, m, "loaded")])
    BY <1>8 DEF Load
  <2>3. Profiled(p, m, "loaded") \in Profiles(p)
    BY <1>4, <2>1, ProfilesAreOffered
  <2>4. [registry[p] EXCEPT !.model = m, !.last = m, !.profiles = Profiled(p, m, "loaded")] \in Provider(p)
    BY <1>4, <2>1, <2>3 DEF Provider
  <2>5. [registry[p] EXCEPT !.model = m, !.last = m, !.profiles = Profiled(p, m, "loaded")].default
          = registry[p].default
    BY <1>4, <2>1 DEF Provider
  <2>. QED  BY <2>1, <2>2, <2>4, <2>5, ChangeKeepsOneDefault
<1>9. CASE Unload(p)
  <2>1. p \in Known
    BY <1>9 DEF Unload
  <2>2. PICK m \in Offers[p] :
          registry' = Upsert(p, [registry[p] EXCEPT !.profiles = Profiled(p, m, "unloaded")])
    BY <1>9 DEF Unload
  <2>3. Profiled(p, m, "unloaded") \in Profiles(p)
    BY <1>4, <2>1, ProfilesAreOffered
  <2>4. [registry[p] EXCEPT !.profiles = Profiled(p, m, "unloaded")] \in Provider(p)
    BY <1>4, <2>1, <2>3 DEF Provider
  <2>5. [registry[p] EXCEPT !.profiles = Profiled(p, m, "unloaded")].default = registry[p].default
    BY <1>4, <2>1 DEF Provider
  <2>. QED  BY <2>1, <2>2, <2>4, <2>5, ChangeKeepsOneDefault
<1>. QED  BY <1>1, <1>2, <1>3, <1>5, <1>6, <1>7, <1>8, <1>9

(* Calls that name no provider have at most one to go to, and the default  *)
(* is lost only by deleting it.                                            *)
THEOREM TheDefaultAlwaysStands == RegSpec => TheDefaultStands
<1>1. RegInit => RegInvariant
  <2>. SUFFICES ASSUME RegInit PROVE RegInvariant
    OBVIOUS
  <2>1. PICK named \in SUBSET Providers :
          /\ registry \in [named -> UNION {FromEnvironment(p) : p \in named}]
          /\ \A p \in named : registry[p] \in FromEnvironment(p)
    BY DEF RegInit
  <2>2. Known = named
    BY <2>1 DEF Known
  <2>3. ASSUME NEW p \in named PROVE registry[p] \in Provider(p) /\ registry[p].default = FALSE
    <3>1. PICK m \in Offers[p] :
            registry[p] = [default |-> FALSE, model |-> m, assigned |-> [a \in Agents |-> Nobody],
                           profiles |-> [x \in {} |-> "unknown"], last |-> Nobody]
      BY <2>1 DEF FromEnvironment
    <3>2. [x \in {} |-> "unknown"] \in
            UNION {[S -> {"unknown", "loaded", "unloaded"}] : S \in SUBSET Offers[p]}
      <4>1. [x \in {} |-> "unknown"] \in [{} -> {"unknown", "loaded", "unloaded"}]
        OBVIOUS
      <4>. QED  BY <4>1
    <3>3. PICK none : none = [x \in {} |-> "unknown"]
      OBVIOUS
    <3>4. PICK nobody \in [Agents -> Offers[p] \cup {Nobody}] : nobody = [a \in Agents |-> Nobody]
      OBVIOUS
    <3>5. registry[p] = [default |-> FALSE, model |-> m, assigned |-> nobody, profiles |-> none, last |-> Nobody]
      BY <3>1, <3>3, <3>4
    <3>6. registry[p].default = FALSE
      BY <3>5
    <3>7. PICK P : P = UNION {[S -> {"unknown", "loaded", "unloaded"}] : S \in SUBSET Offers[p]}
      OBVIOUS
    <3>8. Provider(p) = [default : BOOLEAN, model : Offers[p], assigned : [Agents -> Offers[p] \cup {Nobody}],
                         profiles : P, last : Offers[p] \cup {Nobody}]
      BY <3>7 DEF Provider
    <3>9. none \in P
      BY <3>2, <3>3, <3>7
    <3>10. registry[p] \in Provider(p)
      BY <3>5, <3>8, <3>9
    <3>. QED  BY <3>6, <3>10
  <2>4. Defaults = {}
    BY <2>2, <2>3 DEF Defaults
  <2>. QED  BY <2>1, <2>2, <2>3, <2>4 DEF RegInvariant
<1>2. RegInvariant /\ [RegNext]_regVars => RegInvariant'
  <2>. SUFFICES ASSUME RegInvariant, [RegNext]_regVars PROVE RegInvariant'
    OBVIOUS
  <2>1. CASE RegNext
    BY <2>1, RegInvariantIsKept
  <2>2. CASE UNCHANGED regVars
    BY <2>2 DEF regVars, RegInvariant, Known, Defaults
  <2>. QED  BY <2>1, <2>2
<1>3. RegInvariant /\ RegInvariant' /\ [RegNext]_regVars =>
        [/\ Cardinality(Defaults') <= 1
         /\ Defaults # {} /\ Defaults' = {} => ~(Defaults \subseteq Known')]_regVars
  <2>. SUFFICES ASSUME RegInvariant, RegInvariant', RegNext
                PROVE  /\ Cardinality(Defaults') <= 1
                       /\ Defaults # {} /\ Defaults' = {} => ~(Defaults \subseteq Known')
    OBVIOUS
  <2>1. Defaults' = {} \/ \E p : Defaults' = {p}
    BY DEF RegInvariant
  <2>2. Cardinality(Defaults') <= 1
    <3>1. CASE Defaults' = {}
      <4>1. Cardinality({}) = 0
        BY FS_EmptySet
      <4>. QED  BY <3>1, <4>1
    <3>2. CASE \E p : Defaults' = {p}
      <4>1. PICK p : Defaults' = {p}
        BY <3>2
      <4>2. Cardinality({p}) = 1
        BY FS_Singleton
      <4>. QED  BY <4>1, <4>2
    <3>. QED  BY <2>1, <3>1, <3>2
  <2>. QED  BY <2>2, RegInvariantIsKept
<1>. QED  BY <1>1, <1>2, <1>3, PTL DEF RegSpec, TheDefaultStands

-----------------------------------------------------------------------------
(* The memory.                                                             *)
MemSpec == MemInit /\ [][MemNext]_memVars

Spaces == {"short_term", "long_term", "execution_history", "adr", "bug", "checkpoint", "lesson"}

Remembered ==
    [ns : Spaces, scope : Scopes, agent : Owners \cup {NoOwner}, thread : Threads \cup {NoThread},
     text : Subjects \cup {Silent}]

(* A document is of its source's agent and scope. *)
Indexable ==
    {d \in [scope : Scopes, agent : Owners \cup {NoOwner}, text : Subjects \cup {Silent},
            source : Remembered] :
        d.agent = d.source.agent /\ d.scope = d.source.scope}

(* The short-term memory is of a thread. *)
MemInvariant ==
    /\ records \in Seq(MemoryRecord)
    /\ \A n \in DOMAIN records : records[n].ns = "short_term" => records[n].scope = "thread"
    /\ indexed \in Seq(Indexable)

LEMMA RecordsAreRemembered ==
    ASSUME NEW r \in MemoryRecord
    PROVE  r \in Remembered /\ Document(r) \in Indexable
BY DEF MemoryRecord, Remembered, Spaces, Document, Indexable

LEMMA PutKeepsMemory ==
    ASSUME MemInvariant, NEW r \in MemoryRecord, Put(r),
           r.ns = "short_term" => r.scope = "thread"
    PROVE  MemInvariant'
<1>1. records' = Append(records, r) /\ indexed' = indexed
  BY DEF Put
<1>2. records' \in Seq(MemoryRecord)
  BY <1>1 DEF MemInvariant
<1>3. \A n \in DOMAIN records' :
        \/ n \in DOMAIN records /\ records'[n] = records[n]
        \/ records'[n] = r
  BY <1>1 DEF MemInvariant
<1>. QED  BY <1>1, <1>2, <1>3 DEF MemInvariant

LEMMA MemoryIsKept == MemInvariant /\ [MemNext]_memVars => MemInvariant'
<1> SUFFICES ASSUME MemInvariant, [MemNext]_memVars PROVE MemInvariant'
  OBVIOUS
<1>1. CASE ShortTerm
  <2>1. PICK a \in Owners \cup {NoOwner}, t \in Threads, x \in Subjects \cup {Silent} :
          Put(Record("short_term", "thread", a, t, x))
    BY <1>1 DEF ShortTerm
  <2>2. Record("short_term", "thread", a, t, x) \in MemoryRecord
    BY DEF Record, MemoryRecord, Scopes
  <2>. QED  BY <2>1, <2>2, PutKeepsMemory DEF Record
<1>2. CASE LongTerm
  <2>1. PICK scope \in Scopes, a \in Owners, x \in Subjects :
          Put(Record("long_term", scope, a, NoThread, x))
    BY <1>2 DEF LongTerm
  <2>2. Record("long_term", scope, a, NoThread, x) \in MemoryRecord
    BY DEF Record, MemoryRecord, Scopes
  <2>. QED  BY <2>1, <2>2, PutKeepsMemory DEF Record
<1>3. CASE History
  <2>1. PICK a \in Owners \cup {NoOwner}, t \in Threads, x \in Subjects :
          Put(Record("execution_history", "workflow", a, t, x))
    BY <1>3 DEF History
  <2>2. Record("execution_history", "workflow", a, t, x) \in MemoryRecord
    BY DEF Record, MemoryRecord, Scopes
  <2>. QED  BY <2>1, <2>2, PutKeepsMemory DEF Record
<1>4. CASE Adr
  <2>1. PICK scope \in {"workflow", "global"}, x \in Subjects :
          Put(Record("adr", scope, NoOwner, NoThread, x))
    BY <1>4 DEF Adr
  <2>2. Record("adr", scope, NoOwner, NoThread, x) \in MemoryRecord
    BY DEF Record, MemoryRecord, Scopes
  <2>. QED  BY <2>1, <2>2, PutKeepsMemory DEF Record
<1>5. CASE Bug
  <2>1. PICK scope \in {"workflow", "global"}, a \in Owners \cup {NoOwner}, x \in Subjects :
          Put(Record("bug", scope, a, NoThread, x))
    BY <1>5 DEF Bug
  <2>2. Record("bug", scope, a, NoThread, x) \in MemoryRecord
    BY DEF Record, MemoryRecord, Scopes
  <2>. QED  BY <2>1, <2>2, PutKeepsMemory DEF Record
<1>6. CASE Checkpoint
  <2>1. PICK t \in Threads, x \in Subjects : Put(Record("checkpoint", "thread", NoOwner, t, x))
    BY <1>6 DEF Checkpoint
  <2>2. Record("checkpoint", "thread", NoOwner, t, x) \in MemoryRecord
    BY DEF Record, MemoryRecord, Scopes
  <2>. QED  BY <2>1, <2>2, PutKeepsMemory DEF Record
<1>7. CASE Learn
  <2>1. PICK scope \in {"global", "agent"}, a \in Owners, x \in Subjects :
          indexed' = Append(indexed, Document(Record("lesson", scope, a, NoThread, x)))
    BY <1>7 DEF Learn
  <2>2. Document(Record("lesson", scope, a, NoThread, x)) \in Indexable
    BY DEF Record, Document, Indexable, Remembered, Spaces, Scopes
  <2>3. indexed' \in Seq(Indexable)
    BY <2>1, <2>2 DEF MemInvariant
  <2>. QED  BY <1>7, <2>3 DEF Learn, MemInvariant
<1>8. CASE IndexHistory
  <2>1. PICK t \in Threads \cup {Open} :
          LET texts == {n \in Query([Anything EXCEPT !.thread = t]) : records[n].text # Silent} IN
            \E order \in InOrder(texts) : indexed' = indexed \o IndexRecords(order)
    BY <1>8 DEF IndexHistory
  <2>. DEFINE texts == {n \in Query([Anything EXCEPT !.thread = t]) : records[n].text # Silent}
  <2>2. PICK order \in InOrder(texts) : indexed' = indexed \o IndexRecords(order)
    BY <2>1
  <2>3. texts \subseteq DOMAIN records
    BY DEF Query, Matching
  <2>4. DOMAIN records = 1 .. Len(records) /\ Len(records) \in Nat
    BY DEF MemInvariant
  <2>5. Cardinality(texts) \in Nat
    <3>. HIDE DEF texts
    <3>1. texts \in SUBSET (1 .. Len(records))
      BY <2>3, <2>4
    <3>2. IsFiniteSet(1 .. Len(records))
      BY <2>4, FS_Interval
    <3>. QED  BY <3>1, <3>2, FS_Subset, FS_CardinalityType
  <2>6. order \in [1 .. Cardinality(texts) -> DOMAIN records]
    BY <2>3, <2>2 DEF InOrder
  <2>7. \A n \in DOMAIN records : Document(records[n]) \in Indexable
    BY RecordsAreRemembered DEF MemInvariant
  <2>8. IndexRecords(order) \in [1 .. Cardinality(texts) -> Indexable]
    BY <2>6, <2>7 DEF IndexRecords
  <2>. HIDE DEF texts
  <2>9. IndexRecords(order) \in Seq(Indexable)
    BY <2>5, <2>8
  <2>10. indexed' \in Seq(Indexable)
    BY <2>2, <2>9 DEF MemInvariant
  <2>. QED  BY <1>8, <2>10 DEF IndexHistory, MemInvariant
<1>9. CASE UNCHANGED memVars
  BY <1>9 DEF memVars, MemInvariant
<1>. QED  BY <1>1, <1>2, <1>3, <1>4, <1>5, <1>6, <1>7, <1>8, <1>9 DEF MemNext

(* A question finds what fewer than its limit come after, so the last of   *)
(* what matches is found, and it alone if the limit is one.                *)
LEMMA LastIsFound ==
    ASSUME MemInvariant, NEW q, q.limit \in Nat, q.limit >= 1,
           NEW n \in Matching(q), \A m \in Matching(q) : m <= n
    PROVE  n \in Query(q) /\ (q.limit = 1 => Query(q) = {n})
<1>1. DOMAIN records = 1 .. Len(records) /\ Len(records) \in Nat
  BY DEF MemInvariant
<1>2. Matching(q) \subseteq 1 .. Len(records)
  BY <1>1 DEF Matching
<1>3. {m \in Matching(q) : m > n} = {}
  BY <1>2
<1>4. n \in Query(q)
  BY <1>3, FS_EmptySet DEF Query
<1>5. ASSUME NEW k \in Query(q), q.limit = 1 PROVE k = n
  <2>. DEFINE later == {m \in Matching(q) : m > k}
  <2>1. Cardinality(later) < 1 /\ k \in Matching(q)
    BY <1>5 DEF Query
  <2>2. later \in SUBSET (1 .. Len(records)) /\ IsFiniteSet(1 .. Len(records))
    BY <1>1, <1>2, FS_Interval
  <2>3. IsFiniteSet(later) /\ Cardinality(later) \in Nat
    BY <2>2, FS_Subset, FS_CardinalityType
  <2>4. later = {}
    BY <2>1, <2>3, FS_EmptySet
  <2>. QED  BY <1>2, <2>1, <2>4
<1>. QED  BY <1>4, <1>5

(* Nothing that may be retrieved is left out for something less close.     *)
LEMMA CloserIsFound ==
    ASSUME MemInvariant, NEW a \in Owners, NEW x, NEW shared \in BOOLEAN, NEW limit \in Nat,
           NEW least \in Nat, NEW n \in Retrieve(a, x, shared, limit, least),
           NEW own \in Retrievable(a, shared),
           Score(indexed[own].text, x) > Score(indexed[n].text, x)
    PROVE  own \in Retrieve(a, x, shared, limit, least)
<1>. DEFINE Closer(i) == {m \in Retrievable(a, shared) : Ranked(m, i, x)}
<1>1. DOMAIN indexed = 1 .. Len(indexed) /\ Len(indexed) \in Nat
  BY DEF MemInvariant
<1>2. n \in Retrievable(a, shared) /\ Retrievable(a, shared) \subseteq 1 .. Len(indexed)
  BY <1>1 DEF Retrieve, Retrievable
<1>3. \A i \in DOMAIN indexed : Score(indexed[i].text, x) \in Nat
  BY DEF Score
<1>4. Closer(own) \subseteq Closer(n)
  BY <1>1, <1>2, <1>3 DEF Ranked
<1>5. Closer(n) \in SUBSET (1 .. Len(indexed)) /\ IsFiniteSet(1 .. Len(indexed))
  BY <1>1, <1>2, FS_Interval
<1>6. IsFiniteSet(Closer(n)) /\ Cardinality(Closer(n)) \in Nat
  BY <1>5, FS_Subset, FS_CardinalityType
<1>7. IsFiniteSet(Closer(own)) /\ Cardinality(Closer(own)) <= Cardinality(Closer(n))
  BY <1>4, <1>6, FS_Subset
<1>8. Cardinality(Closer(own)) \in Nat
  BY <1>7, FS_CardinalityType
<1>9. Cardinality(Closer(n)) < limit
  BY DEF Retrieve
<1>10. backend = "memory" => Score(indexed[own].text, x) >= least
  BY <1>1, <1>2, <1>3 DEF Retrieve
<1>11. Cardinality(Closer(own)) < limit
  BY <1>6, <1>7, <1>8, <1>9
<1>. QED  BY <1>10, <1>11 DEF Retrieve

(* An agent retrieves only its own and what is shared, the closest first;  *)
(* what it is offered and recalls in a thread is its own up to the last,   *)
(* and the latest checkpoint is the last, for any number of records,       *)
(* documents, agents and threads and any limit.                            *)
THEOREM MemoryAlwaysStaysApart == MemSpec => []MemoryStaysApart
<1>1. MemInit => MemInvariant
  BY DEF MemInit, MemInvariant
<1>2. MemInvariant => MemoryStaysApart
  <2> SUFFICES ASSUME MemInvariant PROVE MemoryStaysApart
    OBVIOUS
  <2>1. ASSUME NEW a \in Owners, NEW x \in Subjects, NEW shared \in BOOLEAN,
               NEW limit \in 1..MaxIndexed, NEW least \in {0, 1}
        PROVE  LET got == Retrieve(a, x, shared, limit, least) IN
                 /\ \A n \in got : indexed[n].source.agent = a \/ indexed[n].source.scope = "global"
                 /\ \A n \in got, own \in DOMAIN indexed :
                      /\ indexed[own].agent = a
                      /\ Score(indexed[own].text, x) > Score(indexed[n].text, x)
                      => own \in got
    <3>1. ASSUME NEW n \in Retrieve(a, x, shared, limit, least)
          PROVE  indexed[n].source.agent = a \/ indexed[n].source.scope = "global"
      <4>1. n \in DOMAIN indexed /\ MayRetrieve(indexed[n], a, shared)
        BY DEF Retrieve, Retrievable
      <4>2. indexed[n] \in Indexable
        BY <4>1 DEF MemInvariant
      <4>. QED  BY <4>1, <4>2 DEF MayRetrieve, Indexable
    <3>2. ASSUME NEW n \in Retrieve(a, x, shared, limit, least), NEW own \in DOMAIN indexed,
                 indexed[own].agent = a, Score(indexed[own].text, x) > Score(indexed[n].text, x)
          PROVE  own \in Retrieve(a, x, shared, limit, least)
      <4>1. own \in Retrievable(a, shared)
        BY <3>2 DEF Retrievable, MayRetrieve
      <4>2. limit \in Nat /\ least \in Nat
        BY MemoryAssumption
      <4>. QED  BY <3>2, <4>1, <4>2, CloserIsFound
    <3>. QED  BY <3>1, <3>2
  <2>2. ASSUME NEW a \in Owners, NEW t \in Threads, NEW limit \in 1..MaxRecords
        PROVE  LET own == {n \in DOMAIN records : records[n].agent = a /\ records[n].thread = t} IN
                 /\ OfferedTo(a, t, limit) \subseteq own
                 /\ \A n \in own : (\A m \in own : m <= n) /\ records[n].ns = "short_term" =>
                      /\ OfferedTo(a, t, 1) = {n}
                      /\ n \in Recall(t, a, limit) /\ \A m \in Recall(t, a, limit) : m <= n
    <3>. DEFINE own == {n \in DOMAIN records : records[n].agent = a /\ records[n].thread = t}
                Offer(l) == [Anything EXCEPT !.agent = a, !.thread = t, !.limit = l]
                short == [ns |-> "short_term", agent |-> a, thread |-> t, limit |-> limit]
    <3>1. \A l : /\ Offer(l).ns = Open /\ Offer(l).agent = a /\ Offer(l).thread = t
                 /\ Offer(l).limit = l
      BY DEF Anything
    <3>2. a # Open /\ t # Open /\ "short_term" # Open
      BY MemoryAssumption DEF Open
    <3>3. \A l : Matching(Offer(l)) = own
      <4>. HIDE DEF Offer
      <4>. QED  BY <3>1, <3>2 DEF Matching, Matches
    <3>4. Matching(short) = {n \in own : records[n].ns = "short_term"}
      BY <3>2 DEF Matching, Matches
    <3>5. \A l : OfferedTo(a, t, l) = {n \in Query(Offer(l)) : records[n].scope # "global"}
      BY DEF OfferedTo
    <3>6. OfferedTo(a, t, limit) \subseteq own
      <4>1. Query(Offer(limit)) \subseteq Matching(Offer(limit))
        BY DEF Query
      <4>. HIDE DEF Offer, own
      <4>2. OfferedTo(a, t, limit) \subseteq Query(Offer(limit))
        BY <3>5
      <4>. QED  BY <3>3, <4>1, <4>2
    <3>7. limit \in Nat /\ limit >= 1
      BY MemoryAssumption
    <3>8. ASSUME NEW n \in own, \A m \in own : m <= n, records[n].ns = "short_term"
          PROVE  /\ OfferedTo(a, t, 1) = {n}
                 /\ n \in Recall(t, a, limit) /\ \A m \in Recall(t, a, limit) : m <= n
      <4>1. records[n].scope = "thread"
        BY <3>8 DEF MemInvariant
      <4>2. Query(Offer(1)) = {n}
        <5>. HIDE DEF Offer, own
        <5>. QED  BY <3>1, <3>3, <3>8, LastIsFound
      <4>3. OfferedTo(a, t, 1) = {n}
        <5>. HIDE DEF Offer, own
        <5>. QED  BY <3>5, <4>1, <4>2
      <4>4. n \in Matching(short) /\ \A m \in Matching(short) : m <= n
        <5>. HIDE DEF own, short
        <5>. QED  BY <3>4, <3>8
      <4>5. n \in Query(short)
        <5>1. short.limit = limit
          OBVIOUS
        <5>. HIDE DEF own, short
        <5>. QED  BY <3>7, <4>4, <5>1, LastIsFound
      <4>6. Recall(t, a, limit) = Query(short)
        BY DEF Recall
      <4>7. Query(short) \subseteq Matching(short)
        BY DEF Query
      <4>. HIDE DEF own, short
      <4>. QED  BY <4>3, <4>4, <4>5, <4>6, <4>7
    <3>. QED  BY <3>6, <3>8
  <2>3. ASSUME NEW t \in Threads
        PROVE  LET put == {n \in DOMAIN records :
                             records[n].ns = "checkpoint" /\ records[n].thread = t} IN
                 \A n \in put : (\A m \in put : m <= n) => LatestCheckpoint(t) = {n}
    <3>. DEFINE put == {n \in DOMAIN records :
                          records[n].ns = "checkpoint" /\ records[n].thread = t}
                last == [Anything EXCEPT !.ns = "checkpoint", !.thread = t, !.limit = 1]
    <3>1. last.ns = "checkpoint" /\ last.agent = Open /\ last.thread = t /\ last.limit = 1
      BY DEF Anything
    <3>2. t # Open /\ "checkpoint" # Open
      BY MemoryAssumption DEF Open
    <3>3. LatestCheckpoint(t) = Query(last)
      BY DEF LatestCheckpoint
    <3>. HIDE DEF last
    <3>4. Matching(last) = put
      BY <3>1, <3>2 DEF Matching, Matches
    <3>. HIDE DEF put
    <3>5. ASSUME NEW n \in put, \A m \in put : m <= n PROVE Query(last) = {n}
      BY <3>1, <3>4, <3>5, LastIsFound
    <3>. QED  BY <3>3, <3>5 DEF put
  <2>. QED  BY <2>1, <2>2, <2>3 DEF MemoryStaysApart
<1>. QED  BY <1>1, <1>2, MemoryIsKept, PTL DEF MemSpec

-----------------------------------------------------------------------------
(* The context.                                                            *)
CtxSpec == CtxInit /\ [][CtxNext]_ctxVars

(* The union of finitely many finite sets, and the image of a finite set,  *)
(* with the sets and the images given as a function.                       *)
LEMMA FiniteImage ==
    ASSUME NEW S, IsFiniteSet(S), NEW f, f = [x \in S |-> f[x]]
    PROVE  IsFiniteSet({f[x] : x \in S})
<1>1. f \in Surjection(S, {f[x] : x \in S})
  BY DEF Surjection
<1>. QED  BY <1>1, FS_Surjection

LEMMA FiniteUnion ==
    ASSUME NEW S, IsFiniteSet(S), NEW f, f = [x \in S |-> f[x]],
           \A x \in S : IsFiniteSet(f[x])
    PROVE  IsFiniteSet(UNION {f[x] : x \in S})
<1>. DEFINE T == {f[x] : x \in S}
<1>1. IsFiniteSet(T)
  BY FiniteImage
<1>2. \A t \in T : IsFiniteSet(t)
  OBVIOUS
<1>. HIDE DEF T
<1>3. IsFiniteSet(UNION T)
  BY <1>1, <1>2, FS_UNION
<1>. QED  BY <1>3 DEF T

LEMMA UpToIsFinite ==
    ASSUME NEW n \in Nat
    PROVE  IsFiniteSet(1 .. n) /\ Cardinality(1 .. n) = n
BY FS_Interval

(* One thing's tokens: as many as it has. *)
LEMMA TokensOfOne ==
    ASSUME NEW x, NEW n \in Nat
    PROVE  IsFiniteSet({x} \X (1 .. n)) /\ Cardinality({x} \X (1 .. n)) = n
<1>1. IsFiniteSet({x}) /\ Cardinality({x}) = 1
  BY FS_Singleton
<1>2. IsFiniteSet(1 .. n) /\ Cardinality(1 .. n) = n
  BY UpToIsFinite
<1>3. /\ IsFiniteSet({x} \X (1 .. n))
      /\ Cardinality({x} \X (1 .. n)) = Cardinality({x}) * Cardinality(1 .. n)
  BY <1>1, <1>2, FS_Product
<1>. QED  BY <1>1, <1>2, <1>3

LEMMA SizeIsANumber ==
    ASSUME NEW text \in Seq(Nat)
    PROVE  Size(text) \in Nat
<1>. DEFINE f == [n \in DOMAIN text |-> {n} \X (1 .. text[n])]
<1>1. IsFiniteSet(DOMAIN text)
  BY FS_Interval
<1>2. \A n \in DOMAIN text : f[n] = {n} \X (1 .. text[n]) /\ text[n] \in Nat
  OBVIOUS
<1>3. \A n \in DOMAIN text : IsFiniteSet(f[n])
  BY <1>2, TokensOfOne
<1>4. f = [n \in DOMAIN text |-> f[n]]
  OBVIOUS
<1>5. UNION {f[n] : n \in DOMAIN text} = UNION {{n} \X (1 .. text[n]) : n \in DOMAIN text}
  OBVIOUS
<1>. HIDE DEF f
<1>6. IsFiniteSet(UNION {f[n] : n \in DOMAIN text})
  BY <1>1, <1>3, <1>4, FiniteUnion
<1>. QED  BY <1>5, <1>6, FS_CardinalityType DEF Size

Tokens(set) == UNION {{i} \X (1 .. Size(i.text)) : i \in set}

LEMMA TokensAreFinite ==
    ASSUME NEW S, IsFiniteSet(S), \A i \in S : Size(i.text) \in Nat
    PROVE  IsFiniteSet(Tokens(S)) /\ TotalSize(S) = Cardinality(Tokens(S)) /\ TotalSize(S) \in Nat
<1>. DEFINE f == [i \in S |-> {i} \X (1 .. Size(i.text))]
<1>1. \A i \in S : IsFiniteSet(f[i])
  BY TokensOfOne
<1>2. f = [i \in S |-> f[i]]
  OBVIOUS
<1>3. UNION {f[i] : i \in S} = Tokens(S)
  BY DEF Tokens
<1>. HIDE DEF f
<1>4. IsFiniteSet(Tokens(S))
  BY <1>1, <1>2, <1>3, FiniteUnion
<1>5. TotalSize(S) = Cardinality(Tokens(S))
  BY DEF TotalSize, Tokens
<1>. QED  BY <1>4, <1>5, FS_CardinalityType

LEMMA SmallerTotal ==
    ASSUME NEW S, IsFiniteSet(S), \A i \in S : Size(i.text) \in Nat, NEW T \in SUBSET S
    PROVE  IsFiniteSet(T) /\ TotalSize(T) \in Nat /\ TotalSize(T) <= TotalSize(S)
<1>1. IsFiniteSet(T)
  BY FS_Subset
<1>2. Tokens(T) \in SUBSET Tokens(S)
  BY DEF Tokens
<1>3. IsFiniteSet(Tokens(S)) /\ TotalSize(S) = Cardinality(Tokens(S))
  BY TokensAreFinite
<1>4. TotalSize(T) = Cardinality(Tokens(T)) /\ TotalSize(T) \in Nat
  BY <1>1, TokensAreFinite
<1>5. Cardinality(Tokens(T)) <= Cardinality(Tokens(S))
  BY <1>2, <1>3, FS_Subset
<1>. QED  BY <1>1, <1>3, <1>4, <1>5

LEMMA TotalWithOneMore ==
    ASSUME NEW S, IsFiniteSet(S), \A i \in S : Size(i.text) \in Nat,
           NEW x, x \notin S, Size(x.text) \in Nat
    PROVE  TotalSize(S \cup {x}) = TotalSize(S) + Size(x.text)
<1>. DEFINE own == {x} \X (1 .. Size(x.text))
<1>1. IsFiniteSet(own) /\ Cardinality(own) = Size(x.text)
  BY TokensOfOne
<1>2. IsFiniteSet(Tokens(S)) /\ TotalSize(S) = Cardinality(Tokens(S)) /\ TotalSize(S) \in Nat
  BY TokensAreFinite
<1>3. Tokens(S \cup {x}) = Tokens(S) \cup own
  BY DEF Tokens
<1>4. Tokens(S) \cap own = {}
  BY DEF Tokens
<1>5. Cardinality({}) = 0
  BY FS_EmptySet
<1>6. TotalSize(S \cup {x}) = Cardinality(Tokens(S \cup {x}))
  BY DEF TotalSize, Tokens
<1>. HIDE DEF own
<1>7. Cardinality(Tokens(S) \cup own) = Cardinality(Tokens(S)) + Cardinality(own) - Cardinality(Tokens(S) \cap own)
  BY <1>1, <1>2, FS_Union
<1>8. Cardinality(Tokens(S) \cap own) = 0
  BY <1>4, <1>5
<1>9. Cardinality(Tokens(S) \cup own) = TotalSize(S) + Size(x.text)
  BY <1>1, <1>2, <1>7, <1>8
<1>. QED  BY <1>3, <1>6, <1>9

(* Items as they come from the providers and through the compressor. *)
IsItem(i) ==
    /\ i = [source |-> i.source, id |-> i.id, priority |-> i.priority, arch |-> i.arch,
            score |-> i.score, owner |-> i.owner, text |-> i.text]
    /\ i.priority \in Critical .. Low /\ i.text \in Seq(Nat)

Itemized(set) == IsFiniteSet(set) /\ \A i \in set : IsItem(i)

LEMMA CandidatesAreItems ==
    ASSUME NEW c
    PROVE  Itemized(Candidates(c))
<1>. DEFINE Rules == {d \in Documents : d.text # <<>>}
            rules == [d \in Rules |->
                        Item("agent_rules", d, SectionPriority(d.section), FALSE, 0, Agent)]
            upstream == [u \in Upstream |-> Item("upstream", u, High, FALSE, 0, Everyone)]
            files == [f \in Files |-> Item("repository_file", f, IF f.arch THEN High ELSE Normal,
                                           f.arch, f.score, Everyone)]
            summaries == [u \in Summaries |-> Item(u.source, u, High, FALSE, 0, Everyone)]
            memory == [r \in Memories |-> Item(r.source, r, Normal, FALSE, r.score, r.owner)]
<1>1. /\ IsFiniteSet(Documents) /\ \A d \in Documents : d.text \in Seq(Nat)
      /\ IsFiniteSet(Files) /\ \A d \in Files : d.text \in Seq(Nat)
      /\ IsFiniteSet(Upstream) /\ \A d \in Upstream : d.text \in Seq(Nat)
      /\ IsFiniteSet(Summaries) /\ \A d \in Summaries : d.text \in Seq(Nat)
      /\ IsFiniteSet(Memories) /\ \A d \in Memories : d.text \in Seq(Nat)
  BY ContextAssumption
<1>2. IsFiniteSet(Rules)
  BY <1>1, FS_Subset
<1>3. Itemized({rules[d] : d \in Rules})
  <2>1. \A d \in Rules : IsItem(rules[d])
    <3>1. \A d \in Rules : SectionPriority(d.section) \in Critical .. Low
      BY DEF SectionPriority, Critical, High, Normal, Low
    <3>. QED  BY <1>1, <3>1 DEF IsItem, Item
  <2>2. rules = [d \in Rules |-> rules[d]]
    OBVIOUS
  <2>. HIDE DEF rules, Rules
  <2>3. IsFiniteSet({rules[d] : d \in Rules})
    BY <1>2, <2>2, FiniteImage
  <2>. QED  BY <2>1, <2>3 DEF Itemized
<1>4. Itemized({upstream[u] : u \in Upstream})
  <2>1. \A u \in Upstream : IsItem(upstream[u])
    BY <1>1 DEF IsItem, Item, Critical, High, Low
  <2>2. upstream = [u \in Upstream |-> upstream[u]]
    OBVIOUS
  <2>. HIDE DEF upstream
  <2>3. IsFiniteSet({upstream[u] : u \in Upstream})
    BY <1>1, <2>2, FiniteImage
  <2>. QED  BY <2>1, <2>3 DEF Itemized
<1>5. Itemized({files[f] : f \in Files})
  <2>1. \A f \in Files : IsItem(files[f])
    BY <1>1 DEF IsItem, Item, Critical, High, Normal, Low
  <2>2. files = [f \in Files |-> files[f]]
    OBVIOUS
  <2>. HIDE DEF files
  <2>3. IsFiniteSet({files[f] : f \in Files})
    BY <1>1, <2>2, FiniteImage
  <2>. QED  BY <2>1, <2>3 DEF Itemized
<1>6. Itemized({memory[r] : r \in Memories})
  <2>1. \A r \in Memories : IsItem(memory[r])
    BY <1>1 DEF IsItem, Item, Critical, Normal, Low
  <2>2. memory = [r \in Memories |-> memory[r]]
    OBVIOUS
  <2>. HIDE DEF memory
  <2>3. IsFiniteSet({memory[r] : r \in Memories})
    BY <1>1, <2>2, FiniteImage
  <2>. QED  BY <2>1, <2>3 DEF Itemized
<1>13. Itemized({summaries[u] : u \in Summaries})
  <2>1. \A u \in Summaries : IsItem(summaries[u])
    BY <1>1 DEF IsItem, Item, Critical, High, Low
  <2>2. summaries = [u \in Summaries |-> summaries[u]]
    OBVIOUS
  <2>. HIDE DEF summaries
  <2>3. IsFiniteSet({summaries[u] : u \in Summaries})
    BY <1>1, <2>2, FiniteImage
  <2>. QED  BY <2>1, <2>3 DEF Itemized
<1>. DEFINE all == {rules[d] : d \in Rules} \cup {upstream[u] : u \in Upstream}
                     \cup {summaries[u] : u \in Summaries}
                     \cup {files[f] : f \in Files} \cup {memory[r] : r \in Memories}
<1>7. Itemized(all)
  <2>. HIDE DEF rules, Rules, upstream, summaries, files, memory
  <2>. QED  BY <1>3, <1>4, <1>5, <1>6, <1>13, FS_Union DEF Itemized
<1>8. RuleItems \subseteq {rules[d] : d \in Rules}
  BY DEF RuleItems
<1>9. UpstreamItems \subseteq {upstream[u] : u \in Upstream}
  BY DEF UpstreamItems
<1>10. \A n : FileItems(n) \subseteq {files[f] : f \in Files}
  BY DEF FileItems
<1>11. MemoryItems \subseteq {memory[r] : r \in Memories}
  BY DEF MemoryItems
<1>14. SummaryItems(c) \subseteq {summaries[u] : u \in Summaries}
  BY DEF SummaryItems
<1>12. Candidates(c) \in SUBSET all
  <2>. HIDE DEF rules, Rules, upstream, summaries, files, memory
  <2>. QED  BY <1>8, <1>9, <1>10, <1>11, <1>14 DEF Candidates
<1>. HIDE DEF all
<1>. QED  BY <1>7, <1>12, FS_Subset DEF Itemized

(* What the compressor leaves of a text are its first paragraphs. *)
LEMMA ShortenedIsAText ==
    ASSUME NEW text \in Seq(Nat), NEW limit \in Nat
    PROVE  Shortened(text, limit) \in Seq(Nat)
<1>. DEFINE fits == {n \in DOMAIN text : n = 1 \/ Size(SubSeq(text, 1, n)) <= limit}
<1>1. fits \in SUBSET (1 .. Len(text)) /\ Len(text) \in Nat
  OBVIOUS
<1>3. Shortened(text, limit) = text \/ Shortened(text, limit) = SubSeq(text, 1, Cardinality(fits))
  BY DEF Shortened
<1>. HIDE DEF fits
<1>2. IsFiniteSet(1 .. Len(text)) /\ Cardinality(1 .. Len(text)) = Len(text)
  BY <1>1, UpToIsFinite
<1>4. Cardinality(fits) \in Nat /\ Cardinality(fits) <= Len(text)
  BY <1>1, <1>2, FS_Subset, FS_CardinalityType
<1>5. SubSeq(text, 1, Cardinality(fits)) \in Seq(Nat)
  BY <1>1, <1>4, SubSeqProperties
<1>. QED  BY <1>3, <1>5

(* What was considered comes before what is not, what is kept fits, and    *)
(* what was dropped did not fit beside what is kept of its priority and    *)
(* the ones above.                                                         *)
NoRoom(d) ==
    TotalSize({k \in selected : k.priority <= d.priority}) + Size(d.text) > config.budget

CtxInvariant ==
    /\ config.budget \in Nat /\ config.limit \in Nat
    /\ Itemized(items) /\ Itemized(selected) /\ Itemized(dropped)
    /\ items \cap (selected \cup dropped) = {} /\ selected \cap dropped = {}
    /\ ctxStage \in {"offered", "selected"} => selected = {} /\ dropped = {}
    /\ ctxStage = "done" => items = {}
    /\ \A d \in selected \cup dropped, i \in items : d.priority <= i.priority
    /\ TotalSize(selected) <= config.budget
    /\ \A d \in dropped : NoRoom(d)

LEMMA NothingWeighsNothing == Itemized({}) /\ TotalSize({}) = 0
<1>1. IsFiniteSet({}) /\ Cardinality({}) = 0
  BY FS_EmptySet
<1>2. Tokens({}) = {}
  BY DEF Tokens
<1>. QED  BY <1>1, <1>2, TokensAreFinite DEF Itemized

LEMMA SubsetIsItemized ==
    ASSUME NEW S, Itemized(S), NEW T \in SUBSET S
    PROVE  Itemized(T)
BY FS_Subset DEF Itemized

LEMMA SizesAreNumbers ==
    ASSUME NEW S, Itemized(S)
    PROVE  \A i \in S : Size(i.text) \in Nat /\ i.priority \in Nat
BY SizeIsANumber DEF Itemized, IsItem, Critical, Low

LEMMA SelectKeeps ==
    ASSUME CtxInvariant, Select
    PROVE  CtxInvariant'
<1>1. items' \in SUBSET items /\ UNCHANGED <<selected, dropped, config>>
  BY DEF Select
<1>2. ctxStage = "offered" /\ ctxStage' = "selected"
  BY DEF Select
<1>3. Itemized(items')
  BY <1>1, SubsetIsItemized DEF CtxInvariant
<1>. QED  BY <1>1, <1>2, <1>3 DEF CtxInvariant, NoRoom

LEMMA CompressKeeps ==
    ASSUME CtxInvariant, Compress
    PROVE  CtxInvariant'
<1>. DEFINE f == [i \in items |-> [i EXCEPT !.text = Shortened(@, config.limit)]]
<1>1. /\ ctxStage = "selected" /\ ctxStage' = "compressed"
      /\ UNCHANGED <<selected, dropped, config>>
  BY DEF Compress
<1>2. selected = {} /\ dropped = {}
  BY <1>1 DEF CtxInvariant
<1>3. Itemized({f[i] : i \in items})
  <2>1. \A i \in items : IsItem(f[i])
    <3> SUFFICES ASSUME NEW i \in items PROVE IsItem(f[i])
      OBVIOUS
    <3>1. IsItem(i)
      BY DEF CtxInvariant, Itemized
    <3>2. Shortened(i.text, config.limit) \in Seq(Nat)
      BY <3>1, ShortenedIsAText DEF CtxInvariant, IsItem
    <3>3. f[i] = [source |-> i.source, id |-> i.id, priority |-> i.priority, arch |-> i.arch,
                  score |-> i.score, owner |-> i.owner, text |-> Shortened(i.text, config.limit)]
      BY <3>1 DEF IsItem
    <3>. HIDE DEF f
    <3>. QED  BY <3>1, <3>2, <3>3 DEF IsItem
  <2>2. f = [i \in items |-> f[i]]
    OBVIOUS
  <2>. HIDE DEF f
  <2>3. IsFiniteSet({f[i] : i \in items})
    BY <2>2, FiniteImage DEF CtxInvariant, Itemized
  <2>. QED  BY <2>1, <2>3 DEF Itemized
<1>4. items' = {f[i] : i \in items} \/ items' = items
  BY DEF Compress
<1>. HIDE DEF f
<1>5. Itemized(items')
  BY <1>3, <1>4 DEF CtxInvariant
<1>. QED  BY <1>1, <1>2, <1>5 DEF CtxInvariant

LEMMA FitKeeps ==
    ASSUME CtxInvariant, Fit
    PROVE  CtxInvariant'
<1>1. /\ ctxStage = "compressed" /\ ctxStage' = ctxStage /\ config' = config
  BY DEF Fit
<1>2. PICK i \in items :
        /\ \A j \in items : ~ComesFirst(j, i)
        /\ items' = items \ {i}
        /\ \/ Fits(i) /\ selected' = selected \cup {i} /\ UNCHANGED dropped
           \/ ~Fits(i) /\ dropped' = dropped \cup {i} /\ UNCHANGED selected
  BY DEF Fit
<1>3. /\ \A j \in items : Size(j.text) \in Nat /\ j.priority \in Nat
      /\ \A j \in selected : Size(j.text) \in Nat /\ j.priority \in Nat
      /\ \A j \in dropped : Size(j.text) \in Nat /\ j.priority \in Nat
  BY SizesAreNumbers DEF CtxInvariant
<1>4. \A j \in items : i.priority <= j.priority
  BY <1>2, <1>3 DEF ComesFirst
<1>5. Itemized(items') /\ Itemized({i})
  BY <1>2, SubsetIsItemized DEF CtxInvariant
<1>6. /\ IsFiniteSet(selected) /\ TotalSize(selected) \in Nat /\ config.budget \in Nat
      /\ i \notin selected /\ i \notin dropped
  <2>1. IsFiniteSet(selected)
    BY DEF CtxInvariant, Itemized
  <2>. QED  BY <1>2, <1>3, <2>1, TokensAreFinite DEF CtxInvariant
<1>7. \A d \in selected \cup dropped \cup {i}, j \in items' : d.priority <= j.priority
  BY <1>2, <1>4 DEF CtxInvariant
<1>8. CASE Fits(i) /\ selected' = selected \cup {i} /\ UNCHANGED dropped
  <2>1. Itemized(selected')
    BY <1>5, <1>8, FS_Union DEF CtxInvariant, Itemized
  <2>2. TotalSize(selected') <= config.budget
    <3>1. TotalSize(selected \cup {i}) = TotalSize(selected) + Size(i.text)
      BY <1>2, <1>3, <1>6, TotalWithOneMore
    <3>. QED  BY <1>8, <3>1 DEF Fits
  <2>3. ASSUME NEW d \in dropped PROVE NoRoom(d)'
    <3>. DEFINE before == {k \in selected : k.priority <= d.priority}
                after  == {k \in selected' : k.priority <= d.priority}
    <3>1. TotalSize(before) + Size(d.text) > config.budget
      BY DEF CtxInvariant, NoRoom
    <3>2. before \in SUBSET after /\ before \in SUBSET selected /\ after \in SUBSET selected'
      BY <1>8
    <3>3. IsFiniteSet(selected') /\ \A k \in selected' : Size(k.text) \in Nat
      BY <2>1, SizesAreNumbers DEF Itemized
    <3>. HIDE DEF before, after
    <3>4. IsFiniteSet(after) /\ TotalSize(after) \in Nat /\ \A k \in after : Size(k.text) \in Nat
      BY <3>2, <3>3, SmallerTotal
    <3>5. TotalSize(before) <= TotalSize(after) /\ TotalSize(before) \in Nat
      BY <3>2, <3>4, SmallerTotal
    <3>6. TotalSize(after) + Size(d.text) > config.budget
      BY <1>3, <1>6, <3>1, <3>4, <3>5
    <3>. QED  BY <1>1, <3>6 DEF NoRoom, after
  <2>. QED  BY <1>1, <1>2, <1>5, <1>6, <1>7, <1>8, <2>1, <2>2, <2>3 DEF CtxInvariant
<1>9. CASE ~Fits(i) /\ dropped' = dropped \cup {i} /\ UNCHANGED selected
  <2>1. Itemized(dropped')
    BY <1>5, <1>9, FS_Union DEF CtxInvariant, Itemized
  <2>2. NoRoom(i)'
    <3>1. {k \in selected : k.priority <= i.priority} = selected
      BY DEF CtxInvariant
    <3>2. TotalSize(selected) + Size(i.text) > config.budget
      BY <1>3, <1>6, <1>9 DEF Fits
    <3>. QED  BY <1>1, <1>9, <3>1, <3>2 DEF NoRoom
  <2>3. ASSUME NEW d \in dropped PROVE NoRoom(d)'
    BY <1>1, <1>9 DEF CtxInvariant, NoRoom
  <2>. QED  BY <1>1, <1>2, <1>5, <1>6, <1>7, <1>9, <2>1, <2>2, <2>3 DEF CtxInvariant
<1>. QED  BY <1>2, <1>8, <1>9

(* The rules come through: what fits the budget with everything of its own *)
(* and a higher priority is kept, and what is kept fits, for any files,    *)
(* texts, memories, budgets and limits.                                    *)
THEOREM HigherAlwaysFirst == CtxSpec => []HigherFirst
<1>1. CtxInit => CtxInvariant
  <2> SUFFICES ASSUME CtxInit PROVE CtxInvariant
    OBVIOUS
  <2>1. config.budget \in Nat /\ config.limit \in Nat
    BY ContextAssumption DEF CtxInit
  <2>2. Itemized(items)
    BY CandidatesAreItems, SubsetIsItemized DEF CtxInit
  <2>. QED  BY <2>1, <2>2, NothingWeighsNothing DEF CtxInit, CtxInvariant
<1>2. CtxInvariant /\ [CtxNext]_ctxVars => CtxInvariant'
  <2> SUFFICES ASSUME CtxInvariant, [CtxNext]_ctxVars PROVE CtxInvariant'
    OBVIOUS
  <2>1. CASE AppendPrompts
    BY <2>1 DEF AppendPrompts, CtxInvariant, NoRoom
  <2>2. CASE UNCHANGED ctxVars
    BY <2>2 DEF ctxVars, CtxInvariant, NoRoom
  <2>. QED  BY <2>1, <2>2, SelectKeeps, CompressKeeps, FitKeeps DEF CtxNext
<1>3. CtxInvariant => HigherFirst
  <2> SUFFICES ASSUME CtxInvariant, ctxStage = "done",
                      NEW p \in {Critical, High, Normal, Low},
                      TotalSize({i \in selected \cup dropped : i.priority <= p}) <= config.budget,
                      NEW d \in dropped, ~(d.priority > p)
               PROVE  FALSE
    BY DEF HigherFirst, CtxInvariant
  <2>. DEFINE kept == {k \in selected : k.priority <= d.priority}
              upTo == {i \in selected \cup dropped : i.priority <= p}
  <2>1. /\ \A j \in selected : Size(j.text) \in Nat /\ j.priority \in Nat
        /\ \A j \in dropped : Size(j.text) \in Nat /\ j.priority \in Nat
        /\ IsFiniteSet(selected) /\ IsFiniteSet(dropped)
    BY SizesAreNumbers DEF CtxInvariant, Itemized
  <2>2. p \in Nat
    BY DEF Critical, High, Normal, Low
  <2>3. kept \cup {d} \in SUBSET upTo
    BY <2>1, <2>2
  <2>4. d \notin kept /\ kept \in SUBSET selected /\ upTo \in SUBSET (selected \cup dropped)
    BY DEF CtxInvariant
  <2>5. TotalSize(kept) + Size(d.text) > config.budget /\ config.budget \in Nat
    BY DEF CtxInvariant, NoRoom
  <2>. HIDE DEF kept, upTo
  <2>6. IsFiniteSet(kept) /\ TotalSize(kept) \in Nat
    BY <2>1, <2>4, SmallerTotal
  <2>7. TotalSize(kept \cup {d}) = TotalSize(kept) + Size(d.text)
    BY <2>1, <2>4, <2>6, TotalWithOneMore
  <2>8. IsFiniteSet(selected \cup dropped)
    BY <2>1, FS_Union
  <2>9. IsFiniteSet(upTo) /\ TotalSize(upTo) \in Nat
    BY <2>1, <2>4, <2>8, SmallerTotal
  <2>10. TotalSize(kept \cup {d}) <= TotalSize(upTo)
    BY <2>1, <2>3, <2>4, <2>9, SmallerTotal
  <2>11. TotalSize(upTo) <= config.budget
    BY DEF upTo
  <2>. QED  BY <2>1, <2>5, <2>6, <2>7, <2>9, <2>10, <2>11
<1>. QED  BY <1>1, <1>2, <1>3, PTL DEF CtxSpec
=============================================================================
