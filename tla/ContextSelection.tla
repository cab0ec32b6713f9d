-------------------------- MODULE ContextSelection --------------------------
(***************************************************************************)
(* How the context of an agent is put together                             *)
(* (core/context_engineering, core/runtime/context.py): every provider     *)
(* offers candidates, the selector drops another agent's and duplicates    *)
(* and ranks the rest, the compressor shortens the large ones, the budget  *)
(* manager keeps what fits, and the active runtime prompts are appended.   *)
(* The selector's ranks show nowhere: the budget manager ranks anew.       *)
(*                                                                         *)
(* A text is a sequence of paragraphs, a paragraph is its size in tokens.  *)
(* An item's id is a number: what is told apart is the order of the ids.   *)
(***************************************************************************)
EXTENDS Naturals, Sequences, FiniteSets

CONSTANTS
    Documents,      \* the agent's files: [id, section, text]
    Files,          \* the repository's: [id, arch, score, text]
    Upstream,       \* what other agents left: [id, text]
    Summaries,      \* of the repository, of the architecture: [id, source, text]
    Memories,       \* [id, source, text, owner, score]; a vector's is found twice
    Prompts,        \* the sizes of the active runtime prompts
    Agent, Everyone, \* whose context it is; an item that is not of one agent
    Budgets, Limits, FileLimits

ASSUME ContextAssumption ==
    /\ \A offered \in {Documents, Files, Upstream, Summaries, Memories} :
         IsFiniteSet(offered) /\ \A x \in offered : x.text \in Seq(Nat)
    /\ Budgets \subseteq Nat /\ Limits \subseteq Nat

VARIABLES
    ctxStage,       \* "offered", "selected", "compressed", "done"
    items,          \* the candidates that are not decided yet
    selected,       \* those the budget had room for
    dropped,        \* those it left out
    prompts,        \* the sizes of the prompts appended
    config          \* the budget, the soft limit of an item, and the switches

ctxVars == <<ctxStage, items, selected, dropped, prompts, config>>

(* The priority of a section, and the ranks of the priorities. *)
Critical == 0
High     == 1
Normal   == 2
Low      == 3

SectionPriority(section) ==
    CASE section \in {"gravity_rules", "anti_gravity_rules", "architecture_constraints"} -> Critical
      [] section \in {"personality", "standards"} -> High
      [] section = "prompts" -> Normal
      [] OTHER -> Low

Item(source, x, priority, arch, score, owner) ==
    [source |-> source, id |-> x.id, priority |-> priority, arch |-> arch,
     score |-> score, owner |-> owner, text |-> x.text]

(* The tokens of a text and of a set of items, one by one.                 *)
Size(text) == Cardinality(UNION {{n} \X (1 .. text[n]) : n \in DOMAIN text})
TotalSize(set) == Cardinality(UNION {{i} \X (1 .. Size(i.text)) : i \in set})

(* The agent's own rules; a file without text is skipped. *)
RuleItems ==
    {Item("agent_rules", d, SectionPriority(d.section), FALSE, 0, Agent) :
        d \in {d \in Documents : d.text # <<>>}}

(* The best files by architecture, score and path, as many as are allowed. *)
BetterFile(a, b) ==
    \/ a.arch /\ ~b.arch
    \/ a.arch = b.arch /\ a.score > b.score
    \/ a.arch = b.arch /\ a.score = b.score /\ a.id < b.id

FileItems(limit) ==
    LET known == {f \in Files : f.text # <<>> /\ (f.score > 0 \/ f.arch)} IN
      {Item("repository_file", f, IF f.arch THEN High ELSE Normal, f.arch, f.score, Everyone) :
          f \in {f \in known : Cardinality({g \in known : BetterFile(g, f)}) < limit}}

SummaryItems(c) ==
    {Item(s.source, s, High, FALSE, 0, Everyone) :
        s \in {s \in Summaries : s.source = "repository_summary" => c.repository}}

UpstreamItems == {Item("upstream", u, High, FALSE, 0, Everyone) : u \in Upstream}

(* The memory of this agent; what is of no agent is not asked for. *)
MemoryItems ==
    {Item(r.source, r, Normal, FALSE, r.score, r.owner) :
        r \in {r \in Memories : r.owner = Agent}}

Candidates(c) ==
    RuleItems \cup UpstreamItems \cup SummaryItems(c)
      \cup (IF c.repository THEN FileItems(c.files) ELSE {})
      \cup (IF c.memory THEN MemoryItems ELSE {})

CtxInit ==
    /\ config \in [budget : Budgets, limit : Limits, files : FileLimits,
                   repository : BOOLEAN, memory : BOOLEAN, compression : BOOLEAN]
    /\ items \in SUBSET Candidates(config)
    /\ ctxStage = "offered" /\ selected = {} /\ dropped = {} /\ prompts = {}

-----------------------------------------------------------------------------
(* Another agent's items are dropped, and of two equal texts of one source *)
(* the second, but not of files, which have each a path of their own.      *)
Select ==
    /\ ctxStage = "offered" /\ ctxStage' = "selected"
    /\ LET own == {i \in items : i.owner \in {Agent, Everyone}} IN
         items' = {i \in own : \A j \in own :
                      /\ j.id < i.id /\ j.source = i.source /\ j.text = i.text
                      => i.source \in {"agent_rules", "repository_file"}}
    /\ UNCHANGED <<selected, dropped, prompts, config>>

(* The paragraphs that come before the limit is reached, the first always. *)
Shortened(text, limit) ==
    LET fits == {n \in DOMAIN text : n = 1 \/ Size(SubSeq(text, 1, n)) <= limit} IN
      IF Size(text) <= limit THEN text ELSE SubSeq(text, 1, Cardinality(fits))

Compress ==
    /\ ctxStage = "selected" /\ ctxStage' = "compressed"
    /\ items' = IF config.compression
                THEN {[i EXCEPT !.text = Shortened(@, config.limit)] : i \in items}
                ELSE items
    /\ UNCHANGED <<selected, dropped, prompts, config>>

(* Seeded fault: the smallest come first, whatever their priority. *)
SmallerFirst(a, b) ==
    Size(a.text) < Size(b.text) \/ (Size(a.text) = Size(b.text) /\ a.id < b.id)

(* The budget manager's rank: priority, size, id. *)
ComesFirst(a, b) ==
    \/ a.priority < b.priority
    \/ a.priority = b.priority /\ Size(a.text) < Size(b.text)
    \/ a.priority = b.priority /\ Size(a.text) = Size(b.text) /\ a.id < b.id

(* In this order an item is kept if it fits beside those kept before it.   *)
Fits(i) == TotalSize(selected) + Size(i.text) <= config.budget

Fit ==
    /\ ctxStage = "compressed" /\ UNCHANGED <<ctxStage, prompts, config>>
    /\ \E i \in items :
         /\ \A j \in items : ~ComesFirst(j, i)
         /\ items' = items \ {i}
         /\ \/ Fits(i) /\ selected' = selected \cup {i} /\ UNCHANGED dropped
            \/ ~Fits(i) /\ dropped' = dropped \cup {i} /\ UNCHANGED selected

(* With a database the active prompts are appended, outside the budget. *)
AppendPrompts ==
    /\ ctxStage = "compressed" /\ items = {} /\ ctxStage' = "done"
    /\ prompts' \in {{}, Prompts}
    /\ UNCHANGED <<items, selected, dropped, config>>

CtxNext == Select \/ Compress \/ Fit \/ AppendPrompts

-----------------------------------------------------------------------------
(* Properties.                                                             *)

(* The rules come through: as long as the items of some priority and of    *)
(* the ones above it fit the budget together, none of them is dropped,     *)
(* however much else was offered; and what is kept fits the budget         *)
(* (TokenBudgetManager.fit).                                               *)
HigherFirst ==
    ctxStage = "done" =>
      LET upTo(p) == {i \in selected \cup dropped : i.priority <= p} IN
        /\ TotalSize(selected) <= config.budget
        /\ \A p \in {Critical, High, Normal, Low} :
             TotalSize(upTo(p)) <= config.budget => \A i \in dropped : i.priority > p
=============================================================================
