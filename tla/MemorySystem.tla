---------------------------- MODULE MemorySystem ----------------------------
(***************************************************************************)
(* The memory of the agents (core/memory): one repository behind the short *)
(* and long-term memory, the history, the decisions, the bugs and the      *)
(* checkpoints, an index of texts beside it, and the reads that the        *)
(* context of an agent is made from (core/context_engineering/memory.py).  *)
(*                                                                         *)
(* A record is put under an id of its own, so the records are a sequence   *)
(* in the order they were put; the clock is taken not to run backwards.    *)
(* What a read returns are the positions of what it found, in the records  *)
(* or in the index.  A text is what it is about, Silent if there is none:  *)
(* Score says how close two texts are, by whatever embedding (external).   *)
(***************************************************************************)
EXTENDS Naturals, Sequences, FiniteSets

CONSTANTS
    Owners, NoOwner,    \* the agents that remember; a record of no agent
    Threads, NoThread,
    Subjects,           \* what a text is about: numbers
    Silent,             \* a record whose value holds no text
    MaxRecords, MaxIndexed

(* A question that leaves something open names no agent and no thread. *)
Open == "any"
ASSUME MemoryAssumption ==
    /\ MaxRecords \in Nat /\ MaxIndexed \in Nat
    /\ Open \notin Owners \cup Threads

VARIABLES
    records,            \* InMemoryMemoryRepository
    indexed,            \* the documents of the vector store
    backend             \* "memory" or "qdrant"

memVars == <<records, indexed, backend>>

Scopes == {"global", "agent", "workflow", "thread"}
MemoryRecord ==
    [ns : {"short_term", "long_term", "execution_history", "adr", "bug", "checkpoint"},
     scope : Scopes, agent : Owners \cup {NoOwner}, thread : Threads \cup {NoThread},
     text : Subjects \cup {Silent}]

MemInit == records = <<>> /\ indexed = <<>> /\ backend \in {"memory", "qdrant"}

-----------------------------------------------------------------------------
(* The reads.                                                              *)

(* A question leaves open what it does not name; a question without limit *)
(* has one that no number of records exceeds.                              *)
Anything == [ns |-> Open, agent |-> Open, thread |-> Open, limit |-> MaxRecords]

Matches(r, q) == \A field \in {"ns", "agent", "thread"} : q[field] \in {Open, r[field]}

Matching(q) == {n \in DOMAIN records : Matches(records[n], q)}

(* The latest of what matches: fewer than the limit come after it. *)
Query(q) == {n \in Matching(q) : Cardinality({m \in Matching(q) : m > n}) < q.limit}

LatestCheckpoint(t) == Query([Anything EXCEPT !.ns = "checkpoint", !.thread = t, !.limit = 1])

Recall(t, a, limit) ==
    Query([ns |-> "short_term", agent |-> a, thread |-> t, limit |-> limit])

(* What the context of an agent is offered: of its own latest records in   *)
(* the thread those that are not global.                                   *)
OfferedTo(a, t, limit) ==
    {n \in Query([Anything EXCEPT !.agent = a, !.thread = t, !.limit = limit]) :
        records[n].scope # "global"}

Score(one, other) == IF one = other THEN 2 ELSE IF one + 1 = other \/ other + 1 = one THEN 1 ELSE 0

(* The local store shows an agent what is shared as well; Qdrant's filter  *)
(* knows nothing of that.                                                  *)
MayRetrieve(d, a, shared) ==
    d.agent = a \/ (backend = "memory" /\ shared /\ d.scope = "global")

Retrievable(a, shared) == {n \in DOMAIN indexed : MayRetrieve(indexed[n], a, shared)}

(* The closest first; of two that are equally close the one that was       *)
(* indexed first.                                                          *)
Ranked(n, m, text) ==
    \/ Score(indexed[n].text, text) > Score(indexed[m].text, text)
    \/ Score(indexed[n].text, text) = Score(indexed[m].text, text) /\ n < m

Retrieve(a, text, shared, limit, least) ==
    {n \in Retrievable(a, shared) :
        /\ Cardinality({m \in Retrievable(a, shared) : Ranked(m, n, text)}) < limit
        /\ backend = "memory" => Score(indexed[n].text, text) >= least}

-----------------------------------------------------------------------------
(* The writes.                                                             *)

Put(r) == Len(records) < MaxRecords /\ records' = Append(records, r) /\ UNCHANGED <<indexed, backend>>

Record(ns, scope, a, t, text) == [ns |-> ns, scope |-> scope, agent |-> a, thread |-> t, text |-> text]

ShortTerm == \E a \in Owners \cup {NoOwner}, t \in Threads, x \in Subjects \cup {Silent} :
    Put(Record("short_term", "thread", a, t, x))

LongTerm == \E scope \in Scopes, a \in Owners, x \in Subjects :
    Put(Record("long_term", scope, a, NoThread, x))

History == \E a \in Owners \cup {NoOwner}, t \in Threads, x \in Subjects :
    Put(Record("execution_history", "workflow", a, t, x))

(* A decision or a bug is shared unless it names its workflow.             *)
Adr == \E scope \in {"workflow", "global"}, x \in Subjects :
    Put(Record("adr", scope, NoOwner, NoThread, x))

Bug == \E scope \in {"workflow", "global"}, a \in Owners \cup {NoOwner}, x \in Subjects :
    Put(Record("bug", scope, a, NoThread, x))

Checkpoint == \E t \in Threads, x \in Subjects : Put(Record("checkpoint", "thread", NoOwner, t, x))

(* A document keeps the record it was made from.                           *)
Document(r) == [scope |-> r.scope, agent |-> r.agent, text |-> r.text, source |-> r]

(* A lesson is indexed without a record.                                   *)
Learn ==
    /\ Len(indexed) < MaxIndexed /\ UNCHANGED <<records, backend>>
    /\ \E scope \in {"global", "agent"}, a \in Owners, x \in Subjects :
         indexed' = Append(indexed, Document(Record("lesson", scope, a, NoThread, x)))

(* Seeded fault: the documents take the defaults of the request. *)
IndexedAsShared(order) ==
    [k \in DOMAIN order |-> [Document(records[order[k]]) EXCEPT !.scope = "global", !.agent = NoOwner]]

(* Every record is a new document, also one that was indexed before; those *)
(* without a text are skipped.                                             *)
IndexRecords(order) == [k \in DOMAIN order |-> Document(records[order[k]])]

InOrder(found) ==
    {order \in [1 .. Cardinality(found) -> found] :
        \A j, k \in DOMAIN order : j < k => order[j] < order[k]}

IndexHistory ==
    /\ UNCHANGED <<records, backend>>
    /\ \E t \in Threads \cup {Open} :
         LET found == {n \in Query([Anything EXCEPT !.thread = t]) : records[n].text # Silent} IN
           \E order \in InOrder(found) : indexed' = indexed \o IndexRecords(order)
    /\ Len(indexed') <= MaxIndexed

MemNext ==
    ShortTerm \/ LongTerm \/ History \/ Adr \/ Bug \/ Checkpoint \/ Learn \/ IndexHistory

-----------------------------------------------------------------------------
(* Properties.                                                             *)

(* Memory stays apart: whatever was remembered and indexed before, by whom *)
(* and how often, an agent retrieves what it remembered itself or what     *)
(* somebody shared, and nothing of its own that is closer to the question  *)
(* is left out for something that is less close; what it is offered and    *)
(* recalls in a thread is its own, up to the last of it; and the latest    *)
(* checkpoint of a thread is the one put last                              *)
(* (InMemorySemanticVectorStore.search, MemoryContextProvider.provide,     *)
(* CheckpointMemory.get_latest).                                           *)
MemoryStaysApart ==
    /\ \A a \in Owners, x \in Subjects, shared \in BOOLEAN, limit \in 1..MaxIndexed, least \in {0, 1} :
         LET found == Retrieve(a, x, shared, limit, least) IN
           /\ \A n \in found : indexed[n].source.agent = a \/ indexed[n].source.scope = "global"
           /\ \A n \in found, own \in DOMAIN indexed :
                /\ indexed[own].agent = a
                /\ Score(indexed[own].text, x) > Score(indexed[n].text, x)
                => own \in found
    /\ \A a \in Owners, t \in Threads, limit \in 1..MaxRecords :
         LET own == {n \in DOMAIN records : records[n].agent = a /\ records[n].thread = t} IN
           /\ OfferedTo(a, t, limit) \subseteq own
           /\ \A n \in own : (\A m \in own : m <= n) /\ records[n].ns = "short_term" =>
                /\ OfferedTo(a, t, 1) = {n}
                /\ n \in Recall(t, a, limit) /\ \A m \in Recall(t, a, limit) : m <= n
    /\ \A t \in Threads :
         LET put == {n \in DOMAIN records : records[n].ns = "checkpoint" /\ records[n].thread = t} IN
           \A n \in put : (\A m \in put : m <= n) => LatestCheckpoint(t) = {n}
=============================================================================
