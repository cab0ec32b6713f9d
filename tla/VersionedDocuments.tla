-------------------------- MODULE VersionedDocuments --------------------------
(***************************************************************************)
(* The editable documents of the prompt studio and of governance: a        *)
(* document per key, a numbered history of its texts, rollback, and the    *)
(* seeding from repository files when the API process starts               *)
(* (core/prompt_studio, core/governance_management and their application   *)
(* services).                                                              *)
(*                                                                         *)
(* A key is (scope, agent, name) for a prompt and (scope, kind, agent) for *)
(* a governance document, so that there two files may share one.  With the *)
(* PostgreSQL repository a save is three awaits: the list of documents,    *)
(* the document, its version.  The other repositories never suspend.       *)
(***************************************************************************)
EXTENDS Naturals, FiniteSets

CONSTANTS
    Files, Keys,
    KeyMaps,        \* the key of each file's document, in the trees to look at
    Clients,
    Seeder,         \* the process's own start
    Nothing,        \* no file, no key, no text
    Repositories,   \* "memory", "file", "postgres": the ones to look at
    Studios,        \* "governance", "prompts"
    MaxDocuments, MaxSaves, MaxRestarts     \* bounds

ASSUME DocumentsAssumption ==
    /\ Seeder \notin Clients
    /\ Nothing \notin Files \cup Keys
    /\ KeyMaps \subseteq [Files -> Keys]
    /\ Repositories \subseteq {"memory", "file", "postgres"}
    /\ Studios \subseteq {"governance", "prompts"}
    /\ {MaxDocuments, MaxSaves, MaxRestarts} \subseteq Nat

VARIABLES
    repository, studio,     \* which of the services this is
    keyOf,          \* and the files it finds
    inTree,         \* the files are there; if not, Files are the defaults' texts
    document,       \* the documents bucket
    history,        \* the versions bucket: <<id, version, text>>
    unseeded,       \* files still to be saved by the seeder
    job,            \* saves under way
    torn,           \* history: documents whose save a crash cut short
    saves,          \* saves the clients have asked for
    restarts

built == <<repository, studio, keyOf, inTree>>

docVars == <<built, document, history, unseeded, job, torn, saves, restarts>>

Ids == 1 .. MaxDocuments
Writers == Clients \cup {Seeder}

NoDocument == [key |-> Nothing, text |-> Nothing, version |-> 0, source |-> Nothing,
               path |-> Nothing, protected |-> FALSE]

NoJob == [pc |-> "idle", key |-> Nothing, text |-> Nothing, id |-> 0, new |-> NoDocument]

Suspends == repository = "postgres"

Documents == {d \in Ids : document[d] # NoDocument}

(* _seed_defaults, with the documents as they were when it began.         *)
(* Governance saves the files that no document was seeded from, the prompt *)
(* studio the prompt files whose key no document has.  It has defaults of  *)
(* its own for a process that is started where there are no prompt files,  *)
(* and saves all of them or none.                                          *)
GovernanceSeeds(docs) == {f \in Files : \A d \in Ids : docs[d].source # f}

PromptSeeds(docs) ==
    IF inTree THEN {f \in Files : \A d \in Ids : docs[d].key # keyOf[f]}
    ELSE {f \in Files : \A d \in Ids : docs[d] = NoDocument}

DocInit ==
    /\ studio \in Studios /\ keyOf \in KeyMaps
    /\ inTree \in BOOLEAN /\ (studio = "governance" => inTree)
    /\ repository \in Repositories \ {IF studio = "governance" THEN "memory" ELSE "file"}
    /\ document = [d \in Ids |-> NoDocument]
    /\ history = {}
    /\ unseeded = Files
    /\ job = [w \in Writers |-> NoJob]
    /\ torn = {} /\ saves = 0 /\ restarts = 0

-----------------------------------------------------------------------------
Fresh == {d \in Ids \ (Documents \cup torn) :
            /\ \A w \in Writers : job[w].id # d
            /\ \A entry \in history : entry[1] # d}

(* _find_existing, or a document of its own *)
Found(key) ==
    LET same == {d \in Documents : document[d].key = key}
    IN  IF same # {} THEN same ELSE Fresh

(* Seeded fault: a document that exists keeps its number. *)
RevisedInPlace(old, w, key, text) ==
    [key |-> key, text |-> text,
     version |-> IF old = NoDocument THEN 1 ELSE old.version,
     source |-> IF w = Seeder THEN text ELSE old.source,
     path |-> old.path, protected |-> old.protected]

(* What upsert makes of the document it found.  Only the PostgreSQL        *)
(* repository copies "protected" and the file's path out of the metadata,  *)
(* and only into a new document; the metadata themselves, and with them    *)
(* the source the seeder looks for, are merged.                            *)
Revised(old, w, key, text) ==
    [key |-> key, text |-> text, version |-> old.version + 1,
     source |-> IF w = Seeder THEN text ELSE old.source,
     path |-> IF old = NoDocument /\ Suspends /\ w = Seeder THEN text ELSE old.path,
     protected |-> IF old = NoDocument THEN Suspends /\ w = Seeder ELSE old.protected]

Entry(d, new) == <<d, new.version, new.text>>

(* The repositories in memory: nothing comes between the two. *)
StoreBoth(w, d, new) ==
    /\ document' = [document EXCEPT ![d] = new]
    /\ history' = history \cup {Entry(d, new)}
    /\ job' = [job EXCEPT ![w] = NoJob]

(* upsert: all at once, or up to the write of the document *)
Upsert(w, key, text) ==
    \E d \in Found(key) :
        LET new == Revised(document[d], w, key, text) IN
           IF Suspends
           THEN /\ job' = [job EXCEPT ![w] = [pc |-> "document", key |-> key, text |-> text,
                                              id |-> d, new |-> new]]
                /\ UNCHANGED <<document, history>>
           ELSE StoreBoth(w, d, new)

WriteDocument(w) ==
    /\ job[w].pc = "document"
    /\ document' = [document EXCEPT ![job[w].id] = job[w].new]
    /\ job' = [job EXCEPT ![w].pc = "version"]
    /\ UNCHANGED <<built, history, unseeded, torn, saves, restarts>>

WriteVersion(w) ==
    /\ job[w].pc = "version"
    /\ history' = history \cup {Entry(job[w].id, job[w].new)}
    /\ job' = [job EXCEPT ![w] = NoJob]
    /\ torn' = torn \ {job[w].id}
    /\ UNCHANGED <<built, document, unseeded, saves, restarts>>

(* _runtime_rules: what the governance engine, which only has the           *)
(* PostgreSQL repository, makes its rules of; the file of a document that  *)
(* has one is read again.                                                  *)
EngineReads(d) ==
    IF document[d].path # Nothing THEN document[d].path ELSE document[d].text

-----------------------------------------------------------------------------
(* ensure_seeded is awaited before the process serves anybody. *)
Serving == unseeded = {} /\ job[Seeder] = NoJob

Seed(f) ==
    /\ f \in unseeded /\ job[Seeder] = NoJob
    /\ Upsert(Seeder, keyOf[f], f)
    /\ unseeded' = unseeded \ {f}
    /\ UNCHANGED <<built, torn, saves, restarts>>

Asks(c) ==
    /\ Serving /\ job[c] = NoJob
    /\ saves < MaxSaves /\ saves' = saves + 1

Save(c, key) ==
    /\ Asks(c)
    /\ Upsert(c, key, c)
    /\ UNCHANGED <<built, unseeded, torn, restarts>>

EarlierTexts(d) == {entry[3] : entry \in {e \in history : e[1] = d}}

(* rollback, restore_version: a save of an earlier version's text *)
Rollback(c, d) ==
    /\ Asks(c)
    /\ d \in Documents
    /\ \E text \in EarlierTexts(d) : Upsert(c, document[d].key, text)
    /\ UNCHANGED <<built, unseeded, torn, restarts>>

(* Governance only; the PostgreSQL repository keeps the history. *)
Delete(d) ==
    /\ Serving /\ studio = "governance"
    /\ d \in Documents /\ ~document[d].protected
    /\ document' = [document EXCEPT ![d] = NoDocument]
    /\ history' = IF Suspends THEN history ELSE {entry \in history : entry[1] # d}
    /\ UNCHANGED <<built, unseeded, job, torn, saves, restarts>>

(* Seeded fault: every start saves every file. *)
LeftToSeedAll(docs) == Files

(* A process that starts lists the documents once. *)
LeftToSeed(docs) ==
    IF studio = "governance" THEN GovernanceSeeds(docs) ELSE PromptSeeds(docs)

Restart ==
    /\ restarts < MaxRestarts
    /\ restarts' = restarts + 1
    /\ LET kept == IF repository = "memory" THEN [d \in Ids |-> NoDocument] ELSE document
       IN  /\ document' = kept
           /\ unseeded' = LeftToSeed(kept)
    /\ history' = IF repository = "memory" THEN {} ELSE history
    /\ torn' = torn \cup {job[w].id : w \in {v \in Writers : job[v].pc = "version"}}
    /\ job' = [w \in Writers |-> NoJob]
    /\ UNCHANGED <<built, saves>>

DocNext ==
    \/ Restart
    \/ \E f \in Files : Seed(f)
    \/ \E c \in Clients, key \in Keys : Save(c, key)
    \/ \E c \in Clients, d \in Ids : Rollback(c, d)
    \/ \E d \in Ids : Delete(d)
    \/ \E w \in Writers : WriteDocument(w) \/ WriteVersion(w)

-----------------------------------------------------------------------------
(* One document for a key, and its history is 1, 2, ... up to its version, *)
(* once each, as long as nothing comes between the steps of a save.  And   *)
(* whatever saves, rollbacks and deletions overlap, the text a document    *)
(* shows is in its history under its number, so that it can be rolled back *)
(* to: unless a save is under way or died between its two writes.          *)
HistoryStands ==
    /\ ~Suspends =>
        /\ \A d, e \in Documents : document[d].key = document[e].key => d = e
        /\ \A d \in Documents :
             LET own == {entry \in history : entry[1] = d} IN
             /\ {entry[2] : entry \in own} = 1 .. document[d].version
             /\ Cardinality(own) = document[d].version
    /\ \A d \in Documents :
         d \notin torn /\ (\A w \in Writers : job[w].id # d) =>
            <<d, document[d].version, document[d].text>> \in history

(* A start of the process only fills in what is missing.  It replaces no   *)
(* edit of a document that came from a file, unless another file claims    *)
(* the same key; and when the process begins to serve, every file has its  *)
(* document: a start that died half way is made up for by the next, except *)
(* for the prompt studio's own defaults.                                   *)
StartsFillIn ==
    [][/\ \A d \in Documents :
            document[d].text \notin Files /\ document[d].source # Nothing
              /\ document'[d].text \in Files /\ unseeded # {}
                => \E f, g \in Files : f # g /\ keyOf[f] = document[d].key
                                           /\ keyOf[g] = document[d].key
       /\ ~Serving /\ Serving' /\ (inTree \/ restarts' = 0) =>
            \A f \in Files : \E d \in Ids : document'[d].key = keyOf[f]]_docVars

(* "Prompt and governance changes are persisted and loaded dynamically.     *)
(* Rollbacks create new versions and affect subsequent executions."        *)
(* (README.md:794): a governance document binds an agent by its text.      *)
EditsTakeEffect ==
    studio = "governance" /\ Suspends =>
        \A d \in Documents : EngineReads(d) = document[d].text
=============================================================================
