---------------------------- MODULE ArtifactFiles ----------------------------
(***************************************************************************)
(* The files a workflow leaves in its artifact directory                   *)
(* (app/services/execution_service.py, _persist_agent_artifact_bundle and  *)
(* what it calls): each attempt of an agent writes what its answer has     *)
(* over what earlier attempts left, nothing is ever removed, and for the   *)
(* BA and the architect the gaps are then filled from templates and an     *)
(* index and reports are written.  A file is who wrote it, in which        *)
(* attempt, and whether _is_sparse_markdown finds it sparse; its text is   *)
(* left out.                                                               *)
(***************************************************************************)
EXTENDS Naturals, FiniteSets

CONSTANTS
    Answers,        \* what an answer may have, subsets of Parts
    Drafts,         \* the documents it may have: functions from files to depths
    MaxBundles      \* bound on the attempts

VARIABLES
    writer,         \* the agent whose directory is looked at
    dir,            \* the files that exist
    index,          \* the files the last index saw, and the number repaired
    bundles,        \* attempts so far
    answer          \* the last one: its parts, its documents, failed or not

artVars == <<writer, dir, index, bundles, answer>>

Depths == {"sparse", "full"}

(* What a snapshot's metadata may hold. *)
Parts == {"prompt", "raw", "summary", "structured", "handoff", "fixes", "report",
          "secrets", "warnings", "errors", "repaired", "normalized", "repair_report",
          "extraction", "markdown"}

(* The part each file is written from; all the conditions must hold.       *)
Needs ==
    [prompt |-> {"prompt"}, structured_output |-> {"structured"},
     governance_report |-> {"report"}, governance_secret_scan_report |-> {"report", "secrets"},
     governance_warnings |-> {"warnings"}, repaired_output |-> {"repaired"},
     normalized_output |-> {"normalized"}, repair_report |-> {"repair_report"},
     qa_semantic_extraction_report |-> {"normalized", "extraction"}]

(* The files of one bundle, before the agent's own: raw_output falls back  *)
(* to the summary, handoff.md to the structured summary and the summary,   *)
(* and the errors are written only when the agent failed.                  *)
BundleFiles(a, parts, failed) ==
    {f \in DOMAIN Needs : Needs[f] \subseteq parts}
    \cup (IF {"raw", "summary"} \cap parts # {} THEN {"raw_output"} ELSE {})
    \cup (IF "structured" \in parts /\ {"handoff", "summary"} \cap parts # {}
          THEN {"handoff"} ELSE {})
    \cup (IF a = "qa" /\ {"structured", "fixes"} \subseteq parts
          THEN {"structured_fix_requests"} ELSE {})
    \cup (IF failed /\ "errors" \in parts THEN {"validation_error"} ELSE {})
    \cup {"token_report", "execution_log"}

(* _persist_developer_files, and the documentation of the docs agent.      *)
AgentFiles(a, parts) ==
    CASE a = "developer" /\ "structured" \in parts -> {"generated_project", "patch"}
      [] a = "docs" /\ {"markdown", "raw", "summary"} \cap parts # {} -> {"documentation"}
      [] OTHER -> {}

BaRequired == {"mvp_page_matrix", "navigation_structure", "application_shell",
               "roadmap_priorities", "frontend_mvp_expectations"}

(* The architect's templates, those that are themselves sparse apart.      *)
ThinTemplates == {"architecture", "module_decomposition", "api_contracts", "technical_risks",
                  "architect_quality_report", "diagrams"}
RichTemplates == {"openapi_draft", "database_design", "backend_architecture",
                  "observability_plan", "developer_handoff"}
ArchitectRequired == ThinTemplates \cup RichTemplates

RequiredFiles(a) ==
    CASE a = "ba" -> BaRequired [] a = "architect" -> ArchitectRequired [] OTHER -> {}
TemplateDepth(f) == IF f \in ThinTemplates THEN "sparse" ELSE "full"

File(who, depth) == [by |-> who, depth |-> depth, at |-> bundles + 1]

Without == [f \in {} |-> "full"]
ArtInit ==
    /\ writer \in {"ba", "architect", "developer", "qa", "docs"}
    /\ dir = [f \in {} |-> [by |-> "answer", depth |-> "full", at |-> 0]]
    /\ index = [seen |-> {}, repaired |-> {}]
    /\ bundles = 0
    /\ answer = [parts |-> {}, documents |-> Without, failed |-> FALSE]

(* The directory after the answer's own files. *)
Written(parts, documents, failed) ==
    LET plain == BundleFiles(writer, parts, failed) \cup AgentFiles(writer, parts)
    IN  [f \in plain \cup DOMAIN documents \cup DOMAIN dir |->
            IF f \in DOMAIN documents THEN File("answer", documents[f])
            ELSE IF f \in plain THEN File("answer", "full") ELSE dir[f]]

(* Seeded fault: what the answer at hand does not have is repaired. *)
GapsOfTheAnswer(files) ==
    {f \in RequiredFiles(writer) : f \notin DOMAIN files \/ files[f].at # bundles + 1}

(* Required files that are missing or sparse. *)
Gaps(files) ==
    {f \in RequiredFiles(writer) : f \notin DOMAIN files \/ files[f].depth = "sparse"}

(* The index, built after the repair and before the reports.               *)
Indexed(files, repaired) == [seen |-> DOMAIN files, repaired |-> repaired]

(* _finalize_ba_artifacts, _finalize_architect_artifacts: templates into   *)
(* the gaps, the index, and the reports over whatever is there.            *)
Reports(a) ==
    IF a = "ba" THEN {"ba_artifact_index", "artifact_completeness_report", "ba_quality_report"}
    ELSE {"architect_artifact_index", "architect_quality_report"}
Finalized(files) ==
    LET gaps == Gaps(files)
        filled == [f \in DOMAIN files \cup gaps |->
            IF f \in gaps THEN File("template", TemplateDepth(f)) ELSE files[f]]
    IN  /\ index' = Indexed(filled, gaps)
        /\ dir' = [f \in DOMAIN filled \cup Reports(writer) |->
            IF f \in Reports(writer) THEN File("report", "full") ELSE filled[f]]

(* One agent_completed or agent_failed event of the writer. *)
Bundle ==
    /\ bundles < MaxBundles
    /\ \E parts \in Answers, failed \in BOOLEAN, documents \in Drafts :
        /\ DOMAIN documents \subseteq RequiredFiles(writer)
        /\ failed \/ "errors" \notin parts
        /\ answer' = [parts |-> parts, documents |-> documents, failed |-> failed]
        /\ LET files == Written(parts, documents, failed) IN
           IF writer \in {"ba", "architect"} THEN Finalized(files)
           ELSE dir' = files /\ UNCHANGED index
    /\ bundles' = bundles + 1
    /\ UNCHANGED writer

-----------------------------------------------------------------------------
(* _collect_artifact_quality_summary: the file an agent is judged by, and  *)
(* the weakness of having none.                                            *)
JudgedBy == IF "structured_output" \in DOMAIN dir THEN "structured_output"
            ELSE IF "raw_output" \in DOMAIN dir THEN "raw_output" ELSE "nothing"

Improve ==
    /\ bundles > 0 /\ "improvements" \notin DOMAIN dir
    /\ dir' = [f \in DOMAIN dir \cup {"improvements"} |->
                 IF f = "improvements" THEN [File(JudgedBy, "full") EXCEPT !.at = bundles]
                 ELSE dir[f]]
    /\ UNCHANGED <<writer, index, bundles, answer>>

ArtNext == Bundle \/ Improve

-----------------------------------------------------------------------------
(* After an attempt of the BA or the architect every required file is      *)
(* there, the sparse ones are templates that are sparse themselves, and    *)
(* the index saw each of them, failed attempts included.                   *)
RequiredFilesStand ==
    bundles > 0 /\ writer \in {"ba", "architect"} =>
        /\ RequiredFiles(writer) \subseteq DOMAIN dir \cap index.seen
        /\ \A f \in RequiredFiles(writer) :
              dir[f].depth = "sparse" => f \in ThinTemplates /\ f \in index.repaired

(* Filling the gaps leaves the required files in order and never costs     *)
(* work: a document of substance that some attempt wrote stays until a     *)
(* later answer has that document again, whatever the attempts in between  *)
(* failed to produce.                                                      *)
ArtifactsStand ==
    [][/\ RequiredFilesStand'
       /\ \A f \in DOMAIN dir :
            dir[f].by = "answer" /\ dir[f].depth = "full"
              /\ f \in RequiredFiles(writer) \ Reports(writer) =>
                f \in DOMAIN dir' /\ (dir'[f] = dir[f] \/ f \in DOMAIN answer'.documents)]_artVars
=============================================================================
