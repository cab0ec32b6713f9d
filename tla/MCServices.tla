----------------------------- MODULE MCServices -----------------------------
(* Small instances, for TLC, of what the services keep beside the          *)
(* workflows: documents, workspaces, the events of a run and the views of  *)
(* them, the artifact files, and the playground.  Each behaviour looks at  *)
(* one part; the others do not start.                                      *)
EXTENDS VersionedDocuments, Workspaces, EventStream, ArtifactFiles, Playground, TLC

CONSTANTS f1, f2, k1, k2, c1, c2, p1, p2, p3, s1, r1, r2, r3

VARIABLE part

vars == <<docVars, wsVars, eventVars, artVars, playVars, part>>

(* Two files of two kinds, or of one. *)
TwoTrees == {(f1 :> k1) @@ (f2 :> k2), (f1 :> k1) @@ (f2 :> k1)}

(* What an attempt may bring: nothing, little, its failure, all of it, all *)
(* but the text it was made from.                                          *)
FewAnswers ==
    {{}, {"raw", "structured", "handoff", "prompt"}, {"summary", "errors"},
     Parts \ {"errors"}, Parts \ {"raw", "errors"}}

FewDrafts ==
    {Without} \cup [{"mvp_page_matrix"} -> Depths]
    \cup [{"mvp_page_matrix", "navigation_structure"} -> Depths]
    \cup [{"architecture"} -> Depths] \cup [{"architecture", "database_design"} -> Depths]

TwoAgents == <<"architect", "ba">>

Alike == Permutations(Clients) \cup Permutations(Requests)

Init ==
    /\ part \in {"documents", "workspaces", "events", "artifacts", "playground"}
    /\ DocInit /\ WsInit /\ EventInit /\ ArtInit /\ PlayInit
    /\ part # "documents" =>
         repository = "postgres" /\ studio = "prompts" /\ keyOf[f1] # keyOf[f2] /\ inTree
    /\ part # "workspaces" => store = "memory"
    /\ part # "events" => bus = "memory"
    /\ part # "artifacts" => writer = "ba"
    /\ part # "playground" => ~db

Next ==
    /\ UNCHANGED part
    /\ \/ part = "documents" /\ DocNext /\ UNCHANGED <<wsVars, eventVars, artVars, playVars>>
       \/ part = "workspaces" /\ WsNext /\ UNCHANGED <<docVars, eventVars, artVars, playVars>>
       \/ part = "events" /\ EventNext /\ UNCHANGED <<docVars, wsVars, artVars, playVars>>
       \/ part = "artifacts" /\ ArtNext /\ UNCHANGED <<docVars, wsVars, eventVars, playVars>>
       \/ part = "playground" /\ PlayNext /\ UNCHANGED <<docVars, wsVars, eventVars, artVars>>

Spec == Init /\ [][Next]_vars
=============================================================================
