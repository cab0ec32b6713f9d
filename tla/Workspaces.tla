------------------------------ MODULE Workspaces ------------------------------
(***************************************************************************)
(* A workspace and its projects (core/workspaces, behind                   *)
(* app/services/workspace_management_service.py): create_project reads the *)
(* workspace, stores the project, and stores the workspace it read with    *)
(* the project's id added.  The PostgreSQL store suspends at each of these *)
(* and outlives the process; the in-memory one does neither.               *)
(***************************************************************************)
EXTENDS Naturals

CONSTANTS
    Projects,       \* the projects asked for, one request each
    Stores,         \* "memory", "postgres": the repositories to look at
    MaxCrashes      \* bound on the crashes of the process

VARIABLES
    store,          \* the repository the service was built with
    listed,         \* Workspace.project_ids
    projects,           \* the workspace_projects bucket
    creation,        \* each create_project: its step, and the ids it has read
    raced,     \* history: two requests were in flight at once
    crashes

wsVars == <<store, listed, projects, creation, raced, crashes>>

NoCreation == [pc |-> "new", read |-> {}]

WsInit ==
    /\ store \in Stores
    /\ listed = {} /\ projects = {}
    /\ creation = [p \in Projects |-> NoCreation]
    /\ raced = FALSE /\ crashes = 0

InFlight == {p \in Projects : creation[p].pc \in {"project", "workspace"}}

(* get_workspace; in memory the whole of create_project follows at once.   *)
GetWorkspace(p) ==
    /\ creation[p].pc = "new"
    /\ IF store = "memory"
       THEN /\ projects' = projects \cup {p} /\ listed' = listed \cup {p}
            /\ creation' = [creation EXCEPT ![p].pc = "done"]
            /\ UNCHANGED raced
       ELSE /\ creation' = [creation EXCEPT ![p] = [pc |-> "project", read |-> listed]]
            /\ raced' = (raced \/ InFlight # {})
            /\ UNCHANGED <<listed, projects>>
    /\ UNCHANGED <<store, crashes>>

SaveProject(p) ==
    /\ creation[p].pc = "project"
    /\ projects' = projects \cup {p}
    /\ creation' = [creation EXCEPT ![p].pc = "workspace"]
    /\ UNCHANGED <<store, listed, raced, crashes>>

(* Seeded fault: the ids are replaced. *)
SaveWorkspaceAfresh(p) ==
    /\ creation[p].pc = "workspace"
    /\ listed' = {p}
    /\ creation' = [creation EXCEPT ![p].pc = "done"]
    /\ UNCHANGED <<store, projects, raced, crashes>>

SaveWorkspace(p) ==
    /\ creation[p].pc = "workspace"
    /\ listed' = creation[p].read \cup {p}
    /\ creation' = [creation EXCEPT ![p].pc = "done"]
    /\ UNCHANGED <<store, projects, raced, crashes>>

(* The process stops; with the in-memory repository everything goes, the   *)
(* workspace the later requests would be for with it.                      *)
Crash ==
    /\ crashes < MaxCrashes
    /\ crashes' = crashes + 1
    /\ IF store = "memory" THEN listed' = {} /\ projects' = {} ELSE UNCHANGED <<listed, projects>>
    /\ creation' = [p \in Projects |->
         IF store # "memory" /\ creation[p].pc = "new" THEN creation[p]
         ELSE [creation[p] EXCEPT !.pc = "gone"]]
    /\ UNCHANGED <<store, raced>>

WsNext ==
    \/ Crash
    \/ \E p \in Projects : GetWorkspace(p) \/ SaveProject(p) \/ SaveWorkspace(p)

-----------------------------------------------------------------------------
(* isolation_summary counts the stored projects, the workspace lists ids:  *)
(* every id is a project's, and the two agree unless two requests          *)
(* raced or a crash came between the two writes of one.                    *)
WorkspaceListsItsProjects ==
    /\ listed \subseteq projects
    /\ ~raced /\ crashes = 0 => projects \ listed \subseteq InFlight
=============================================================================
