------------------------------ MODULE Playground ------------------------------
(***************************************************************************)
(* The agent playground and the uploads of the execution service           *)
(* (app/services/execution_service.py): single agents run by hand on one   *)
(* workflow, each run's artifact appended to a list in memory and then     *)
(* stored, its handoff edited and stored again; and the documents uploaded *)
(* for later workflows.  With PostgreSQL every store operation suspends,   *)
(* and the store outlives the process; without it there is no store.       *)
(***************************************************************************)
EXTENDS Naturals, Sequences, SequencesExt

CONSTANTS
    Requests,       \* the requests, one each
    Agents,         \* the agents asked for, in the order of their names
    MaxReboots      \* bound on the restarts of the process

ASSUME PlaygroundAssumption ==
    /\ Requests \cap {"none", "upload", "absent"} = {}
    /\ MaxReboots \in Nat

VARIABLES
    db,             \* whether there is a store
    list,           \* _playground_artifacts of the workflow
    kept,           \* the agent_playground_artifacts bucket
    uploads,        \* _uploads, and the uploads bucket
    request,        \* each request: its step and what it holds
    due,            \* history: each artifact as it was last produced or edited
    overlapped,     \* history: the artifacts two writes of which overlapped
    reboots

playVars == <<db, list, kept, uploads, request, due, overlapped, reboots>>

NoArtifact == [id |-> "none", agent |-> "none", handoff |-> "none"]
NoRequest == [pc |-> "new", on |-> "none", text |-> "none", artifact |-> NoArtifact,
              rows |-> {}]

PlayInit ==
    /\ db \in BOOLEAN
    /\ list = <<>> /\ kept = {} /\ overlapped = {} /\ reboots = 0
    /\ due = [r \in Requests |-> NoArtifact]
    /\ uploads = [memory |-> {}, store |-> {}]
    /\ request = [r \in Requests |-> NoRequest]

Listed == {list[i].id : i \in DOMAIN list}
Latest(a) ==
    LET candidates == {i \in DOMAIN list : a = "any" \/ list[i].agent = a}
    IN  {list[i].handoff : i \in {j \in candidates : \A k \in candidates : k <= j}}

(* run_agent_playground reads its input from the last artifact in memory,  *)
(* with the manual prompt to fall back on, and runs the agent.             *)
RunStarts(r) ==
    /\ request[r].pc = "new"
    /\ \E text \in {"manual"} \cup UNION {Latest(a) : a \in ToSet(Agents) \cup {"any"}} :
        request' = [request EXCEPT ![r].pc = "running", ![r].text = text]
    /\ UNCHANGED <<db, list, kept, uploads, due, overlapped, reboots>>

Stored(artifact) == {x \in kept : x.id # artifact.id} \cup {artifact}

Storing(id) == \E q \in Requests : request[q].pc = "storing" /\ request[q].on = id

(* What is left of a request that has something to store. *)
Keeping(r, artifact) ==
    [request EXCEPT ![r] = [@ EXCEPT !.pc = IF db THEN "storing" ELSE "answered",
                                     !.on = artifact.id, !.artifact = artifact]]

(* The agent's answer: the artifact is appended, then stored.              *)
RunEnds(r) ==
    /\ request[r].pc = "running"
    /\ \E a \in ToSet(Agents) :
        LET artifact == [id |-> r, agent |-> a, handoff |-> "derived"]
        IN  /\ list' = Append(list, artifact) /\ request' = Keeping(r, artifact)
            /\ due' = [due EXCEPT ![r] = artifact]
    /\ UNCHANGED <<db, kept, uploads, overlapped, reboots>>

(* _persist_playground_artifact.                                           *)
StoreArtifact(r) ==
    /\ request[r].pc = "storing"
    /\ kept' = Stored(request[r].artifact)
    /\ request' = [request EXCEPT ![r].pc = "answered"]
    /\ UNCHANGED <<db, list, uploads, due, overlapped, reboots>>

Position(id) == CHOOSE i \in DOMAIN list : list[i].id = id

(* update_playground_handoff of an artifact the list has.                  *)
Edited(r, id) ==
    /\ list' = [list EXCEPT ![Position(id)].handoff = r]
    /\ request' = Keeping(r, list'[Position(id)])

(* update_playground_handoff: only what the list in memory has is found.   *)
Edit(r) ==
    /\ request[r].pc = "new"
    /\ \E id \in Requests :
        IF id \in Listed
        THEN /\ Edited(r, id)
             /\ due' = [due EXCEPT ![id] = list'[Position(id)]]
             /\ overlapped' = overlapped \cup (IF Storing(id) THEN {id} ELSE {})
        ELSE /\ request' = [request EXCEPT ![r].pc = "refused"]
             /\ UNCHANGED <<list, due, overlapped>>
    /\ UNCHANGED <<db, kept, uploads, reboots>>

(* list_agent_playground_artifacts loads the store only when the list is   *)
(* empty, and puts what it read in the list's place: the store's order is  *)
(* by the agent's name, then by times that are not modelled.               *)
AgentRank(a) == IndexFirstSubSeq(<<a>>, Agents)
ListReads(r) ==
    /\ request[r].pc = "new"
    /\ request' = [request EXCEPT ![r].pc = IF db /\ list = <<>> THEN "querying" ELSE "answered"]
    /\ UNCHANGED <<db, list, kept, uploads, due, overlapped, reboots>>
ListLoads(r) ==
    /\ request[r].pc = "querying"
    /\ request' = [request EXCEPT ![r].pc = "loading", ![r].rows = kept]
    /\ UNCHANGED <<db, list, kept, uploads, due, overlapped, reboots>>
ListReturns(r) ==
    /\ request[r].pc = "loading"
    /\ list' \in {s \in SetToSeqs(request[r].rows) :
                     \A i, j \in DOMAIN s : i < j => AgentRank(s[i].agent) <= AgentRank(s[j].agent)}
    /\ request' = [request EXCEPT ![r].pc = "answered", ![r].rows = {}]
    /\ UNCHANGED <<db, kept, uploads, due, overlapped, reboots>>

(* upload_user_story, upload_file: memory, then the store.                 *)
Upload(r) ==
    /\ request[r].pc = "new"
    /\ uploads' = [uploads EXCEPT !.memory = @ \cup {r}]
    /\ request' = [request EXCEPT ![r].pc = IF db THEN "keeping" ELSE "answered",
                                  ![r].on = "upload"]
    /\ UNCHANGED <<db, list, kept, due, overlapped, reboots>>
UploadKept(r) ==
    /\ request[r].pc = "keeping"
    /\ uploads' = [uploads EXCEPT !.store = @ \cup {r}]
    /\ request' = [request EXCEPT ![r].pc = "answered"]
    /\ UNCHANGED <<db, list, kept, due, overlapped, reboots>>

(* Seeded fault: only memory is looked at. *)
HydrateFromMemory(r) ==
    /\ request[r].pc = "new"
    /\ \E u \in Requests :
        /\ request[u].on = "upload"
        /\ request' = [request EXCEPT ![r].pc = "answered", ![r].on = u,
                ![r].text = IF u \in uploads.memory THEN "context" ELSE "absent"]
    /\ UNCHANGED <<db, list, kept, uploads, due, overlapped, reboots>>

(* _hydrate_upload_context of a workflow triggered with an upload's id:    *)
(* memory, the store, or the task as it is.                                *)
Hydrate(r) ==
    /\ request[r].pc = "new"
    /\ \E u \in Requests :
        /\ request[u].on = "upload"
        /\ LET found == u \in uploads.memory \cup uploads.store IN
           /\ request' = [request EXCEPT ![r].pc = "answered", ![r].on = u,
                              ![r].text = IF found THEN "context" ELSE "absent"]
           /\ uploads' = IF found THEN [uploads EXCEPT !.memory = @ \cup {u}] ELSE uploads
    /\ UNCHANGED <<db, list, kept, due, overlapped, reboots>>

(* The process ends: memory and the requests in flight are lost.           *)
Reboot ==
    /\ db /\ reboots < MaxReboots
    /\ reboots' = reboots + 1
    /\ list' = <<>> /\ uploads' = [uploads EXCEPT !.memory = {}]
    /\ request' = [r \in Requests |->
         IF request[r].pc \in {"new", "answered", "refused"} THEN request[r]
         ELSE [request[r] EXCEPT !.pc = "cut"]]
    /\ UNCHANGED <<db, kept, due, overlapped>>

PlayNext ==
    \/ Reboot
    \/ \E r \in Requests :
        RunStarts(r) \/ RunEnds(r) \/ StoreArtifact(r) \/ Edit(r) \/ ListReads(r)
            \/ ListLoads(r) \/ ListReturns(r) \/ Upload(r) \/ UploadKept(r) \/ Hydrate(r)

-----------------------------------------------------------------------------
(* What a request was answered for stands, restarts or not: the store has  *)
(* each artifact with its last handoff, unless a write of it is under way, *)
(* was cut short or overlapped another, and a workflow that names an       *)
(* upload gets its context.                                                *)
AnswersStand ==
    /\ \A id \in Requests :
         \/ ~db \/ due[id] = NoArtifact \/ due[id] \in kept
         \/ id \in overlapped \/ Storing(id)
         \/ \E q \in Requests : request[q].pc = "cut" /\ request[q].on = id
    /\ \A r \in Requests :
         request[r].pc = "answered" /\ request[r].text = "absent" =>
             request[request[r].on].pc # "answered"
=============================================================================
