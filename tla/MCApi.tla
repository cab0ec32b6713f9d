-------------------------------- MODULE MCApi --------------------------------
(* Small instances, for TLC, of the API's workflows and of a conversation  *)
(* of its chat.  Each behaviour looks at one part; the other does not      *)
(* start.                                                                  *)
EXTENDS ApiWorkflow, ChatJobs

CONSTANTS c1, c2, w1, g1, g2, u1

VARIABLE part

vars == <<apiVars, chatVars, part>>

(* Two messages of the stream that starts a workflow and two of the        *)
(* request it makes.                                                       *)
Four == [r \in Repositories |-> 4]

Init == part \in {"workflows", "chat"} /\ ApiInit /\ ChatInit

Next ==
    /\ UNCHANGED part
    /\ \/ part = "workflows" /\ ApiNext /\ UNCHANGED chatVars
       \/ part = "chat" /\ ChatNext /\ UNCHANGED apiVars

Spec == Init /\ [][Next]_vars /\ ApiFairness
=============================================================================
