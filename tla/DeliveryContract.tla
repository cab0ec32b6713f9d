-------------------------- MODULE DeliveryContract --------------------------
(***************************************************************************)
(* What a client of the delivery workflow may rely on, seen only through   *)
(* the persisted execution record: which planned stages stand, how often   *)
(* QA has rejected, and the status.  There are no sessions, attempts,      *)
(* checkpoints or locks here; WorkflowRuntime implements this with them.   *)
(***************************************************************************)
EXTENDS DeliveryRouting

VARIABLES
    status,         \* the status of the execution
    plan,           \* the stages it will deliver; {} until the run is routed
    standing,       \* the planned stages whose deliverable stands
    rejections      \* how often QA has rejected the change

contract == <<status, plan, standing, rejections>>

Before(a) == {b \in plan : Rank[b] < Rank[a]}

Init ==
    /\ status = "absent"
    /\ plan = {}
    /\ standing = {}
    /\ rejections = 0

Begin ==
    /\ status = "absent"
    /\ status' = "running"
    /\ UNCHANGED <<plan, standing, rejections>>

Adopt(p) ==
    /\ status \in {"running", "cancelled"}
    /\ plan = {}
    /\ plan' = p
    /\ UNCHANGED <<status, standing, rejections>>

(* A stage is only ever delivered on top of the whole plan before it; the  *)
(* stage in hand when a cancellation arrives may still be delivered.       *)
Deliver(a) ==
    /\ status \in {"running", "cancelled"}
    /\ a \in plan \ standing
    /\ Before(a) \subseteq standing
    /\ standing' = standing \cup {a}
    /\ UNCHANGED <<status, plan, rejections>>

(* QA rejects the change it was given: the developer's stage falls. *)
Reject ==
    /\ status \in {"running", "cancelled"}
    /\ "qa" \in plan \ standing
    /\ Before("qa") \subseteq standing
    /\ rejections <= MaxQaRejectionLoops
    /\ rejections' = rejections + 1
    /\ standing' = standing \ {"developer"}
    /\ UNCHANGED <<status, plan>>

(* The run ends.  A cancellation that came too late for the run to notice  *)
(* is overwritten by how the run ended.                                    *)
Settle ==
    /\ status \in {"running", "cancelled"}
    /\ \/ status' = "completed" /\ plan # {} /\ standing = plan
       \/ status' = "failed"
       \/ status' = "paused" /\ standing # plan
    /\ UNCHANGED <<plan, standing, rejections>>

Resume ==
    /\ status = "paused"
    /\ status' = "running"
    /\ UNCHANGED <<plan, standing, rejections>>

Cancel ==
    /\ status # "absent"
    /\ status' = "cancelled"
    /\ UNCHANGED <<plan, standing, rejections>>

Next ==
    \/ Begin
    \/ \E p \in (SUBSET Agents) \ {{}} : Adopt(p)
    \/ \E a \in Agents : Deliver(a)
    \/ Reject
    \/ Settle
    \/ Resume
    \/ Cancel

Spec == Init /\ [][Next]_contract
=============================================================================
