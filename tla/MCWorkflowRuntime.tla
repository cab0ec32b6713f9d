-------------------------- MODULE MCWorkflowRuntime --------------------------
(* Small instances of WorkflowRuntime for TLC. *)
EXTENDS WorkflowRuntime

CONSTANT s1

Request(enabled, mode, pauseAfter) ==
    [enabled |-> enabled, mode |-> mode, pauseAfter |-> pauseAfter, repair |-> FALSE]

(* The whole lane, with and without a pause; the two shorter modes; lanes  *)
(* that skip stages; and a lane with QA and no developer to send work to.  *)
MCRequests ==
    { Request({}, "full", None),
      Request({}, "full", "qa"),
      Request({}, "ba_architect", "ba"),
      Request({"architect", "developer", "qa"}, "ba_only", "architect"),
      Request({}, "ba_only", None),
      Request({"ba", "qa", "docs"}, "full", None) }

MCOneOwner == [s \in Sessions |-> "backend"]

MCOwners == {"backend", "langgraph-worker"}
=============================================================================
