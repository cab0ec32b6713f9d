--------------------------- MODULE MCWorkflowPairs ---------------------------
(* A small instance of WorkflowRuntime, for TLC, of two sessions at a time *)
(* at work on one execution: two of the backend's runtime and one of the   *)
(* worker's, of which any two may be in flight.                            *)
EXTENDS WorkflowRuntime, FiniteSets, TLC

CONSTANTS s1, s2, s3

(* Enough of the lane for two sessions to get in each other's way. *)
ShortRequests ==
    { [enabled |-> {"developer", "qa", "docs"}, mode |-> "full", pauseAfter |-> None, repair |-> FALSE],
      [enabled |-> {"developer", "qa"}, mode |-> "full", pauseAfter |-> "developer", repair |-> FALSE] }

TwoOwners == {"backend", "langgraph-worker"}
ThirdIsForeign == [s \in Sessions |-> IF s = s3 THEN "langgraph-worker" ELSE "backend"]

(* The backend's sessions are alike. *)
BackendsAreAlike == Permutations({s1, s2})

TwoAtOnce == Cardinality({s \in Sessions : run[s] # NoRun}) <= 2
=============================================================================
