--------------------------- MODULE MCExecutionStore ---------------------------
(* Small instances of ExecutionStore for TLC. *)
EXTENDS ExecutionStore

CONSTANTS c1, c2, w

Request(enabled, mode, pauseAfter) ==
    [enabled |-> enabled, mode |-> mode, pauseAfter |-> pauseAfter, repair |-> FALSE]

(* The whole sequence, with and without a pause before QA's rework. *)
MCWholeLane == { Request({}, "full", None), Request({}, "full", "qa") }

(* A plan without the developer, which a QA rejection makes unroutable. *)
MCQaOnly == { Request({"qa"}, "full", None) }

MCFirstStage == { Request({}, "ba_only", None) }
=============================================================================
