--------------------------- MODULE MCBlockPrediction ---------------------------
(* An instance of BlockPrediction for model checking. *)
EXTENDS BlockPrediction

CONSTANTS r1, r2, r3

ThreeRequests == {r1, r2, r3}

\* Whole and broken quotients both occur.
OneCountdown == {[blocks |-> 3, seconds |-> 2]}
================================================================================
