---------------------------- MODULE MCRunBudget ----------------------------
(* A budget for the run, for one of its tasks, or for both. *)
EXTENDS RunBudget

MCBudgets == {[s \in Scopes |-> IF s = "run" THEN r ELSE IF s = "t1" THEN k ELSE 0] :
                r \in {0, 1}, k \in {0, 1}}
=============================================================================
