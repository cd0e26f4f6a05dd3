------------------------------- MODULE MCGate -------------------------------
(* Every gate over the checks: with and without a reviewer, a suite, a sign-off and a *)
(* tree of its own.                                                                   *)
EXTENDS Gate

MCGates == {g \in [checks : SUBSET Checks, reviewer : BOOLEAN, hidden : BOOLEAN,
                   signoff : BOOLEAN, rollback : BOOLEAN] : Valid(g)}
=============================================================================
