------------------------- MODULE MCBoardWorkers -------------------------
(***************************************************************************)
(* Small teams for BoardWorkers.                                           *)
(***************************************************************************)
EXTENDS BoardWorkers, TLC

\* Two tasks free to start and one that waits on the first.
MCBlockedBy == [t \in Tasks |-> IF t = 3 THEN {1} ELSE {}]

\* A chain of two.
MCChain == [t \in Tasks |-> IF t = 2 THEN {1} ELSE {}]

MCNoMin == [t \in Tasks |-> 0]

MCMinL3 == [t \in Tasks |-> 3]

MCGateL2 == [t \in Tasks |-> 2]

MCGateL3 == [t \in Tasks |-> 3]

Symmetry == Permutations(Members)
=========================================================================
