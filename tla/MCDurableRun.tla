-------------------------- MODULE MCDurableRun --------------------------
(***************************************************************************)
(* Two or three hosts for DurableRun.                                      *)
(***************************************************************************)
EXTENDS DurableRun, TLC

Symmetry == Permutations(Hosts)
=========================================================================
