---------------------------- MODULE RunLanding ----------------------------
(***************************************************************************)
(* What a run's merge train promises the owner of its target.  Work lands  *)
(* in batches that the verifier passed where they land, after the work it  *)
(* waits for; an entry is given up with everything that waits for it; what *)
(* was decided of an entry stays; and a target that fails already is only  *)
(* touched by merging everything, once.  LandTrain is shown to implement   *)
(* this, whatever its waves, bisections, repairs, conflicts and failures.  *)
(***************************************************************************)
CONSTANTS
    Entries,   \* what is to land
    Pieces     \* pieces of work: <<e, 1>> is the work of entry e

VARIABLES
    w,         \* the run: [blockedBy, base, breaks, ...]
    target,    \* the pieces in its target
    fate,      \* [Entries -> {"open", "landed", "ejected"}]
    over       \* "no", "done" when every fate is decided, "stopped" before

vars == <<w, target, fate, over>>

Open == {e \in Entries : fate[e] = "open"}

Fails(content) ==
    \E k \in w.breaks : k.by \subseteq content /\ k.fixed \cap content = {}

\* The target gains the work of S, and no other entry's.
Gains(S) ==
    /\ target' \in SUBSET Pieces /\ target \subseteq target'
    /\ \A e \in Entries : <<e, 1>> \in target' <=> <<e, 1>> \in target \/ e \in S

Decide(S, how) == fate' = [e \in Entries |-> IF e \in S THEN how ELSE fate[e]]

Init ==
    /\ w.blockedBy \in [Entries -> SUBSET Entries] /\ target = w.base
    /\ fate = [e \in Entries |-> "open"] /\ over = "no"

\* A batch lands.  If it is M that could be recorded of it and no more, that is the end.
Land(S, M) ==
    /\ Decide(M, "landed")
    /\ \A e \in S : \A b \in w.blockedBy[e] : fate[b] = "landed"
    /\ Gains(S) /\ ~Fails(target')
    /\ over' = "stopped" \/ (over' = "no" /\ M = S)
    /\ UNCHANGED w

\* Everything is merged unverified.
MergeUnverified(S, M) ==
    /\ Fails(w.base) /\ target = w.base /\ Open = Entries
    /\ Gains(S)
    /\ Decide(M, "landed")
    /\ over' = "stopped" \/ (over' = "done" /\ M = S)
    /\ UNCHANGED w

\* Entries are given up, with all that waits for them unless this is where the train stops.
GiveUp(S) ==
    /\ Decide(S, "ejected")
    /\ \/ over' = "stopped"
       \/ /\ \A e \in Open : w.blockedBy[e] \cap S # {} => e \in S
          /\ over' = "no" \/ (over' = "done" /\ S = Open)
    /\ UNCHANGED <<w, target>>

Next ==
    /\ over = "no"
    /\ \E S \in SUBSET Open : (\E M \in SUBSET S : Land(S, M) \/ MergeUnverified(S, M)) \/ GiveUp(S)

Spec == Init /\ [][Next]_vars
=============================================================================
