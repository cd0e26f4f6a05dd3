-------------------------------- MODULE Gate --------------------------------
(***************************************************************************)
(* The completion gate (gate.ts, runGate): a member works in rounds, each  *)
(* measured by the sources the gate was given, until one passes or the     *)
(* rounds run out.  The strongest source accepts: a hidden suite (L3), the *)
(* task's checks (L2), a reviewer (L1); a reviewer may have to sign off    *)
(* what passed.  A round of checks that breaks one that passed before is   *)
(* rolled back, where the gate owns the tree.                              *)
(*                                                                         *)
(* A tree is a value: what its sources say of it is chosen when they run,  *)
(* so a check may be flaky and a reviewer may change its mind.  Checks     *)
(* leave the tree as a snapshot sees it alone.                             *)
(***************************************************************************)
EXTENDS Integers

CONSTANTS Trees, Checks, MaxRounds,
          Gates     \* gates: [checks, reviewer, hidden, signoff, rollback]

Valid(g) == /\ g.checks # {} \/ g.reviewer \/ g.hidden
            /\ g.signoff => g.reviewer

\* runGate throws on the others before its first round.
ASSUME GateConstants ==
    /\ MaxRounds \in Nat \ {0}
    /\ \A g \in Gates : g.checks \subseteq Checks /\ Valid(g)

VARIABLES
    gate,      \* the gate's sources
    pc, n,     \* where runGate is, and its round
    disk,      \* the working tree
    tree,      \* the tree the gate holds to be in place
    snapshot,  \* the one this round left
    inPlace,   \* the evidence that describes the tree in place
    kept,      \* the last round kept: [round, tree, evidence, passing]
    evidence,  \* this round's, so far
    reply,     \* the sign-off reviewer's
    aborted,   \* the run's signal
    known,     \* [Trees -> Evidence]: what the last round that measured a tree found
    floor,     \* the checks passed by a tree some round started from
    cut        \* the signal came between rounds, or during a member's run or a sign-off

vars == <<gate, pc, n, disk, tree, snapshot, inPlace, kept, evidence, reply, aborted,
          known, floor, cut>>

\* what: "none" | "review" | "checks" | "suite"; signoff: "none" | "yes" | "no".
Evidence == [what : {"none", "review", "checks", "suite"}, passed : BOOLEAN,
             passing : SUBSET Checks, signoff : {"none", "yes", "no"}]
None == [what |-> "none", passed |-> FALSE, passing |-> {}, signoff |-> "none"]
Ends == {"accepted", "rejected", "tamper", "unavailable", "unconfined", "thrown"}

level == IF gate.hidden THEN 3 ELSE IF gate.checks # {} THEN 2 ELSE 1

Go(where) == pc' = where
Found(ev) == evidence' = ev /\ known' = [known EXCEPT ![snapshot] = ev]

\* signal.throwIfAborted(), before a round, after its member and after a sign-off.
Live == ~aborted

ThrowIfAborted ==
    /\ aborted /\ pc \in {"round", "worked", "signed"} /\ Go("thrown")
    /\ UNCHANGED <<gate, n, disk, tree, snapshot, inPlace, kept, evidence, reply, aborted,
                   known, floor, cut>>

\* A member that will not run, a budget stop, a rollback or a record that fails.
Throw ==
    /\ pc \notin Ends /\ Go("thrown")
    /\ UNCHANGED <<gate, n, disk, tree, snapshot, inPlace, kept, evidence, reply, aborted,
                   known, floor, cut>>

\* Where runGate looks at the signal before it goes on.
Heeded == {"round", "working", "worked", "signing", "signed"}

\* The run is cancelled, at any moment.  No abort reaches the checks, and a review or a
\* suite that settles in spite of one counts: runGate looks at the signal there only
\* where they fail.
Abort ==
    /\ ~aborted /\ pc \notin Ends /\ aborted' = TRUE /\ cut' = (pc \in Heeded)
    /\ UNCHANGED <<gate, pc, n, disk, tree, snapshot, inPlace, kept, evidence, reply, known,
                   floor>>

(***************************************************************************)
(* A round                                                                 *)
(***************************************************************************)
StartRound ==
    /\ pc = "round" /\ Live /\ Go("working")
    /\ floor' = IF n = 1 THEN {} ELSE floor \cup known[disk].passing
    /\ UNCHANGED <<gate, n, disk, tree, snapshot, inPlace, kept, evidence, reply, aborted,
                   known, cut>>

Work ==
    /\ pc = "working" /\ Go("worked") /\ disk' \in Trees
    /\ UNCHANGED <<gate, n, tree, snapshot, inPlace, kept, evidence, reply, aborted, known,
                   floor, cut>>

\* The signal is not looked at after the member's run.
SnapshotMut ==
    /\ pc = "worked"
    /\ snapshot' = disk /\ tree' = disk
    /\ \/ gate.hidden /\ Go("tamper")
       \/ n > 1 /\ disk = tree /\ Go("rejected")
       \/ ~(n > 1 /\ disk = tree) /\ Go("measure")
    /\ evidence' = None /\ reply' = "none"
    /\ UNCHANGED <<gate, n, disk, inPlace, kept, aborted, known, floor, cut>>

\* The round's tree, a scan for tampering when there is a suite to reach for, and the end
\* of a member that has stopped changing anything.
Snapshot ==
    /\ pc = "worked" /\ Live
    /\ snapshot' = disk /\ tree' = disk
    /\ \/ gate.hidden /\ Go("tamper")
       \/ n > 1 /\ disk = tree /\ Go("rejected")
       \/ ~(n > 1 /\ disk = tree) /\ Go("measure")
    /\ evidence' = None /\ reply' = "none"
    /\ UNCHANGED <<gate, n, disk, inPlace, kept, aborted, known, floor, cut>>

\* The suite is run only where no check is.
WeighedMut == IF gate.hidden /\ gate.checks = {} THEN "suite" ELSE "weigh"

\* What follows the weaker source, or the accepting one.
Weighed == IF gate.hidden THEN "suite" ELSE "weigh"

CheckEvidence(passing) ==
    [what |-> "checks", passed |-> passing = gate.checks, passing |-> passing, signoff |-> "none"]

\* Only the check that fails first is looked up among those that passed.
BrokeMut(passing) ==
    LET failed == gate.checks \ passing
    IN  failed # {} /\ (CHOOSE c \in failed : TRUE) \in kept.passing

\* A check that passed in the round kept, and fails.
Broke(passing) == \E c \in gate.checks \ passing : c \in kept.passing

\* Every check runs.  A round that broke one is put back, with the evidence of the round
\* put back to; any other round is kept.
Check ==
    /\ pc = "measure" /\ gate.checks # {}
    /\ \E passing \in SUBSET gate.checks :
         /\ Found(CheckEvidence(passing))
         /\ \/ /\ level = 2 /\ Broke(passing) /\ gate.rollback
               /\ disk' = kept.tree /\ tree' = kept.tree /\ inPlace' = kept.evidence
               /\ UNCHANGED kept
            \/ /\ ~(level = 2 /\ Broke(passing) /\ gate.rollback)
               /\ kept' = [round |-> n, tree |-> snapshot, evidence |-> CheckEvidence(passing),
                           passing |-> passing]
               /\ inPlace' = CheckEvidence(passing)
               /\ UNCHANGED <<disk, tree>>
    /\ Go(Weighed)
    /\ UNCHANGED <<gate, n, snapshot, reply, aborted, floor, cut>>

\* What a source without commands says.
Verdict(what, passed) ==
    [what |-> what, passed |-> passed, passing |-> {}, signoff |-> "none"]

\* With no checks, the reviewer: a verdict, or unavailable twice, which ends a gate the
\* review decides and leaves the others without its feedback.
Review ==
    /\ pc = "measure" /\ gate.checks = {} /\ gate.reviewer
    /\ \/ \E passed \in BOOLEAN :
            /\ Found(Verdict("review", passed))
            /\ inPlace' = evidence' /\ Go(Weighed)
       \/ /\ ~aborted \* an aborted review that fails throws
          /\ Go(IF level = 1 THEN "unavailable" ELSE "suite")
          /\ UNCHANGED <<inPlace, evidence, known>>
    /\ UNCHANGED <<gate, n, disk, tree, snapshot, kept, reply, aborted, floor, cut>>

\* Neither: the suite alone.
NoFeedback ==
    /\ pc = "measure" /\ gate.checks = {} /\ ~gate.reviewer /\ Go("suite")
    /\ UNCHANGED <<gate, n, disk, tree, snapshot, inPlace, kept, evidence, reply, aborted,
                   known, floor, cut>>

\* The hidden suite on the snapshot: unavailable twice, or run unconfined, ends the gate.
Suite ==
    /\ pc = "suite"
    /\ \/ \E passed \in BOOLEAN :
            /\ Found(Verdict("suite", passed))
            /\ inPlace' = evidence' /\ Go("weigh")
       \/ /\ ~aborted /\ Go("unavailable") /\ UNCHANGED <<inPlace, evidence, known>>
       \/ Go("unconfined") /\ UNCHANGED <<inPlace, evidence, known>>
    /\ UNCHANGED <<gate, n, disk, tree, snapshot, kept, reply, aborted, floor, cut>>

\* Evidence that passes is read by a reviewer where a sign-off is asked for.
AskSignoff ==
    /\ pc = "weigh" /\ evidence.passed /\ gate.signoff /\ Go("signing")
    /\ UNCHANGED <<gate, n, disk, tree, snapshot, inPlace, kept, evidence, reply, aborted,
                   known, floor, cut>>

\* The reviewer's reply, that of a review a cancel ended early included, or two failures.
Reply ==
    /\ pc = "signing"
    /\ \/ Go("signed") /\ reply' \in {"yes", "no"}
       \/ ~aborted /\ Go("unavailable") /\ UNCHANGED reply
    /\ UNCHANGED <<gate, n, disk, tree, snapshot, inPlace, kept, evidence, aborted, known,
                   floor, cut>>

\* The evidence, once its change was read.
Signed == [what |-> evidence.what, passed |-> reply = "yes", passing |-> evidence.passing,
           signoff |-> reply]

\* The round kept is left with what its checks alone said.
SignoffMut ==
    /\ pc = "signed" /\ Live /\ Go("record")
    /\ Found(Signed)
    /\ inPlace' = evidence'
    /\ UNCHANGED <<gate, n, disk, tree, snapshot, kept, reply, aborted, floor, cut>>

Signoff ==
    /\ pc = "signed" /\ Live /\ Go("record")
    /\ Found(Signed)
    /\ inPlace' = evidence'
    /\ kept' = IF kept.round = n THEN [kept EXCEPT !.evidence = evidence'] ELSE kept
    /\ UNCHANGED <<gate, n, disk, tree, snapshot, reply, aborted, floor, cut>>

NoSignoff ==
    /\ pc = "weigh" /\ ~(evidence.passed /\ gate.signoff) /\ Go("record")
    /\ UNCHANGED <<gate, n, disk, tree, snapshot, inPlace, kept, evidence, reply, aborted,
                   known, floor, cut>>

\* The round is recorded, and is the last if it passed or no round is left.
Record ==
    /\ pc = "record"
    /\ \/ evidence.passed /\ Go("accepted") /\ n' = n
       \/ ~evidence.passed /\ n = MaxRounds /\ Go("rejected") /\ n' = n
       \/ ~evidence.passed /\ n < MaxRounds /\ Go("round") /\ n' = n + 1
    /\ UNCHANGED <<gate, disk, tree, snapshot, inPlace, kept, evidence, reply, aborted,
                   known, floor, cut>>

Init ==
    /\ gate \in Gates /\ pc = "round" /\ n = 1
    /\ disk \in Trees /\ tree = disk /\ snapshot = disk
    /\ inPlace = None /\ evidence = None /\ reply = "none"
    /\ kept = [round |-> 0, tree |-> disk, evidence |-> None, passing |-> {}]
    /\ known = [t \in Trees |-> None] /\ floor = {}
    /\ aborted = FALSE /\ cut = FALSE

Step ==
    \/ ThrowIfAborted \/ StartRound \/ Work \/ Snapshot \/ Check \/ Review \/ NoFeedback
    \/ Suite \/ AskSignoff \/ Reply \/ Signoff \/ NoSignoff \/ Record

Next == Step \/ Throw \/ Abort

Spec == Init /\ [][Next]_vars

(***************************************************************************)
(* Properties                                                              *)
(***************************************************************************)
\* The shape of the state; the gate's rounds stay within the cap.
TypeOK ==
    /\ pc \in Ends \cup {"round", "working", "worked", "measure", "suite", "weigh", "signing",
                         "signed", "record"}
    /\ n \in 1..MaxRounds /\ disk \in Trees /\ tree \in Trees /\ snapshot \in Trees
    /\ inPlace \in Evidence /\ evidence \in Evidence /\ kept.evidence \in Evidence
    /\ reply \in {"none", "yes", "no"}

\* After rounds that failed and were rolled back, what a new round starts from, what the
\* gate compares it with and the evidence reported for it if it changes nothing are all
\* of the tree in the worktree, the reviewer's refusal to sign it off included.
EvidenceInPlace ==
    pc = "round" /\ n > 1 => tree = disk /\ inPlace = known[disk] /\ inPlace.what # "none"

\* A gate that accepts leaves in the worktree the very tree its strongest source passed
\* last, signed off where that is asked for.
AcceptedInPlace ==
    pc = "accepted" =>
        /\ snapshot = disk /\ known[disk].passed
        /\ known[disk].what = <<"review", "checks", "suite">>[level]
        /\ gate.signoff => known[disk].signoff = "yes"

\* Where the gate owns the tree and its checks decide, no round starts from a tree that
\* fails a check which some earlier round's start passed.
NoRegression ==
    pc = "round" /\ n > 1 /\ level = 2 /\ gate.rollback => floor \subseteq known[disk].passing

\* A cancel that comes between rounds, during a member's run or during a sign-off review
\* is the run ending: what the member or the reviewer still gave is not measured, nor
\* recorded as a rejection, nor accepted.  One that comes during the checks, a review that
\* decides or the suite is not covered: a round they pass is accepted (runGate).
CancelEndsTheGate == cut => pc \in Heeded \cup {"thrown"}

\* The gate's state has its shape, its acceptance is of the tree in the worktree, and a
\* cancel at a member or a sign-off ends it.
GateSafe == TypeOK /\ AcceptedInPlace /\ CancelEndsTheGate
=============================================================================
