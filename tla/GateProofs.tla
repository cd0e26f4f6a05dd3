----------------------------- MODULE GateProofs -----------------------------
(***************************************************************************)
(* Theorems about the completion gate, for every set of trees, checks and  *)
(* gates and any number of rounds.                                         *)
(*                                                                         *)
(* The invariant follows a round.  Between the rounds and once a round is  *)
(* weighed, the evidence in place is of the tree in the worktree (InPlace, *)
(* Weighing); while the member works, the round kept is the last in place  *)
(* (Working); a round measured differs from it (Measured), so that its     *)
(* evidence can overwrite nothing known of the tree gone back to.          *)
(***************************************************************************)
EXTENDS Gate, TLAPS

Shape ==
    /\ TypeOK /\ gate \in Gates /\ (cut => aborted) /\ CancelEndsTheGate
    /\ kept \in [round : Nat, tree : Trees, evidence : Evidence, passing : SUBSET Checks]
    /\ known \in [Trees -> Evidence]

\* The round kept is what is known of its tree, and its checks are the floor.
KeptKnown ==
    /\ kept.evidence = known[kept.tree] /\ kept.evidence.what # "none"
    /\ kept.passing = kept.evidence.passing

Deciding == level = 2   \* the checks decide

\* What the gate reports is of the tree in the worktree, which is the one kept.
InPlace ==
    /\ tree = disk /\ inPlace = known[disk] /\ inPlace.what # "none"
    /\ Deciding => KeptKnown /\ kept.tree = disk

FirstRound == kept.round = 0 /\ kept.passing = {}

BetweenRounds == pc = "round" => IF n = 1 THEN FirstRound ELSE InPlace /\ kept.round < n

Working ==
    pc \in {"working", "worked"} =>
        /\ kept.round < n
        /\ IF n = 1 THEN FirstRound ELSE Deciding => KeptKnown /\ kept.tree = tree

Measured ==
    pc = "measure" =>
        /\ snapshot = disk /\ tree = disk /\ kept.round < n
        /\ IF n = 1 THEN FirstRound ELSE Deciding => KeptKnown /\ kept.tree # disk

BeforeSuite ==
    pc = "suite" => gate.hidden /\ snapshot = disk /\ tree = disk /\ kept.round <= n

\* This round's evidence, the accepting source's, is the one in place.
OfThisRound ==
    /\ snapshot = disk /\ evidence = inPlace /\ (Deciding => kept.round = n)
    /\ evidence.what = <<"review", "checks", "suite">>[level]

Weighing ==
    pc \in {"weigh", "signing", "signed", "record"} =>
        /\ InPlace /\ kept.round <= n
        /\ evidence.passed \/ pc \in {"signing", "signed"} => OfThisRound
        /\ pc = "record" /\ evidence.passed /\ gate.signoff => evidence.signoff = "yes"

IInv ==
    /\ Shape /\ BetweenRounds /\ Working /\ Measured /\ BeforeSuite /\ Weighing
    /\ AcceptedInPlace

\* The invariant holds before the first round.
LEMMA Initial == Init => IInv
  <1> SUFFICES ASSUME Init PROVE IInv
    OBVIOUS
  <1> USE GateConstants
  <1>1. Shape
    BY DEF Init, Shape, TypeOK, CancelEndsTheGate, Heeded, Evidence, None, Ends
  <1>2. QED
    BY <1>1 DEF Init, IInv, BetweenRounds, FirstRound, Working, Measured, BeforeSuite,
                Weighing, AcceptedInPlace

\* Every step keeps it.
LEMMA Steps == IInv /\ [Next]_vars => IInv'
  <1> SUFFICES ASSUME IInv, [Next]_vars PROVE IInv'
    OBVIOUS
  <1> USE GateConstants
  <1>0. /\ gate \in Gates /\ gate.checks \subseteq Checks
        /\ gate' = gate /\ level' = level /\ Deciding' = Deciding
        /\ level \in {1, 2, 3}
        /\ level = 3 <=> gate.hidden
        /\ Deciding <=> ~gate.hidden /\ gate.checks # {}
    BY DEF IInv, Shape, Next, Step, ThrowIfAborted, StartRound, Work, Snapshot, Check, Review,
       NoFeedback, Suite, AskSignoff, Reply, Signoff, NoSignoff, Record, Throw, Abort, vars,
       level,
       Deciding
  <1>1. CASE UNCHANGED vars
    BY <1>1, <1>0 DEF vars, IInv, Shape, TypeOK, CancelEndsTheGate, Heeded, BetweenRounds,
       FirstRound, Working, Measured,
       BeforeSuite, Weighing, AcceptedInPlace, InPlace, KeptKnown, OfThisRound
  <1>2. CASE ThrowIfAborted
    BY <1>2, <1>0 DEF ThrowIfAborted, Go, IInv, Shape, TypeOK, CancelEndsTheGate, Heeded, Ends,
       BetweenRounds,
       FirstRound, Working, Measured,
       BeforeSuite, Weighing, AcceptedInPlace, InPlace, KeptKnown, OfThisRound
  <1>3. CASE Throw
    BY <1>3, <1>0 DEF Throw, Go, IInv, Shape, TypeOK, CancelEndsTheGate, Heeded, Ends,
       BetweenRounds, FirstRound,
       Working, Measured,
       BeforeSuite, Weighing, AcceptedInPlace, InPlace, KeptKnown, OfThisRound
  <1>4. CASE Abort
    BY <1>4, <1>0 DEF Abort, IInv, Shape, TypeOK, CancelEndsTheGate, Heeded, Ends,
       BetweenRounds, FirstRound, Working,
       Measured,
       BeforeSuite, Weighing, AcceptedInPlace, InPlace, KeptKnown, OfThisRound
  <1>5. CASE StartRound
    BY <1>5, <1>0 DEF StartRound, Go, IInv, Shape, TypeOK, CancelEndsTheGate, Heeded, Ends,
       BetweenRounds, FirstRound,
       Working, Measured,
       BeforeSuite, Weighing, AcceptedInPlace, InPlace, KeptKnown, OfThisRound
  <1>6. CASE Work
    BY <1>6, <1>0 DEF Work, Go, IInv, Shape, TypeOK, CancelEndsTheGate, Heeded, Ends,
       BetweenRounds, FirstRound,
       Working, Measured,
       BeforeSuite, Weighing, AcceptedInPlace, InPlace, KeptKnown, OfThisRound
  <1>7. CASE Snapshot
    BY <1>7, <1>0 DEF Snapshot, Live, Go, None, IInv, Shape, TypeOK, CancelEndsTheGate, Heeded,
       Ends, Evidence,
       BetweenRounds, FirstRound, Working, Measured,
       BeforeSuite, Weighing, AcceptedInPlace, InPlace, KeptKnown, OfThisRound
  <1>8. CASE Check
    <2> PICK passing \in SUBSET gate.checks : /\ pc = "measure" /\ gate.checks # {}
                                              /\ Found(CheckEvidence(passing)) /\ Go(Weighed)
                                              /\ \/ /\ Deciding /\ Broke(passing) /\ gate.rollback
                                                    /\ disk' = kept.tree /\ tree' = kept.tree
                                                    /\ inPlace' = kept.evidence /\ kept' = kept
                                                 \/ /\ ~(Deciding /\ Broke(passing) /\ gate.rollback)
                                                    /\ kept' = [round |-> n, tree |-> snapshot,
                                                                evidence |-> CheckEvidence(passing),
                                                                passing |-> passing]
                                                    /\ inPlace' = CheckEvidence(passing)
                                                    /\ disk' = disk /\ tree' = tree
                                              /\ UNCHANGED <<gate, n, snapshot, reply, aborted, floor, cut>>
      BY <1>8 DEF Check, Deciding
    <2>1. CheckEvidence(passing) \in Evidence /\ CheckEvidence(passing).what = "checks"
          /\ CheckEvidence(passing).passing = passing
          /\ (CheckEvidence(passing).passed => passing = gate.checks)
      BY <1>0 DEF CheckEvidence, Evidence
    <2>2. Broke(passing) => kept.passing # {} /\ passing # gate.checks
      BY DEF Broke
    <2>3. /\ evidence' = CheckEvidence(passing) /\ known' \in [Trees -> Evidence]
          /\ known'[snapshot] = CheckEvidence(passing)
          /\ \A t \in Trees : t # snapshot => known'[t] = known[t]
          /\ snapshot \in Trees /\ kept.tree \in Trees
      BY <2>1 DEF Found, IInv, Shape, TypeOK, CancelEndsTheGate, Heeded
    <2>9. pc' \in {"suite", "weigh"} /\ (pc' = "suite" <=> gate.hidden)
      BY DEF Weighed, Go
    <2>10. /\ inPlace' \in Evidence /\ disk' \in Trees /\ tree' \in Trees
           /\ kept' \in [round : Nat, tree : Trees, evidence : Evidence, passing : SUBSET Checks]
      BY <1>0, <2>1, <2>3 DEF IInv, Shape, TypeOK, CancelEndsTheGate, Heeded
    <2>4. Shape'
      BY <1>0, <2>1, <2>3, <2>9, <2>10 DEF IInv, Shape, TypeOK, CancelEndsTheGate, Heeded
    <2>5. snapshot = disk /\ tree = disk /\ kept.round < n
          /\ IF n = 1 THEN FirstRound ELSE Deciding => KeptKnown /\ kept.tree # disk
      BY DEF IInv, Measured
    <2>6. CASE Deciding /\ Broke(passing) /\ gate.rollback
      <3>1. InPlace' /\ kept'.round <= n
        BY <1>0, <2>2, <2>3, <2>5, <2>6 DEF InPlace, KeptKnown, FirstRound, IInv, Shape,
           TypeOK, CancelEndsTheGate, Heeded
      <3>2. ~evidence'.passed
        BY <2>1, <2>2, <2>3, <2>6
      <3>3. QED
        BY <1>0, <2>4, <2>6, <2>9, <3>1, <3>2 DEF IInv, BetweenRounds, Working, Measured,
       BeforeSuite,
           Weighing, AcceptedInPlace
    <2>7. CASE ~(Deciding /\ Broke(passing) /\ gate.rollback)
      <3>1. InPlace' /\ kept'.round = n
        BY <1>0, <2>1, <2>3, <2>5, <2>7 DEF InPlace, KeptKnown, IInv, Shape, TypeOK,
           CancelEndsTheGate, Heeded
      <3>2. ~gate.hidden => OfThisRound'
        BY <1>0, <2>1, <2>3, <2>5, <2>7 DEF OfThisRound, IInv, Shape, TypeOK,
           CancelEndsTheGate, Heeded, level
      <3>3. n' = n /\ snapshot' = disk' /\ tree' = disk'
        BY <2>5, <2>7
      <3>4. QED
        BY <1>0, <2>4, <2>9, <3>1, <3>2, <3>3 DEF IInv, Shape, TypeOK, CancelEndsTheGate,
           Heeded, BetweenRounds,
       Working, Measured,
           BeforeSuite, Weighing, AcceptedInPlace
    <2>8. QED
      BY <2>6, <2>7
  <1>9. CASE Review
    <2>1. \A passed \in BOOLEAN : /\ Verdict("review", passed) \in Evidence
                                 /\ Verdict("review", passed).what = "review"
      BY DEF Verdict, Evidence
    <2>2. ASSUME NEW passed \in BOOLEAN, Found(Verdict("review", passed)), inPlace' = evidence',
                 Go(Weighed)
          PROVE  IInv'
      <3>1. /\ evidence' = Verdict("review", passed) /\ known' \in [Trees -> Evidence]
            /\ snapshot \in Trees /\ known'[snapshot] = Verdict("review", passed)
        BY <2>1, <2>2 DEF Found, IInv, Shape, TypeOK, CancelEndsTheGate, Heeded
      <3>2. /\ pc = "measure" /\ gate.checks = {}
            /\ UNCHANGED <<n, disk, tree, snapshot, kept, reply, aborted, floor, cut>>
        BY <1>9 DEF Review
      <3>7. pc' \in {"suite", "weigh"} /\ (pc' = "suite" <=> gate.hidden)
        BY <2>2 DEF Weighed, Go
      <3>3. Shape'
        BY <1>0, <2>1, <2>2, <3>1, <3>2, <3>7 DEF IInv, Shape, TypeOK, CancelEndsTheGate, Heeded
      <3>4. snapshot = disk /\ tree = disk /\ kept.round < n
        BY <3>2 DEF IInv, Measured
      <3>5. InPlace' /\ (~gate.hidden => OfThisRound')
        BY <1>0, <2>1, <2>2, <3>1, <3>2, <3>4 DEF InPlace, OfThisRound, level
      <3>6. QED
        BY <1>0, <3>2, <3>3, <3>4, <3>5, <3>7 DEF IInv, Shape, TypeOK, CancelEndsTheGate,
           Heeded, BetweenRounds,
       Working, Measured,
           BeforeSuite, Weighing, AcceptedInPlace
    <2>3. CASE ~aborted /\ Go(IF level = 1 THEN "unavailable" ELSE "suite")
               /\ UNCHANGED <<inPlace, evidence, known>>
      <3>1. /\ pc = "measure" /\ gate.checks = {}
            /\ UNCHANGED <<n, disk, tree, snapshot, kept, reply, aborted, floor, cut>>
        BY <1>9 DEF Review
      <3>2. /\ Shape' /\ pc' \in {"suite", "unavailable"} /\ (pc' = "suite" => gate.hidden)
        BY <1>0, <2>3, <3>1 DEF IInv, Shape, TypeOK, CancelEndsTheGate, Heeded, Go, Ends, level
      <3>3. snapshot = disk /\ tree = disk /\ kept.round <= n
        BY <3>1 DEF IInv, Measured, Shape, TypeOK, CancelEndsTheGate, Heeded
      <3>4. QED
        BY <1>0, <2>3, <3>1, <3>2, <3>3 DEF IInv, BetweenRounds, Working, Measured,
           BeforeSuite, Weighing, AcceptedInPlace
    <2>4. QED
      BY <1>9, <2>2, <2>3 DEF Review
  <1>10. CASE NoFeedback
    BY <1>10, <1>0 DEF NoFeedback, Valid, Go, IInv, Shape, TypeOK, CancelEndsTheGate, Heeded,
       Ends, BetweenRounds,
       FirstRound, Working, Measured,
       BeforeSuite, Weighing, AcceptedInPlace, InPlace, KeptKnown, OfThisRound
  <1>11. CASE Suite
    <2>1. \A passed \in BOOLEAN : /\ Verdict("suite", passed) \in Evidence
                                 /\ Verdict("suite", passed).what = "suite"
      BY DEF Verdict, Evidence
    <2>2. /\ pc = "suite" /\ gate.hidden /\ snapshot = disk /\ tree = disk /\ kept.round <= n
          /\ UNCHANGED <<n, disk, tree, snapshot, kept, reply, aborted, floor, cut>>
      BY <1>11 DEF Suite, IInv, BeforeSuite
    <2>3. ASSUME NEW passed \in BOOLEAN, Found(Verdict("suite", passed)), inPlace' = evidence',
                 Go("weigh")
          PROVE  IInv'
      <3>1. /\ evidence' = Verdict("suite", passed) /\ known' \in [Trees -> Evidence]
            /\ snapshot \in Trees /\ known'[snapshot] = Verdict("suite", passed)
        BY <2>1, <2>3 DEF Found, IInv, Shape, TypeOK, CancelEndsTheGate, Heeded
      <3>2. pc' = "weigh"
        BY <2>3 DEF Go
      <3>5. Shape'
        BY <1>0, <2>1, <2>2, <2>3, <3>1, <3>2 DEF IInv, Shape, TypeOK, CancelEndsTheGate, Heeded
      <3>3. InPlace' /\ OfThisRound'
        BY <1>0, <2>1, <2>2, <2>3, <3>1 DEF InPlace, OfThisRound, level
      <3>4. QED
        BY <1>0, <2>2, <3>2, <3>3, <3>5 DEF IInv, Shape, TypeOK, CancelEndsTheGate, Heeded,
           BetweenRounds, Working,
       Measured,
           BeforeSuite, Weighing, AcceptedInPlace
    <2>4. CASE (Go("unavailable") \/ Go("unconfined")) /\ UNCHANGED <<inPlace, evidence, known>>
      BY <1>0, <2>2, <2>4 DEF Go, IInv, Shape, TypeOK, CancelEndsTheGate, Heeded, Ends,
         BetweenRounds, Working, Measured,
         BeforeSuite, Weighing, AcceptedInPlace
    <2>5. QED
      BY <1>11, <2>3, <2>4 DEF Suite
  <1>12. CASE AskSignoff
    BY <1>12, <1>0 DEF AskSignoff, Go, IInv, Shape, TypeOK, CancelEndsTheGate, Heeded, Ends,
       BetweenRounds, FirstRound,
       Working, Measured,
       BeforeSuite, Weighing, AcceptedInPlace, InPlace, KeptKnown, OfThisRound
  <1>12a. CASE Reply
    BY <1>12a, <1>0 DEF Reply, Go, IInv, Shape, TypeOK, CancelEndsTheGate, Heeded, Ends,
       BetweenRounds, FirstRound, Working, Measured,
       BeforeSuite, Weighing, AcceptedInPlace, InPlace, KeptKnown, OfThisRound
  <1>13. CASE Signoff
    <2>1. /\ Signed \in Evidence /\ Signed.what = evidence.what /\ Signed.passing = evidence.passing
          /\ Signed.passed => Signed.signoff = "yes"
      BY DEF Signed, Evidence, IInv, Shape, TypeOK, CancelEndsTheGate, Heeded
    <2>2. /\ pc = "signed" /\ pc' = "record" /\ inPlace' = evidence' /\ ~aborted
          /\ UNCHANGED <<n, disk, tree, snapshot, reply, aborted, floor, cut>>
          /\ evidence' = Signed
          /\ kept' = IF kept.round = n THEN [kept EXCEPT !.evidence = evidence'] ELSE kept
          /\ known' = [known EXCEPT ![snapshot] = Signed]
      BY <1>13 DEF Signoff, Live, Found, Go, IInv, Shape
    <2>3. InPlace /\ OfThisRound /\ kept.round <= n
      BY <2>2 DEF IInv, Weighing
    <2>4. Shape'
      BY <1>0, <2>1, <2>2 DEF IInv, Shape, TypeOK, CancelEndsTheGate, Heeded, Ends, Evidence
    <2>5. /\ kept'.round = kept.round /\ kept'.tree = kept.tree /\ kept'.passing = kept.passing
          /\ Deciding => kept'.evidence = Signed
      BY <2>2, <2>3 DEF OfThisRound, IInv, Shape
    <2>6. known'[disk] = Signed /\ Signed.what # "none"
      BY <1>0, <2>1, <2>2, <2>3 DEF InPlace, OfThisRound, IInv, Shape, TypeOK,
         CancelEndsTheGate, Heeded
    <2>7. InPlace' /\ OfThisRound'
      BY <1>0, <2>1, <2>2, <2>3, <2>5, <2>6 DEF InPlace, KeptKnown, OfThisRound
    <2>8. QED
      BY <1>0, <2>1, <2>2, <2>3, <2>4, <2>5, <2>7 DEF IInv, BetweenRounds, Working, Measured,
         BeforeSuite, Weighing, AcceptedInPlace
  <1>14. CASE NoSignoff
    BY <1>14, <1>0 DEF NoSignoff, Go, IInv, Shape, TypeOK, CancelEndsTheGate, Heeded, Ends,
       BetweenRounds, FirstRound,
       Working, Measured,
       BeforeSuite, Weighing, AcceptedInPlace, InPlace, KeptKnown, OfThisRound
  <1>15. CASE Record
    BY <1>15, <1>0 DEF Record, Go, IInv, Shape, TypeOK, CancelEndsTheGate, Heeded, Ends,
       BetweenRounds, FirstRound,
       Working, Measured,
       BeforeSuite, Weighing, AcceptedInPlace, InPlace, KeptKnown, OfThisRound
  <1>16. QED
    BY <1>1, <1>2, <1>3, <1>4, <1>5, <1>6, <1>7, <1>8, <1>9, <1>10, <1>11, <1>12, <1>13, <1>14,
       <1>15, <1>12a DEF Next, Step

\* The checks of the round kept are the floor of the rounds to come.
FloorKept ==
    Deciding /\ gate.rollback /\ pc \notin Ends =>
        floor \subseteq kept.passing /\ kept.passing \subseteq gate.checks

\* Rounds that break a check of the one kept are undone, so the floor stays.
LEMMA FloorStays == IInv /\ FloorKept /\ [Next]_vars => FloorKept'
  <1> SUFFICES ASSUME IInv, FloorKept, [Next]_vars, Deciding', gate'.rollback, pc' \notin Ends
               PROVE  floor' \subseteq kept'.passing /\ kept'.passing \subseteq gate'.checks
    BY DEF FloorKept
  <1>1. gate' = gate /\ Deciding
    BY DEF Next, Step, ThrowIfAborted, StartRound, Work, Snapshot, Check, Review, NoFeedback,
       Suite, AskSignoff, Reply, Signoff, NoSignoff, Record, Throw, Abort, vars, level, Deciding
  <1>2. pc \notin Ends
    BY DEF Next, Step, ThrowIfAborted, StartRound, Work, Snapshot, Check, Review, NoFeedback,
       Suite, AskSignoff, Reply, Signoff, NoSignoff, Record, Throw, Abort, vars, Ends
  <1>3. floor \subseteq kept.passing /\ kept.passing \subseteq gate.checks
    BY <1>1, <1>2 DEF FloorKept
  <1>4. CASE StartRound
    BY <1>1, <1>3, <1>4 DEF StartRound, IInv, BetweenRounds, InPlace, KeptKnown
  <1>5. CASE Check
    BY <1>1, <1>3, <1>5 DEF Check, Broke, Deciding
  <1>6. CASE Signoff
    <2>1. kept'.passing = kept.passing
      BY <1>6 DEF Signoff, IInv, Shape
    <2>2. QED
      BY <1>1, <1>3, <1>6, <2>1 DEF Signoff
  <1>7. CASE ~(StartRound \/ Check \/ Signoff)
    <2>1. kept' = kept /\ floor' = floor
      BY <1>7 DEF Next, Step, ThrowIfAborted, Work, Snapshot, Review, NoFeedback, Suite,
         AskSignoff, Reply, NoSignoff, Record, Throw, Abort, vars
    <2>2. QED
      BY <1>1, <1>3, <2>1
  <1>8. QED
    BY <1>4, <1>5, <1>6, <1>7

(***************************************************************************)
(* Theorems                                                                *)
(***************************************************************************)
\* So it always holds.
LEMMA Inductive == Spec => []IInv
  <1>1. Init => IInv
    BY Initial
  <1>2. IInv /\ [Next]_vars => IInv'
    BY Steps
  <1>3. QED
    BY <1>1, <1>2, PTL DEF Spec

\* A gate that accepts accepts the tree in the worktree, on its strongest source's word and
\* a sign-off where one is asked for; and a cancel during a member's run or a sign-off
\* review, or between rounds, ends it with nothing measured or accepted (runGate).
THEOREM AcceptanceIsSafe == Spec => []GateSafe
  <1>1. IInv => GateSafe
    BY DEF IInv, Shape, GateSafe
  <1>2. QED
    BY <1>1, Inductive, PTL

\* Whatever rounds were rolled back, a new one starts from the tree the gate holds to be
\* in place and whose evidence it would report (runGate).
THEOREM EvidenceStaysInPlace == Spec => []EvidenceInPlace
  <1>1. IInv => EvidenceInPlace
    BY GateConstants DEF IInv, Shape, TypeOK, CancelEndsTheGate, Heeded, BetweenRounds,
       InPlace, EvidenceInPlace
  <1>2. QED
    BY <1>1, Inductive, PTL

\* Where its checks decide and the tree is its own, no round of a gate starts from a tree
\* that fails a check an earlier round's start passed (runGate's rollback).
THEOREM RoundsDoNotRegress == Spec => []NoRegression
  <1>1. Init => FloorKept
    BY DEF Init, FloorKept
  <1>2. IInv /\ FloorKept => NoRegression
    BY GateConstants DEF IInv, FloorKept, BetweenRounds, InPlace, KeptKnown, NoRegression,
       Deciding,
       Shape, TypeOK, CancelEndsTheGate, Heeded, Ends
  <1>3. QED
    BY <1>1, <1>2, FloorStays, Inductive, PTL DEF Spec
=============================================================================
