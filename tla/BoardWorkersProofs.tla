------------------------ MODULE BoardWorkersProofs ------------------------
(***************************************************************************)
(* What BoardWorkers promises, proved for every team, board and bound.     *)
(*                                                                         *)
(* The argument is one inductive invariant, IInv.  A member's claim, from  *)
(* the turn of its claimNextReady in the Serializer to its close, pins the *)
(* task: its snapshot is the one the claim wrote (HoldersOwnTheirClaims)   *)
(* or will write (InFlight), so its blockers stay completed (BlockersFirst) *)
(* and no cascade from another task reaches it (WorkNotAbandoned).         *)
(***************************************************************************)
EXTENDS BoardWorkers, TLAPS

\* A mutation in the Serializer is one its member waits for, and a claim in
\* flight is of a task still ready.
InFlight ==
    serial # NoOne =>
        /\ pc[serial] \in {"claiming", "completing", "releasing", "leaving"}
        /\ held[serial] \in Tasks
        /\ pc[serial] = "claiming" =>
              /\ Ready(held[serial])
              /\ heldRev[serial] = tasks[held[serial]].revision + 1
        /\ pc[serial] = "completing" => Verified(held[serial], verdict[serial])

\* Before the loops start and after a crash nobody works and nothing is
\* queued.
Quiet ==
    phase \in {"seeding", "down"} =>
        /\ \A m \in Members : pc[m] = "idle"
        /\ serial = NoOne
        /\ abandoned = {} /\ ahead = {} /\ behind = {}

\* Every record is of a task abandoned in memory, once the loops run.
RecordsAbandoned ==
    Live => recorded \cup ahead \cup behind \subseteq abandoned

\* Nothing given up, in memory, in the journal or on its way there, is
\* completed.
NoneCompleted ==
    \A t \in abandoned \cup recorded \cup ahead \cup behind :
        Status(t) # "completed"

\* A task worked on is not given up; one whose claim is being written or was
\* just granted may be, by the stop of the run's budget.
WorkNotAbandoned ==
    \A m \in Members :
        /\ pc[m] \in {"running", "threw", "completing"} \cup Asking =>
              held[m] \notin abandoned
        /\ /\ pc[m] = "claimed" \/ (pc[m] = "claiming" /\ serial = m)
           /\ held[m] \in abandoned
           => budget = "stopped"

\* The same of the journal the remote holds, whose completions this host has.
MirrorSound ==
    \A t \in Tasks :
        /\ mirrored.tasks[t].status \in {"in_progress", "completed"} =>
              \A b \in BlockedBy[t] : mirrored.tasks[b].status = "completed"
        /\ t \in mirrored.recorded => mirrored.tasks[t].status # "completed"
        /\ mirrored.tasks[t].status = "completed" =>
              /\ tasks[t] = mirrored.tasks[t]
              /\ Verified(t, mirrored.tasks[t].evidence)

CompletedVerified ==
    \A t \in Tasks : Status(t) = "completed" => Verified(t, tasks[t].evidence)

IInv ==
    /\ TypeOK
    /\ HoldersOwnTheirClaims
    /\ InFlight
    /\ Quiet
    /\ BlockersFirst
    /\ RecordsAbandoned
    /\ NoneCompleted
    /\ WorkNotAbandoned
    /\ CompletedVerified
    /\ MirrorSound

-----------------------------------------------------------------------------
(* The board's snapshots. *)

\* What a member may complete with is evidence.
LEMMA EvidenceTypes ==
    /\ NoEvidence \in Evidence
    /\ HumanWaiver \in Evidence
    /\ \A l \in 1..3, p \in BOOLEAN : GateEvidence(l, p) \in Evidence
BY DEF NoEvidence, HumanWaiver, GateEvidence, Evidence

\* Each mutation appends a well-formed snapshot.
LEMMA AbsentType == Absent \in Snapshot
BY EvidenceTypes, BoardAssumption
   DEF Absent, Snapshot, SnapshotFields, WellFormed

\* A created task is pending, unowned and unleased.
LEMMA CreatedType == ASSUME NEW t \in Tasks PROVE Created(t) \in Snapshot
BY EvidenceTypes, BoardAssumption
   DEF Created, Absent, Snapshot, SnapshotFields, WellFormed

\* A claimed task carries its owner and this incarnation's lease.
LEMMA ClaimedType ==
    ASSUME TypeOK, NEW t \in Tasks, NEW m \in Members
    PROVE  /\ Claimed(t, m) \in Snapshot
           /\ Claimed(t, m).status = "in_progress"
           /\ Claimed(t, m).owner = m
           /\ Claimed(t, m).lease = incarnation
           /\ Claimed(t, m).revision = tasks[t].revision + 1
<1>1. tasks[t] \in SnapshotFields
  BY DEF TypeOK, BoardTypeOK, Snapshot
<1>2. incarnation \in Nat \ {0}
  BY DEF TypeOK, BoardTypeOK
<1>3. Claimed(t, m) \in SnapshotFields
  BY <1>1, <1>2 DEF Claimed, SnapshotFields
<1> QED
  BY <1>1, <1>2, <1>3 DEF Claimed, Snapshot, SnapshotFields, WellFormed

\* A completed task keeps its owner and has no lease.
LEMMA CompletedType ==
    ASSUME TypeOK, NEW t \in Tasks, NEW e \in Evidence,
           tasks[t].owner \in Members
    PROVE  /\ Completed(t, e) \in Snapshot
           /\ Completed(t, e).status = "completed"
           /\ Completed(t, e).evidence
                = IF e.kind = "none" THEN tasks[t].evidence ELSE e
<1>1. tasks[t] \in SnapshotFields
  BY DEF TypeOK, BoardTypeOK, Snapshot
<1>2. Completed(t, e) \in SnapshotFields
  BY <1>1 DEF Completed, SnapshotFields
<1> QED
  BY <1>1, <1>2 DEF Completed, Snapshot, SnapshotFields, WellFormed

\* A released task has neither owner nor lease.
LEMMA ReleasedType ==
    ASSUME NEW s \in Snapshot
    PROVE  /\ ReleasedSnapshot(s) \in Snapshot
           /\ ReleasedSnapshot(s).status = "pending"
<1>1. ReleasedSnapshot(s) \in SnapshotFields
  BY DEF ReleasedSnapshot, Snapshot, SnapshotFields
<1> QED
  BY <1>1, BoardAssumption
     DEF ReleasedSnapshot, Snapshot, SnapshotFields, WellFormed

-----------------------------------------------------------------------------
(* The cascade of an abandon. *)

\* It stays within every set closed under dependents that holds its roots.
LEMMA CascadeWithin ==
    ASSUME NEW S, NEW X \in SUBSET Tasks, S \subseteq X,
           ClosedUnderDependents(X)
    PROVE  WithDependents(S) \subseteq X
BY DEF WithDependents

\* The tasks abandoned with S are tasks of the board.
LEMMA CascadeType ==
    ASSUME NEW S PROVE WithDependents(S) \subseteq Tasks
BY DEF WithDependents

\* From uncompleted roots it reaches no completed task, nor a task outside
\* the roots whose blockers are all completed.
LEMMA CascadeSpares ==
    ASSUME BlockersFirst, NEW S \in SUBSET Tasks,
           \A t \in S : Status(t) # "completed"
    PROVE  /\ \A t \in WithDependents(S) : Status(t) # "completed"
           /\ \A u \in Tasks \ S :
                 (\A b \in BlockedBy[u] : Status(b) = "completed")
                 => u \notin WithDependents(S)
<1> DEFINE Open == {t \in Tasks : Status(t) # "completed"}
<1>1. ClosedUnderDependents(Open)
  BY BoardAssumption DEF ClosedUnderDependents, BlockersFirst
<1>2. WithDependents(S) \subseteq Open
  BY <1>1, CascadeWithin
<1>3. ASSUME NEW u \in Tasks \ S,
             \A b \in BlockedBy[u] : Status(b) = "completed"
      PROVE  u \notin WithDependents(S)
  <2>1. ClosedUnderDependents(Open \ {u})
    BY <1>1, <1>3, BoardAssumption DEF ClosedUnderDependents
  <2>2. WithDependents(S) \subseteq Open \ {u}
    BY <2>1, CascadeWithin
  <2> QED  BY <2>2
<1> QED  BY <1>2, <1>3

-----------------------------------------------------------------------------
(* Steps that move members only. *)

\* What is said of the board, the journal and the remote alone holds on while
\* these stay as they are.
LEMMA BoardKept ==
    ASSUME IInv, Live' => Live,
           UNCHANGED <<tasks, mirrored, recorded, abandoned, ahead, behind>>
    PROVE  /\ BlockersFirst' /\ RecordsAbandoned' /\ NoneCompleted'
           /\ CompletedVerified' /\ MirrorSound'
<1>1. BlockersFirst' /\ RecordsAbandoned' /\ NoneCompleted'
  BY DEF IInv, BlockersFirst, RecordsAbandoned, NoneCompleted, Status
<1>2. CompletedVerified' /\ MirrorSound'
  BY DEF IInv, CompletedVerified, MirrorSound, Status
<1> QED  BY <1>1, <1>2

\* What the invariant gives a member at work: its task is on the board, in
\* progress, its own, and its blockers are completed.
LEMMA Held ==
    ASSUME IInv, NEW m \in Members, pc[m] \in Holding
    PROVE  /\ held[m] \in Tasks
           /\ Status(held[m]) = "in_progress"
           /\ tasks[held[m]].owner = m
           /\ \A b \in BlockedBy[held[m]] : Status(b) = "completed"
BY DEF IInv, HoldersOwnTheirClaims, BlockersFirst

\* The top of a member's loop keeps the invariant: it holds no claim.
LEMMA LoopStep ==
    ASSUME IInv, NEW m \in Members, Loop(m) PROVE IInv'
<1> USE DEF Loop, Go, memory, journal, host, Live, Holding, Asking
<1>1. TypeOK'
  BY DEF IInv, TypeOK, BoardTypeOK, PCs
<1>2. HoldersOwnTheirClaims'
  BY DEF IInv, TypeOK, HoldersOwnTheirClaims, Status
<1>3. InFlight' /\ Quiet'
  BY DEF IInv, TypeOK, InFlight, Quiet, Ready, Status
<1>4. WorkNotAbandoned'
  BY BoardAssumption DEF IInv, TypeOK, InFlight, WorkNotAbandoned
<1> QED  BY <1>1, <1>2, <1>3, <1>4, BoardKept DEF IInv

\* A member whose wait times out holds no claim.
LEMMA WaitTimesOutStep ==
    ASSUME IInv, NEW m \in Members, WaitTimesOut(m) PROVE IInv'
<1> USE DEF WaitTimesOut, Go, memory, journal, host, Live, Holding, Asking
<1>1. TypeOK'
  BY DEF IInv, TypeOK, BoardTypeOK, PCs
<1>2. HoldersOwnTheirClaims'
  BY DEF IInv, TypeOK, HoldersOwnTheirClaims, Status
<1>3. InFlight' /\ Quiet'
  BY DEF IInv, TypeOK, InFlight, Quiet, Ready, Status
<1>4. WorkNotAbandoned'
  BY BoardAssumption DEF IInv, TypeOK, InFlight, WorkNotAbandoned
<1> QED  BY <1>1, <1>2, <1>3, <1>4, BoardKept DEF IInv

\* An admitted member keeps its claim; the budget is open.
LEMMA AdmitStep ==
    ASSUME IInv, NEW m \in Members, Admit(m) PROVE IInv'
<1> USE DEF Admit, Go, memory, journal, host, Live, Holding, Asking
<1>1. TypeOK'
  BY DEF IInv, TypeOK, BoardTypeOK, PCs
<1>2. HoldersOwnTheirClaims'
  BY DEF IInv, TypeOK, HoldersOwnTheirClaims, Status
<1>3. InFlight' /\ Quiet'
  BY DEF IInv, TypeOK, InFlight, Quiet, Ready, Status
<1>4. WorkNotAbandoned'
  BY BoardAssumption DEF IInv, TypeOK, InFlight, WorkNotAbandoned
<1> QED  BY <1>1, <1>2, <1>3, <1>4, BoardKept DEF IInv

\* A settled member keeps its claim; an ungated board asks no evidence.
LEMMA SettleStep ==
    ASSUME IInv, NEW m \in Members, Settle(m) PROVE IInv'
<1> USE DEF Settle, Go, memory, journal, host, Live, Holding, Asking
<1>1. TypeOK'
  BY EvidenceTypes DEF IInv, TypeOK, BoardTypeOK, PCs
<1>2. HoldersOwnTheirClaims'
  BY DEF IInv, TypeOK, HoldersOwnTheirClaims, Status
<1>3. InFlight' /\ Quiet'
  BY DEF IInv, TypeOK, InFlight, Quiet, Ready, Status
<1>4. WorkNotAbandoned'
  BY BoardAssumption DEF IInv, TypeOK, InFlight, WorkNotAbandoned
<1> QED  BY <1>1, <1>2, <1>3, <1>4, BoardKept DEF IInv

\* The gate's evidence is evidence; the claim is kept.
LEMMA GateAcceptsStep ==
    ASSUME IInv, NEW m \in Members, GateAccepts(m) PROVE IInv'
<1> USE DEF GateAccepts, Go, memory, journal, host, Live, Holding, Asking
<1>1. TypeOK'
  BY Held, EvidenceTypes, WorkersAssumption DEF IInv, TypeOK, BoardTypeOK, PCs
<1>2. HoldersOwnTheirClaims'
  BY DEF IInv, TypeOK, HoldersOwnTheirClaims, Status
<1>3. InFlight' /\ Quiet'
  BY DEF IInv, TypeOK, InFlight, Quiet, Ready, Status
<1>4. WorkNotAbandoned'
  BY BoardAssumption DEF IInv, TypeOK, InFlight, WorkNotAbandoned
<1> QED  BY <1>1, <1>2, <1>3, <1>4, BoardKept DEF IInv

\* A tamper incident moves the member to its question, claim in hand.
LEMMA GateTamperStep ==
    ASSUME IInv, NEW m \in Members, GateTamper(m) PROVE IInv'
<1> USE DEF GateTamper, Go, memory, journal, host, Live, Holding, Asking
<1>1. TypeOK'
  BY DEF IInv, TypeOK, BoardTypeOK, PCs
<1>2. HoldersOwnTheirClaims'
  BY DEF IInv, TypeOK, HoldersOwnTheirClaims, Status
<1>3. InFlight' /\ Quiet'
  BY DEF IInv, TypeOK, InFlight, Quiet, Ready, Status
<1>4. WorkNotAbandoned'
  BY BoardAssumption DEF IInv, TypeOK, InFlight, WorkNotAbandoned
<1> QED  BY <1>1, <1>2, <1>3, <1>4, BoardKept DEF IInv

\* A refused attempt is counted, and the claim kept till it is released.
LEMMA GateRefusesStep ==
    ASSUME IInv, NEW m \in Members, GateRefuses(m) PROVE IInv'
<1> USE DEF GateRefuses, Go, NotPassed, KeepAbandoned, memory, journal, host, Live, Holding, Asking
<1>1. TypeOK'
  BY Held DEF IInv, TypeOK, BoardTypeOK, PCs
<1>2. HoldersOwnTheirClaims'
  BY DEF IInv, TypeOK, HoldersOwnTheirClaims, Status
<1>3. InFlight' /\ Quiet'
  BY DEF IInv, TypeOK, InFlight, Quiet, Ready, Status
<1>4. WorkNotAbandoned'
  BY BoardAssumption DEF IInv, TypeOK, InFlight, WorkNotAbandoned
<1> QED  BY <1>1, <1>2, <1>3, <1>4, BoardKept DEF IInv

\* A claim is only begun on a ready task that is not abandoned, with the
\* Serializer free.
LEMMA ClaimCheckStep ==
    ASSUME IInv, NEW m \in Members, ClaimCheck(m) PROVE IInv'
<1>0. \A t \in Tasks : tasks[t].revision + 1 \in Nat
  BY DEF IInv, TypeOK, BoardTypeOK, Snapshot, SnapshotFields
<1> USE DEF ClaimCheck, Go, NextReady, memory, journal, host, Live, Holding, Asking
<1>1. TypeOK'
  BY <1>0 DEF IInv, TypeOK, BoardTypeOK, PCs
<1>2. HoldersOwnTheirClaims'
  BY DEF IInv, TypeOK, HoldersOwnTheirClaims, Status
<1>3. InFlight' /\ Quiet'
  BY DEF IInv, TypeOK, InFlight, Quiet, Ready, Status
<1>4. WorkNotAbandoned'
  BY BoardAssumption DEF IInv, TypeOK, InFlight, WorkNotAbandoned
<1> QED  BY <1>1, <1>2, <1>3, <1>4, BoardKept DEF IInv

\* A completion is only begun on evidence the board accepts.
LEMMA CompleteCheckStep ==
    ASSUME IInv, NEW m \in Members, CompleteCheck(m) PROVE IInv'
<1> USE DEF CompleteCheck, Go, MayComplete, memory, journal, host, Live, Holding, Asking
<1>1. TypeOK'
  BY DEF IInv, TypeOK, BoardTypeOK, PCs
<1>2. HoldersOwnTheirClaims'
  BY DEF IInv, TypeOK, HoldersOwnTheirClaims, Status
<1>3. InFlight' /\ Quiet'
  BY Held DEF IInv, TypeOK, InFlight, Quiet, Ready, Status
<1>4. WorkNotAbandoned'
  BY BoardAssumption DEF IInv, TypeOK, InFlight, WorkNotAbandoned
<1> QED  BY <1>1, <1>2, <1>3, <1>4, BoardKept DEF IInv

\* A release is begun on the member's own claim; one the board refuses ends
\* the member's turn.
LEMMA ReleaseCheckStep ==
    ASSUME IInv, NEW m \in Members, ReleaseCheck(m) PROVE IInv'
<1> USE DEF ReleaseCheck, Go, LetGo, AfterRelease, MayRelease, memory, journal, host, Live, Holding, Asking
<1>1. TypeOK'
  BY EvidenceTypes DEF IInv, TypeOK, BoardTypeOK, PCs
<1>2. HoldersOwnTheirClaims'
  BY DEF IInv, TypeOK, HoldersOwnTheirClaims, Status
<1>3. InFlight' /\ Quiet'
  BY Held DEF IInv, TypeOK, InFlight, Quiet, Ready, Status
<1>4. WorkNotAbandoned'
  BY BoardAssumption DEF IInv, TypeOK, InFlight, WorkNotAbandoned
<1> QED  BY <1>1, <1>2, <1>3, <1>4, BoardKept DEF IInv

-----------------------------------------------------------------------------
(* Steps in which a member gives its task up. *)

\* No other member's work, and no claim being written, is in the cascade of
\* m's task, unless the run's budget is stopped.
LEMMA CascadeStep ==
    ASSUME IInv, Live, NEW m \in Members, pc[m] \in Holding,
           NEW S \in SUBSET Tasks, held[m] \in S,
           \A t \in S : t = held[m] \/ Status(t) = "pending",
           S = {held[m]} \/ budget' = "stopped",
           budget' \in {budget, "stopped"},
           Abandon(S),
           NEW where \in {"releasing", "leaving"}, Go(m, where),
           UNCHANGED <<tasks, recorded, serial, mirrored, held, phase>>
    PROVE  /\ abandoned' \subseteq Tasks /\ ahead' \subseteq Tasks
           /\ behind' \subseteq Tasks
           /\ BlockersFirst' /\ RecordsAbandoned' /\ NoneCompleted'
           /\ WorkNotAbandoned' /\ CompletedVerified' /\ MirrorSound'
<1> DEFINE All == WithDependents(S)
<1>1. All \subseteq Tasks
  BY CascadeType
<1>2. \A t \in S : Status(t) # "completed"
  BY Held
<1>3. \A t \in All : Status(t) # "completed"
  BY <1>2, CascadeSpares DEF IInv
<1>4. \A u \in Tasks \ S :
        (\A b \in BlockedBy[u] : Status(b) = "completed") => u \notin All
  BY <1>2, CascadeSpares DEF IInv
<1>5. /\ abandoned' = abandoned \cup All
      /\ ahead' \cup behind' = ahead \cup behind \cup (All \ abandoned)
  BY DEF Abandon, QueueRecords
<1>6. /\ abandoned' \subseteq Tasks /\ ahead' \subseteq Tasks
      /\ behind' \subseteq Tasks
  BY <1>1, <1>5 DEF IInv, TypeOK
<1>7. RecordsAbandoned' /\ NoneCompleted'
  BY <1>3, <1>5 DEF IInv, RecordsAbandoned, NoneCompleted, Live, Status
<1>8. BlockersFirst' /\ CompletedVerified' /\ MirrorSound'
  BY DEF IInv, BlockersFirst, CompletedVerified, MirrorSound, Status
<1>9. ASSUME NEW n \in Members
      PROVE  /\ pc'[n] \in {"running", "threw", "completing"} \cup Asking =>
                   held'[n] \notin abandoned'
             /\ /\ pc'[n] = "claimed" \/ (pc'[n] = "claiming" /\ serial' = n)
                /\ held'[n] \in abandoned'
                => budget' = "stopped"
  <2>1. CASE n = m
    BY <2>1 DEF IInv, TypeOK, Go, Asking
  <2>2. CASE n # m /\ pc[n] \in Holding
    <3>1. held[n] \in Tasks \ S
      BY <2>2, Held
    <3>2. held[n] \notin All
      BY <2>2, <3>1, <1>4, Held
    <3> QED
      BY <2>2, <3>2, <1>5 DEF IInv, TypeOK, WorkNotAbandoned, Go, Holding, Asking
  <2>3. CASE n # m /\ pc[n] = "claiming" /\ serial = n
    <3>1. held[n] \in Tasks /\ Ready(held[n])
      BY <2>3, BoardAssumption DEF IInv, InFlight
    <3>2. held[n] # held[m]
      BY <3>1, Held DEF Ready
    <3>3. held[n] \in All => budget' = "stopped"
      BY <3>1, <3>2, <1>4 DEF Ready
    <3> QED
      BY <2>3, <3>3, <1>5 DEF IInv, TypeOK, WorkNotAbandoned, Go, Asking
  <2> QED
    BY <2>1, <2>2, <2>3 DEF IInv, TypeOK, Go, Holding, Asking
<1>10. WorkNotAbandoned'
  BY <1>9 DEF WorkNotAbandoned
<1> QED  BY <1>6, <1>7, <1>8, <1>10

\* The rest of such a step: it only moves m, and writes down its attempt.
LEMMA GivesUp ==
    ASSUME IInv, Live, NEW m \in Members, pc[m] \in Holding,
           NEW where \in {"releasing", "leaving"}, Go(m, where),
           serial # m,
           attempts' \in [Tasks -> Nat], extra' \in [Tasks -> Nat],
           failed' \subseteq Members, budget' \in {"open", "stopped"},
           /\ abandoned' \subseteq Tasks /\ ahead' \subseteq Tasks
           /\ behind' \subseteq Tasks,
           UNCHANGED <<tasks, recorded, serial, host, held, heldRev, verdict,
                       started, phase, faults>>
    PROVE  TypeOK' /\ HoldersOwnTheirClaims' /\ InFlight' /\ Quiet'
<1> USE DEF Go, host, Holding, Asking
<1>1. TypeOK'
  BY DEF IInv, TypeOK, BoardTypeOK, PCs
<1>2. HoldersOwnTheirClaims'
  BY DEF IInv, TypeOK, HoldersOwnTheirClaims, Status
<1>3. InFlight' /\ Quiet'
  BY DEF IInv, TypeOK, InFlight, Quiet, Live, Ready, Status
<1> QED  BY <1>1, <1>2, <1>3

\* A member that waits on its run or on a person has no append under way.
LEMMA NotSerial ==
    ASSUME IInv, NEW m \in Members,
           pc[m] \in {"claimed", "running", "threw"} \cup Asking
    PROVE  serial # m
BY BoardAssumption DEF IInv, InFlight, Asking

\* A budget stop abandons the member's task, and pending tasks if it is the
\* run's: none of them is completed.
LEMMA BudgetStopStep ==
    ASSUME IInv, NEW m \in Members, NEW scope \in {"run", "task"},
           BudgetStop(m, scope)
    PROVE  IInv'
<1> DEFINE S == {held[m]} \cup
                IF scope = "run" THEN {t \in Tasks : Status(t) = "pending"}
                                 ELSE {}
<1>1. Live /\ pc[m] \in Holding /\ serial # m
  BY NotSerial DEF BudgetStop, Holding
<1>2. /\ S \in SUBSET Tasks /\ held[m] \in S
      /\ \A t \in S : t = held[m] \/ Status(t) = "pending"
      /\ S = {held[m]} \/ budget' = "stopped"
  BY <1>1, Held DEF BudgetStop
<1>3. /\ Abandon(S) /\ Go(m, "releasing") /\ budget' \in {budget, "stopped"}
      /\ UNCHANGED <<held, heldRev, verdict, attempts, extra, failed, started,
                     tasks, recorded, serial, host, phase, faults>>
  BY DEF BudgetStop
<1> HIDE DEF S
<1>4. /\ abandoned' \subseteq Tasks /\ ahead' \subseteq Tasks
      /\ behind' \subseteq Tasks
      /\ BlockersFirst' /\ RecordsAbandoned' /\ NoneCompleted'
      /\ WorkNotAbandoned' /\ CompletedVerified' /\ MirrorSound'
  BY <1>1, <1>2, <1>3, CascadeStep DEF host
<1>5. TypeOK' /\ HoldersOwnTheirClaims' /\ InFlight' /\ Quiet'
  <2>1. /\ attempts' \in [Tasks -> Nat] /\ extra' \in [Tasks -> Nat]
        /\ failed' \subseteq Members /\ budget' \in {"open", "stopped"}
    BY <1>3 DEF IInv, TypeOK
  <2> QED  BY <1>1, <1>3, <1>4, <2>1, GivesUp
<1> QED  BY <1>4, <1>5 DEF IInv

\* A member abandons its own task only.
LEMMA AbandonsOwn ==
    ASSUME IInv, Live, NEW m \in Members,
           pc[m] \in {"running", "threw"} \cup Asking,
           Abandon({held[m]}), NEW where \in {"releasing", "leaving"},
           Go(m, where),
           attempts' \in [Tasks -> Nat], extra' \in [Tasks -> Nat],
           failed' \subseteq Members,
           UNCHANGED <<tasks, recorded, serial, host, held, heldRev, verdict,
                       started, budget, phase, faults>>
    PROVE  IInv'
<1>1. pc[m] \in Holding /\ serial # m /\ held[m] \in Tasks
  BY NotSerial, Held DEF Holding
<1>2. /\ abandoned' \subseteq Tasks /\ ahead' \subseteq Tasks
      /\ behind' \subseteq Tasks
      /\ BlockersFirst' /\ RecordsAbandoned' /\ NoneCompleted'
      /\ WorkNotAbandoned' /\ CompletedVerified' /\ MirrorSound'
  BY <1>1, CascadeStep DEF host
<1>3. TypeOK' /\ HoldersOwnTheirClaims' /\ InFlight' /\ Quiet'
  <2>1. budget' \in {"open", "stopped"}
    BY DEF IInv, TypeOK
  <2> QED  BY <1>1, <1>2, <2>1, GivesUp
<1> QED  BY <1>2, <1>3 DEF IInv

\* Or it moves on with its task.
LEMMA KeepsTask ==
    ASSUME IInv, Live, NEW m \in Members,
           pc[m] \in {"running", "threw"} \cup Asking, KeepAbandoned,
           NEW where \in {"completing", "releasing", "leaving"} \cup Asking,
           Go(m, where),
           verdict' \in [Members -> Evidence],
           \A n \in Members : n # m => verdict'[n] = verdict[n],
           attempts' \in [Tasks -> Nat], extra' \in [Tasks -> Nat],
           failed' \subseteq Members,
           UNCHANGED <<tasks, recorded, serial, host, held, heldRev, started,
                       budget, phase, faults>>
    PROVE  IInv'
<1>0. serial # m
  BY NotSerial
<1> USE DEF Go, KeepAbandoned, host, Holding, Asking
<1>1. TypeOK'
  BY DEF IInv, TypeOK, BoardTypeOK, PCs
<1>2. HoldersOwnTheirClaims'
  BY DEF IInv, TypeOK, HoldersOwnTheirClaims, Status
<1>3. InFlight' /\ Quiet'
  BY <1>0 DEF IInv, TypeOK, InFlight, Quiet, Live, Ready, Status
<1>4. WorkNotAbandoned'
  BY DEF IInv, TypeOK, WorkNotAbandoned
<1>5. Live' => Live
  BY DEF Live
<1> QED  BY <1>1, <1>2, <1>3, <1>4, <1>5, BoardKept DEF IInv

\* Either answer to a tamper question keeps the invariant.
LEMMA AnswerTamperStep ==
    ASSUME IInv, NEW m \in Members, AnswerTamper(m) PROVE IInv'
<1>1. Live /\ pc[m] \in Asking /\ held[m] \in Tasks
  BY Held DEF AnswerTamper, Asking, Holding
<1>2. /\ attempts \in [Tasks -> Nat] /\ extra \in [Tasks -> Nat]
      /\ failed \subseteq Members /\ verdict \in [Members -> Evidence]
  BY DEF IInv, TypeOK
<1>3. CASE NotPassed(m) /\ KeepAbandoned
  <2>1. attempts' \in [Tasks -> Nat]
    BY <1>1, <1>2, <1>3 DEF NotPassed
  <2>2. Go(m, "askWaive") \/ Go(m, "releasing")
    BY <1>3 DEF NotPassed
  <2> QED  BY <1>1, <1>2, <1>3, <2>1, <2>2, KeepsTask DEF NotPassed, Asking
<1>4. CASE Abandon({held[m]}) /\ ~(NotPassed(m) /\ KeepAbandoned)
  BY <1>1, <1>2, <1>4, AbandonsOwn DEF AnswerTamper
<1> QED  BY <1>3, <1>4 DEF AnswerTamper

\* A waiver is evidence that names a person; without one the task is given
\* up.
LEMMA AnswerWaiveStep ==
    ASSUME IInv, NEW m \in Members, AnswerWaive(m) PROVE IInv'
<1>1. Live /\ pc[m] \in Asking
  BY DEF AnswerWaive, Asking
<1>2. /\ attempts \in [Tasks -> Nat] /\ extra \in [Tasks -> Nat]
      /\ failed \subseteq Members /\ verdict \in [Members -> Evidence]
  BY DEF IInv, TypeOK
<1>3. UNCHANGED <<held, heldRev, attempts, extra, failed, budget, started,
                  tasks, recorded, serial, host, phase, faults>>
  BY DEF AnswerWaive
<1>4. CASE /\ verdict' = [verdict EXCEPT ![m] = HumanWaiver]
           /\ Go(m, "completing")
           /\ KeepAbandoned
  BY <1>1, <1>2, <1>3, <1>4, EvidenceTypes, KeepsTask
<1>5. CASE Abandon({held[m]}) /\ Go(m, "releasing") /\ UNCHANGED verdict
  BY <1>1, <1>2, <1>3, <1>5, AbandonsOwn
<1> QED  BY <1>4, <1>5 DEF AnswerWaive

\* One more attempt is granted, or the task is given up.
LEMMA AnswerRetryStep ==
    ASSUME IInv, NEW m \in Members, AnswerRetry(m) PROVE IInv'
<1>1. Live /\ pc[m] \in Asking /\ held[m] \in Tasks
  BY Held DEF AnswerRetry, Asking, Holding
<1>2. /\ attempts \in [Tasks -> Nat] /\ extra \in [Tasks -> Nat]
      /\ failed \subseteq Members /\ verdict \in [Members -> Evidence]
  BY DEF IInv, TypeOK
<1>3. /\ Go(m, "leaving")
      /\ UNCHANGED <<held, heldRev, verdict, attempts, failed, budget, started,
                     tasks, recorded, serial, host, phase, faults>>
  BY DEF AnswerRetry
<1>4. CASE extra' = [extra EXCEPT ![held[m]] = @ + 1] /\ KeepAbandoned
  <2>1. extra' \in [Tasks -> Nat]
    BY <1>1, <1>2, <1>4
  <2> QED  BY <1>1, <1>2, <1>3, <1>4, <2>1, KeepsTask
<1>5. CASE Abandon({held[m]}) /\ UNCHANGED extra
  BY <1>1, <1>2, <1>3, <1>5, AbandonsOwn
<1> QED  BY <1>4, <1>5 DEF AnswerRetry

\* A broken member leaves with its claim still to be released.
LEMMA MemberFailsStep ==
    ASSUME IInv, NEW m \in Members, MemberFails(m) PROVE IInv'
<1>1. Live /\ pc[m] \in {"running", "threw"} /\ held[m] \in Tasks
  BY Held DEF MemberFails, Holding
<1>2. /\ attempts' \in [Tasks -> Nat] /\ extra \in [Tasks -> Nat]
      /\ failed' \subseteq Members /\ verdict \in [Members -> Evidence]
  BY <1>1 DEF IInv, TypeOK, MemberFails
<1>3. UNCHANGED <<held, heldRev, verdict, extra, budget, started, tasks,
                  recorded, serial, host, phase, faults>>
  BY DEF MemberFails
<1>4. \/ (Go(m, "askRetry") \/ Go(m, "leaving")) /\ KeepAbandoned
      \/ Abandon({held[m]}) /\ Go(m, "leaving")
  BY DEF MemberFails
<1>5. CASE (Go(m, "askRetry") \/ Go(m, "leaving")) /\ KeepAbandoned
  BY <1>1, <1>2, <1>3, <1>5, KeepsTask DEF Asking
<1>6. CASE Abandon({held[m]}) /\ Go(m, "leaving")
  BY <1>1, <1>2, <1>3, <1>6, AbandonsOwn
<1> QED  BY <1>4, <1>5, <1>6

-----------------------------------------------------------------------------
(* Steps that end an append. *)

\* A claim that is written makes its member the owner, at the revision it
\* will name.
LEMMA ClaimLandsStep ==
    ASSUME IInv, NEW m \in Members, ClaimLands(m) PROVE IInv'
<1> DEFINE t == held[m]
<1>1. /\ t \in Tasks /\ Status(t) = "pending"
      /\ \A b \in BlockedBy[t] : Status(b) = "completed" /\ b # t
      /\ heldRev[m] = tasks[t].revision + 1
  BY BoardAssumption
     DEF IInv, InFlight, ClaimLands, Commit, AppendOver, Ready, Tasks
<1>2. /\ Claimed(t, m) \in Snapshot
      /\ Claimed(t, m).status = "in_progress" /\ Claimed(t, m).owner = m
      /\ Claimed(t, m).lease = incarnation
      /\ Claimed(t, m).revision = tasks[t].revision + 1
  BY <1>1, ClaimedType DEF IInv
<1>3. /\ tasks' = [tasks EXCEPT ![t] = Claimed(t, m)]
      /\ Live /\ serial' = NoOne /\ ahead' = behind /\ behind' = {}
      /\ pc' = [n \in Members |-> IF n = m THEN "claimed"
                                  ELSE IF pc[n] = "parked" THEN "idle"
                                  ELSE pc[n]]
      /\ started' = [started EXCEPT ![t] = @ + 1]
      /\ pc[m] = "claiming" /\ serial = m
      /\ UNCHANGED <<held, heldRev, verdict, attempts, extra, abandoned, failed,
                     budget, recorded, incarnation, mirrored, crashes, phase,
                     faults>>
  BY DEF ClaimLands, Commit, AppendOver, host
<1> HIDE DEF t
<1>4. TypeOK'
  BY <1>1, <1>2, <1>3
     DEF IInv, TypeOK, BoardTypeOK, PCs, Holding, Asking
<1>5. HoldersOwnTheirClaims'
  BY <1>1, <1>2, <1>3
     DEF IInv, TypeOK, BoardTypeOK, HoldersOwnTheirClaims, Holding, Asking,
         Status, t
<1>6. InFlight' /\ Quiet' /\ RecordsAbandoned'
  BY <1>3 DEF IInv, InFlight, Quiet, Live, RecordsAbandoned
<1>7. BlockersFirst' /\ NoneCompleted'
  BY <1>1, <1>2, <1>3, BoardAssumption
     DEF IInv, TypeOK, BoardTypeOK, BlockersFirst, NoneCompleted, Status
<1>8. WorkNotAbandoned'
  BY <1>3, BoardAssumption DEF IInv, WorkNotAbandoned, Asking
<1>9. CompletedVerified' /\ MirrorSound'
  BY <1>1, <1>2, <1>3
     DEF IInv, TypeOK, BoardTypeOK, CompletedVerified, MirrorSound, Status
<1> QED  BY <1>4, <1>5, <1>6, <1>7, <1>8, <1>9 DEF IInv

\* A completion that is written closes the member's own task, on verified
\* evidence, and that task is not abandoned.
LEMMA CompleteLandsStep ==
    ASSUME IInv, NEW m \in Members, CompleteLands(m) PROVE IInv'
<1> DEFINE t == held[m]
           s == Completed(t, verdict[m])
<1>1. /\ t \in Tasks /\ Status(t) = "in_progress" /\ tasks[t].owner = m
      /\ \A b \in BlockedBy[t] : Status(b) = "completed"
      /\ \A n \in Members : n # m /\ pc[n] \in Holding => held[n] # t
  BY Held DEF CompleteLands, Holding
<1>2. /\ s \in Snapshot /\ s.status = "completed"
      /\ s.evidence = IF verdict[m].kind = "none" THEN tasks[t].evidence
                                                  ELSE verdict[m]
  BY <1>1, CompletedType DEF IInv, TypeOK
<1>3. /\ tasks' = [tasks EXCEPT ![t] = s]
      /\ Live /\ serial' = NoOne /\ ahead' = behind /\ behind' = {}
      /\ pc' = [n \in Members |-> IF n = m THEN "idle"
                                  ELSE IF pc[n] = "parked" THEN "idle"
                                  ELSE pc[n]]
      /\ held' = [held EXCEPT ![m] = 0]
      /\ heldRev' = [heldRev EXCEPT ![m] = 0]
      /\ verdict' = [verdict EXCEPT ![m] = NoEvidence]
      /\ pc[m] = "completing" /\ serial = m
      /\ UNCHANGED <<attempts, extra, abandoned, failed, budget, started,
                     recorded, incarnation, mirrored, crashes, phase, faults>>
  BY DEF CompleteLands, Commit, AppendOver, LetGo, host
<1>4. Verified(t, s.evidence)
  <2>1. Verified(t, verdict[m])
    BY <1>3, BoardAssumption DEF IInv, InFlight
  <2>2. CASE verdict[m].kind = "none"
    <3>1. verdict[m] = NoEvidence
      BY <2>2 DEF IInv, TypeOK, Evidence
    <3> QED  BY <2>1, <3>1 DEF Verified, NoEvidence
  <2>3. CASE verdict[m].kind # "none"
    BY <1>2, <2>1, <2>3
  <2> QED  BY <2>2, <2>3
<1>5. t \notin abandoned \cup recorded \cup ahead \cup behind
  BY <1>3 DEF IInv, WorkNotAbandoned, RecordsAbandoned
<1> HIDE DEF t, s
<1>6. TypeOK'
  BY <1>1, <1>2, <1>3, EvidenceTypes
     DEF IInv, TypeOK, BoardTypeOK, PCs, Holding, Asking
<1>7. HoldersOwnTheirClaims'
  BY <1>1, <1>3
     DEF IInv, TypeOK, BoardTypeOK, HoldersOwnTheirClaims, Holding, Asking,
         Status
<1>8. InFlight' /\ Quiet' /\ RecordsAbandoned'
  BY <1>3 DEF IInv, InFlight, Quiet, Live, RecordsAbandoned
<1>9. BlockersFirst' /\ NoneCompleted'
  BY <1>1, <1>2, <1>3, <1>5, BoardAssumption
     DEF IInv, TypeOK, BoardTypeOK, BlockersFirst, NoneCompleted, Status
<1>10. WorkNotAbandoned'
  BY <1>3, BoardAssumption DEF IInv, TypeOK, WorkNotAbandoned, Asking
<1>11. CompletedVerified' /\ MirrorSound'
  BY <1>1, <1>2, <1>3, <1>4
     DEF IInv, TypeOK, BoardTypeOK, CompletedVerified, MirrorSound, Status
<1> QED  BY <1>6, <1>7, <1>8, <1>9, <1>10, <1>11 DEF IInv

\* A release that is written frees the member's own task.
LEMMA ReleaseLandsStep ==
    ASSUME IInv, NEW m \in Members, ReleaseLands(m) PROVE IInv'
<1> DEFINE t == held[m]
           s == ReleasedSnapshot(tasks[t])
<1>1. /\ t \in Tasks /\ Status(t) = "in_progress"
      /\ \A n \in Members : n # m /\ pc[n] \in Holding => held[n] # t
  BY Held DEF ReleaseLands, Holding
<1>2. s \in Snapshot /\ s.status = "pending"
  BY <1>1, ReleasedType DEF IInv, TypeOK, BoardTypeOK
<1>3. /\ tasks' = [tasks EXCEPT ![t] = s]
      /\ Live /\ serial' = NoOne /\ ahead' = behind /\ behind' = {}
      /\ pc' = [n \in Members |-> IF n = m THEN AfterRelease(m)
                                  ELSE IF pc[n] = "parked" THEN "idle"
                                  ELSE pc[n]]
      /\ AfterRelease(m) \in {"idle", "out"}
      /\ held' = [held EXCEPT ![m] = 0]
      /\ heldRev' = [heldRev EXCEPT ![m] = 0]
      /\ verdict' = [verdict EXCEPT ![m] = NoEvidence]
      /\ UNCHANGED <<attempts, extra, abandoned, failed, budget, started,
                     recorded, incarnation, mirrored, crashes, phase, faults>>
  BY DEF ReleaseLands, Released, Commit, AppendOver, AfterRelease, LetGo, host
<1> HIDE DEF t, s
<1>4. TypeOK'
  BY <1>1, <1>2, <1>3, EvidenceTypes
     DEF IInv, TypeOK, BoardTypeOK, PCs, Holding, Asking
<1>5. HoldersOwnTheirClaims'
  BY <1>1, <1>3
     DEF IInv, TypeOK, BoardTypeOK, HoldersOwnTheirClaims, Holding, Asking,
         Status
<1>6. InFlight' /\ Quiet' /\ RecordsAbandoned'
  BY <1>3 DEF IInv, InFlight, Quiet, Live, RecordsAbandoned
<1>7. BlockersFirst' /\ NoneCompleted'
  BY <1>1, <1>2, <1>3, BoardAssumption
     DEF IInv, TypeOK, BoardTypeOK, BlockersFirst, NoneCompleted, Status
<1>8. WorkNotAbandoned'
  BY <1>3, BoardAssumption DEF IInv, TypeOK, WorkNotAbandoned, Asking
<1>9. CompletedVerified' /\ MirrorSound'
  BY <1>1, <1>2, <1>3
     DEF IInv, TypeOK, BoardTypeOK, CompletedVerified, MirrorSound, Status
<1> QED  BY <1>4, <1>5, <1>6, <1>7, <1>8, <1>9 DEF IInv

\* An append that fails leaves the board as it was.
LEMMA AppendFailsStep ==
    ASSUME IInv, NEW m \in Members, AppendFails(m) PROVE IInv'
<1> USE DEF AppendFails, AppendOver, AfterRelease, LetGo, Go, host, Live,
            Holding, Asking
<1>1. TypeOK'
  BY EvidenceTypes DEF IInv, TypeOK, BoardTypeOK, PCs, Phases
<1>2. HoldersOwnTheirClaims'
  BY DEF IInv, TypeOK, HoldersOwnTheirClaims, Status
<1>3. InFlight' /\ Quiet' /\ RecordsAbandoned'
  BY DEF IInv, InFlight, Quiet, RecordsAbandoned
<1>4. BlockersFirst' /\ NoneCompleted'
  BY DEF IInv, BlockersFirst, NoneCompleted, Status
<1>5. WorkNotAbandoned'
  BY BoardAssumption DEF IInv, TypeOK, WorkNotAbandoned
<1>6. CompletedVerified' /\ MirrorSound'
  BY DEF IInv, CompletedVerified, MirrorSound, Status
<1> QED  BY <1>1, <1>2, <1>3, <1>4, <1>5, <1>6 DEF IInv

-----------------------------------------------------------------------------
(* Steps of the run, the journal and the hosts. *)

\* A seeded task disturbs none before it.
LEMMA SeedStep ==
    ASSUME IInv, NEW t \in Tasks, Seed(t) PROVE IInv'
<1>1. Created(t) \in Snapshot /\ Created(t).status = "pending"
  BY CreatedType DEF Created
<1>2. /\ phase = "seeding" /\ Status(t) = "absent"
      /\ tasks' = [tasks EXCEPT ![t] = Created(t)]
      /\ UNCHANGED <<memory, host, recorded, serial, ahead, behind, phase,
                     faults>>
  BY DEF Seed, MayCreate
<1>3. TypeOK'
  BY <1>1, <1>2 DEF IInv, TypeOK, BoardTypeOK, memory, host
<1>4. /\ HoldersOwnTheirClaims' /\ InFlight' /\ Quiet' /\ RecordsAbandoned'
      /\ WorkNotAbandoned'
  BY <1>2 DEF IInv, HoldersOwnTheirClaims, InFlight, Quiet, RecordsAbandoned,
              WorkNotAbandoned, Live, Holding, Asking, memory
<1>5. BlockersFirst' /\ NoneCompleted'
  BY <1>1, <1>2, BoardAssumption
     DEF IInv, TypeOK, BoardTypeOK, BlockersFirst, NoneCompleted, Status, memory
<1>6. CompletedVerified' /\ MirrorSound'
  BY <1>1, <1>2
     DEF IInv, TypeOK, BoardTypeOK, CompletedVerified, MirrorSound, Status, host
<1> QED  BY <1>3, <1>4, <1>5, <1>6 DEF IInv

\* A seeding that fails ends the run with no member at work.
LEMMA SeedFailsStep ==
    ASSUME IInv, SeedFails PROVE IInv'
<1> USE DEF SeedFails, memory, journal, host
<1>1. TypeOK'
  BY DEF IInv, TypeOK, BoardTypeOK, Phases
<1>2. HoldersOwnTheirClaims' /\ InFlight' /\ Quiet' /\ WorkNotAbandoned'
  BY DEF IInv, HoldersOwnTheirClaims, InFlight, Quiet, WorkNotAbandoned, Ready,
         Status
<1>3. Live' => Live
  BY DEF Live
<1> QED  BY <1>1, <1>2, <1>3, BoardKept DEF IInv

\* A resumed run's abandoned tasks and their dependents are uncompleted.
LEMMA StartWorkersStep ==
    ASSUME IInv, StartWorkers PROVE IInv'
<1> DEFINE All == WithDependents(recorded)
<1>1. /\ All \subseteq Tasks
      /\ \A t \in All : Status(t) # "completed"
      /\ recorded \subseteq All
  <2>1. recorded \in SUBSET Tasks /\ \A t \in recorded : Status(t) # "completed"
    BY DEF IInv, TypeOK, NoneCompleted
  <2>2. recorded \subseteq All
    BY <2>1 DEF WithDependents
  <2> QED  BY <2>1, <2>2, CascadeType, CascadeSpares DEF IInv
<1>2. /\ phase = "seeding" /\ phase' = "running"
      /\ abandoned' = All /\ ahead' = All \ recorded
      /\ \A m \in Members : pc[m] = "idle"
      /\ serial = NoOne /\ behind = {}
      /\ UNCHANGED <<pc, held, heldRev, verdict, attempts, extra, failed,
                     budget, started, tasks, recorded, serial, behind,
                     incarnation, mirrored, crashes, faults>>
  BY DEF StartWorkers, IInv, Quiet, host
<1> HIDE DEF All
<1>3. TypeOK'
  BY <1>1, <1>2 DEF IInv, TypeOK, BoardTypeOK, Phases
<1>4. /\ HoldersOwnTheirClaims' /\ InFlight' /\ Quiet' /\ RecordsAbandoned'
      /\ WorkNotAbandoned'
  BY <1>1, <1>2 DEF HoldersOwnTheirClaims, InFlight, Quiet, RecordsAbandoned,
                    WorkNotAbandoned, Holding, Asking
<1>5. BlockersFirst' /\ NoneCompleted'
  BY <1>1, <1>2 DEF IInv, BlockersFirst, NoneCompleted, Status
<1>6. CompletedVerified' /\ MirrorSound'
  BY <1>2 DEF IInv, CompletedVerified, MirrorSound, Status
<1> QED  BY <1>3, <1>4, <1>5, <1>6 DEF IInv

\* Members that are out, or a run that is rejected, hold no claim unseen.
LEMMA FinishStep ==
    ASSUME IInv, Finish PROVE IInv'
<1> DEFINE S == {t \in Tasks : Status(t) # "completed"}
           All == WithDependents(S)
<1>1. All \subseteq Tasks /\ \A t \in All : Status(t) # "completed"
  BY CascadeType, CascadeSpares DEF IInv
<1>2. /\ abandoned' = abandoned \cup All
      /\ ahead' \cup behind' = ahead \cup behind \cup (All \ abandoned)
  BY DEF Finish, Abandon, QueueRecords
<1>3. /\ phase' = "ended" /\ \A m \in Members : pc[m] = "out"
      /\ UNCHANGED <<pc, held, heldRev, verdict, attempts, extra, failed,
                     budget, started, tasks, recorded, serial,
                     incarnation, mirrored, crashes, faults>>
  BY DEF Finish, host
<1>4. serial = NoOne
  BY <1>3 DEF IInv, TypeOK, InFlight
<1> HIDE DEF S, All
<1>5. TypeOK'
  BY <1>1, <1>2, <1>3 DEF IInv, TypeOK, BoardTypeOK, Phases
<1>6. /\ HoldersOwnTheirClaims' /\ InFlight' /\ Quiet' /\ RecordsAbandoned'
      /\ WorkNotAbandoned'
  BY <1>3, <1>4 DEF HoldersOwnTheirClaims, InFlight, Quiet, RecordsAbandoned,
                    WorkNotAbandoned, Live, Holding, Asking
<1>7. BlockersFirst' /\ NoneCompleted'
  BY <1>1, <1>2, <1>3 DEF IInv, BlockersFirst, NoneCompleted, Status
<1>8. CompletedVerified' /\ MirrorSound'
  BY <1>3 DEF IInv, CompletedVerified, MirrorSound, Status
<1> QED  BY <1>5, <1>6, <1>7, <1>8 DEF IInv

\* A record of an abandoned task, written or lost, is of an uncompleted one.
LEMMA RecordStep ==
    ASSUME IInv, NEW t \in Tasks, RecordWritten(t) \/ RecordLost(t) PROVE IInv'
<1>1. /\ t \in ahead /\ ahead' = ahead \ {t}
      /\ recorded' \in {recorded, recorded \cup {t}}
      /\ UNCHANGED <<memory, host, tasks, serial, behind, phase>>
      /\ faults' \in {faults, faults + 1}
  BY DEF RecordWritten, RecordLost
<1>2. TypeOK'
  BY <1>1 DEF IInv, TypeOK, BoardTypeOK, memory, host
<1>3. /\ HoldersOwnTheirClaims' /\ InFlight' /\ WorkNotAbandoned'
      /\ Quiet'
  BY <1>1 DEF IInv, HoldersOwnTheirClaims, InFlight, Quiet, WorkNotAbandoned,
              Ready, Status, memory, host
<1>4. BlockersFirst' /\ RecordsAbandoned' /\ NoneCompleted'
  BY <1>1 DEF IInv, BlockersFirst, RecordsAbandoned, NoneCompleted, Live,
              Status, memory
<1>5. CompletedVerified' /\ MirrorSound'
  BY <1>1 DEF IInv, CompletedVerified, MirrorSound, Status, host
<1> QED  BY <1>2, <1>3, <1>4, <1>5 DEF IInv

\* What the remote gets is the journal, about which the same holds.
LEMMA MirrorStep ==
    ASSUME IInv, Mirror PROVE IInv'
<1>1. /\ mirrored'.tasks = tasks /\ mirrored'.recorded = recorded
      /\ mirrored' = [tasks |-> tasks, recorded |-> recorded]
      /\ UNCHANGED <<memory, journal, incarnation, crashes, phase, faults>>
  BY DEF Mirror
<1>2. TypeOK'
  BY <1>1 DEF IInv, TypeOK, BoardTypeOK, memory, journal
<1>3. /\ HoldersOwnTheirClaims' /\ InFlight' /\ WorkNotAbandoned' /\ Quiet'
  BY <1>1 DEF IInv, HoldersOwnTheirClaims, InFlight, Quiet, WorkNotAbandoned,
              Ready, Status, memory, journal
<1>4. BlockersFirst' /\ RecordsAbandoned' /\ NoneCompleted' /\ CompletedVerified'
  BY <1>1 DEF IInv, BlockersFirst, RecordsAbandoned, NoneCompleted,
              CompletedVerified, Live, Status, memory, journal
<1>5. MirrorSound'
  BY <1>1, BoardAssumption
     DEF IInv, BlockersFirst, NoneCompleted, CompletedVerified, MirrorSound,
         Status, journal
<1> QED  BY <1>2, <1>3, <1>4, <1>5 DEF IInv

\* A crash forgets the members and their claims in memory.
LEMMA CrashStep ==
    ASSUME IInv, Crash PROVE IInv'
<1>1. /\ tasks' = mirrored.tasks /\ recorded' = mirrored.recorded
      /\ pc' = [m \in Members |-> "idle"] /\ held' = [m \in Members |-> 0]
      /\ heldRev' = [m \in Members |-> 0]
      /\ verdict' = [m \in Members |-> NoEvidence]
      /\ attempts' = [t \in Tasks |-> 0] /\ extra' = [t \in Tasks |-> 0]
      /\ started' = [t \in Tasks |-> 0]
      /\ abandoned' = {} /\ failed' = {} /\ budget' = "open"
      /\ serial' = NoOne /\ ahead' = {} /\ behind' = {}
      /\ phase' = "down" /\ crashes' = crashes + 1
      /\ UNCHANGED <<incarnation, mirrored, faults>>
  BY DEF Crash, FreshMemory
<1>2. TypeOK'
  BY <1>1, EvidenceTypes DEF IInv, TypeOK, BoardTypeOK, Phases, PCs
<1>3. /\ HoldersOwnTheirClaims' /\ InFlight' /\ WorkNotAbandoned' /\ Quiet'
      /\ RecordsAbandoned'
  BY <1>1 DEF HoldersOwnTheirClaims, InFlight, Quiet, WorkNotAbandoned,
              RecordsAbandoned, Live, Holding, Asking
<1>4. BlockersFirst' /\ NoneCompleted' /\ CompletedVerified' /\ MirrorSound'
  BY <1>1 DEF IInv, TypeOK, BlockersFirst, NoneCompleted, CompletedVerified,
              MirrorSound, Status
<1> QED  BY <1>2, <1>3, <1>4 DEF IInv

\* A takeover starts from the remote's journal with its dead claims released.
LEMMA TakeOverStep ==
    ASSUME IInv, TakeOver PROVE IInv'
<1>1. /\ mirrored'.tasks = tasks' /\ mirrored'.recorded = recorded
      /\ mirrored' = [tasks |-> tasks', recorded |-> recorded]
      /\ tasks' = [t \in Tasks |->
                     IF /\ tasks[t].status = "in_progress"
                        /\ tasks[t].lease # incarnation'
                     THEN ReleasedSnapshot(tasks[t]) ELSE tasks[t]]
      /\ incarnation' = incarnation + 1
      /\ phase = "down" /\ phase' = "seeding"
      /\ UNCHANGED <<memory, recorded, serial, ahead, behind, faults, crashes>>
  BY DEF TakeOver, ReleaseOrphans
<1>2. \A t \in Tasks :
        /\ tasks'[t] \in Snapshot
        /\ tasks'[t].status \in {"in_progress", "completed"} =>
              tasks'[t] = tasks[t]
        /\ tasks[t].status = "completed" => tasks'[t] = tasks[t]
  BY <1>1, ReleasedType DEF IInv, TypeOK, BoardTypeOK
<1>3. TypeOK'
  <2>1. tasks' \in [Tasks -> Snapshot]
    BY <1>1, <1>2
  <2> QED  BY <1>1, <2>1 DEF IInv, TypeOK, BoardTypeOK, Phases, memory
<1>4. /\ HoldersOwnTheirClaims' /\ InFlight' /\ WorkNotAbandoned' /\ Quiet'
      /\ RecordsAbandoned'
  BY <1>1 DEF IInv, HoldersOwnTheirClaims, InFlight, Quiet, WorkNotAbandoned,
              RecordsAbandoned, Live, Holding, Asking, memory
<1>5. BlockersFirst' /\ NoneCompleted' /\ CompletedVerified'
  BY <1>1, <1>2, BoardAssumption
     DEF IInv, TypeOK, BlockersFirst, NoneCompleted, CompletedVerified, Status,
         memory
<1>6. MirrorSound'
  BY <1>1, <1>5, BoardAssumption
     DEF IInv, TypeOK, BlockersFirst, NoneCompleted, CompletedVerified,
         MirrorSound, Status
<1> QED  BY <1>3, <1>4, <1>5, <1>6 DEF IInv

-----------------------------------------------------------------------------
(* The theorems. *)

\* The invariant holds at the start.
LEMMA InitIInv == Init => IInv
<1> SUFFICES ASSUME Init PROVE IInv
  OBVIOUS
<1> USE DEF Init, FreshMemory
<1>1. TypeOK
  BY AbsentType, EvidenceTypes DEF TypeOK, BoardTypeOK, Phases, PCs
<1>2. /\ HoldersOwnTheirClaims /\ InFlight /\ Quiet /\ RecordsAbandoned
      /\ WorkNotAbandoned
  BY DEF HoldersOwnTheirClaims, InFlight, Quiet, RecordsAbandoned,
         WorkNotAbandoned, Live, Holding, Asking
<1>3. BlockersFirst /\ NoneCompleted /\ CompletedVerified /\ MirrorSound
  BY DEF BlockersFirst, NoneCompleted, CompletedVerified, MirrorSound, Status,
         Absent
<1> QED  BY <1>1, <1>2, <1>3 DEF IInv

\* Every step keeps it.
LEMMA NextIInv == IInv /\ [Next]_vars => IInv'
<1> SUFFICES ASSUME IInv, [Next]_vars PROVE IInv'
  OBVIOUS
<1>1. CASE UNCHANGED vars
  <2>1. /\ TypeOK' /\ HoldersOwnTheirClaims' /\ InFlight' /\ Quiet'
        /\ WorkNotAbandoned'
    BY <1>1 DEF IInv, vars, memory, journal, host, TypeOK, BoardTypeOK,
                HoldersOwnTheirClaims, InFlight, Quiet, WorkNotAbandoned, Ready,
                Status
  <2>2. Live' => Live
    BY <1>1 DEF vars, Live
  <2> QED
    BY <1>1, <2>1, <2>2, BoardKept DEF IInv, vars, memory, journal, host
<1>2. ASSUME NEW t \in Tasks, Seed(t) \/ RecordWritten(t) \/ RecordLost(t)
      PROVE  IInv'
  BY <1>2, SeedStep, RecordStep
<1>3. CASE StartWorkers \/ SeedFails \/ Finish \/ Mirror \/ Crash \/ TakeOver
  BY <1>3, StartWorkersStep, SeedFailsStep, FinishStep, MirrorStep, CrashStep,
     TakeOverStep
<1>4. CASE Over
  BY <1>1, <1>4 DEF Over
<1>5. ASSUME NEW m \in Members,
             Loop(m) \/ WaitTimesOut(m) \/ StartRun(m) \/ RunEndsFor(m)
      PROVE  IInv'
  BY <1>5, LoopStep, WaitTimesOutStep, AdmitStep, BudgetStopStep, SettleStep,
     GateAcceptsStep, GateRefusesStep, GateTamperStep, MemberFailsStep
     DEF StartRun, RunEndsFor
<1>6. ASSUME NEW m \in Members,
             Answer(m) \/ Check(m) \/ Lands(m) \/ AppendFails(m)
      PROVE  IInv'
  BY <1>6, AnswerTamperStep, AnswerWaiveStep, AnswerRetryStep, ClaimCheckStep,
     CompleteCheckStep, ReleaseCheckStep, ClaimLandsStep, CompleteLandsStep,
     ReleaseLandsStep, AppendFailsStep
     DEF Answer, Check, Lands
<1> QED  BY <1>1, <1>2, <1>3, <1>4, <1>5, <1>6 DEF Next

\* So it always holds.
LEMMA Invariance == Spec => []IInv
BY InitIInv, NextIInv, PTL DEF Spec

\* Every run of a team keeps its types: in particular the board never holds a
\* pending task with an owner or a lease, nor one in progress without.
THEOREM TypeCorrect == Spec => []TypeOK
<1>1. IInv => TypeOK
  BY DEF IInv
<1> QED  BY <1>1, Invariance, PTL

\* A member at work owns its task at the revision it will name, whatever the
\* team, the failures and the takeovers: no two members ever work on one task.
THEOREM ClaimsAreExclusive ==
    Spec => [](HoldersOwnTheirClaims
               /\ \A m, n \in Members :
                     /\ pc[m] \in Holding /\ pc[n] \in Holding
                     /\ held[m] = held[n]
                     => m = n)
<1>1. IInv => /\ HoldersOwnTheirClaims
              /\ \A m, n \in Members :
                    /\ pc[m] \in Holding /\ pc[n] \in Holding
                    /\ held[m] = held[n]
                    => m = n
  BY DEF IInv, HoldersOwnTheirClaims
<1> QED  BY <1>1, Invariance, PTL

\* No task is worked on or completed before its blockers, on any board.
THEOREM BlockersComeFirst == Spec => []BlockersFirst
<1>1. IInv => BlockersFirst
  BY DEF IInv
<1> QED  BY <1>1, Invariance, PTL

\* No task is both given up and completed, through budget stops that abandon
\* tasks whose claim is being written, failed appends and takeovers.
THEOREM AbandonedStayOpen == Spec => []AbandonedNotCompleted
<1>1. IInv => AbandonedNotCompleted
  BY DEF IInv, NoneCompleted, AbandonedNotCompleted
<1> QED  BY <1>1, Invariance, PTL

\* The board keeps its shape, its claims exclusive, its blockers first and its abandoned
\* tasks open, all at once.
THEOREM BoardStaysSafe == Spec => []BoardSafe
<1>1. IInv => BoardSafe
  BY DEF IInv, NoneCompleted, AbandonedNotCompleted, BoardSafe
<1> QED  BY <1>1, Invariance, PTL

\* A gated board, and what the remote holds of it, completes a task only on
\* evidence of its level or by a named person.
THEOREM EvidenceAlwaysHolds == Spec => []EvidenceHolds
<1>1. IInv => EvidenceHolds
  BY DEF IInv, CompletedVerified, MirrorSound, EvidenceHolds, Status
<1> QED  BY <1>1, Invariance, PTL

\* A completion the remote got is final, through any number of crashes and
\* takeovers.
THEOREM CompletionsAreDurable == Spec => DurablyCompleted
<1>1. ASSUME IInv, IInv', [Next]_vars, NEW t \in Tasks,
             mirrored.tasks[t].status = "completed"
      PROVE  /\ tasks'[t] = mirrored.tasks[t]
             /\ mirrored'.tasks[t] = mirrored.tasks[t]
  <2>1. tasks[t] = mirrored.tasks[t] /\ tasks[t].status = "completed"
    BY <1>1 DEF IInv, MirrorSound
  <2>2. mirrored'.tasks[t] = mirrored.tasks[t]
    <3>1. CASE Mirror
      BY <2>1, <3>1 DEF Mirror
    <3>2. CASE TakeOver
      BY <2>1, <3>2 DEF TakeOver, ReleaseOrphans
    <3>3. CASE UNCHANGED mirrored
      BY <3>3
    <3>4. Mirror \/ TakeOver \/ UNCHANGED mirrored
      BY <1>1, ZenonT(60)
         DEF Next, vars, host, Seed, RecordWritten, RecordLost, StartWorkers,
             SeedFails, Finish, Crash, Over, Loop, WaitTimesOut, StartRun,
             RunEndsFor, Answer, Check, Lands, AppendFails, Admit, BudgetStop,
             Settle, GateAccepts, GateRefuses, GateTamper, NotPassed,
             MemberFails, AnswerTamper, AnswerWaive, AnswerRetry, ClaimCheck,
             CompleteCheck, ReleaseCheck, ClaimLands, CompleteLands,
             ReleaseLands
    <3> QED  BY <3>1, <3>2, <3>3, <3>4
  <2>3. mirrored'.tasks[t].status = "completed"
    BY <1>1, <2>2
  <2> QED  BY <1>1, <2>2, <2>3 DEF IInv, MirrorSound
<1>2. IInv /\ IInv' /\ [Next]_vars =>
        [\A t \in Tasks : mirrored.tasks[t].status = "completed" =>
            /\ tasks'[t] = mirrored.tasks[t]
            /\ mirrored'.tasks[t] = mirrored.tasks[t]]_vars
  BY <1>1
<1> QED  BY <1>2, Invariance, PTL DEF Spec, DurablyCompleted

(***************************************************************************)
(* How often a task is started, and by whom it is left: four invariants    *)
(* over IInv.  Counted: a claim is paid for by a failed attempt before its *)
(* task can be claimed again.  ClaimUnrecorded: a task being claimed has   *)
(* no record of being abandoned written before the claim is.  HeldOrOpen:  *)
(* a claim whose append was written has its member.  AcceptedVerified: a   *)
(* member completes with what the board asks for.                          *)
(***************************************************************************)
\* A claim may be granted once more.
Startable(t) == started[t] <= attempts[t] /\ started[t] < Allowed(t)

NothingCounted ==
    phase \in {"seeding", "down"} =>
        \A t \in Tasks : started[t] = 0 /\ attempts[t] = 0 /\ extra[t] = 0

\* What can be claimed, or is being claimed.
OpenStartable ==
    /\ \A t \in Tasks \ abandoned : Status(t) \in {"absent", "pending"} => Startable(t)
    /\ serial # NoOne /\ pc[serial] = "claiming" => Startable(held[serial])

\* What a member works on, before and after its failure is counted.
WorkCounted ==
    \A m \in Members :
        /\ pc[m] \in {"claimed", "running", "threw", "completing", "askTamper"} =>
              started[held[m]] <= attempts[held[m]] + 1
        /\ pc[m] \in {"askWaive", "askRetry"} => started[held[m]] <= attempts[held[m]]
        /\ pc[m] \in {"releasing", "leaving"} /\ held[m] \notin abandoned =>
              Startable(held[m])

Counted == AttemptsBounded /\ NothingCounted /\ OpenStartable /\ WorkCounted

\* Records written, or to be written before the claim under way, are not of its task.
ClaimUnrecorded ==
    /\ mirrored.recorded \subseteq recorded
    /\ serial # NoOne /\ pc[serial] = "claiming" => held[serial] \notin recorded \cup ahead

\* No lease is of a host to come, and no host starts with a claim.
LeasesPast ==
    \A t \in Tasks : tasks[t].lease <= incarnation /\ mirrored.tasks[t].lease <= incarnation

HeldOrOpen ==
    /\ LeasesPast /\ NoStuckClaim
    /\ phase = "seeding" => \A t \in Tasks : Status(t) # "in_progress"

-----------------------------------------------------------------------------
(* How often a task is started. *)

\* The counters are numbers, and a member at work holds a task in progress.
LEMMA CountTypes ==
    ASSUME IInv
    PROVE  /\ attempts \in [Tasks -> Nat] /\ extra \in [Tasks -> Nat]
           /\ started \in [Tasks -> Nat] /\ MaxTaskAttempts \in Nat \ {0}
           /\ pc \in [Members -> PCs] /\ held \in [Members -> Tasks \cup {0}]
           /\ NoOne \notin Members /\ serial \in Members \cup {NoOne}
           /\ \A m \in Members : pc[m] \in Holding =>
                 held[m] \in Tasks /\ Status(held[m]) = "in_progress" /\ tasks[held[m]].owner = m
           /\ serial # NoOne =>
                 /\ pc[serial] \in {"claiming", "completing", "releasing", "leaving"}
                 /\ held[serial] \in Tasks
                 /\ pc[serial] = "claiming" => Status(held[serial]) = "pending"
BY BoardAssumption, WorkersAssumption
   DEF IInv, TypeOK, HoldersOwnTheirClaims, InFlight, Ready

\* Steps that count nothing and move one member.
LEMMA CountKept ==
    ASSUME IInv, Counted, NEW m \in Members,
           Loop(m) \/ WaitTimesOut(m) \/ Admit(m) \/ Settle(m) \/ GateAccepts(m)
              \/ GateTamper(m) \/ CompleteCheck(m)
    PROVE  Counted'
<1>1. /\ Live /\ UNCHANGED <<attempts, extra, started, abandoned, tasks, held, phase>>
      /\ serial' = serial \/ (pc[m] = "completing" /\ serial' = m)
      /\ pc' = pc \/ \E w : pc' = [pc EXCEPT ![m] = w] /\
            \/ pc[m] \in {"idle", "parked"} /\ w \in {"idle", "out", "claiming"}
            \/ /\ pc[m] \in {"claimed", "running", "completing"}
               /\ w \in {"running", "completing", "askTamper", "threw"}
  BY DEF Loop, WaitTimesOut, Admit, Settle, GateAccepts, GateTamper, CompleteCheck, Go, memory,
         journal
<1>2. AttemptsBounded' /\ NothingCounted'
  BY <1>1 DEF Counted, AttemptsBounded, NothingCounted, Live
<1>3. OpenStartable'
  BY <1>1, CountTypes DEF Counted, OpenStartable, Startable, Allowed, Status
<1>4. WorkCounted'
  BY <1>1, CountTypes DEF Counted, WorkCounted, Startable, Allowed
<1> QED  BY <1>2, <1>3, <1>4 DEF Counted

\* What a member gives up counts for nobody else; counters only grow.
LEMMA CountMoves ==
    ASSUME IInv, Counted, Live, NEW m \in Members, pc[m] \in Holding, serial # m,
           NEW w \in {"askWaive", "askRetry", "completing", "releasing", "leaving"}, Go(m, w),
           attempts' \in [Tasks -> Nat], extra' \in [Tasks -> Nat],
           \A t \in Tasks : attempts[t] <= attempts'[t] /\ extra[t] <= extra'[t],
           abandoned \subseteq abandoned',
           UNCHANGED <<started, tasks, held, serial, phase>>,
           w = "completing" => started[held[m]] <= attempts'[held[m]] + 1,
           w \in {"askWaive", "askRetry"} => started[held[m]] <= attempts'[held[m]],
           /\ w \in {"releasing", "leaving"} /\ held[m] \notin abandoned'
           => started[held[m]] <= attempts'[held[m]]
              /\ started[held[m]] < MaxTaskAttempts + extra'[held[m]]
    PROVE  Counted'
<1> USE CountTypes
<1>1. AttemptsBounded' /\ NothingCounted'
  BY DEF Counted, AttemptsBounded, NothingCounted, Live
<1>2. \A t \in Tasks : Startable(t) => Startable(t)'
  BY DEF Startable, Allowed
<1>3. OpenStartable'
  BY <1>2 DEF Counted, OpenStartable, Go, Status
<1>4. ASSUME NEW n \in Members \ {m}
      PROVE  /\ pc'[n] \in {"claimed", "running", "threw", "completing", "askTamper"} =>
                   started'[held'[n]] <= attempts'[held'[n]] + 1
             /\ pc'[n] \in {"askWaive", "askRetry"} => started'[held'[n]] <= attempts'[held'[n]]
             /\ pc'[n] \in {"releasing", "leaving"} /\ held'[n] \notin abandoned' =>
                   Startable(held[n])'
  <2>1. pc'[n] = pc[n] /\ held'[n] = held[n] /\ (pc[n] \in Holding => held[n] \in Tasks)
    BY DEF Go
  <2> QED  BY <1>2, <2>1 DEF Counted, WorkCounted, Holding, Asking
<1>5. pc'[m] = w
  BY DEF Go
<1>6. WorkCounted'
  BY <1>4, <1>5 DEF WorkCounted, Startable, Allowed
<1> QED  BY <1>1, <1>3, <1>6 DEF Counted

\* An abandon gives up its roots.
LEMMA AbandonsRoots ==
    ASSUME NEW S \in SUBSET Tasks, Abandon(S)
    PROVE  abandoned \subseteq abandoned' /\ S \subseteq abandoned'
BY DEF Abandon, WithDependents

\* A task whose budget is spent is given up.
LEMMA CountBudgetStop ==
    ASSUME IInv, Counted, NEW m \in Members, NEW scope \in {"run", "task"}, BudgetStop(m, scope)
    PROVE  Counted'
<1>1. Live /\ pc[m] \in Holding /\ serial # m /\ held[m] \in Tasks
  BY NotSerial, CountTypes DEF BudgetStop, Holding
<1>2. abandoned \subseteq abandoned' /\ held[m] \in abandoned'
  <2> DEFINE S == {held[m]} \cup IF scope = "run" THEN {t \in Tasks : Status(t) = "pending"} ELSE {}
  <2>1. S \in SUBSET Tasks /\ Abandon(S) /\ held[m] \in S
    BY <1>1 DEF BudgetStop
  <2> HIDE DEF S
  <2> QED  BY <2>1, AbandonsRoots
<1>3. Go(m, "releasing") /\ UNCHANGED <<attempts, extra, started, tasks, held, serial, phase>>
  BY DEF BudgetStop
<1> QED  BY <1>1, <1>2, <1>3, CountTypes, CountMoves

\* Work that did not pass is counted, and out of attempts put to a person.
LEMMA CountNotPassed ==
    ASSUME IInv, Counted, Live, NEW m \in Members, pc[m] \in {"running", "askTamper"}, NotPassed(m),
           KeepAbandoned
    PROVE  Counted'
<1>1. pc[m] \in Holding /\ serial # m /\ held[m] \in Tasks
  BY NotSerial, CountTypes DEF Holding, Asking
<1>2. started[held[m]] <= attempts[held[m]] + 1
  BY DEF Counted, WorkCounted
<1>3. /\ attempts' = [attempts EXCEPT ![held[m]] = @ + 1]
      /\ UNCHANGED <<extra, started, tasks, held, serial, phase, abandoned>>
      /\ \/ Go(m, "askWaive")
         \/ Go(m, "releasing") /\ attempts[held[m]] + 1 < Allowed(held[m])
  <2>1. attempts[held[m]] + 1 \in Nat /\ Allowed(held[m]) \in Nat
    BY <1>1, CountTypes DEF Allowed
  <2>2. Go(m, IF attempts[held[m]] + 1 >= Allowed(held[m]) THEN "askWaive" ELSE "releasing")
    BY DEF NotPassed
  <2>3. Go(m, "askWaive") \/ (Go(m, "releasing") /\ attempts[held[m]] + 1 < Allowed(held[m]))
    <3>1. CASE attempts[held[m]] + 1 >= Allowed(held[m])
      BY <2>2, <3>1
    <3>2. CASE ~(attempts[held[m]] + 1 >= Allowed(held[m]))
      <4>1. attempts[held[m]] + 1 < Allowed(held[m])
        BY <2>1, <3>2
      <4> QED  BY <2>2, <3>2, <4>1
    <3> QED  BY <3>1, <3>2
  <2> QED  BY <2>3 DEF NotPassed, KeepAbandoned
<1>4. /\ attempts' \in [Tasks -> Nat] /\ attempts'[held[m]] = attempts[held[m]] + 1
      /\ \A t \in Tasks : attempts[t] <= attempts'[t]
  BY <1>1, <1>3, CountTypes
<1>5. CASE Go(m, "askWaive")
  BY <1>1, <1>2, <1>3, <1>4, <1>5, CountTypes, CountMoves
<1>6. CASE Go(m, "releasing") /\ attempts[held[m]] + 1 < Allowed(held[m])
  BY <1>1, <1>2, <1>3, <1>4, <1>6, CountTypes, CountMoves DEF Allowed
<1> QED  BY <1>3, <1>5, <1>6

\* A broken member's attempt is counted; a person may grant one more.
LEMMA CountMemberFails ==
    ASSUME IInv, Counted, NEW m \in Members, MemberFails(m) PROVE Counted'
<1>1. Live /\ pc[m] \in Holding /\ serial # m /\ held[m] \in Tasks
  BY NotSerial, CountTypes DEF MemberFails, Holding
<1>2. started[held[m]] <= attempts[held[m]] + 1
  BY DEF Counted, WorkCounted, MemberFails
<1>3. /\ attempts' = [attempts EXCEPT ![held[m]] = @ + 1]
      /\ UNCHANGED <<extra, started, tasks, held, serial, phase>>
      /\ \/ Go(m, "askRetry") /\ UNCHANGED abandoned
         \/ Go(m, "leaving") /\ Abandon({held[m]})
         \/ Go(m, "leaving") /\ UNCHANGED abandoned /\ attempts[held[m]] + 1 < Allowed(held[m])
  BY <1>1, CountTypes DEF MemberFails, KeepAbandoned, Allowed
<1>4. /\ attempts' \in [Tasks -> Nat] /\ attempts'[held[m]] = attempts[held[m]] + 1
      /\ \A t \in Tasks : attempts[t] <= attempts'[t]
  BY <1>1, <1>3, CountTypes
<1>5. CASE Go(m, "askRetry") /\ UNCHANGED abandoned
  BY <1>1, <1>2, <1>3, <1>4, <1>5, CountTypes, CountMoves
<1>6. CASE Go(m, "leaving") /\ Abandon({held[m]})
  <2>1. abandoned \subseteq abandoned' /\ held[m] \in abandoned'
    BY <1>1, <1>6, AbandonsRoots
  <2> QED  BY <1>1, <1>3, <1>4, <1>6, <2>1, CountTypes, CountMoves
<1>7. CASE Go(m, "leaving") /\ UNCHANGED abandoned /\ attempts[held[m]] + 1 < Allowed(held[m])
  BY <1>1, <1>2, <1>3, <1>4, <1>7, CountTypes, CountMoves DEF Allowed
<1> QED  BY <1>3, <1>5, <1>6, <1>7

\* An answer to a question is a failed attempt, a waiver, one more attempt or the end.
LEMMA CountAnswer ==
    ASSUME IInv, Counted, NEW m \in Members, Answer(m) PROVE Counted'
<1>1. Live /\ pc[m] \in Asking /\ pc[m] \in Holding /\ serial # m /\ held[m] \in Tasks
  BY NotSerial, CountTypes DEF Answer, AnswerTamper, AnswerWaive, AnswerRetry, Holding, Asking
<1>2. CASE pc[m] = "askTamper" /\ NotPassed(m) /\ KeepAbandoned
  BY <1>1, <1>2, CountNotPassed
<1>3. ASSUME NEW w \in {"releasing", "leaving"}, Go(m, w), Abandon({held[m]}),
             UNCHANGED <<attempts, extra, started, tasks, held, serial, phase>>
      PROVE  Counted'
  <2>1. abandoned \subseteq abandoned' /\ held[m] \in abandoned'
    BY <1>1, <1>3, AbandonsRoots
  <2> QED  BY <1>1, <1>3, <2>1, CountTypes, CountMoves
<1>4. CASE /\ pc[m] = "askWaive" /\ Go(m, "completing") /\ KeepAbandoned
           /\ UNCHANGED <<attempts, extra, started, tasks, held, serial, phase>>
  <2>1. started[held[m]] <= attempts[held[m]] + 1
    BY <1>1, <1>4, CountTypes DEF Counted, WorkCounted
  <2> QED  BY <1>1, <1>4, <2>1, CountTypes, CountMoves DEF KeepAbandoned
<1>5. CASE /\ pc[m] = "askRetry" /\ Go(m, "leaving") /\ KeepAbandoned
           /\ extra' = [extra EXCEPT ![held[m]] = @ + 1]
           /\ UNCHANGED <<attempts, started, tasks, held, serial, phase>>
  <2>1. started[held[m]] <= attempts[held[m]] /\ started[held[m]] <= Allowed(held[m])
    BY <1>1, <1>5 DEF Counted, WorkCounted, AttemptsBounded, Allowed
  <2>2. /\ extra' \in [Tasks -> Nat] /\ extra'[held[m]] = extra[held[m]] + 1
        /\ \A t \in Tasks : extra[t] <= extra'[t]
    BY <1>1, <1>5, CountTypes
  <2> QED  BY <1>1, <1>5, <2>1, <2>2, CountTypes, CountMoves DEF KeepAbandoned, Allowed
<1> QED
  BY <1>2, <1>3, <1>4, <1>5 DEF Answer, AnswerTamper, AnswerWaive, AnswerRetry, KeepAbandoned

\* A claim is begun on a task that may be started, and granted once.
LEMMA CountClaimCheck ==
    ASSUME IInv, Counted, NEW m \in Members, ClaimCheck(m) PROVE Counted'
<1>1. /\ Live /\ pc[m] = "claiming" /\ serial = NoOne
      /\ UNCHANGED <<attempts, extra, started, abandoned, tasks, phase>>
      /\ \/ \E t \in NextReady(abandoned) :
              held' = [held EXCEPT ![m] = t] /\ serial' = m /\ pc' = pc
         \/ pc' = [pc EXCEPT ![m] = "parked"] /\ UNCHANGED <<held, serial>>
  BY DEF ClaimCheck, Go
<1>2. AttemptsBounded' /\ NothingCounted'
  BY <1>1 DEF Counted, AttemptsBounded, NothingCounted, Live
<1>3. \A t \in NextReady(abandoned) : t \in Tasks \ abandoned /\ Status(t) = "pending"
  BY DEF NextReady, Ready
<1>4. OpenStartable'
  BY <1>1, <1>3, CountTypes DEF Counted, OpenStartable, Startable, Allowed, Status
<1>5. WorkCounted'
  BY <1>1, CountTypes DEF Counted, WorkCounted, Startable, Allowed
<1> QED  BY <1>2, <1>4, <1>5 DEF Counted

\* A claim that lands takes the one start its task had left.
LEMMA CountClaimLands ==
    ASSUME IInv, Counted, NEW m \in Members, ClaimLands(m) PROVE Counted'
<1>1. /\ Live /\ pc[m] = "claiming" /\ serial = m /\ serial' = NoOne
      /\ UNCHANGED <<attempts, extra, abandoned, held, phase>>
      /\ tasks' = [tasks EXCEPT ![held[m]] = Claimed(held[m], m)]
      /\ started' = [started EXCEPT ![held[m]] = @ + 1]
      /\ pc' = [n \in Members |-> IF n = m THEN "claimed"
                                  ELSE IF pc[n] = "parked" THEN "idle" ELSE pc[n]]
  BY DEF ClaimLands, Commit, AppendOver
<1>2. /\ held[m] \in Tasks /\ Status(held[m]) = "pending" /\ Startable(held[m])
      /\ started'[held[m]] = started[held[m]] + 1
      /\ \A t \in Tasks \ {held[m]} : started'[t] = started[t]
  BY <1>1, CountTypes DEF Counted, OpenStartable
<1>3. AttemptsBounded' /\ NothingCounted'
  BY <1>1, <1>2, CountTypes DEF Counted, AttemptsBounded, NothingCounted, Live, Startable, Allowed
<1>4. \A t \in Tasks : Status(t)' \in {"absent", "pending"} =>
        t # held[m] /\ Status(t)' = Status(t)
  BY <1>1, <1>2, ClaimedType DEF IInv, TypeOK, BoardTypeOK, Status
<1>5. OpenStartable'
  BY <1>1, <1>2, <1>4 DEF Counted, OpenStartable, Startable, Allowed
<1>6. \A n \in Members \ {m} : pc'[n] \in Holding => pc'[n] = pc[n] /\ held[n] \in Tasks \ {held[m]}
  BY <1>1, <1>2, CountTypes DEF Holding, Asking
<1>7. WorkCounted'
  BY <1>1, <1>2, <1>6, CountTypes DEF Counted, WorkCounted, Startable, Allowed, Holding, Asking
<1> QED  BY <1>3, <1>5, <1>7 DEF Counted

\* A claim is closed: by a completion, or by a release that leaves a task another may start.
LEMMA CountCloses ==
    ASSUME IInv, Counted, NEW m \in Members, pc[m] \in {"completing", "releasing", "leaving"}, Live,
           LetGo(m), serial' = NoOne \/ (serial # m /\ serial' = serial),
           \A n \in Members \ {m} : pc'[n] \in {pc[n], "idle"},
           pc' \in [Members -> PCs], pc'[m] \in {"idle", "out", "threw"},
           serial' # NoOne => pc'[serial'] = pc[serial'],
           UNCHANGED <<attempts, extra, started, abandoned>>,
           phase' \in {"running", "rejected"},
           \A t \in Tasks : Status(t)' \in {"absent", "pending"} =>
              Status(t) \in {"absent", "pending"} \/ t \in abandoned \/ Startable(t),
           pc'[m] # "threw"
    PROVE  Counted'
<1>1. AttemptsBounded' /\ NothingCounted'
  BY DEF Counted, AttemptsBounded, NothingCounted
<1>2. \A n \in Members \ {m} : held'[n] = held[n]
  BY CountTypes DEF LetGo
<1>3. OpenStartable'
  BY <1>2, CountTypes DEF Counted, OpenStartable, Startable, Allowed
<1>4. WorkCounted'
  BY <1>2 DEF Counted, WorkCounted, Startable, Allowed
<1> QED  BY <1>1, <1>3, <1>4 DEF Counted

\* A completed task cannot be claimed.
LEMMA CountCompleteLands ==
    ASSUME IInv, Counted, NEW m \in Members, CompleteLands(m) PROVE Counted'
<1>1. /\ Live /\ pc[m] = "completing" /\ serial = m /\ serial' = NoOne
      /\ UNCHANGED <<attempts, extra, started, abandoned, phase>> /\ LetGo(m)
      /\ tasks' = [tasks EXCEPT ![held[m]] = Completed(held[m], verdict[m])]
      /\ pc' = [n \in Members |-> IF n = m THEN "idle"
                                  ELSE IF pc[n] = "parked" THEN "idle" ELSE pc[n]]
  BY DEF CompleteLands, Commit, AppendOver
<1>2. pc' \in [Members -> PCs]
  BY <1>1, CountTypes DEF PCs
<1>3. \A t \in Tasks : Status(t)' \in {"absent", "pending"} => Status(t) = Status(t)'
  BY <1>1, CountTypes DEF Completed, Status, IInv, TypeOK, BoardTypeOK
<1> QED  BY <1>1, <1>2, <1>3, CountCloses DEF Live

\* A released task is abandoned or may be started once more.
LEMMA CountReleaseLands ==
    ASSUME IInv, Counted, NEW m \in Members, ReleaseLands(m) PROVE Counted'
<1>1. /\ Live /\ pc[m] \in {"releasing", "leaving"} /\ serial = m /\ serial' = NoOne
      /\ UNCHANGED <<attempts, extra, started, abandoned, phase>> /\ LetGo(m)
      /\ tasks' = [tasks EXCEPT ![held[m]] = Released(held[m])]
      /\ pc' = [n \in Members |-> IF n = m THEN AfterRelease(m)
                                  ELSE IF pc[n] = "parked" THEN "idle" ELSE pc[n]]
  BY DEF ReleaseLands, Commit, AppendOver
<1>2. pc' \in [Members -> PCs] /\ AfterRelease(m) \in {"idle", "out"}
  BY <1>1, CountTypes DEF PCs, AfterRelease
<1>3. held[m] \in abandoned \/ Startable(held[m])
  BY <1>1 DEF Counted, WorkCounted
<1>4. \A t \in Tasks : t # held[m] => Status(t) = Status(t)'
  BY <1>1, CountTypes DEF Status, IInv, TypeOK, BoardTypeOK
<1> QED  BY <1>1, <1>2, <1>3, <1>4, CountCloses DEF Live

\* A release that the board refuses leaves the task as it is.
LEMMA CountReleaseCheck ==
    ASSUME IInv, Counted, NEW m \in Members, ReleaseCheck(m) PROVE Counted'
<1>1. /\ Live /\ pc[m] \in {"releasing", "leaving"} /\ serial = NoOne
      /\ UNCHANGED <<attempts, extra, started, abandoned, phase, tasks>>
      /\ \/ serial' = m /\ UNCHANGED <<pc, held>>
         \/ pc' = [pc EXCEPT ![m] = AfterRelease(m)] /\ LetGo(m) /\ serial' = serial
  BY DEF ReleaseCheck, Go
<1>2. CASE serial' = m /\ UNCHANGED <<pc, held>>
  BY <1>1, <1>2 DEF Counted, AttemptsBounded, NothingCounted, OpenStartable, WorkCounted, Startable,
                    Allowed, Status
<1>3. CASE pc' = [pc EXCEPT ![m] = AfterRelease(m)] /\ LetGo(m) /\ serial' = serial
  <2>1. pc' \in [Members -> PCs] /\ AfterRelease(m) \in {"idle", "out"}
    BY <1>1, <1>3, CountTypes DEF PCs, AfterRelease
  <2> QED  BY <1>1, <1>3, <2>1, CountTypes, CountCloses DEF Live, Status
<1> QED  BY <1>1, <1>2, <1>3

\* An append that fails changes no task.
LEMMA CountAppendFails ==
    ASSUME IInv, Counted, NEW m \in Members, AppendFails(m) PROVE Counted'
<1>1. /\ Live /\ serial = m /\ serial' = NoOne
      /\ UNCHANGED <<attempts, extra, started, abandoned, tasks>>
      /\ phase' \in {"running", "rejected"}
  BY DEF AppendFails, AppendOver, Live
<1>2. \/ pc[m] = "claiming" /\ pc' = [pc EXCEPT ![m] = "out"] /\ LetGo(m)
      \/ pc[m] = "completing" /\ pc' = [pc EXCEPT ![m] = "threw"] /\ held' = held
      \/ pc[m] \in {"releasing", "leaving"} /\ LetGo(m)
         /\ pc' = [pc EXCEPT ![m] = AfterRelease(m)]
  BY DEF AppendFails, Go
<1>3. AttemptsBounded' /\ NothingCounted' /\ OpenStartable'
  BY <1>1 DEF Counted, AttemptsBounded, NothingCounted, OpenStartable, Startable, Allowed, Status
<1>4. WorkCounted'
  BY <1>1, <1>2, CountTypes
     DEF Counted, WorkCounted, Startable, Allowed, LetGo, AfterRelease
<1> QED  BY <1>3, <1>4 DEF Counted

\* Steps of the run, the journal and the hosts.
LEMMA CountRun ==
    ASSUME IInv, Counted,
           \/ \E t \in Tasks : Seed(t) \/ RecordWritten(t) \/ RecordLost(t)
           \/ StartWorkers \/ SeedFails \/ Finish \/ Mirror \/ Crash \/ TakeOver
           \/ UNCHANGED vars
    PROVE  Counted'
<1>1. CASE Crash
  BY <1>1, WorkersAssumption, BoardAssumption
     DEF Crash, FreshMemory, Counted, AttemptsBounded, NothingCounted, OpenStartable, WorkCounted,
         Startable, Allowed
<1>2. CASE TakeOver \/ StartWorkers
  <2>1. /\ UNCHANGED <<attempts, extra, started, pc, held, serial>>
        /\ \A t \in Tasks : started[t] = 0 /\ attempts[t] = 0 /\ extra[t] = 0
        /\ serial = NoOne /\ \A n \in Members : pc[n] = "idle"
    BY <1>2 DEF TakeOver, StartWorkers, memory, Counted, NothingCounted, IInv, Quiet
  <2> QED
    BY <2>1, WorkersAssumption DEF Counted, AttemptsBounded, NothingCounted, OpenStartable,
       WorkCounted, Startable, Allowed
<1>3. CASE \E t \in Tasks : Seed(t)
  <2>1. PICK t \in Tasks : Seed(t)
    BY <1>3
  <2>2. /\ UNCHANGED <<attempts, extra, started, pc, held, serial, abandoned, phase>>
        /\ Status(t) = "absent" /\ tasks' = [tasks EXCEPT ![t] = Created(t)]
    BY <2>1 DEF Seed, memory, MayCreate
  <2>3. \A u \in Tasks : Status(u)' \in {"absent", "pending"} => Status(u) \in {"absent", "pending"}
    BY <2>2 DEF Status, IInv, TypeOK, BoardTypeOK
  <2> QED
    BY <2>2, <2>3 DEF Counted, AttemptsBounded, NothingCounted, OpenStartable, WorkCounted, Startable,
       Allowed
<1>4. CASE \/ \E t \in Tasks : RecordWritten(t) \/ RecordLost(t)
           \/ SeedFails \/ Finish \/ Mirror \/ UNCHANGED vars
  <2>1. /\ UNCHANGED <<attempts, extra, started, pc, held, serial, tasks>>
        /\ abandoned \subseteq abandoned' /\ phase' \in {phase, "ended"}
    BY <1>4 DEF RecordWritten, RecordLost, SeedFails, Finish, Abandon, Mirror, vars, memory, journal
  <2> QED
    BY <2>1 DEF Counted, AttemptsBounded, NothingCounted, OpenStartable, WorkCounted, Startable,
       Allowed, Status
<1> QED  BY <1>1, <1>2, <1>3, <1>4

\* No step disturbs the counts.
LEMMA CountedStep == IInv /\ Counted /\ [Next]_vars => Counted'
<1> SUFFICES ASSUME IInv, Counted, [Next]_vars PROVE Counted'
  OBVIOUS
<1>1. CASE \/ \E t \in Tasks : Seed(t) \/ RecordWritten(t) \/ RecordLost(t)
           \/ StartWorkers \/ SeedFails \/ Finish \/ Mirror \/ Crash \/ TakeOver
           \/ UNCHANGED vars
  BY <1>1, CountRun
<1>2. CASE Over
  BY <1>2, CountRun DEF Over
<1>3. ASSUME NEW m \in Members,
             Loop(m) \/ WaitTimesOut(m) \/ StartRun(m) \/ RunEndsFor(m)
      PROVE  Counted'
  <2>1. CASE GateRefuses(m)
    BY <2>1, CountNotPassed DEF GateRefuses
  <2> QED
    BY <1>3, <2>1, CountKept, CountBudgetStop, CountMemberFails DEF StartRun, RunEndsFor
<1>4. ASSUME NEW m \in Members,
             Answer(m) \/ Check(m) \/ Lands(m) \/ AppendFails(m)
      PROVE  Counted'
  BY <1>4, CountAnswer, CountClaimCheck, CountKept, CountReleaseCheck, CountClaimLands,
     CountCompleteLands, CountReleaseLands, CountAppendFails DEF Check, Lands
<1> QED  BY <1>1, <1>2, <1>3, <1>4 DEF Next

\* No task is started oftener than its attempts and the granted retries allow, through
\* waivers whose completion fails and answers that grant one more (runBoardWorkers).
THEOREM StartsAreBounded == Spec => []AttemptsBounded
<1>1. Init => Counted
  BY WorkersAssumption, BoardAssumption
     DEF Init, FreshMemory, Counted, AttemptsBounded, NothingCounted, OpenStartable, WorkCounted,
         Startable, Allowed
<1>2. Counted => AttemptsBounded
  BY DEF Counted
<1> QED  BY <1>1, <1>2, CountedStep, Invariance, PTL DEF Spec

-----------------------------------------------------------------------------
(* What was given up is not started. *)

\* Only a claim that lands starts a task.
LEMMA StartsOnly ==
    ASSUME [Next]_vars
    PROVE  Crash \/ (\E m \in Members : ClaimLands(m)) \/ UNCHANGED started
BY DEF Next, vars, memory, Seed, RecordWritten, RecordLost, StartWorkers, SeedFails, Finish, Mirror,
       TakeOver, Over, Loop, WaitTimesOut, StartRun, RunEndsFor, Answer, Check, Lands, AppendFails,
       Admit, BudgetStop, Settle, GateAccepts, GateRefuses, GateTamper, NotPassed, MemberFails,
       AnswerTamper, AnswerWaive, AnswerRetry, ClaimCheck, CompleteCheck, ReleaseCheck, CompleteLands,
       ReleaseLands

\* The records of an abandon are written behind the claim under way.
LEMMA RecordsBehind ==
    ASSUME NEW S, Abandon(S)
    PROVE  serial # NoOne => ahead' = ahead
BY DEF Abandon, QueueRecords

\* A member that moves on neither begins a claim nor writes a record before one.
LEMMA UnrecordedMoves ==
    ASSUME IInv, ClaimUnrecorded, NEW m \in Members,
           Loop(m) \/ WaitTimesOut(m) \/ StartRun(m) \/ RunEndsFor(m) \/ Answer(m)
              \/ CompleteCheck(m) \/ ReleaseCheck(m)
    PROVE  ClaimUnrecorded'
<1>1. /\ UNCHANGED <<recorded, mirrored>>
      /\ serial' = serial \/ (pc[m] \in {"completing", "releasing", "leaving"} /\ serial' = m)
      /\ \A n \in Members : n # m => pc'[n] = pc[n] /\ held'[n] = held[n]
      /\ pc[m] # "claiming" /\ (pc'[m] = "claiming" => pc[m] = "idle")
  BY CountTypes
     DEF Loop, WaitTimesOut, StartRun, Admit, BudgetStop, RunEndsFor, Settle, GateAccepts,
         GateRefuses, GateTamper, NotPassed, MemberFails, Answer, AnswerTamper, AnswerWaive,
         AnswerRetry, CompleteCheck, ReleaseCheck, LetGo, Go, AfterRelease, journal, host, Asking
<1>2. serial # NoOne => ahead' = ahead
  BY RecordsBehind
     DEF Loop, WaitTimesOut, StartRun, Admit, BudgetStop, RunEndsFor, Settle, GateAccepts,
         GateRefuses, GateTamper, NotPassed, MemberFails, Answer, AnswerTamper, AnswerWaive,
         AnswerRetry, CompleteCheck, ReleaseCheck, KeepAbandoned, journal
<1> QED  BY <1>1, <1>2, CountTypes DEF ClaimUnrecorded

\* No step writes the record of a task before the claim of it under way.
LEMMA UnrecordedStep == IInv /\ ClaimUnrecorded /\ [Next]_vars => ClaimUnrecorded'
<1> SUFFICES ASSUME IInv, ClaimUnrecorded, [Next]_vars PROVE ClaimUnrecorded'
  OBVIOUS
<1>1. CASE Mirror \/ TakeOver
  BY <1>1 DEF Mirror, TakeOver, memory, journal, ClaimUnrecorded
<1>2. CASE Crash
  BY <1>2 DEF Crash, ClaimUnrecorded
<1>3. CASE \E t \in Tasks : Seed(t) \/ RecordWritten(t) \/ RecordLost(t)
  BY <1>3 DEF Seed, RecordWritten, RecordLost, memory, host, ClaimUnrecorded
<1>4. CASE StartWorkers
  BY <1>4 DEF StartWorkers, host, IInv, Quiet, ClaimUnrecorded
<1>5. CASE Finish
  BY <1>5, CountTypes DEF Finish, host, ClaimUnrecorded
<1>6. CASE SeedFails \/ Over \/ UNCHANGED vars
  BY <1>6 DEF SeedFails, Over, vars, memory, journal, host, ClaimUnrecorded
<1>7. ASSUME NEW m \in Members,
             Loop(m) \/ WaitTimesOut(m) \/ StartRun(m) \/ RunEndsFor(m) \/ Answer(m)
                \/ CompleteCheck(m) \/ ReleaseCheck(m)
      PROVE  ClaimUnrecorded'
  BY <1>7, UnrecordedMoves
<1>8. ASSUME NEW m \in Members, Lands(m) \/ AppendFails(m)
      PROVE  ClaimUnrecorded'
  BY <1>8 DEF Lands, ClaimLands, CompleteLands, ReleaseLands, Commit, AppendFails, AppendOver, host,
              ClaimUnrecorded
<1>9. ASSUME NEW m \in Members, ClaimCheck(m)
      PROVE  ClaimUnrecorded'
  <2>1. \A t \in NextReady(abandoned) : t \notin recorded \cup ahead
    BY <1>9 DEF ClaimCheck, NextReady, IInv, RecordsAbandoned
  <2> QED  BY <1>9, <2>1, CountTypes DEF ClaimCheck, Go, host, ClaimUnrecorded
<1> QED  BY <1>1, <1>2, <1>3, <1>4, <1>5, <1>6, <1>7, <1>8, <1>9 DEF Next, Check

\* A task the remote holds as abandoned is started by no host, its claim being written before
\* the record of a budget stop that came in between (SwarmBoard.recordAbandoned).
THEOREM AbandonedStayUnstarted == Spec => AbandonedNotRerun
<1>1. Init => ClaimUnrecorded
  BY DEF Init, ClaimUnrecorded
<1>2. ASSUME IInv, ClaimUnrecorded, [Next]_vars, NEW t \in mirrored.recorded
      PROVE  started'[t] <= started[t]
  <2>1. t \in Tasks /\ started[t] \in Nat
    BY <1>2, CountTypes DEF IInv, TypeOK
  <2>2. CASE Crash
    BY <2>1, <2>2 DEF Crash, FreshMemory
  <2>3. ASSUME NEW m \in Members, ClaimLands(m)
        PROVE  started'[t] <= started[t]
    <3>1. t # held[m]
      BY <1>2, <2>3, BoardAssumption DEF ClaimUnrecorded, ClaimLands, Commit, AppendOver
    <3> QED  BY <2>1, <2>3, <3>1, CountTypes DEF ClaimLands
  <2>4. CASE UNCHANGED started
    BY <2>1, <2>4
  <2> QED  BY <1>2, <2>2, <2>3, <2>4, StartsOnly
<1>3. IInv /\ ClaimUnrecorded /\ [Next]_vars =>
        [\A t \in mirrored.recorded : started'[t] <= started[t]]_vars
  BY <1>2
<1> QED  BY <1>1, <1>3, UnrecordedStep, Invariance, PTL DEF Spec, AbandonedNotRerun

-----------------------------------------------------------------------------
(* Every claim has its member. *)

\* A step changes a task's lease to none or to this host's.
LEMMA LeasesStep ==
    ASSUME IInv, LeasesPast, [Next]_vars PROVE LeasesPast'
<1> USE DEF LeasesPast
<1>0. incarnation \in Nat /\ \A t \in Tasks : tasks[t].lease \in Nat /\ mirrored.tasks[t].lease \in Nat
  BY DEF IInv, TypeOK, BoardTypeOK, Snapshot, SnapshotFields
<1>1. CASE Mirror
  BY <1>1 DEF Mirror, journal
<1>2. CASE TakeOver
  <2>1. \A t \in Tasks : tasks'[t].lease \in {0, tasks[t].lease}
    BY <1>2 DEF TakeOver, ReleaseOrphans, ReleasedSnapshot
  <2> QED  BY <1>0, <1>2, <2>1 DEF TakeOver
<1>3. CASE Crash
  BY <1>3 DEF Crash
<1>4. CASE \E t \in Tasks : Seed(t)
  BY <1>0, <1>4 DEF Seed, Created, host, IInv, TypeOK, BoardTypeOK
<1>5. ASSUME NEW m \in Members, Lands(m)
      PROVE  LeasesPast'
  <2>1. /\ UNCHANGED host
        /\ \E s : tasks' = [tasks EXCEPT ![held[m]] = s] /\ s.lease \in {0, incarnation}
    BY <1>5 DEF Lands, ClaimLands, CompleteLands, ReleaseLands, Commit, Claimed, Completed, Released,
                ReleasedSnapshot
  <2> QED  BY <1>0, <2>1 DEF host, IInv, TypeOK, BoardTypeOK
<1>6. CASE UNCHANGED <<tasks, host>>
  BY <1>6 DEF host
<1>7. \/ Mirror \/ TakeOver \/ Crash \/ (\E t \in Tasks : Seed(t)) \/ (\E m \in Members : Lands(m))
      \/ UNCHANGED <<tasks, host>>
  BY ZenonT(60) DEF Next, vars, memory, journal, RecordWritten, RecordLost, StartWorkers, SeedFails, Finish,
         Over, Loop, WaitTimesOut, StartRun, RunEndsFor, Answer, Check, AppendFails, Admit,
         BudgetStop, Settle, GateAccepts, GateRefuses, GateTamper, NotPassed, MemberFails,
         AnswerTamper, AnswerWaive, AnswerRetry, ClaimCheck, CompleteCheck, ReleaseCheck
<1> QED  BY <1>1, <1>2, <1>3, <1>4, <1>5, <1>6, <1>7

\* A member that moves on with its claim still holds it.
LEMMA StuckMoves ==
    ASSUME IInv, NoStuckClaim, Live, NEW m \in Members, UNCHANGED <<tasks, faults>>,
           \A n \in Members : pc[n] \in Holding => pc'[n] \in Holding /\ held'[n] = held[n]
    PROVE  NoStuckClaim'
BY DEF NoStuckClaim, Status

\* No step of a member short of its landing append loses a claim.
LEMMA StuckMember ==
    ASSUME IInv, NoStuckClaim, NEW m \in Members,
           Loop(m) \/ WaitTimesOut(m) \/ StartRun(m) \/ RunEndsFor(m) \/ Answer(m) \/ Check(m)
    PROVE  NoStuckClaim'
<1>1. Live /\ UNCHANGED <<tasks, faults>>
  BY DEF Loop, WaitTimesOut, StartRun, Admit, BudgetStop, RunEndsFor, Settle, GateAccepts,
         GateRefuses, GateTamper, NotPassed, MemberFails, Answer, AnswerTamper, AnswerWaive,
         AnswerRetry, Check, ClaimCheck, CompleteCheck, ReleaseCheck, journal
<1>2. CASE Loop(m) \/ WaitTimesOut(m) \/ StartRun(m) \/ RunEndsFor(m) \/ Answer(m) \/ CompleteCheck(m)
  <2>1. /\ held' = held
        /\ pc' = pc \/ \E w : pc' = [pc EXCEPT ![m] = w] /\ (w \in Holding \/ pc[m] \in {"idle", "parked"})
    BY <1>2 DEF Loop, WaitTimesOut, StartRun, Admit, BudgetStop, RunEndsFor, Settle, GateAccepts,
         GateRefuses, GateTamper, NotPassed, MemberFails, Answer, AnswerTamper, AnswerWaive,
         AnswerRetry, CompleteCheck, Go, Holding, Asking
  <2>2. \A n \in Members : pc[n] \in Holding => pc'[n] \in Holding /\ held'[n] = held[n]
    BY <2>1, CountTypes DEF Holding, Asking
  <2> QED  BY <1>1, <2>2, StuckMoves
<1>3. CASE ClaimCheck(m)
  <2>1. \A n \in Members : pc[n] \in Holding => pc'[n] \in Holding /\ held'[n] = held[n]
    BY <1>3, CountTypes DEF ClaimCheck, Go, Holding, Asking
  <2> QED  BY <1>1, <2>1, StuckMoves
<1>4. CASE ReleaseCheck(m)
  <2>1. MayRelease(held[m], m, heldRev[m])
    BY <1>4 DEF ReleaseCheck, IInv, HoldersOwnTheirClaims, Holding, MayRelease, Expect
  <2>2. UNCHANGED <<pc, held>>
    BY <1>4, <2>1 DEF ReleaseCheck
  <2> QED  BY <1>1, <2>2, StuckMoves
<1> QED  BY <1>2, <1>3, <1>4 DEF Check

\* A landing append gives its task a member, or takes it out of progress.
LEMMA StuckLands ==
    ASSUME IInv, NoStuckClaim, NEW m \in Members, Lands(m)
    PROVE  NoStuckClaim'
<1>1. Live /\ Live' /\ UNCHANGED faults /\ held[m] \in Tasks
  BY CountTypes, BoardAssumption
     DEF Lands, ClaimLands, CompleteLands, ReleaseLands, Commit, AppendOver, Live
<1>2. tasks \in [Tasks -> Snapshot]
  BY DEF IInv, TypeOK, BoardTypeOK
<1>3. ASSUME NEW s, NEW w, Commit(m, s, w), \A n \in Members \ {m} : held'[n] = held[n],
             s.status = "in_progress" => w = "claimed" /\ held' = held
      PROVE  NoStuckClaim'
  BY <1>1, <1>2, <1>3 DEF Commit, NoStuckClaim, Status, Holding, Asking
<1>4. CASE ClaimLands(m)
  BY <1>3, <1>4 DEF ClaimLands
<1>5. ASSUME LetGo(m)
      PROVE  \A n \in Members \ {m} : held'[n] = held[n]
  BY <1>5, CountTypes DEF LetGo
<1>6. CASE CompleteLands(m)
  BY <1>3, <1>5, <1>6 DEF CompleteLands, Completed
<1>7. CASE ReleaseLands(m)
  BY <1>3, <1>5, <1>7 DEF ReleaseLands, Released, ReleasedSnapshot
<1> QED  BY <1>4, <1>6, <1>7 DEF Lands

\* No step loses the member of a claim.
LEMMA HeldStep == IInv /\ HeldOrOpen /\ [Next]_vars => HeldOrOpen'
<1> SUFFICES ASSUME IInv, HeldOrOpen, [Next]_vars PROVE HeldOrOpen'
  OBVIOUS
<1> DEFINE NoneHeld == phase = "seeding" => \A t \in Tasks : Status(t) # "in_progress"
<1>1. LeasesPast' /\ LeasesPast /\ NoStuckClaim /\ NoneHeld
  BY LeasesStep DEF HeldOrOpen
<1>2. ASSUME NEW m \in Members,
             Loop(m) \/ WaitTimesOut(m) \/ StartRun(m) \/ RunEndsFor(m) \/ Answer(m) \/ Check(m)
      PROVE  NoStuckClaim' /\ NoneHeld'
  <2>1. Live /\ phase' = phase
    BY <1>2 DEF Loop, WaitTimesOut, StartRun, Admit, BudgetStop, RunEndsFor, Settle, GateAccepts,
         GateRefuses, GateTamper, NotPassed, MemberFails, Answer, AnswerTamper, AnswerWaive,
         AnswerRetry, Check, ClaimCheck, CompleteCheck, ReleaseCheck
  <2> QED  BY <1>1, <1>2, <2>1, StuckMember DEF Live
<1>3. ASSUME NEW m \in Members, Lands(m)
      PROVE  NoStuckClaim' /\ NoneHeld'
  <2>1. Live /\ phase' = phase
    BY <1>3 DEF Lands, ClaimLands, CompleteLands, ReleaseLands, Commit, AppendOver
  <2> QED  BY <1>1, <1>3, <2>1, StuckLands DEF Live
<1>4. ASSUME NEW m \in Members, AppendFails(m)
      PROVE  NoStuckClaim' /\ NoneHeld'
  BY <1>4 DEF AppendFails, AppendOver, Live, NoStuckClaim, IInv, TypeOK
<1>5. CASE TakeOver
  <2>1. \A t \in Tasks : tasks'[t].status # "in_progress"
    <3>1. \A t \in Tasks : tasks[t].lease # incarnation'
      BY <1>1, <1>5 DEF LeasesPast, TakeOver, IInv, TypeOK, BoardTypeOK, Snapshot, SnapshotFields
    <3> QED  BY <1>5, <3>1 DEF TakeOver, ReleaseOrphans, ReleasedSnapshot
  <2> QED  BY <1>1, <1>5, <2>1 DEF TakeOver, Status, Live, NoStuckClaim, HeldOrOpen
<1>6. CASE StartWorkers
  BY <1>1, <1>6 DEF StartWorkers, Status, NoStuckClaim, HeldOrOpen
<1>7. CASE \E t \in Tasks : Seed(t)
  BY <1>1, <1>7 DEF Seed, Created, Status, Live, NoStuckClaim, HeldOrOpen, IInv, TypeOK,
     BoardTypeOK
<1>8. CASE Crash \/ Finish \/ SeedFails
  BY <1>1, <1>8 DEF Crash, Finish, SeedFails, Live, NoStuckClaim, HeldOrOpen
<1>9. CASE Mirror \/ Over \/ UNCHANGED vars \/ \E t \in Tasks : RecordWritten(t) \/ RecordLost(t)
  <2>1. /\ UNCHANGED <<tasks, pc, held, phase>> /\ faults' \in {faults, faults + 1}
    BY <1>9 DEF Mirror, Over, vars, RecordWritten, RecordLost, memory, journal
  <2>2. faults' = 0 => faults = 0
    BY <2>1 DEF IInv, TypeOK
  <2> QED  BY <1>1, <2>1, <2>2 DEF NoStuckClaim, Live, Status, HeldOrOpen
<1> QED  BY <1>1, <1>2, <1>3, <1>4, <1>5, <1>6, <1>7, <1>8, <1>9 DEF Next, HeldOrOpen

\* While no append fails, every task in progress on a live host is a member's that is at
\* work on it, after any takeover (runBoardWorkers, SwarmBoard.releaseOrphans).
THEOREM ClaimsKeepTheirMembers == Spec => []NoStuckClaim
<1>1. Init => HeldOrOpen
  BY DEF Init, HeldOrOpen, LeasesPast, NoStuckClaim, Live, Status, Absent
<1>2. HeldOrOpen => NoStuckClaim
  BY DEF HeldOrOpen
<1> QED  BY <1>1, <1>2, HeldStep, Invariance, PTL DEF Spec

-----------------------------------------------------------------------------
(* What the gate accepts. *)

\* What a member completes with is what the board asks for.
AcceptedVerified == \A m \in Members : pc[m] = "completing" => Verified(held[m], verdict[m])

\* A member that sets out to complete was accepted by its gate, in full, or by a person.
LEMMA AcceptedStep ==
    ASSUME ~AllowPartial, IInv, AcceptedVerified, [Next]_vars PROVE AcceptedVerified'
<1>1. ASSUME NEW m \in Members, GateAccepts(m)
      PROVE  AcceptedVerified'
  <2>1. held[m] \in Tasks /\ GateLevel[held[m]] \in 1..3 /\ MinLevel[held[m]] \in 0..3
    BY <1>1, CountTypes, WorkersAssumption, BoardAssumption DEF GateAccepts, Holding
  <2>2. Verified(held[m], GateEvidence(GateLevel[held[m]], FALSE))
    BY <2>1, WorkersAssumption DEF Verified, GateEvidence, EffectiveLevel
  <2>3. /\ verdict' = [verdict EXCEPT ![m] = GateEvidence(GateLevel[held[m]], FALSE)]
        /\ held' = held /\ pc' = [pc EXCEPT ![m] = "completing"]
    BY <1>1 DEF GateAccepts, Go
  <2> QED  BY <2>2, <2>3, CountTypes DEF AcceptedVerified, Verified, IInv, TypeOK
<1>2. ASSUME NEW m \in Members, AnswerWaive(m), Go(m, "completing")
      PROVE  AcceptedVerified'
  <2>1. verdict' = [verdict EXCEPT ![m] = HumanWaiver] /\ held' = held
    BY <1>2, CountTypes DEF AnswerWaive, Go
  <2>2. Verified(held[m], HumanWaiver)
    BY DEF Verified, HumanWaiver
  <2> QED  BY <1>2, <2>1, <2>2, CountTypes DEF Go, AcceptedVerified, Verified, IInv, TypeOK
<1>3. ASSUME NEW m \in Members, Settle(m)
      PROVE  AcceptedVerified'
  BY <1>3 DEF Settle, AcceptedVerified, Verified
<1>4. ASSUME \A m \in Members : pc'[m] = "completing" =>
                pc[m] = "completing" /\ held'[m] = held[m] /\ verdict'[m] = verdict[m]
      PROVE  AcceptedVerified'
  BY <1>4 DEF AcceptedVerified, Verified
<1>5. ASSUME NEW m \in Members,
             \/ Loop(m) \/ WaitTimesOut(m) \/ StartRun(m) \/ GateRefuses(m) \/ GateTamper(m)
             \/ MemberFails(m) \/ AnswerTamper(m) \/ AnswerRetry(m) \/ Check(m)
             \/ (AnswerWaive(m) /\ Go(m, "releasing"))
      PROVE  AcceptedVerified'
  BY <1>4, <1>5, CountTypes
     DEF Loop, WaitTimesOut, StartRun, Admit, BudgetStop, GateRefuses, GateTamper, NotPassed,
         MemberFails, AnswerTamper, AnswerRetry, AnswerWaive, Check, ClaimCheck, CompleteCheck,
         ReleaseCheck, Go, LetGo, AfterRelease, IInv, TypeOK
<1>6. ASSUME NEW m \in Members, Lands(m) \/ AppendFails(m)
      PROVE  AcceptedVerified'
  BY <1>4, <1>6, CountTypes
     DEF Lands, ClaimLands, CompleteLands, ReleaseLands, Commit, AppendFails, AppendOver, Go, LetGo,
         AfterRelease, IInv, TypeOK
<1>7. CASE \/ \E t \in Tasks : Seed(t) \/ RecordWritten(t) \/ RecordLost(t)
           \/ StartWorkers \/ SeedFails \/ Finish \/ Mirror \/ TakeOver \/ Over \/ UNCHANGED vars
  BY <1>4, <1>7 DEF Seed, RecordWritten, RecordLost, StartWorkers, SeedFails, Finish, Mirror,
     TakeOver, Over, vars, memory
<1>8. CASE Crash
  BY <1>8 DEF Crash, FreshMemory, AcceptedVerified
<1>9. ASSUME NEW m \in Members, AnswerWaive(m)
      PROVE  Go(m, "completing") \/ Go(m, "releasing")
  BY <1>9 DEF AnswerWaive
<1> QED  BY <1>1, <1>2, <1>3, <1>5, <1>6, <1>7, <1>8, <1>9 DEF Next, RunEndsFor, Answer

\* Unless partly confined runs count, the board takes what the gate or a person accepted: a
\* completion fails only with its append (runBoardWorkers' completion, SwarmBoard.complete).
THEOREM AcceptedWorkIsTaken ==
    ASSUME ~AllowPartial PROVE Spec => AcceptedIsCompleted
<1>1. Init => AcceptedVerified
  BY DEF Init, FreshMemory, AcceptedVerified
<1>2. IInv /\ AcceptedVerified /\ [Next]_vars => AcceptedVerified'
  BY AcceptedStep
<1>3. ASSUME IInv, AcceptedVerified, [Next]_vars, NEW m \in Members, pc[m] = "completing",
             pc'[m] = "threw"
      PROVE  faults' # faults
  <2>1. MayComplete(held[m], m, heldRev[m], verdict[m])
    BY <1>3 DEF AcceptedVerified, IInv, HoldersOwnTheirClaims, Holding, MayComplete, Expect
  <2>2. ~CompleteCheck(m)
    BY <1>3, <2>1 DEF CompleteCheck
  <2>3. ASSUME NEW n \in Members,
               Loop(n) \/ WaitTimesOut(n) \/ StartRun(n) \/ RunEndsFor(n) \/ Answer(n)
        PROVE  pc'[m] # "threw"
    BY <1>3, <2>3, CountTypes
       DEF Loop, WaitTimesOut, StartRun, Admit, BudgetStop, RunEndsFor, Settle, GateAccepts,
           GateRefuses, GateTamper, NotPassed, MemberFails, Answer, AnswerTamper, AnswerWaive,
           AnswerRetry, Go
  <2>4. ASSUME NEW n \in Members, Check(n) \/ Lands(n)
        PROVE  pc'[m] # "threw"
    BY <1>3, <2>2, <2>4, CountTypes
       DEF Check, ClaimCheck, CompleteCheck, ReleaseCheck, Lands, ClaimLands, CompleteLands,
           ReleaseLands, Commit, Go, AfterRelease
  <2>5. \/ UNCHANGED pc \/ Crash
        \/ \E n \in Members :
             \/ Loop(n) \/ WaitTimesOut(n) \/ StartRun(n) \/ RunEndsFor(n) \/ Answer(n)
             \/ Check(n) \/ Lands(n) \/ AppendFails(n)
    BY <1>3 DEF Next, vars, memory, Seed, RecordWritten, RecordLost, StartWorkers, SeedFails, Finish,
                Mirror, TakeOver, Over
  <2>6. \E n \in Members : AppendFails(n)
    BY <1>3, <2>3, <2>4, <2>5 DEF Crash, FreshMemory
  <2> QED  BY <2>6 DEF AppendFails, IInv, TypeOK
<1>4. IInv /\ AcceptedVerified /\ [Next]_vars =>
        [\A m \in Members : pc[m] = "completing" /\ pc'[m] = "threw" => faults' # faults]_vars
  BY <1>3
<1> QED  BY <1>1, <1>2, <1>4, Invariance, PTL DEF Spec, AcceptedIsCompleted
=============================================================================
