---------------------------- MODULE SwarmBoard ----------------------------
(***************************************************************************)
(* The durable task board (packages/swarm/src/board.ts).                   *)
(*                                                                         *)
(* The board's state is the fold of the run's journal: per task the last   *)
(* whole snapshot appended.  This module holds that state, the             *)
(* preconditions of each mutation (its throws) and the snapshot each one   *)
(* appends.  A module that drives the board says when a mutation is        *)
(* checked and when its append lands: between the two a reader of the      *)
(* board still sees the old snapshot.                                      *)
(*                                                                         *)
(* Tasks are numbered in seed order, the order foldBoard's Map keeps and   *)
(* claimNextReady follows.  Prompts, subjects, intents and results are     *)
(* payload and are left out.                                               *)
(***************************************************************************)
EXTENDS Naturals

CONSTANTS
    Members,    \* the team's members, who own claims
    NoOne,      \* the absent owner
    N,          \* how many tasks the spec seeds
    BlockedBy,  \* per task, the earlier tasks that must complete first
    Gated,      \* the board refuses to complete without passing evidence
    MinLevel    \* per task, the verifier level its evidence must reach

Tasks == 1..N

\* `blockedBy` indices precede their task (seedBoard throws otherwise), so
\* the dependency graph is acyclic.
ASSUME BoardAssumption ==
    /\ N \in Nat
    /\ NoOne \notin Members
    /\ BlockedBy \in [Tasks -> SUBSET Tasks]
    /\ \A t \in Tasks : \A b \in BlockedBy[t] : b < t
    /\ Gated \in BOOLEAN
    /\ MinLevel \in [Tasks -> 0..3]

VARIABLES
    tasks,        \* the fold of the journal's swarm/task events
    incarnation   \* the journal incarnation of this open, recorded as a lease

-----------------------------------------------------------------------------
\* What a task closes on: a gate round, a person who waived the gate, or
\* nothing.  `by` says whether a waiver names who gave it.
NoEvidence == [kind |-> "none", passed |-> FALSE, level |-> 0,
               partial |-> FALSE, by |-> FALSE]

Evidence == [kind: {"gate", "human"}, passed: BOOLEAN, level: 0..3,
             partial: BOOLEAN, by: BOOLEAN] \cup {NoEvidence}

HumanWaiver == [kind |-> "human", passed |-> TRUE, level |-> 0,
                partial |-> FALSE, by |-> TRUE]

GateEvidence(level, partial) ==
    [kind |-> "gate", passed |-> TRUE, level |-> level,
     partial |-> partial, by |-> FALSE]

\* Mutant of EffectiveLevel: an L3 run counts as L2 however it was confined.
EffectiveLevelCapped(e) == IF e.level = 3 THEN 2 ELSE e.level

\* An L3 run the verifier could only partly confine counts as L2.
EffectiveLevel(e) == IF e.level = 3 /\ e.partial THEN 2 ELSE e.level

\* Whole durable task values.  A lease of 0 is no lease; incarnations start
\* at 1.  A pending task is unstarted or released, an in_progress one carries
\* an owner and the lease of its claim, a completed one keeps its owner only.
SnapshotFields ==
    [status: {"absent", "pending", "in_progress", "completed"},
     revision: Nat, owner: Members \cup {NoOne}, lease: Nat,
     evidence: Evidence]

WellFormed(s) ==
    /\ s.status \in {"absent", "pending"} => s.owner = NoOne
    /\ s.status \in {"in_progress", "completed"} => s.owner \in Members
    /\ s.status = "in_progress" <=> s.lease # 0

Snapshot == {s \in SnapshotFields : WellFormed(s)}

Absent == [status |-> "absent", revision |-> 0, owner |-> NoOne, lease |-> 0,
           evidence |-> NoEvidence]

Status(t) == tasks[t].status

-----------------------------------------------------------------------------
\* create: blockers must be on the board, and ids are handed out in order
\* across the folded log, so a resumed seeding continues where it stopped.
MayCreate(t) ==
    /\ Status(t) = "absent"
    /\ \A u \in Tasks : u < t => Status(u) # "absent"

Created(t) ==
    [status |-> "pending", revision |-> 0, owner |-> NoOne, lease |-> 0,
     evidence |-> NoEvidence]

\* Mutants of Ready: blockers forgotten, status forgotten.
ReadyUnblocked(t) == Status(t) = "pending"

ReadyAnyStatus(t) ==
    /\ Status(t) \in {"pending", "in_progress"}
    /\ \A b \in BlockedBy[t] : Status(b) = "completed"

\* A task is ready when it is pending and every blocker has completed.
Ready(t) ==
    /\ Status(t) = "pending"
    /\ \A b \in BlockedBy[t] : Status(b) = "completed"

\* Mutant of NextReady: what is skipped is forgotten.
NextReadyUnskipped(skip) ==
    LET ready == {t \in Tasks : Ready(t)}
    IN  {t \in ready : \A u \in ready : t <= u}

\* claimNextReady takes the first ready task, in seed order, not skipped.
NextReady(skip) ==
    LET ready == {t \in Tasks : Ready(t) /\ t \notin skip}
    IN  {t \in ready : \A u \in ready : t <= u}

Claimed(t, m) ==
    [status |-> "in_progress", revision |-> tasks[t].revision + 1, owner |-> m,
     lease |-> incarnation, evidence |-> tasks[t].evidence]

\* Every mutation of a known task is a compare-and-set on its revision.
Expect(t, revision) ==
    /\ Status(t) # "absent"
    /\ tasks[t].revision = revision

Verified(t, e) ==
    Gated =>
        /\ e.passed
        /\ e.kind = "human" => e.by
        /\ e.kind # "human" => EffectiveLevel(e) >= MinLevel[t]

\* Mutant of MayComplete: the gated board takes any evidence.
MayCompleteUnverified(t, m, revision, e) ==
    /\ Expect(t, revision)
    /\ tasks[t].owner = m

MayComplete(t, m, revision, e) ==
    /\ Expect(t, revision)
    /\ tasks[t].owner = m
    /\ Verified(t, e)

\* The owner stays on a completed task, the lease goes.
Completed(t, e) ==
    [status |-> "completed", revision |-> tasks[t].revision + 1,
     owner |-> tasks[t].owner, lease |-> 0,
     evidence |-> IF e.kind = "none" THEN tasks[t].evidence ELSE e]

MayRelease(t, m, revision) ==
    /\ Expect(t, revision)
    /\ tasks[t].owner = m

\* Mutant of ReleasedSnapshot: the lease stays.
ReleasedLeased(s) ==
    [s EXCEPT !.revision = @ + 1, !.status = "pending", !.owner = NoOne]

ReleasedSnapshot(s) ==
    [status |-> "pending", revision |-> s.revision + 1, owner |-> NoOne,
     lease |-> 0, evidence |-> s.evidence]

Released(t) == ReleasedSnapshot(tasks[t])

\* Mutants of ReleaseOrphans: completed tasks released too, the wrong claims
\* released.
ReleaseOrphansAny(board, lease) ==
    [t \in Tasks |-> IF board[t].status # "absent" /\ board[t].lease # lease
                      THEN ReleasedSnapshot(board[t]) ELSE board[t]]

ReleaseOrphansOwn(board, lease) ==
    [t \in Tasks |-> IF board[t].status = "in_progress" /\ board[t].lease = lease
                      THEN ReleasedSnapshot(board[t]) ELSE board[t]]

\* releaseOrphans: every claim in journal `board` that an incarnation other
\* than `lease` granted goes back to pending.
ReleaseOrphans(board, lease) ==
    [t \in Tasks |->
        IF board[t].status = "in_progress" /\ board[t].lease # lease
        THEN ReleasedSnapshot(board[t])
        ELSE board[t]]

BoardTypeOK ==
    /\ tasks \in [Tasks -> Snapshot]
    /\ incarnation \in Nat \ {0}
=============================================================================
