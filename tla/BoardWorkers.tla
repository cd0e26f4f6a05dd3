--------------------------- MODULE BoardWorkers ---------------------------
(***************************************************************************)
(* A team of members working a seeded board (topologies.ts,                *)
(* runBoardWorkers), on the journal that holds it (journal.ts), with the   *)
(* crash of its host and the takeover of the run by another (index.ts,     *)
(* resume).                                                                *)
(*                                                                         *)
(* Every member loops claim -> run -> complete, all on one event loop: a   *)
(* step below is what the code does between two awaits.  A board mutation  *)
(* takes the board's Serializer, checks the folded board and hands one     *)
(* append to the journal's write queue; it has happened once that append   *)
(* is written.  `swarm/abandoned` records go to the same write queue       *)
(* without being waited for.                                               *)
(*                                                                         *)
(* The completion gate is abstracted to how it may end: it accepts, does   *)
(* not, meets a tamper incident, or throws.  Questions are abstracted to   *)
(* their answers, any of which may come: the default is what a timeout, a  *)
(* full queue, a failed ask or a cancel gives.                             *)
(***************************************************************************)
EXTENDS SwarmBoard

CONSTANTS
    MaxTaskAttempts,  \* attempts on a task before it is given up
    GateLevel,        \* per task, the level of its gate's strongest source
    AllowPartial,     \* the operator lets a partly confined L3 run count
    Budgeted,         \* the run or its tasks have a spend limit
    MaxExtra,         \* bound: retries a person grants, per task
    MaxFaults,        \* bound: journal appends that fail
    MaxCrashes        \* bound: hosts that die

\* boardGate refuses, before it seeds, a task whose gate cannot reach its
\* level.
ASSUME WorkersAssumption ==
    /\ MaxTaskAttempts \in Nat \ {0}
    /\ GateLevel \in [Tasks -> 1..3]
    /\ \A t \in Tasks : MinLevel[t] <= GateLevel[t]
    /\ AllowPartial \in BOOLEAN
    /\ Budgeted \in BOOLEAN
    /\ MaxExtra \in Nat
    /\ MaxFaults \in Nat
    /\ MaxCrashes \in Nat

VARIABLES
    phase,      \* of runBoardWorkers on the live host
    pc,         \* where each member's loop stands
    held,       \* the task a member claims or has claimed, 0 for none
    heldRev,    \* `claimed.revision`, the revision its CAS will name
    verdict,    \* the evidence a member completes its claim with
    attempts,   \* failed attempts per task, in memory
    extra,      \* attempts a person granted past the limit, in memory
    abandoned,  \* tasks no member will finish, in memory
    failed,     \* the members that broke: `active` counts the others
    budget,     \* the run's spend limit: open, or stopped for good
    started,    \* claims granted per task by this host (history)
    recorded,   \* tasks with a swarm/abandoned event in the journal
    serial,     \* the member whose mutation holds the board's Serializer
    ahead,      \* abandoned records queued for writing before its append
    behind,     \* and those queued after it
    mirrored,   \* the journal as the remote last got it
    faults,     \* appends that failed so far
    crashes     \* hosts that died so far

memory == <<pc, held, heldRev, verdict, attempts, extra, abandoned, failed,
            budget, started>>
journal == <<tasks, recorded, serial, ahead, behind>>
host == <<incarnation, mirrored, crashes>>
vars == <<memory, journal, host, phase, faults>>

Asking == {"askTamper", "askWaive", "askRetry"}

\* A member holds its claim from the claim's append to its close.
Holding == {"claimed", "running", "threw", "completing", "releasing",
            "leaving"} \cup Asking

PCs == {"idle", "claiming", "parked", "out"} \cup Holding

Phases == {"seeding", "running", "rejected", "ended", "down"}

-----------------------------------------------------------------------------
\* The smallest set holding S and every seeded task that waits, directly or
\* not, on a task in it.
ClosedUnderDependents(X) ==
    \A t \in Tasks : BlockedBy[t] \cap X # {} => t \in X

\* Mutant of WithDependents: the dependents are forgotten.
OnlyItself(S) == S

WithDependents(S) ==
    {t \in Tasks : \A X \in SUBSET Tasks :
                       S \subseteq X /\ ClosedUnderDependents(X) => t \in X}

\* The records of an abandon are queued, not awaited: an append already
\* handed to the journal is written before them, a later one after.
QueueRecords(S) ==
    IF serial = NoOne
    THEN ahead' = ahead \cup S /\ UNCHANGED behind
    ELSE behind' = behind \cup S /\ UNCHANGED ahead

\* abandon: the task and its dependents, unless already abandoned.
Abandon(S) ==
    /\ abandoned' = abandoned \cup WithDependents(S)
    /\ QueueRecords(WithDependents(S) \ abandoned)

KeepAbandoned == UNCHANGED <<abandoned, ahead, behind>>

Go(m, where) == pc' = [pc EXCEPT ![m] = where]

\* done(): every seeded task is completed or abandoned.
Done == \A t \in Tasks : Status(t) = "completed" \/ t \in abandoned

\* Mutant of Allowed: an attempt too many.
AllowedOneMore(t) == MaxTaskAttempts + extra[t] + 1

Allowed(t) == MaxTaskAttempts + extra[t]

\* The claim is a constant of one turn of the loop: the next starts without.
LetGo(m) ==
    /\ held' = [held EXCEPT ![m] = 0]
    /\ heldRev' = [heldRev EXCEPT ![m] = 0]
    /\ verdict' = [verdict EXCEPT ![m] = NoEvidence]

\* Where a member goes after its release.
AfterRelease(m) == IF pc[m] = "leaving" THEN "out" ELSE "idle"

-----------------------------------------------------------------------------
\* The memory of a host that has just opened the run.
FreshMemory ==
    [pc |-> [m \in Members |-> "idle"], held |-> [m \in Members |-> 0],
     verdict |-> [m \in Members |-> NoEvidence], count |-> [t \in Tasks |-> 0]]

Init ==
    /\ tasks = [t \in Tasks |-> Absent]
    /\ incarnation = 1
    /\ phase = "seeding"
    /\ pc = FreshMemory.pc
    /\ held = FreshMemory.held
    /\ heldRev = FreshMemory.held
    /\ verdict = FreshMemory.verdict
    /\ attempts = FreshMemory.count
    /\ extra = FreshMemory.count
    /\ started = FreshMemory.count
    /\ abandoned = {}
    /\ failed = {}
    /\ budget = "open"
    /\ recorded = {}
    /\ serial = NoOne
    /\ ahead = {}
    /\ behind = {}
    /\ mirrored = [tasks |-> [t \in Tasks |-> Absent], recorded |-> {}]
    /\ faults = 0
    /\ crashes = 0

-----------------------------------------------------------------------------
\* seedBoard, one create at a time; a resumed run has the first ones.
Seed(t) ==
    /\ phase = "seeding"
    /\ MayCreate(t)
    /\ tasks' = [tasks EXCEPT ![t] = Created(t)]
    /\ UNCHANGED <<memory, host, recorded, serial, ahead, behind, phase, faults>>

\* A create whose append fails throws out of runPeerTeam: the run failed.
SeedFails ==
    /\ phase = "seeding"
    /\ \E t \in Tasks : MayCreate(t)
    /\ faults < MaxFaults
    /\ faults' = faults + 1
    /\ phase' = "ended"
    /\ UNCHANGED <<memory, journal, host>>

\* Mutant of StartWorkers: a resumed run forgets what was abandoned.
StartWorkersAfresh ==
    /\ phase = "seeding"
    /\ \A t \in Tasks : Status(t) # "absent"
    /\ phase' = "running"
    /\ UNCHANGED <<memory, journal, host, faults>>

\* The loops start.  A resumed run's abandoned tasks stay so, with the
\* dependents its first host may not have journaled yet.
StartWorkers ==
    /\ phase = "seeding"
    /\ \A t \in Tasks : Status(t) # "absent"
    /\ abandoned' = WithDependents(recorded)
    /\ ahead' = WithDependents(recorded) \ recorded
    /\ phase' = "running"
    /\ UNCHANGED <<pc, held, heldRev, verdict, attempts, extra, failed, budget,
                   started, tasks, recorded, serial, behind, host, faults>>

-----------------------------------------------------------------------------
\* A member's loop.  It goes on in a rejected run: nothing tells it to stop.
Live == phase \in {"running", "rejected"}

\* while (!done()), then claimNextReady is submitted.
Loop(m) ==
    /\ Live
    /\ pc[m] = "idle"
    /\ Go(m, IF Done THEN "out" ELSE "claiming")
    /\ UNCHANGED <<held, heldRev, verdict, attempts, extra, abandoned, failed,
                   budget, started, journal, host, phase, faults>>

\* claimNextReady's turn in the Serializer: the claim's append is queued, or
\* nothing is ready and the member parks in waitForChange.
ClaimCheck(m) ==
    /\ Live
    /\ pc[m] = "claiming"
    /\ serial = NoOne
    /\ \/ \E t \in NextReady(abandoned) :
            /\ held' = [held EXCEPT ![m] = t]
            /\ heldRev' = [heldRev EXCEPT ![m] = tasks[t].revision + 1]
            /\ serial' = m
            /\ UNCHANGED pc
       \/ /\ NextReady(abandoned) = {}
          /\ Go(m, "parked")
          /\ UNCHANGED <<held, heldRev, serial>>
    /\ UNCHANGED <<verdict, attempts, extra, abandoned, failed, budget, started,
                   tasks, recorded, ahead, behind, host, phase, faults>>

\* The backstop of waitForChange.
WaitTimesOut(m) ==
    /\ Live
    /\ pc[m] = "parked"
    /\ Go(m, "idle")
    /\ UNCHANGED <<held, heldRev, verdict, attempts, extra, abandoned, failed,
                   budget, started, journal, host, phase, faults>>

\* The append of m's mutation is over, written or not: the Serializer is
\* free and the writes queued behind it are next.
AppendOver(m) ==
    /\ Live
    /\ serial = m
    /\ ahead = {}
    /\ serial' = NoOne
    /\ ahead' = behind
    /\ behind' = {}
    /\ UNCHANGED recorded

\* commit: the snapshot is on the board and every parked member wakes.
Commit(m, snapshot, where) ==
    /\ AppendOver(m)
    /\ tasks' = [tasks EXCEPT ![held[m]] = snapshot]
    /\ pc' = [n \in Members |-> IF n = m THEN where
                                ELSE IF pc[n] = "parked" THEN "idle"
                                ELSE pc[n]]

ClaimLands(m) ==
    /\ pc[m] = "claiming"
    /\ Commit(m, Claimed(held[m], m), "claimed")
    /\ started' = [started EXCEPT ![held[m]] = @ + 1]
    /\ UNCHANGED <<held, heldRev, verdict, attempts, extra, abandoned, failed,
                   budget, host, phase, faults>>

\* Mutant of Admit: a stopped budget is not checked.
AdmitAnyway(m) ==
    /\ Live
    /\ pc[m] = "claimed"
    /\ Go(m, "running")
    /\ UNCHANGED <<held, heldRev, verdict, attempts, extra, abandoned, failed,
                   budget, started, journal, host, phase, faults>>

\* The budget admits the member run: no scope of it is stopped.
Admit(m) ==
    /\ Live
    /\ pc[m] = "claimed"
    /\ budget = "open"
    /\ Go(m, "running")
    /\ UNCHANGED <<held, heldRev, verdict, attempts, extra, abandoned, failed,
                   budget, started, journal, host, phase, faults>>

\* A member run refused by a budget, the first or (gated) a later round's: the
\* task is abandoned, and on the run's stop every pending task with it.
BudgetStop(m, scope) ==
    /\ Live
    /\ Budgeted
    /\ pc[m] = "claimed" \/ (Gated /\ pc[m] = "running")
    /\ budget' = IF scope = "run" THEN "stopped" ELSE budget
    /\ Abandon({held[m]} \cup
               IF scope = "run" THEN {t \in Tasks : Status(t) = "pending"}
                                ELSE {})
    /\ Go(m, "releasing")
    /\ UNCHANGED <<held, heldRev, verdict, attempts, extra, failed, started,
                   tasks, recorded, serial, host, phase, faults>>

\* Without a gate the member's result closes its task.  An aborted member
\* settles as a result too.
Settle(m) ==
    /\ Live
    /\ ~Gated
    /\ pc[m] = "running"
    /\ verdict' = [verdict EXCEPT ![m] = NoEvidence]
    /\ Go(m, "completing")
    /\ UNCHANGED <<held, heldRev, attempts, extra, abandoned, failed, budget,
                   started, journal, host, phase, faults>>

\* runGate accepts: its last round passed.
GateAccepts(m) ==
    /\ Live
    /\ Gated
    /\ pc[m] = "running"
    /\ \E partial \in BOOLEAN :
         /\ partial => GateLevel[held[m]] = 3 /\ AllowPartial
         /\ verdict' = [verdict EXCEPT
                          ![m] = GateEvidence(GateLevel[held[m]], partial)]
    /\ Go(m, "completing")
    /\ UNCHANGED <<held, heldRev, attempts, extra, abandoned, failed, budget,
                   started, journal, host, phase, faults>>

\* The gate met a tamper incident, which only a hidden suite's scan finds.
GateTamper(m) ==
    /\ Live
    /\ Gated
    /\ pc[m] = "running"
    /\ GateLevel[held[m]] = 3
    /\ Go(m, "askTamper")
    /\ UNCHANGED <<held, heldRev, verdict, attempts, extra, abandoned, failed,
                   budget, started, journal, host, phase, faults>>

\* Work that did not pass is a failed attempt of a healthy member; out of
\* attempts, a person may accept it.
NotPassed(m) ==
    LET t == held[m]
    IN  /\ attempts' = [attempts EXCEPT ![t] = @ + 1]
        /\ Go(m, IF attempts[t] + 1 >= Allowed(t) THEN "askWaive"
                                                  ELSE "releasing")
        /\ UNCHANGED <<held, heldRev, verdict, extra, failed, budget, started,
                       tasks, recorded, serial, host, phase, faults>>

GateRefuses(m) ==
    /\ Live
    /\ Gated
    /\ pc[m] = "running"
    /\ NotPassed(m)
    /\ KeepAbandoned

\* Unless someone says continue, the tampered task is abandoned.
AnswerTamper(m) ==
    /\ Live
    /\ pc[m] = "askTamper"
    /\ \/ NotPassed(m) /\ KeepAbandoned
       \/ /\ Abandon({held[m]})
          /\ Go(m, "releasing")
          /\ UNCHANGED <<held, heldRev, verdict, attempts, extra, failed,
                         budget, started, tasks, recorded, serial, host,
                         phase, faults>>

\* Only a person who answered closes a task without passing evidence.
AnswerWaive(m) ==
    /\ Live
    /\ pc[m] = "askWaive"
    /\ \/ /\ verdict' = [verdict EXCEPT ![m] = HumanWaiver]
          /\ Go(m, "completing")
          /\ KeepAbandoned
       \/ /\ Abandon({held[m]})
          /\ Go(m, "releasing")
          /\ UNCHANGED verdict
    /\ UNCHANGED <<held, heldRev, attempts, extra, failed, budget, started,
                   tasks, recorded, serial, host, phase, faults>>

\* The catch of a member whose run, gate or completion threw.  It leaves the
\* pool; a person is asked for one more attempt if a sibling remains.
MemberFails(m) ==
    /\ Live
    /\ pc[m] \in {"running", "threw"}
    /\ LET t == held[m]
           out == attempts[t] + 1 >= Allowed(t)
           siblings == Members \ (failed \cup {m}) # {}
       IN  /\ attempts' = [attempts EXCEPT ![t] = @ + 1]
           /\ \/ /\ out /\ siblings
                 /\ Go(m, "askRetry")
                 /\ KeepAbandoned
              \/ /\ out /\ ~siblings
                 /\ Abandon({t})
                 /\ Go(m, "leaving")
              \/ /\ ~out
                 /\ Go(m, "leaving")
                 /\ KeepAbandoned
    /\ failed' = failed \cup {m}
    /\ UNCHANGED <<held, heldRev, verdict, extra, budget, started, tasks,
                   recorded, serial, host, phase, faults>>

AnswerRetry(m) ==
    /\ Live
    /\ pc[m] = "askRetry"
    /\ \/ /\ extra[held[m]] < MaxExtra
          /\ extra' = [extra EXCEPT ![held[m]] = @ + 1]
          /\ KeepAbandoned
       \/ /\ Abandon({held[m]})
          /\ UNCHANGED extra
    /\ Go(m, "leaving")
    /\ UNCHANGED <<held, heldRev, verdict, attempts, failed, budget, started,
                   tasks, recorded, serial, host, phase, faults>>

-----------------------------------------------------------------------------
\* complete's turn in the Serializer; its throw is the member's failure.
CompleteCheck(m) ==
    /\ Live
    /\ pc[m] = "completing"
    /\ serial = NoOne
    /\ IF MayComplete(held[m], m, heldRev[m], verdict[m])
       THEN serial' = m /\ UNCHANGED pc
       ELSE Go(m, "threw") /\ UNCHANGED serial
    /\ UNCHANGED <<held, heldRev, verdict, attempts, extra, abandoned, failed,
                   budget, started, tasks, recorded, ahead, behind, host,
                   phase, faults>>

CompleteLands(m) ==
    /\ pc[m] = "completing"
    /\ Commit(m, Completed(held[m], verdict[m]), "idle")
    /\ LetGo(m)
    /\ UNCHANGED <<attempts, extra, abandoned, failed,
                   budget, started, host, phase, faults>>

\* release's turn in the Serializer; its throw is swallowed.
ReleaseCheck(m) ==
    /\ Live
    /\ pc[m] \in {"releasing", "leaving"}
    /\ serial = NoOne
    /\ IF MayRelease(held[m], m, heldRev[m])
       THEN serial' = m /\ UNCHANGED <<pc, held, heldRev, verdict>>
       ELSE Go(m, AfterRelease(m)) /\ LetGo(m) /\ UNCHANGED serial
    /\ UNCHANGED <<attempts, extra, abandoned, failed,
                   budget, started, tasks, recorded, ahead, behind, host,
                   phase, faults>>

ReleaseLands(m) ==
    /\ pc[m] \in {"releasing", "leaving"}
    /\ Commit(m, Released(held[m]), AfterRelease(m))
    /\ LetGo(m)
    /\ UNCHANGED <<attempts, extra, abandoned, failed,
                   budget, started, host, phase, faults>>

-----------------------------------------------------------------------------
\* A queued swarm/abandoned record is written.  Only a takeover reads these
\* records, as a set, so those queued together may be written in any order.
RecordWritten(t) ==
    /\ phase # "down"
    /\ t \in ahead
    /\ ahead' = ahead \ {t}
    /\ recorded' = recorded \cup {t}
    /\ UNCHANGED <<memory, host, tasks, serial, behind, phase, faults>>

\* Or its append fails, which nobody hears of.
RecordLost(t) ==
    /\ phase # "down"
    /\ faults < MaxFaults
    /\ t \in ahead
    /\ ahead' = ahead \ {t}
    /\ faults' = faults + 1
    /\ UNCHANGED <<memory, host, tasks, recorded, serial, behind, phase>>

\* The append of a mutation fails.  A claim's failure rejects the member's
\* loop, and runBoardWorkers with it; a completion's is the member's failure;
\* a release's is swallowed.
AppendFails(m) ==
    /\ faults < MaxFaults
    /\ AppendOver(m)
    /\ faults' = faults + 1
    /\ \/ /\ pc[m] = "claiming"
          /\ Go(m, "out")
          /\ LetGo(m)
          /\ phase' = "rejected"
       \/ /\ pc[m] = "completing"
          /\ Go(m, "threw")
          /\ UNCHANGED <<held, heldRev, verdict, phase>>
       \/ /\ pc[m] \in {"releasing", "leaving"}
          /\ Go(m, AfterRelease(m))
          /\ LetGo(m)
          /\ UNCHANGED phase
    /\ UNCHANGED <<attempts, extra, abandoned, failed,
                   budget, started, tasks, host>>

\* Every loop has returned: what is left has no members to run it.
Finish ==
    /\ phase = "running"
    /\ \A m \in Members : pc[m] = "out"
    /\ Abandon({t \in Tasks : Status(t) # "completed"})
    /\ phase' = "ended"
    /\ UNCHANGED <<pc, held, heldRev, verdict, attempts, extra, failed, budget,
                   started, tasks, recorded, serial, host, faults>>

-----------------------------------------------------------------------------
\* A push of the journal lands on the run's remote.
Mirror ==
    /\ phase # "down"
    /\ mirrored' = [tasks |-> tasks, recorded |-> recorded]
    /\ UNCHANGED <<memory, journal, incarnation, crashes, phase, faults>>

\* The host dies, its memory and its copy of the journal with it: what is
\* left of the run is what its remote holds.
Crash ==
    /\ phase \in {"seeding", "running", "rejected"}
    /\ crashes < MaxCrashes
    /\ crashes' = crashes + 1
    /\ phase' = "down"
    /\ tasks' = mirrored.tasks
    /\ recorded' = mirrored.recorded
    /\ pc' = FreshMemory.pc
    /\ held' = FreshMemory.held
    /\ heldRev' = FreshMemory.held
    /\ verdict' = FreshMemory.verdict
    /\ attempts' = FreshMemory.count
    /\ extra' = FreshMemory.count
    /\ started' = FreshMemory.count
    /\ abandoned' = {}
    /\ failed' = {}
    /\ budget' = "open"
    /\ serial' = NoOne
    /\ ahead' = {}
    /\ behind' = {}
    /\ UNCHANGED <<incarnation, mirrored, faults>>

\* resume: another host opens that journal, releases the claims of every
\* other incarnation, pushes this back and runs the spec again.
TakeOver ==
    /\ phase = "down"
    /\ incarnation' = incarnation + 1
    /\ tasks' = ReleaseOrphans(tasks, incarnation')
    /\ mirrored' = [tasks |-> tasks', recorded |-> recorded]
    /\ phase' = "seeding"
    /\ UNCHANGED <<memory, recorded, serial, ahead, behind, faults, crashes>>

\* A run that is over stays so.
Over ==
    /\ \/ phase = "ended"
       \/ phase = "rejected" /\ \A m \in Members : pc[m] = "out"
    /\ UNCHANGED vars

-----------------------------------------------------------------------------
Answer(m) == AnswerTamper(m) \/ AnswerWaive(m) \/ AnswerRetry(m)

RunEndsFor(m) ==
    \/ Settle(m) \/ GateAccepts(m) \/ GateRefuses(m) \/ GateTamper(m)
    \/ MemberFails(m)

StartRun(m) == Admit(m) \/ BudgetStop(m, "run") \/ BudgetStop(m, "task")

Check(m) == ClaimCheck(m) \/ CompleteCheck(m) \/ ReleaseCheck(m)

Lands(m) == ClaimLands(m) \/ CompleteLands(m) \/ ReleaseLands(m)

Next ==
    \/ \E t \in Tasks : Seed(t) \/ RecordWritten(t) \/ RecordLost(t)
    \/ StartWorkers \/ SeedFails \/ Finish \/ Mirror \/ Crash \/ TakeOver \/ Over
    \/ \E m \in Members :
         \/ Loop(m) \/ WaitTimesOut(m) \/ StartRun(m) \/ RunEndsFor(m)
         \/ Answer(m) \/ Check(m) \/ Lands(m) \/ AppendFails(m)

Spec == Init /\ [][Next]_vars

\* The event loop runs every continuation, the file system finishes every
\* append, a member run ends (its own limits see to that), and a question
\* takes its default if nobody answers.  The Serializer is first come first
\* served, so a submitted mutation is not overtaken for ever: strong
\* fairness of its turn.  Nothing makes a crashed run be taken over.
Fairness ==
    /\ \A t \in Tasks : WF_vars(RecordWritten(t))
    /\ WF_vars(StartWorkers) /\ WF_vars(Finish)
    /\ \A m \in Members :
         /\ WF_vars(Loop(m)) /\ WF_vars(WaitTimesOut(m))
         /\ WF_vars(StartRun(m)) /\ WF_vars(RunEndsFor(m))
         /\ WF_vars(Answer(m)) /\ WF_vars(Lands(m))
         /\ SF_vars(Check(m))

LiveSpec == Spec /\ Fairness
-----------------------------------------------------------------------------
TypeOK ==
    /\ BoardTypeOK
    /\ phase \in Phases
    /\ pc \in [Members -> PCs]
    /\ held \in [Members -> Tasks \cup {0}]
    /\ heldRev \in [Members -> Nat]
    /\ verdict \in [Members -> Evidence]
    /\ attempts \in [Tasks -> Nat]
    /\ extra \in [Tasks -> Nat]
    /\ started \in [Tasks -> Nat]
    /\ abandoned \subseteq Tasks
    /\ failed \subseteq Members
    /\ budget \in {"open", "stopped"}
    /\ recorded \subseteq Tasks
    /\ serial \in Members \cup {NoOne}
    /\ ahead \subseteq Tasks
    /\ behind \subseteq Tasks
    /\ mirrored \in [tasks: [Tasks -> Snapshot], recorded: SUBSET Tasks]
    /\ faults \in Nat
    /\ crashes \in Nat

\* A member at work on a claim is the owner of that task, under this host's
\* lease, at the revision its completion or release will name: no sibling
\* works on the same task, and its compare-and-set cannot find the task moved
\* (runBoardWorkers' use of claimed.revision).
HoldersOwnTheirClaims ==
    \A m \in Members : pc[m] \in Holding =>
        /\ held[m] \in Tasks
        /\ Status(held[m]) = "in_progress"
        /\ tasks[held[m]].owner = m
        /\ tasks[held[m]].revision = heldRev[m]
        /\ tasks[held[m]].lease = incarnation

\* While every append succeeds, a task in progress on a live host is held by
\* a member still at work on it: no failure, answer, budget stop or takeover
\* leaves a claim behind that nobody will close.
NoStuckClaim ==
    Live /\ faults = 0 =>
        \A t \in Tasks : Status(t) = "in_progress" =>
            \E m \in Members : pc[m] \in Holding /\ held[m] = t

\* Nobody works on a task, or has finished it, before all its blockers are
\* completed, whatever was released, abandoned or taken over meanwhile
\* (SwarmBoard.ready).
BlockersFirst ==
    \A t \in Tasks : Status(t) \in {"in_progress", "completed"} =>
        \A b \in BlockedBy[t] : Status(b) = "completed"

\* A task given up is never completed as well, so a run's landing and its
\* failure never both name it: a budget stop abandons tasks whose claim is
\* being written, and none of those is run after.
AbandonedNotCompleted ==
    \A t \in abandoned \cup recorded : Status(t) # "completed"

\* What holds of the board whatever fails: its shape, exclusive claims, blockers first,
\* and no abandoned task completed.
BoardSafe == TypeOK /\ HoldersOwnTheirClaims /\ BlockersFirst /\ AbandonedNotCompleted

\* A task is started no oftener than its attempts and the retries a person
\* granted allow, however its failures are spread over members, gates and
\* completions the board refused.  The count is the host's, in memory: a host that takes
\* the run over starts every task's anew.
AttemptsBounded ==
    \A t \in Tasks : started[t] <= MaxTaskAttempts + extra[t]

\* A gated task is completed only on evidence of its level, or by a person
\* who is named: on the board and in what a taker will find on the remote.
EvidenceHolds ==
    \A t \in Tasks : \A board \in {tasks, mirrored.tasks} :
        board[t].status = "completed" => Verified(t, board[t].evidence)

\* A completion the remote holds is never undone, by a crash, a takeover or
\* anything after: the task is not run again and its evidence stays.
DurablyCompleted ==
    [][\A t \in Tasks : mirrored.tasks[t].status = "completed" =>
            /\ tasks'[t] = mirrored.tasks[t]
            /\ mirrored'.tasks[t] = mirrored.tasks[t]]_vars

\* A task the remote holds as abandoned is not claimed again, by this host or
\* by one that takes the run over (SwarmBoard.recordAbandoned).
AbandonedNotRerun ==
    [][\A t \in mirrored.recorded : started'[t] <= started[t]]_vars

\* A team's work ends: every member leaves its loop, with each task completed
\* or abandoned, unless the host dies.
RunEnds == phase = "running" ~> phase # "running"

\* While the operator does not let partly confined runs count, what the gate accepts the
\* board takes: only an append that fails, never refused evidence or a moved revision,
\* costs the team the member (topologies.ts, "not a failed member").
AcceptedIsCompleted ==
    [][\A m \in Members :
          pc[m] = "completing" /\ pc'[m] = "threw" => faults' # faults]_vars
=============================================================================
