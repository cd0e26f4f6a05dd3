# A verification project for openswarm

openswarm runs teams of coding agents ("members") on a repository.  A run keeps
everything it must not forget in one append-only journal: the task board a peer
team works from, the messages members send each other, the questions put to a
person and the run's own record.  A run started as durable mirrors that journal
to a ref of a git remote, so that another host can take it over.  What a run
produced lands on a target branch through a merge train, of its own or shared
by many hosts.

The modules here model the parts of `packages/swarm/src` where several actors
change one state, or where one actor's long sequence of steps must keep a
promise through failures.  Paths below are relative to the repository;
`topologies.ts`, `board.ts`, `durable.ts` and so on are files of
`packages/swarm/src`.

## 1. The system

| component | state | operations | others it touches |
|---|---|---|---|
| journal (`journal.ts`, `serialize.ts`) | a file of JSON lines, the events read from it, a write queue | append, read, wait for an append | everything below is a fold of it |
| task board (`board.ts`) | one snapshot per task: status, owner, lease, revision, evidence | create, claim, claimNextReady, complete, release, releaseOrphans, recordAbandoned, waitForChange | appends to the journal, inside one Serializer |
| board workers (`topologies.ts`, `runBoardWorkers`) | attempts, granted retries, abandoned tasks, live members, all in memory | each member's loop claim → run → gate → complete or release | board, gate, budget, questions |
| completion gate (`gate.ts`) | rounds, the kept snapshot, the evidence in place | run the sources, feed failures back, roll back, sign off | worktree, verifier, member |
| budget guard (`budget.ts`), slots (`worktrees.ts`) | spend per scope, one open question per scope; slots taken, starts waiting | admit a start, record spend, stop or extend a scope | questions |
| questions (`index.ts`) | open questions of a run | ask, answer, time out, end with the run | budget, gate, board workers |
| mailbox (`mailbox.ts`), peers (`remote-peer.ts`) | queued and delivered messages, reservations; a peer's chain of turns, its idle clock | send, frame pending mail, acknowledge; deliver, ask, fail, restart | journal |
| durable runs (`durable.ts`) | the run's ref, a writer's lease on it, the mirror's queue | checkpoint, confirm, heartbeat, fence, take over | journal, git remote |
| swarm service (`index.ts`) | runs, their records and signals | start, resume, attach, cancel, land | all of the above |
| merge train of a run (`train.ts`) | entries, waves, batches, repairs | batch, bisect, repair, resolve, eject | git, gate's verifier, members, questions |
| train service (`train-service.ts`) and its clients (`train-client.ts`) | a queue of branches folded from its own journal; a client's entries | enqueue, withdraw, pass, push; enqueue, follow, repair, withdraw | git remote, journal |

`PROJECT.json` lists these and the parts left out, with the reason for each
(section 8).

What makes the parts hard:

* One event loop runs every member of a team.  A member's step ends at an
  `await`; what it read before may be stale after.  A board mutation checks the
  board, awaits its append and only then shows on the board; the Serializer
  keeps two mutations apart, and the journal's write queue orders them against
  records that nobody awaits.
* Appends fail, whole or half way.  A failed claim, completion, release and
  abandoned record each take a different path through `runBoardWorkers`, a
  failed question, usage or decision another through the budget.
* A host dies at any step, and its memory (attempts, granted retries, the set of
  abandoned tasks, a train's cascade) with it.  A taker has what was written.
* Two hosts may both think they hold a run.  A push is a process of its own with
  several moments: it starts, reads the journal, is sent, is handled by the
  remote, is answered.  Its answer may be lost after the remote acted on it.
* A landing on a shared target cannot be undone, so it must happen once over all
  hosts, and others push to the same target meanwhile.
* Members wait on the lead from within their turns, and the lead on the members.

What must hold: a task is worked on by one member at a time, in dependency
order, no oftener than allowed, is closed only on evidence of its level about
the tree in its worktree or by a named person, and never both completed and
given up; nothing runs past a stop and only a person spends more; no message is
lost or carried twice at once; none of that is undone by a takeover; a run ends;
and it lands once, by a host that holds it, with nothing on the target that was
not verified there.

## 2. Modules

```
SwarmBoard              pure board: snapshots, checks, mutations      board.ts
  BoardWorkers          the team's loops, journal, crash, takeover    topologies.ts, journal.ts, index.ts
    MCBoardWorkers      boards and levels for TLC
    BoardWorkersProofs  theorems
RunCustody              what a durable run promises (abstract)
  DurableRun            hosts, mirror, leased pushes, landing         durable.ts, index.ts
    MCDurableRun        symmetry for TLC
    DurableProofs       theorems
TrainService            the queue, its passes and its journal         train-service.ts
  TrainClients          the hosts that land through it                train-client.ts
    MCTrainClients      branches, breakages and conflicts for TLC
    TrainClientsProofs  theorems
RunLanding              what a run's train promises (abstract)
  LandTrain             a run's own merge train                       train.ts
    MCLandTrain         runs to land for TLC
    LandTrainProofs     theorems
Gate                    the completion gate's rounds                  gate.ts
  MCGate                gates for TLC
  GateProofs            theorems
Questions               a run's question queue                        index.ts, run.ts
  RunBudget             budgets and slots over it                     budget.ts, worktrees.ts
    MCRunBudget         budgets for TLC
    BudgetProofs        theorems
PeerMail                the mailbox and remote peers                  mailbox.ts, remote-peer.ts, index.ts
  MCPeerMail            its instance
  PeerMailProofs        theorems
SwarmJournal            the file, its writers and followers           journal.ts, index.ts, protocol.ts
  MCSwarmJournal        its instance
  JournalProofs         theorems
```

`PROJECT.json`, under `map`, gives for each definition the lines it models.
Indented modules extend the one above; three compositions are of components
that interact: BoardWorkers of the board with its team, TrainClients of the
service with its clients, RunBudget of budgets and slots with the question
queue.

### 2.1 SwarmBoard and BoardWorkers

`tasks` is the fold of the board's events (`foldBoard`): per task its status,
owner, lease (the incarnation of the host that granted the claim), revision and
evidence.  `Ready`, `NextReady`, `Claimed`, `Expect`, `MayComplete`, `Verified`,
`MayRelease`, `ReleaseOrphans` are the checks and snapshots of the methods of
the same names.  Evidence is a level, whether the confinement was partial, and
whether a person waived; `Verified` is the gated board's rule that a completion
has a passing run of the task's minimum level, a partial L3 counting as L2, or
names the person who waived it.

A member's loop is a program counter.  An action is what the code does between
two awaits:

| `pc` | in `runBoardWorkers` |
|---|---|
| idle | at `while (!done())` |
| claiming | `claimNextReady` submitted; with `serial = m`, its append is being written |
| parked | in `waitForChange` |
| claimed | waiting for the budget's admission |
| running | the member or its gate runs |
| askTamper, askWaive, askRetry | a question is open |
| completing, releasing, leaving | that mutation submitted, or (`serial = m`) being written; *leaving* is the release of a member that broke |
| threw | in the catch, its completion having thrown |
| out | the loop has returned |

A mutation is two actions, `…Check` (its turn in the Serializer: the check and
the hand-over of the append) and `…Lands` (the append is written and the waiters
woken), or `AppendFails` in place of the second.  `ahead` and `behind` are the
`swarm/abandoned` records in the journal's write queue before and after that
append.  `WithDependents` is the closure `abandon` computes by recursion.

`Mirror` puts the journal as it is onto the remote, at any time; `Crash` leaves
only that; `TakeOver` opens it under a new incarnation and releases the claims
of others.  A taker never gets a journal the remote did not hold; how that is
ensured is DurableRun's subject.

Abstracted: the gate to how it may end (accepts at its level, possibly partly
confined where the operator allows it; refuses; meets a tamper incident;
throws), questions to their possible answers (the default stands for a timeout,
a full queue, a failed ask and a cancel), budgets to *open* or *stopped*, and an
append to written whole or not at all.

### 2.2 DurableRun and RunCustody

Per host: what it does with the run (`mode`), its copy of the journal, its
`JournalMirror` (`mirror`, `lease`, the `push` under way, the `outcome` of the
awaited one), the tries `confirm` has left, and whether the run's signal is
aborted.  Shared: the run's ref on the remote and the pushes on their way to it.

* Start and resume: `Start`, `Launch`, `StartHeld`; `Observe`, `Take`,
  `TakeLands`, `TakeFails`, `TakeRefused` (`SwarmService.start`, `launch`,
  `resume`; `takeOver`).
* The mirror: `Beat` and `Checkpoint` start a push, one at a time; `PushRead`
  hashes the journal's file; `PushSend` lists the branches and sends one atomic
  push leased on the commit last pushed; `PushLands`, `PushFenced`,
  `PushUnreachable` are its three ends (`JournalMirror.push`, `pushLeased`).
* The remote: `RemoteTakes`, `RemoteRefuses`.  This is git, modelled from how
  `pushLeased` uses it: `--atomic` with `--force-with-lease` is a compare-and-set
  of the whole push.
* The landing: `WorkEnds` writes the marker, `ConfirmRetry`, `LandHeld` and
  `ConfirmLost` are what the confirming push decides, `LandEnds` and `Settled`
  the end of the run.
* `Cancel` by a person, and `Crash`, in every mode.

Abstracted: the journal, to what a taker asks of it (the run's status and
writer, completed tasks and which of them an aborted member closed, the landing
marker, whether an end was recorded with what landed); commits, to distinct
numbers; time, altogether.  A writer may be paused for as long as one likes, so
the lease period guarantees nothing by itself: a polite taker sees the ref
unmoved, or moved, and a stealing one does not wait.  Every completed task is
taken to have a branch.  A host that ran the run before takes it over again only
after its own last push is over, as `stop` awaits it.

RunCustody states the promise to whoever shares the remote: one holder at a
time, completed tasks stay completed, the run is not taken over once its landing
began, and it lands once.  The refinement mapping reads the holder, the
completed tasks and the marker off the remote's journal, and *landed* off the
hosts' histories.

### 2.3 TrainService and TrainClients

A commit is the set of the pieces of work in its history.  A merge is a union,
containment in the target is membership, and whether a tree passes its checks
depends on the set: a tree gets the same verdict each time, flaky checks are not
modelled here.  Pieces may conflict when merged and may break the
checks, alone or together, until another piece fixes them.

The service appends a record and folds it when the append resolves, so `writes`
is what was submitted and not applied; a record that ends an entry goes on to
its dependents (`casc`), one append each.  `svc` is where the one loop
(`run`, `pass`, `land`) is: `TakeBatch`, `SyncTip`, `Contained` (entries found
in the target already), `Baseline`, `FetchEntry`, `Speculate`,
`EjectConflicted`, `Verify` (with the bisection), `Push`, `RecordLanded`,
`Return`.  `PassFails` is a git error that ends a pass,
`FetchErrs` and `MergeErrs` ones that it takes for an answer, `PushAnswerLost` a
push that reached the remote and whose answer did not come back, `OutsidePush`
another's push, `ServiceCrash` the loss of all but the journal.

A client enqueues its run's branches one by one and then follows the journal's
records about them by a cursor: `Enqueue`, `Enqueued`, `Poll`, `Observe`,
`Repair`, `Repaired`, `RepairFails`, `Withdraw`.  `Cancel` cuts its connection,
with a call perhaps in flight; `Die` ends it, and `LandAgain` is the resumed run
that enqueues again, some of its branches with new commits.  `Crash` is the
service's, which cuts all connections.

Abstracted: principals and tokens, the wire, `verify`'s process, times (a
failing baseline is verified again after ten minutes: here at once), and which
commit of the target was whose (its content is enough, as it only grows).

### 2.4 LandTrain and RunLanding

The lead's own train over the same sets of pieces, here as one async function:
`Baseline`, `AnswerStop` or `AnswerMerge` on a base that fails already, then
waves of `Land` (speculate, verify, bisect), `Advance`, and for each culprit
or conflict `Fix`, `AskRepair`, `Integrate`, `Repair`.  A batch is a set of
entries that its members' priority puts in order (`InOrder`, `First`); merging
it (`Clean`) leaves out what conflicts with what is there by then; the halves of
a failing batch are landed one after the other (`batches`).  `MergeAll` is the
sequential queue, which takes the worktrees in any order of their creation.

Failures are placed where they tell states apart: `Throw` and `Unavailable`
anywhere else, `AdvanceFails` and `MergeAllFails` after the target has moved and
before all of it is recorded, `EjectFails` before all that waits on an ejected
entry is marked.  `Abort` is the run's cancel, which the train notices where it
calls `live()` (`LivePoints`).  Abstracted: what agents write (a new piece, or
none), refused budgets and tamper incidents (they eject), priority (the entries'
numbers) and answers (the default stands for a timeout).

RunLanding is the promise without waves, verifiers and repairs: a step lands a
set of entries on top of their blockers with nothing failing in the target, or
gives entries up together with all that waits for them, or, on a target that
failed already, merges unverified once and ends.  LandTrain implements it with
its entries' states and `pc` read as `fate` and `over` (`Landing`); the one thing
it may not keep up to is told apart by `over`: where the train stops, what it
could mark of the last step is only part of it.

### 2.5 Gate

`runGate` for any combination of sources, round by round: `StartRound`, `Work`
(the member leaves some tree), `Snapshot`, the sources `Check`, `Review`,
`NoFeedback` and `Suite`, `AskSignoff`, `Reply`, `Signoff`, `Record`, and a
cancel at any moment (`Abort`).  A tree is a value,
and what a source says of it is chosen each time it runs.  `disk` is the
worktree, `tree` what the gate takes to be in it, `inPlace` the evidence it
would report for it, `kept` the last round not rolled back.  `known`, `floor`
and `cut` are only for the properties: what was last measured of each tree, the
checks passed by the trees rounds started from, and whether the cancel came where
`runGate` looks at the signal before it goes on: between rounds, in a member's run
or in a sign-off review.  Abstracted: the text fed back, and
targets of a review (a verdict passes or not).

### 2.6 Questions and RunBudget

Questions is the run's queue: `Ask` is refused by a full queue, closed at once
where nobody would answer, or left open; `Answer`, `Timeout` and `End` race to
`Close` it; an asker goes on when the closing record is written.  All the run's
appends go through one queue (`writes`), which `Write` and `WriteFails` take
from; `Crash` is a death with the resumption that closes what the dead writer
left open.

RunBudget adds the starts of member runs.  Each passes `check` for its task and
the run (`Admit`), waits for a slot, passes both again and runs; a scope out of
budget asks one question (`AskBudget`) that all its starts wait for, `Decide`
extends or stops it, and its record lets them on.  `Refuse` is the budget stop
as the team handles it.  A member run's slot is held until its usage is
recorded.  Abstracted: tokens (the dollars' twin), the price table (a run costs
0..MaxCost dollars, where 0 stands for one that cannot be priced), and a task's
dependents.

### 2.7 PeerMail

A peer has a `chain` of turns, the first under way or next; a turn is its task
or a waking message, with the quiet mail that rides in front (`carries`).
`Send` is the member's tool call, which lasts until the lead's `send` returns;
the lead handles one at a time (`sends`, `phase`).  `Queue` journals it and, for
a waking one, frames the quiet mail and offers the turn; `StartTurn` is the
peer's acceptance; `AckSend` marks what was delivered, one append each.  A
worker's own turn frames its mail outside that queue: `Ask`, `AckTask`.  `Exit`,
`Hang`, `Stall`, `Shut`, `Restart` and `Drop` are deaths and what follows.
Abstracted: time, except that the idle clock, of which each peer has its own, runs
out only when nothing else can move (one that runs out on a silent member while
others work fails it as a death does, which is `Exit`); what a person may answer
about a stalled or a dead member (its defaults); a member with a task of its own
each, without the board.

### 2.8 SwarmJournal

The file is a sequence of half lines.  An append is `WriteHalf`, `WriteRest` and
`Resolve`, in which its writer learns of it; `WriteFails` is one that writes
nothing, and `Tear` one that fails after its first half, or after all of it, in a
process that lives on; `Die` leaves what is there.  `Open` cuts the file after its
last newline.  The lead writes from `StartRun`; a taker views, opens and attaches
(`attachRun`), whether or not another is at it: `together` records, for the
properties, that a takeover began while another was under way.  A
follower is a loop of `swarm/events` with the last seq it was given: it reads the
live run's events or the file.

## 3. Properties

Each is stated with a comment in its module.  Those that share a run are in
part collected in one named conjunction, whose parts keep their names:

* Board: `HoldersOwnTheirClaims` (a member at work owns the task at the revision
  its compare-and-set will name), `NoStuckClaim`, `BlockersFirst`,
  `AbandonedNotCompleted`, `AttemptsBounded`, `EvidenceHolds` (also of the copy
  on the remote), `DurablyCompleted` and `AbandonedNotRerun` (action properties
  that span a crash and a takeover), `AcceptedIsCompleted` (what the gate
  accepts the board takes), `RunEnds` (liveness).  `BoardSafe` is the
  conjunction of the type invariant, the claims, the blockers and the abandoned.
* Durable run: `MirrorSafe` (with `BranchesWithJournal`), `SharedLandsOnce`,
  `FencedByAnother`, `RemoteKeeps` (action property), `KeepsCustody` (the
  refinement of RunCustody), `LandingDecided` (liveness).
* Train service: `TrainSafe` (`LandedIsInTarget`, `BlockersLandFirst`),
  `BlamedAlone`, `TargetKept` (action property), and for liveness
  `LandingEnds`, `DependentsLeave`, `InTargetIsFound`.
* A run's train: `LandSafe` (`BlockersLandFirst`,
  `TargetVerified`), `OutcomeTrueElsewhere`, `LandsAsPromised` (the refinement of RunLanding),
  `TrainEnds` (liveness).
* Gate: `GateSafe` (`AcceptedInPlace`, `CancelEndsTheGate`),
  `EvidenceInPlace`, `NoRegression`.
* Budgets: `BudgetSafe` (`QueueBounded`, `QuestionClosedOnce`,
  `OvershootBounded`, `ExtendedByPerson`), `NoRunPastStop` (action property),
  `StartsDecided` (liveness).
* Mail: `MailSafe` (`CarriedByOne`, `OncePerFault`, `NothingLost`),
  `QuietRides` (action property), `TurnsEnd` (`SendsReturn`, `TasksEnd`).
* Journal: `JournalSafe` (`OneWriter`, `JournalReads`, `ResolvedKept`),
  `GivenIsTheFile`, `AllGiven` (liveness).  That the lead is dead when a taker
  writes, and that what resolved stays, hold always; the rest excepts takeovers
  that ran at once, and where it says so torn lines (section 6).

## 4. Runs

| run | question | instance | distinct states |
|---|---|---|---|
| board_plain | an ungated team: claims, failures, granted retries, budget stops, a host that dies | 2 members, 3 tasks of which one waits on another, 1 attempt, 1 extra, 1 crash | 349 k |
| board_gated | a gated team at L3 with partial confinement and failing appends | 2 members, 2 tasks in a chain, 2 attempts, 1 extra, 2 faults, 1 crash | 1.2 M |
| board_ends | does a team's work end, and is accepted work completed? | as above, 1 attempt, no faults, no crash, no partial confinement, fairness | 15 k |
| durable_shared | takeovers, heartbeats, the landing, a lost answer, a cancel and a crash interleaved | 2 hosts, 1 task, 4 commits, 1 of each trouble | 2.4 M |
| durable_decided | does `confirm` end? | 2 tries, 3 commits, 1 lost answer, 1 cancel, fairness | 0.2 M |
| train_lands | two clients and others on one target | 3 branches at up to 2 commits, one blocked by another, 1 outside push, 1 repair, 1 trouble | 1.2 M |
| train_ends | does a landing end, and does every entry leave the queue? | 1 client, 2 branches in a chain, the rest the same, fairness | 30 k |
| land_train | a run's own train over every small run, and does it end? | 3 entries, any blockers, any of them broken alone or in pairs, one conflict or none, 1 repair, 1 retry, 1 failure, a cancel | 1.1 M |
| gate | every gate there is | 2 checks, with and without reviewer, suite, sign-off and rollback, 3 trees, 4 rounds, a cancel | 336 k |
| budget | starts, slots, questions | 2 tasks, 1 slot, budgets of 0 or 1 for a task and the run, runs of 0 or 1 dollars, 2 member runs, 1 fault | 193 k |
| peer_mail | a team that messages itself | 2 members, 2 messages, 1 death or hang, 1 restart, 1 failed append | 71 k |
| journal | writers and a follower of one file | a lead, 2 takers that may attach at once, 1 follower, 3 seqs, 1 failed append, 1 torn one | 733 k |

All of these hold.  Each of their properties is also checked to fail when one
definition is changed the way a slip in the code would change it (the operators
whose names end in `Mut`, and those marked "Mutant of"; `mutants` in
`PROJECT.json`).

Why the bounds suffice for the cases aimed at:

* Two members are enough for any race over a claim, a release or the Serializer;
  three tasks give one that is independent, one blocker and one dependent.  A
  chain of two tasks gives a dependent to cascade to.
* One attempt with one granted retry reaches every branch on the limit; two
  attempts reach a failure that is not the last.
* Two faults allow a failed completion and then the failed release of the same
  claim.  One crash with a takeover brings a second incarnation.
* Two hosts, four commits: a host's first push, a takeover, the taker's push and
  the confirming push or a heartbeat.  A bound on commits stops no host: a push
  that can make no commit may always end as unreachable.
* One lost answer gives a writer a stale lease; one try of `confirm` keeps its
  states few and durable_decided takes two for the retry itself.
* The trains: a blocker with its dependent and a stranger's branch give a batch
  to bisect with a half that lands before the other is verified; the first
  commit of the blocker fails alone, two branches break each other, one clashes
  with the outside push, so each kind of ejection and a repair of it happen.
  One trouble in each behaviour, of whatever kind and at any step; two at once
  (say, a crash during the recovery of another) are not covered.
* LandTrain takes every run of three entries, which is the smallest with a half
  of a bisection that is bisected no further and one that is.
* Three trees let a gate go back to the first after two others; four rounds are
  the code's default.
* One slot and two tasks make a start wait for the other's; a budget of one
  dollar is spent by one run, and may be extended.
* Two messages let one be quiet and one waking, or both waking at each other,
  which is the wait for one another; three have been run once, with the same
  outcome (0.8 M states).
* Three seqs: the run's first record, one more that is written, torn or lost to a
  failed append, and those of a takeover, which may use the last one's seq again.
  Two takers attach one after the other, or at once.

Members and hosts are symmetric in the runs of the board without a liveness
property and in durable_shared.  Deadlock is checked on the board, where a run
that is over steps in place (`Over`); elsewhere a system that has ended rightly
has no step left: a run that ended, or never can be taken over, a landing that
is over, a gate that returned, a team with its tasks done, a journal without a
writer.

## 5. Fairness

*Board* (`BoardWorkers!Fairness`).  Weak fairness of every continuation of a
member's loop, of the writes of the journal, of a member run's end and of a
question's answer: Node's event loop runs each settled promise's continuation,
member runs have limits of their own, and a question takes its default when its
time is out.  Strong fairness of a mutation's turn, because the Serializer is a
promise chain, first come first served: a member that has submitted is not
overtaken for ever, though the Serializer is taken again and again meanwhile.
Nothing is assumed of crashes, faults, mirroring or takeovers.

*Durable run* (`DurableRun!Fairness`).  A push that was started ends: git exits
with the remote's answer or with an error.  The code sets no timeout on it, so
this rests on git and the transport giving up on a dead connection.  Strong
fairness of the awaited checkpoint: the mirror's queue is first come first
served, and heartbeats push only between.  What awaits a push goes on once it is
over.  The remote itself is under no obligation.

*Trains.*  The service's loop and its handlers go on, a submitted append
resolves, and so does each client's loop, a dead one's host being started again
in the end (`LandAgain`).  `landTrain` is one async function; the agents and
questions it awaits have timeouts.  No fairness of faults, cancels or pushes of
others.

*Budgets.*  A member run ends, an append is written, a question's timer fires,
a continuation runs.  Nothing says that a person answers.

*Mail.*  The lead's send and each member's turn go on; a member that hangs is
exempt, and then its idle clock runs out.  No fairness of deaths.

*Journal.*  A follower polls again.  No writer is obliged to anything.

## 6. Where the code and its comments differ

What was met while modelling.  The models do what the code does, so these are
behaviours of the models; the properties that hold are stated so as not to
promise otherwise, each with its exception in its comment.

On the board and the durable run:

* `claimNextReady` is awaited outside the loop's `try` (`topologies.ts:530`).
  If its append fails, `runBoardWorkers` rejects while the siblings' loops go on
  claiming and starting members of a run already recorded as failed; the comment
  at `topologies.ts:472-475` says that every loop is told to stop.
* A release whose append fails is swallowed (`topologies.ts:714`).  The task
  stays in progress under a live lease, `done()` never holds, and the siblings
  poll for ever, which the same comment says the release prevents.
* Where partial confinement is allowed, the gate accepts an L3 run that the
  board counts as L2; on a task that needs L3 the refusal reaches the catch for
  broken members, and the member leaves the pool (`topologies.ts:611`).
  `AcceptedIsCompleted` is therefore checked without partial confinement.
* A push the remote took, whose answer was lost, leaves the writer's lease
  stale; its next push is refused, and the run cancels itself as taken over
  (`durable.ts:163`).  `FencedByAnother` says that this is the only other way.
* `push` looks at `stopped` as it starts and reads the journal later
  (`durable.ts:155`), so a push under way at a cancel can carry the completion of
  a task an aborted member closed.
* The landing marker is written before the confirming push (`index.ts:1149`).  A
  run cancelled or cut off after that push was delivered lands nothing, yet its
  remote says landing began, and `resume` refuses it for good.
* A cancel during a landing into the host's own clone drops the outcome from the
  run's record (`index.ts:602-603`), so that the same host may resume and land
  again.

In the trains:

* A crash of the service while a record's dependents are being ejected leaves
  the rest of them queued behind a blocker that is gone; nothing takes them up
  again.  So does enqueueing an entry whose blocker was ejected already
  (`train-service.ts:188-199`).
* `withdraw` reads the entry's state and appends later: an entry that landed in
  between ends as withdrawn (`train-service.ts:257-261`).
* A fetch or a merge that errs for any reason is read as a branch that moved or a
  conflict, and its entry is ejected (`train-service.ts:380`, `403`).  `FetchErrs`
  and `MergeErrs` have it; a `merge-base` that errs is read as "not in the target"
  (`train-service.ts:320`), after which the entry is merged once more or ejected as
  moved, and is left out.
* A cancel while an enqueue is in flight leaves an entry that its client does
  not know of, and that may land (`train-client.ts:97`, `211-227`).
* The target is moved before what landed is recorded, by `advanceTarget` for a
  whole batch (`train.ts:429-438`) and by `mergeAll` branch by branch
  (`train.ts:668-677`).  If a step of the recording fails, the outcome calls the
  entries not yet marked withheld, and leaves out all that `mergeAll` merged,
  though the target has them.  The comments say that the outcome says what landed
  before the train stopped (`train.ts:153`) and that it is partial, but true
  (`train.ts:701`).  `OutcomeTrueElsewhere` is about all other entries.
* On a base that fails already, `mergeAll` merges what a conflicting branch
  blocks (`train.ts:666-682`).

In the mailbox and the journal:

* An acknowledgement that fails leaves its mail reserved for as long as the lead
  lives; the peer has it, and the journal does not say so (`mailbox.ts:144-179`).
* A waking message whose delivery fails stays queued, and nothing delivers it
  later, since only quiet mail rides along (`mailbox.ts:130-137`); the comment on
  `send` says that it stays pending until a later waking delivery.
* Members that send to each other within their turns wait until the idle clock
  fails one of them (`remote-peer.ts:192`).
* An append that fails half way in a live process leaves torn bytes before the
  next line, and the file can no longer be opened (`journal.ts:82-92`).
* The journal has "one writer ... the run's lead, which takes that role by opening
  it", and "no cross-process locking" (`journal.ts:6-8`).  `attachRun` reads that
  the recorded writer is dead and then opens the journal (`index.ts:205-213`), and
  nothing orders it against another process that does the same
  (`index.ts:944`): both become writers, cut what the other has half written,
  and hand out the same seqs.  What still holds then is that the lead is dead and
  that the end of a line that resolved is never cut off (`OneWriter`'s first part,
  `ResolvedKept`); the rest excepts it.

In the gate:

* `runGate` looks at the signal before a round, after the member's run and after a
  sign-off's reply, and says why: what a cancel cut short must not close the task
  (`gate.ts:372-374`, `378-379`, `576`).  After the checks, a review that decides
  and the suite it looks only where they failed (`gate.ts:415-549`).  A round they
  pass while the run is cancelled is accepted, and so is the verdict of a review
  that the cancel ended early, if what it had said by then passes.
  `CancelEndsTheGate` is about the three places.

## 7. What is proved

`BoardWorkersProofs` proves, for every set of members, every board, every level
and every bound:

| theorem | property |
|---|---|
| TypeCorrect | `TypeOK` |
| ClaimsAreExclusive | `HoldersOwnTheirClaims` |
| BlockersComeFirst | `BlockersFirst` |
| AbandonedStayOpen | `AbandonedNotCompleted` |
| EvidenceAlwaysHolds | `EvidenceHolds` |
| CompletionsAreDurable | `DurablyCompleted` (an action property) |
| BoardStaysSafe | `BoardSafe`, the conjunction of four of these |

Assumptions: `BoardAssumption` (a task waits only on tasks seeded before it, and
*nobody* is not a member) and `WorkersAssumption` (the bounds are numbers, at
least one attempt is allowed, and a task's gate can reach the level the task
needs, which `boardGate` checks before it seeds).  TLC evaluates both on every
board run.

None of the properties is inductive alone.  `IInv` adds:

* `InFlight`: while a mutation's append is being written, the claim in it is of
  a task still ready, and the completion in it has its evidence.  Without it the
  step that lands the append could land anything.
* `Quiet`: before the loops start, and after a crash, no member works and nothing
  is queued, so that seeding and `ReleaseOrphans` meet no holder.
* `RecordsAbandoned`, `NoneCompleted`: `AbandonedNotCompleted` extended to the
  records still in the write queue.
* `WorkNotAbandoned`: a task worked on is not abandoned, except one whose claim
  was being written or had just been granted when the run's budget stopped,
  which the budget then does not admit.  That exception is the case a budget
  stop really meets.
* `CompletedVerified`, `MirrorSound`: the same facts of the remote's copy, and
  that this host has every completion it holds; they carry everything over a
  crash.

The proof has one lemma or step per action.  The central fact is that a claim
pins its task: nobody else changes the snapshot of a held task, so its blockers
stay completed and no cascade from another task reaches it (a dependent of an
abandoned task is blocked by one that is not completed).

The rest of the board's safety is proved further down in the same module, each
with an invariant of its own over `IInv`:

| theorem | property | invariant |
|---|---|---|
| StartsAreBounded | `AttemptsBounded` | `Counted` |
| AbandonedStayUnstarted | `AbandonedNotRerun` (an action property) | `ClaimUnrecorded` |
| ClaimsKeepTheirMembers | `NoStuckClaim` | `HeldOrOpen` |
| AcceptedWorkIsTaken | `AcceptedIsCompleted` (an action property) | `AcceptedVerified` |

`Counted` ties starts to failed attempts: an open task that is not abandoned has
been started no oftener than it failed, and less often than it may be; a member
at work is one start ahead.  Attempts alone would not do: a waived completion
that fails is counted a second time, and a retry granted after it is one more
start only because starts, not attempts, are below the limit.  `ClaimUnrecorded`
says that the record of a task abandoned while its claim is being written is
queued behind that claim.  `HeldOrOpen` adds that no lease on the board or the
remote is of a later incarnation than the host's, so that a takeover releases
every claim and starts with none.  `AcceptedVerified` is why the board takes what
the gate accepts; its theorem assumes that partly confined runs do not count,
without which it is false (section 6).  No other assumption is added.

`GateProofs` proves, for every set of trees, checks and gates and any cap on the
rounds:

| theorem | property |
|---|---|
| AcceptanceIsSafe | `GateSafe` |
| EvidenceStaysInPlace | `EvidenceInPlace` |
| RoundsDoNotRegress | `NoRegression` |

Its assumption is `GateConstants`: at least one round, and gates that `runGate`
does not throw on.  The invariant follows a round (`BetweenRounds`, `Working`,
`Measured`, `BeforeSuite`, `Weighing`), and has of a cancel that it came where
`runGate` heeds it only if nothing went on since (`CancelEndsTheGate`, in `Shape`).
The point of it is the rollback: the
evidence put back is that of the round kept, and it is right only if nothing
learnt since is about the same tree.  `Measured` says so, because a round that
left the tree it started from has ended the gate before it is measured; so the
evidence of the round undone overwrites nothing known of the tree gone back to.
Where the checks decide, the round kept is always the last one whose tree is in
the worktree, and its evidence follows a sign-off.  `FloorKept` adds that its
passing checks contain those of every round's start.

`DurableProofs` proves, for every set of hosts and tasks and every number of
commits, tries and troubles:

| theorem | property |
|---|---|
| RemoteCanStartATaker | `MirrorSafe` |
| OnlyATakeoverFences | `FencedByAnother` |
| LandsOnce | `SharedLandsOnce` |
| RemoteNeverLoses | `RemoteKeeps` (an action property) |
| HostsKeepCustody | `KeepsCustody` (DurableRun implements RunCustody) |

Its assumption is `DurableAssumption`: *no host* is not a host, `confirm` tries
at least once, and the bounds are numbers.  `HostsKeepCustody` is about a shared
target, as the promise is.  Besides the type invariant, the inductive invariant
has:

* `CommitsKnown`: a commit is of one push, and nobody names one before the remote
  has it.  So the compare-and-set on a commit is one on the journal it holds.
* `Follows`: whoever names the remote's commit as what it pushed last knows the
  journal there, and what it has or is sending extends it.  So a push that is
  taken never takes anything back: this is `RemoteNeverLoses`.
* `MarkStays`: with the landing marker on the remote, any push that could still
  be taken is of the host that wrote it, so a host once told that its marker is
  there stays its writer.  That is why nobody else lands after it.
* `InStep`: while no answer was lost, the host the remote's journal names as its
  writer names the remote's commit in its next push.  So a refused one means
  that another host has taken over.

The refinement takes RunCustody's holder and landing off the remote and shows,
action by action, that a push that is taken is a take, a progress or a stutter
(`TakesRefines`), that the end of a landing is `Land` (`LandRefines`), and that
the rest stutters.

`JournalProofs` proves, for any number of takers, followers and failed appends:

| theorem | property |
|---|---|
| JournalIsSafe | `JournalSafe` (no takeover beside the lead, and what resolved stays; the file can be read and is its writer's, but for torn lines and takeovers at once) |
| FollowersSeeTheFile | `GivenIsTheFile` |

Its assumption is `JournalConstants`: the lead is not a taker, and the bound on
seqs is a number.  First come lemmas about the file as a sequence of half lines:
its last newline (`LastPlace`), a file of whole lines parses to its events
(`LinesAreWhole`, `ShapedParses`), what an append adds (`FirstHalf`,
`SecondHalf`), and that cutting after the last newline loses no whole line
(`CutKeeps`).  Four parts of the invariant hold whatever happens: who may be at work
and that the lead is dead when a taker is (`Roles`), that seqs stay in bounds
(`Bounded`), and that the end of a line stays once it is written, before its
append resolves and after (`Written`, `ResolvedKept`).  While one process at a time
takes the run over, the events' seqs grow with their places and a writer is ahead
of all it did not write itself (`Ordered`; `Behind` leaves out the event that is in
the file and not yet its writer's), so that a cursor means the same in memory and
in the file.  While moreover no append is torn, every line but the last is whole,
the writer has read all of it, and each follower was given a prefix (`Untorn`).

`BudgetProofs` proves, for any tasks, budgets, slots and costs:

| theorem | property |
|---|---|
| BudgetIsSafe | `BudgetSafe` |
| StoppedStartsNothing | `NoRunPastStop` (an action property) |

Its assumption is `RunBudgetConstants`: finitely many tasks, none of them called
*run*, at least one slot, and a bound above 0 on what a member run costs.  The
invariant has a part for the questions: the records in the write queue fit
behind those written, a question's closing record follows its asking, ids are
given once and without gaps while no append failed (`QuestionInv`,
`AnswersTrue`).  The part for the budgets says that a start checked against the
run's budget has passed its task's (`Checked`), that a question is of a scope
with a limit (`AskedOf`), that a slot is released to the next start that waits
for it (`Slots`), and that a member run keeps its slot until its usage is written
(`Usages`).  The last is what bounds the overshoot: a run that could still be
admitted has its cost in the journal or holds a slot.

`PeerMailProofs` proves, for any finite team, any number of messages, deaths and
restarts:

| theorem | property |
|---|---|
| MailIsSafe | `MailSafe` |
| NoneOvertakes | `QuietRides` (an action property) |

Its assumption is `PeerMailConstants`: the team is finite and the bounds are
numbers.  The invariant says that the message of the send under way is the
journal's last (`Serialized`); that what a turn carries is quiet mail to its peer
and reserved for that turn alone (`Reserved`); that a chain has its worker's task
at most once and the message on offer once (`Chained`); that what a peer accepted
is being marked (`Accepted`); that behind a message on offer no quiet mail waits
(`Swept`); and that what a peer was given and may still be given is no more than
its faults explain (`Explained`).  The last is the one that needs care: a
message may be carried again only after a restart, and each restart is counted
once (`RestartedOnce`).

`TrainClientsProofs` proves of the train service with its clients, for any
clients, branches, blockers, commits, breakages, conflicts and failures:

| theorem | property |
|---|---|
| TrainIsSafe | `TrainSafe` |
| OnlyTheGuiltyAreBlamed | `BlamedAlone` |
| TargetIsKept | `TargetKept` (an action property) |

Its assumptions are `TrainConstants` (a branch waits for branches of its own
client, has at least one commit, and what others push to the target are not the
train's entries) and `ClientConstants` (a client lists its branches blockers
first: `list()` gives worktrees in the order of their creation, a task's is
created after its blockers completed, and a resumed run adopts them in the order
of the board).  The invariant says:

* `Written`: a record being written is true of what it names: a *landed* or
  *found* entry is in the target, an *enqueued* one is its client's open call, an
  entry blamed for a check fails it alone.  A client's call has one such record.
* `Histories`: a commit the train knows is one its run has made, and its history
  is of its own branch and of what was in the target.
* `BlockersKnown`: the blockers of what the train knows it knows too.  `ready()`
  takes a blocker it has never heard of for landed; that no entry slips past its
  blockers rests on each client enqueueing them first, and this part carries that
  through restarts, repairs and calls still in flight.
* `Sound`: what the loop has in hand is known and waits for nothing outside the
  target; from the fetch on, its tip is of the target and passes the checks; what
  it pushes passes them.  `PushedPasses` says so of what it pushed last, which is
  what a later pass may take on trust.

Two lemmas are about operators: a filter keeps just the elements it is meant to
(`OnlyIs`, through `RankOnto`), and the round-robin of `Ready` gives each
of its turns to some ready entry (`ReadyIs`).

`LandTrainProofs` proves of a run's own train, for any number of entries, any
blockers, breakages and conflicts, any size of batches and any number of
repairs, retries and failures:

| theorem | property |
|---|---|
| LandIsSafe | `LandSafe` |
| LandsWhatWasVerified | `TargetVerified`, a part of `LandSafe` |
| OutcomeIsTrue | `OutcomeTrueElsewhere` |
| TrainKeepsItsPromise | `LandsAsPromised` (LandTrain implements RunLanding) |

Its assumption is `LandTrainConstants`: batches take at least one entry (an
empty batch would end no wave), an entry has a commit (`landTrain` lists only
branches that have), its blockers are entries of the run, and the target has no
entry's work to begin with (a resumed run does not list what landed).  Nothing is
assumed of which pieces break the verifier or conflict, nor that blockers are
without a cycle: entries that wait for each other are ejected in the end.

The invariant `IInv` is that the train is on its way (`Active`) or over
(`Final`), where the three properties hold of what it left and nothing happens
any more.  They are not inductive on the way there.  `Active` adds:

* `Branches`: a branch holds its own entry's pieces and, of others, only what the
  target has.  So a landing adds the work of its batch and of nobody else, and
  `<<e, 1>>` in the target does tell that e landed.
* `Decided`: outcome, state and target agree for every entry, and whatever is
  landed, under repair or to be resolved has blockers that landed.  The second
  half is what a repaired entry relies on when it is queued again.
* `Verified`: from the first wave on the target passes; before it nothing is
  decided, and only a failing base is asked about.
* `Batched`: what is in a batch, and in every half still to be tried, is ready
  and in no other, and what is about to land passes on top of the target as it
  is now.  The halves of a bisection are what needs it: one may land, changing
  target and states, while the next waits, which must still be ready then.
* `Awaited`: the culprits and conflicts found are just the entries under repair
  or to be resolved, once each.  Without it `fix()` could work on an entry that
  was ejected with its blocker in the same wave; it cannot, because a culprit's
  blockers have all landed, so no ejection takes it along.

There is one lemma per action that goes on and one for each way to end
(`GiveUpEnds`, `StopEnds`, `MergeEnds`, `AdvanceFailsEnds`).  The refinement
(`StepLands`) uses the invariant on both sides of a step and maps every action:
`Advance` and `AdvanceFails` are `Land`, an ejection is `GiveUp`, `MergeAll` and
its failure are `MergeUnverified`, an end that marks nothing is a `GiveUp` of
nobody, and the rest stutters.  The operators' lemmas are of their own:
`RankIs` and `InOrderIs` (a finite set of entries has each of its ranks once, so
`InOrder` lists it without repetition), `CleanIs` (whatever merges is among what
was to be merged), `EjectedWithIs` (what goes with an ejected entry is the least
set closed under waiting, so no landed entry is in it and nothing outside it
waits for it), `RestIs` and `ConcatIs` on sequences without repetition.

The lemmas need nothing of which entries merge first.  `Clean` is computed along
a sequence, so what exactly it keeps would need induction; that it keeps only
what it was given is all that safety needs, since the verifier passes the union
that lands.

Only model-checked:

* every liveness property (`RunEnds`, `LandingDecided`, `LandingEnds`,
  `DependentsLeave`, `InTargetIsFound`, `TrainEnds`, `StartsDecided`,
  `TurnsEnd`, `AllGiven`): temporal reasoning under fairness is out of the
  prover's reach.

## 8. Not modelled

* The other topologies (fanout, critic-loop, committee, pipeline, cascade,
  coordinator): sequences of member runs over the same gate, budget and mailbox,
  with no shared state of their own that several actors change.
* `SwarmBoard.claim` by id and the records of gates and tampers on the board:
  runs of the peer team use `claimNextReady`, and those records change no task.
* Worktrees and git plumbing, forge, verifier, evidence files, metrics, reports:
  calls to other programs and pure transformations.  Where a model needs them
  they are reduced to what their callers see.
* Member runtimes and the model providers: how a member works is nondeterminism
  here.  The in-process peers of `peers.ts` and the briefing and steering of
  members are left out of PeerMail.
* A person's answers other than the defaults to a stalled or a dead member, and
  budgets in tokens beside those in dollars.
* The rest of the wire protocol, the server, the command line, the browser
  client, plugins: requests and presentation around the service.
* `eval/`, which measures, and `legacy/`.  The latter is some 100,000 of the
  repository's 113,775 lines of implementation: the v0.x code before the
  rewrite, which the repository's `README.md` (96-98) calls frozen and not
  maintained, and which nothing in `packages/` calls.  The share of the
  repository's lines that `map` names stays small for that reason.

## 9. Plan

1. The in-process peers of `peers.ts`, over the mailbox of PeerMail.
2. A person's other answers to a stalled or a dead member.
