---------------------------- MODULE DurableRun ----------------------------
(***************************************************************************)
(* A durable run and the hosts that may hold it (durable.ts; index.ts:     *)
(* launch, mirror, resume and the landing of execute).                     *)
(*                                                                         *)
(* The run's ref on the remote is a commit number and what that commit     *)
(* holds.  A writer mirrors its journal by pushes that name the commit it  *)
(* last pushed (its lease); a taker fetches the ref, and pushes the run as *)
(* taken over on the commit it fetched.  A push is four steps, with other  *)
(* hosts' steps between them: it starts, reads the journal, is sent with   *)
(* the completed tasks' branches, and is answered.  The remote handles a   *)
(* push that was sent at any time after, also once its sender has given it *)
(* up or died; its answer may be lost.                                     *)
(*                                                                         *)
(* A journal is abstracted to what a taker asks of it: the run's record,   *)
(* the completed tasks and whether landing has begun.  The lease is not a  *)
(* clock here: a writer may be paused for any time, so a polite taker sees *)
(* the ref move or not.                                                    *)
(***************************************************************************)
EXTENDS Naturals

CONSTANTS
    Hosts,       \* the hosts
    NoHost,      \* nobody
    Tasks,       \* the board's tasks
    Shared,      \* it lands on a target hosts share: a train's or the forge's
    Tries,       \* how often confirm tries a remote it cannot reach
    MaxCommits,  \* bound: commits made for the run's ref
    MaxLost,     \* bound: answers of the remote that are lost
    MaxCancels,  \* bound: runs cancelled by a person
    MaxCrashes   \* bound: hosts that die

ASSUME DurableAssumption ==
    /\ NoHost \notin Hosts
    /\ Shared \in BOOLEAN
    /\ Tries \in Nat \ {0}
    /\ MaxCommits \in Nat
    /\ MaxLost \in Nat
    /\ MaxCancels \in Nat
    /\ MaxCrashes \in Nat

VARIABLES
    remote,     \* the run's ref: its commit (0: none), journal and branches
    inflight,   \* pushes sent that the remote has not handled
    commits,    \* commits made so far; a commit is its number
    mode,       \* what each host does with the run
    journal,    \* each host's own copy of the run's journal
    lease,      \* the commit a host's next push names
    mirror,     \* each host's JournalMirror: on, fenced, stopped, or none
    push,       \* the push a host has under way
    outcome,    \* of the awaited push that ended, until it is looked at
    tries,      \* tries the confirm under way has left
    cancelled,  \* the run's signal is aborted on the host
    seen,       \* what a taker fetched
    landings,   \* how often each host has landed the run (history)
    lost,       \* answers lost so far
    cancels,    \* runs cancelled so far
    crashes     \* hosts that died so far

ref == <<remote, inflight, commits>>
run == <<mode, journal, tries, cancelled, seen, landings>>
pushing == <<lease, mirror, push, outcome>>
bounds == <<lost, cancels, crashes>>
vars == <<ref, run, pushing, bounds>>

Journal ==
    [status: {"none", "running", "interrupted", "failed", "finished"},
     writer: Hosts \cup {NoHost},
     done: SUBSET Tasks,     \* tasks completed on the board
     aborted: SUBSET Tasks,  \* those a cancelled member's result closed
     landing: BOOLEAN,       \* the marker that landing has begun
     landed: BOOLEAN]        \* its end is recorded with what landed

NoJournal == [status |-> "none", writer |-> NoHost, done |-> {},
              aborted |-> {}, landing |-> FALSE, landed |-> FALSE]

\* A push: why it is made, how far it is, its commit and what that holds.
NoPush == [stage |-> "none", why |-> "none", commit |-> 0,
           journal |-> NoJournal]

Unseen == [commit |-> 0, journal |-> NoJournal]

Modes == {"off", "watching", "taking", "starting", "working", "confirming",
          "landing", "settling"}

-----------------------------------------------------------------------------
Init ==
    /\ remote = [commit |-> 0, journal |-> NoJournal, branches |-> {}]
    /\ inflight = {}
    /\ commits = 0
    /\ mode = [h \in Hosts |-> "off"]
    /\ journal = [h \in Hosts |-> NoJournal]
    /\ lease = [h \in Hosts |-> 0]
    /\ mirror = [h \in Hosts |-> "none"]
    /\ push = [h \in Hosts |-> NoPush]
    /\ outcome = [h \in Hosts |-> "none"]
    /\ tries = [h \in Hosts |-> 0]
    /\ cancelled = [h \in Hosts |-> FALSE]
    /\ seen = [h \in Hosts |-> Unseen]
    /\ landings = [h \in Hosts |-> 0]
    /\ lost = 0
    /\ cancels = 0
    /\ crashes = 0

Go(h, m) == mode' = [mode EXCEPT ![h] = m]

\* launch: the run is recorded as running here, and the mirror confirms that
\* the remote has it before anything is spent.
Launch(h, prior) ==
    /\ journal' = [journal EXCEPT ![h] =
                     [prior EXCEPT !.status = "running", !.writer = h]]
    /\ Go(h, "starting")
    /\ tries' = [tries EXCEPT ![h] = Tries]
    /\ mirror' = [mirror EXCEPT ![h] = "on"]

\* start: run ids are fresh, so a run is started once.
Start(h) ==
    /\ \A g \in Hosts : mode[g] = "off" /\ journal[g].status = "none"
    /\ Launch(h, NoJournal)
    /\ UNCHANGED <<ref, cancelled, seen, landings, lease, push, outcome, bounds>>

-----------------------------------------------------------------------------
\* The run on its host.

\* A task completes on the board.
CompleteTask(h, t) ==
    /\ mode[h] = "working"
    /\ ~cancelled[h]
    /\ t \notin journal[h].done
    /\ journal' = [journal EXCEPT ![h].done = @ \cup {t}]
    /\ UNCHANGED <<ref, mode, tries, cancelled, seen, landings, pushing, bounds>>

\* A member aborted by a cancel settles as a result, which closes its task.
CloseAborted(h, t) ==
    /\ mode[h] = "working"
    /\ cancelled[h]
    /\ t \notin journal[h].done
    /\ journal' = [journal EXCEPT ![h].done = @ \cup {t},
                                  ![h].aborted = @ \cup {t}]
    /\ UNCHANGED <<ref, mode, tries, cancelled, seen, landings, pushing, bounds>>

\* A person cancels the run, or its caller does while it starts: from then on
\* its mirror starts no push.
Cancel(h) ==
    /\ mode[h] \in {"starting", "working", "confirming", "landing", "settling"}
    /\ ~cancelled[h]
    /\ cancels < MaxCancels
    /\ cancels' = cancels + 1
    /\ cancelled' = [cancelled EXCEPT ![h] = TRUE]
    /\ mirror' = [mirror EXCEPT ![h] = IF mode[h] = "starting" \/ @ # "on"
                                       THEN @ ELSE "stopped"]
    /\ UNCHANGED <<ref, mode, journal, tries, seen, landings, lease, push,
                   outcome, lost, crashes>>

\* The run's record of its end, before the last checkpoint.
Settle(h, status, landed) ==
    /\ journal' = [journal EXCEPT ![h].status = status, ![h].landed = landed]
    /\ Go(h, "settling")

\* The team throws, or ends cancelled: the run failed with nothing landed.
RunFails(h) ==
    /\ mode[h] = "working"
    /\ Settle(h, "failed", FALSE)
    /\ UNCHANGED <<ref, tries, cancelled, seen, landings, pushing, bounds>>

\* Mutant of WorkEnds: a landing on a shared target is not marked.
WorkEndsUnmarked(h) ==
    /\ mode[h] = "working"
    /\ ~cancelled[h]
    /\ Go(h, "confirming")
    /\ tries' = [tries EXCEPT ![h] = Tries]
    /\ UNCHANGED <<ref, journal, cancelled, seen, landings, pushing, bounds>>

\* The team is through: a landing on a shared target is marked in the
\* journal, then confirmed.
WorkEnds(h) ==
    /\ mode[h] = "working"
    /\ ~cancelled[h]
    /\ journal' = [journal EXCEPT ![h].landing = @ \/ Shared]
    /\ Go(h, "confirming")
    /\ tries' = [tries EXCEPT ![h] = Tries]
    /\ UNCHANGED <<ref, cancelled, seen, landings, pushing, bounds>>

\* finalize is over.  What landed is in the run's result, or in the error of
\* a train that stopped or of abandoned tasks; another error, and a cancel,
\* drop it.
LandEnds(h, status, landed) ==
    /\ mode[h] = "landing"
    /\ status = "finished" => landed /\ ~cancelled[h]
    /\ Settle(h, status, landed)
    /\ UNCHANGED <<ref, tries, cancelled, seen, landings, pushing, bounds>>

-----------------------------------------------------------------------------
\* The mirror: one push at a time, in the order they were asked for.

StartPush(h, why) ==
    /\ push[h].stage = "none"
    /\ mirror[h] = "on"
    /\ push' = [push EXCEPT ![h] = [NoPush EXCEPT !.stage = "started",
                                                  !.why = why]]

\* A heartbeat, or the checkpoint of a completed task: no one awaits it.
Beat(h) ==
    /\ mode[h] \in {"working", "confirming", "landing", "settling"}
    /\ StartPush(h, "beat")
    /\ UNCHANGED <<ref, run, lease, mirror, outcome, bounds>>

\* The checkpoint of a confirm, or the one the settled run ends with.
Awaits(h) == mode[h] \in {"starting", "confirming", "settling"}

Checkpoint(h) ==
    /\ Awaits(h)
    /\ outcome[h] = "none"
    /\ StartPush(h, "awaited")
    /\ UNCHANGED <<ref, run, lease, mirror, outcome, bounds>>

\* Once fenced or stopped, nothing is pushed.
CheckpointRefused(h) ==
    /\ Awaits(h)
    /\ outcome[h] = "none"
    /\ push[h].stage = "none"
    /\ mirror[h] # "on"
    /\ outcome' = [outcome EXCEPT ![h] = "fenced"]
    /\ UNCHANGED <<ref, run, lease, mirror, push, bounds>>

\* snapshot: the journal's file as it is now becomes a commit.
PushRead(h) ==
    /\ push[h].stage = "started"
    /\ commits < MaxCommits
    /\ commits' = commits + 1
    /\ push' = [push EXCEPT ![h].stage = "read", ![h].commit = commits + 1,
                            ![h].journal = journal[h]]
    /\ UNCHANGED <<remote, inflight, run, lease, mirror, outcome, bounds>>

\* The branches pushed with the journal: once the run has its worktrees, those
\* of the tasks completed by now, which the journal read before may not name.
Pushable(h) == IF mode[h] \in {"starting", "taking"} THEN {} ELSE journal[h].done

Send(h, expected, branches) ==
    /\ push[h].stage = "read"
    /\ inflight' = inflight \cup
         {[from |-> h, commit |-> push[h].commit, expected |-> expected,
           journal |-> push[h].journal, branches |-> branches]}
    /\ push' = [push EXCEPT ![h].stage = "sent"]
    /\ UNCHANGED <<remote, commits, run, lease, mirror, outcome, bounds>>

\* Mutants of PushSend: the lease is what a fetch last saw rather than what
\* this host pushed; the branches ride only the awaited pushes.
PushSendUnleased(h) == Send(h, remote.commit, Pushable(h))

PushSendBare(h) ==
    Send(h, lease[h], IF push[h].why = "beat" THEN {} ELSE Pushable(h))

\* pushLeased: one atomic push, leased on the ref being where it was.
PushSend(h) == Send(h, lease[h], Pushable(h))

\* What the sender of push p will read, if it still waits for it.
Answer(p, stage) ==
    push' = [push EXCEPT ![p.from].stage =
               IF @ = "sent" /\ push[p.from].commit = p.commit THEN stage ELSE @]

\* git, on the remote: the whole push, or none of it.
RemoteTakes(p) ==
    /\ p \in inflight
    /\ p.expected = remote.commit
    /\ remote' = [commit |-> p.commit, journal |-> p.journal,
                  branches |-> remote.branches \cup p.branches]
    /\ inflight' = inflight \ {p}
    /\ Answer(p, "taken")
    /\ UNCHANGED <<commits, run, lease, mirror, outcome, bounds>>

RemoteRefuses(p) ==
    /\ p \in inflight
    /\ p.expected # remote.commit
    /\ inflight' = inflight \ {p}
    /\ Answer(p, "refused")
    /\ UNCHANGED <<remote, commits, run, lease, mirror, outcome, bounds>>

PushOver(h, result) ==
    /\ push' = [push EXCEPT ![h] = NoPush]
    /\ outcome' = [outcome EXCEPT ![h] = IF push[h].why = "awaited" THEN result
                                                                   ELSE @]

\* Mutant of PushLands: the lease is not moved on.
PushLandsStale(h) ==
    /\ push[h].stage = "taken"
    /\ push[h].why # "take"
    /\ PushOver(h, "pushed")
    /\ UNCHANGED <<ref, run, lease, mirror, bounds>>

\* The remote has the push: its commit is what the next one names.
PushLands(h) ==
    /\ push[h].stage = "taken"
    /\ push[h].why # "take"
    /\ lease' = [lease EXCEPT ![h] = push[h].commit]
    /\ PushOver(h, "pushed")
    /\ UNCHANGED <<ref, run, mirror, bounds>>

\* Another host holds the run: the mirror stops and the run is cancelled.
PushFenced(h) ==
    /\ push[h].stage = "refused"
    /\ push[h].why # "take"
    /\ mirror' = [mirror EXCEPT ![h] = "fenced"]
    /\ cancelled' = [cancelled EXCEPT ![h] = TRUE]
    /\ PushOver(h, "fenced")
    /\ UNCHANGED <<ref, mode, journal, tries, seen, landings, lease, bounds>>

\* A push fails: before it is sent, on its way, or with its answer lost, when
\* the remote has handled it or yet will.
Unreachable(h) ==
    \/ /\ push[h].stage \in {"started", "read"}
       /\ UNCHANGED <<inflight, lost>>
    \/ /\ push[h].stage = "sent"
       /\ inflight' = {p \in inflight : p.commit # push[h].commit}
       /\ UNCHANGED lost
    \/ /\ push[h].stage \in {"sent", "taken", "refused"}
       /\ lost < MaxLost
       /\ lost' = lost + 1
       /\ UNCHANGED inflight

\* A transport error: the next push tries again.
PushUnreachable(h) ==
    /\ push[h].why # "take"
    /\ Unreachable(h)
    /\ PushOver(h, "unreachable")
    /\ UNCHANGED <<remote, commits, run, lease, mirror, cancels, crashes>>

-----------------------------------------------------------------------------
\* What the awaited push decides.

Looked(h) == outcome' = [outcome EXCEPT ![h] = "none"]

Decided(h) == Looked(h) /\ tries' = [tries EXCEPT ![h] = 0]

Confirming(h) == mode[h] \in {"starting", "confirming"}

ConfirmRetryForever(h) ==
    /\ Confirming(h)
    /\ outcome[h] = "unreachable"
    /\ mirror[h] \notin {"stopped", "fenced"}
    /\ Looked(h)
    /\ UNCHANGED <<ref, run, lease, mirror, push, bounds>>

\* The remote was not reached: confirm waits a little and tries again.
ConfirmRetry(h) ==
    /\ Confirming(h)
    /\ outcome[h] = "unreachable"
    /\ mirror[h] \notin {"stopped", "fenced"}
    /\ tries[h] > 1
    /\ tries' = [tries EXCEPT ![h] = @ - 1]
    /\ Looked(h)
    /\ UNCHANGED <<ref, mode, journal, cancelled, seen, landings, lease, mirror,
                   push, bounds>>

\* The remote has the run: it starts, mirrored unless cancelled meanwhile.
StartHeld(h) ==
    /\ mode[h] = "starting"
    /\ outcome[h] = "pushed"
    /\ Go(h, "working")
    /\ mirror' = [mirror EXCEPT ![h] = IF cancelled[h] THEN "stopped" ELSE @]
    /\ Decided(h)
    /\ UNCHANGED <<ref, journal, cancelled, seen, landings, lease, push, bounds>>

\* Mutant of LandHeld: a remote that was not reached lets the run land.
LandUnconfirmed(h) ==
    /\ mode[h] = "confirming"
    /\ outcome[h] \in {"pushed", "unreachable"}
    /\ ~cancelled[h]
    /\ Go(h, "landing")
    /\ landings' = [landings EXCEPT ![h] = @ + 1]
    /\ Decided(h)
    /\ UNCHANGED <<ref, journal, cancelled, seen, lease, mirror, push, bounds>>

\* The run still holds its lease: it lands.
LandHeld(h) ==
    /\ mode[h] = "confirming"
    /\ outcome[h] = "pushed"
    /\ ~cancelled[h]
    /\ Go(h, "landing")
    /\ landings' = [landings EXCEPT ![h] = @ + 1]
    /\ Decided(h)
    /\ UNCHANGED <<ref, journal, cancelled, seen, lease, mirror, push, bounds>>

\* confirm is false, or the run was cancelled meanwhile: nothing more is
\* pushed and nothing starts or lands.
ConfirmLost(h) ==
    /\ Confirming(h)
    /\ \/ outcome[h] = "fenced"
       \/ outcome[h] = "unreachable" /\ (mirror[h] # "on" \/ tries[h] <= 1)
       \/ outcome[h] = "pushed" /\ mode[h] = "confirming" /\ cancelled[h]
    /\ mirror' = [mirror EXCEPT ![h] = IF @ = "on" THEN "stopped" ELSE @]
    /\ Settle(h, "failed", FALSE)
    /\ Decided(h)
    /\ UNCHANGED <<ref, cancelled, seen, landings, lease, push, bounds>>

\* The host's process has nothing of the run any more.
Forget(h) ==
    /\ Go(h, "off")
    /\ mirror' = [mirror EXCEPT ![h] = "none"]
    /\ lease' = [lease EXCEPT ![h] = 0]
    /\ push' = [push EXCEPT ![h] = NoPush]
    /\ outcome' = [outcome EXCEPT ![h] = "none"]
    /\ tries' = [tries EXCEPT ![h] = 0]
    /\ cancelled' = [cancelled EXCEPT ![h] = FALSE]
    /\ seen' = [seen EXCEPT ![h] = Unseen]

\* The last checkpoint is over, whatever it did; so is a push behind it.
Settled(h) ==
    /\ mode[h] = "settling"
    /\ outcome[h] # "none"
    /\ push[h].stage = "none"
    /\ Forget(h)
    /\ UNCHANGED <<ref, journal, landings, bounds>>

\* The host dies.  Its journal stays, and so do its pushes that were sent.
Crash(h) ==
    /\ mode[h] # "off"
    /\ crashes < MaxCrashes
    /\ crashes' = crashes + 1
    /\ Forget(h)
    /\ UNCHANGED <<ref, journal, landings, lost, cancels>>

-----------------------------------------------------------------------------
\* resume: a host takes the run over.

\* A journal that says the run landed, or finished.
PastLanding(j) == j.status = "finished" \/ (j.status = "failed" /\ j.landed)

\* The ref is fetched, unless this host's own journal says it landed here.
Observe(h) ==
    /\ mode[h] = "off"
    /\ ~PastLanding(journal[h])
    /\ remote.commit # 0
    /\ seen' = [seen EXCEPT ![h] = [commit |-> remote.commit,
                                    journal |-> remote.journal]]
    /\ Go(h, "watching")
    /\ UNCHANGED <<ref, journal, tries, cancelled, landings, pushing, bounds>>

\* What record asks of the journal fetched.
MayTake(j) == ~PastLanding(j) /\ ~j.landing

\* The ref moved during the lease, or the run cannot be taken over.
TakeRefused(h) ==
    /\ mode[h] = "watching"
    /\ remote.commit # seen[h].commit \/ ~MayTake(seen[h].journal)
    /\ Forget(h)
    /\ UNCHANGED <<ref, journal, landings, bounds>>

\* The lease is over, or the taker steals: the run is recorded as taken over,
\* its dead claims are released, and that is pushed on the commit fetched.
Take(h) ==
    /\ mode[h] = "watching"
    /\ MayTake(seen[h].journal)
    /\ commits < MaxCommits
    /\ commits' = commits + 1
    /\ lease' = [lease EXCEPT ![h] = seen[h].commit]
    /\ push' = [push EXCEPT ![h] =
                  [stage |-> "read", why |-> "take", commit |-> commits + 1,
                   journal |-> [seen[h].journal EXCEPT !.status = "interrupted",
                                                       !.writer = h]]]
    /\ seen' = [seen EXCEPT ![h] = Unseen]
    /\ Go(h, "taking")
    /\ UNCHANGED <<remote, inflight, journal, tries, cancelled, landings,
                   mirror, outcome, bounds>>

\* The takeover is pushed: the run is launched here on the journal taken.
TakeLands(h) ==
    /\ push[h].why = "take"
    /\ push[h].stage = "taken"
    /\ lease' = [lease EXCEPT ![h] = push[h].commit]
    /\ push' = [push EXCEPT ![h] = NoPush]
    /\ Launch(h, push[h].journal)
    /\ UNCHANGED <<ref, cancelled, seen, landings, outcome, bounds>>

\* Another taker was first, or the remote was not reached: the host's own
\* journal is put back.
TakeFails(h) ==
    /\ push[h].why = "take"
    /\ \/ push[h].stage = "refused" /\ UNCHANGED <<inflight, lost>>
       \/ Unreachable(h)
    /\ Forget(h)
    /\ UNCHANGED <<remote, commits, journal, landings, cancels, crashes>>

-----------------------------------------------------------------------------
\* The bound on commits keeps the model finite; nothing waits at it for ever,
\* since a push may fail at any stage.
HostStep(h) ==
    \/ Start(h)
    \/ \E t \in Tasks : CompleteTask(h, t)
    \/ \E t \in Tasks : CloseAborted(h, t)
    \/ Cancel(h)
    \/ RunFails(h)
    \/ WorkEnds(h)
    \/ \E status \in {"finished", "failed"}, landed \in BOOLEAN :
         LandEnds(h, status, landed)
    \/ Beat(h)
    \/ Checkpoint(h)
    \/ CheckpointRefused(h)
    \/ PushRead(h)
    \/ PushSend(h)
    \/ PushLands(h)
    \/ PushFenced(h)
    \/ PushUnreachable(h)
    \/ ConfirmRetry(h)
    \/ StartHeld(h)
    \/ LandHeld(h)
    \/ ConfirmLost(h)
    \/ Settled(h)
    \/ Crash(h)
    \/ Observe(h)
    \/ TakeRefused(h)
    \/ Take(h)
    \/ TakeLands(h)
    \/ TakeFails(h)

Next ==
    \/ \E h \in Hosts : HostStep(h)
    \/ \E p \in inflight : RemoteTakes(p)
    \/ \E p \in inflight : RemoteRefuses(p)

Spec == Init /\ [][Next]_vars

\* git ends, with the remote's answer or an error; the queue of the mirror
\* comes to the awaited push after finitely many others; and what awaits it
\* goes on.
Fairness ==
    \A h \in Hosts :
        /\ WF_vars(PushLands(h) \/ PushFenced(h) \/ PushUnreachable(h))
        /\ SF_vars(Checkpoint(h))
        /\ WF_vars(CheckpointRefused(h))
        /\ WF_vars(ConfirmRetry(h) \/ LandHeld(h) \/ ConfirmLost(h))

LiveSpec == Spec /\ Fairness

-----------------------------------------------------------------------------
\* Every variable keeps its type: a push is under way only for a host that
\* has the run, and commits are numbered as they are made.
TypeOK ==
    /\ remote \in [commit: 0..commits, journal: Journal, branches: SUBSET Tasks]
    /\ \A p \in inflight :
         p \in [from: Hosts, commit: 1..commits, expected: 0..commits,
                journal: Journal, branches: SUBSET Tasks]
    /\ commits \in 0..MaxCommits
    /\ mode \in [Hosts -> Modes]
    /\ journal \in [Hosts -> Journal]
    /\ lease \in [Hosts -> 0..commits]
    /\ mirror \in [Hosts -> {"none", "on", "fenced", "stopped"}]
    /\ push \in [Hosts -> [stage: {"none", "started", "read", "sent", "taken",
                                   "refused"},
                           why: {"none", "beat", "awaited", "take"},
                           commit: 0..commits, journal: Journal]]
    /\ outcome \in [Hosts -> {"none", "pushed", "fenced", "unreachable"}]
    /\ tries \in [Hosts -> 0..Tries]
    /\ cancelled \in [Hosts -> BOOLEAN]
    /\ seen \in [Hosts -> [commit: 0..commits, journal: Journal]]
    /\ landings \in [Hosts -> Nat]
    /\ lost \in 0..MaxLost
    /\ cancels \in 0..MaxCancels
    /\ crashes \in 0..MaxCrashes

\* Onto a shared target the run lands once, over all its hosts: whatever is
\* paused, cut off, stolen, retaken or answered late (index.ts, the landing
\* confirmed after its marker; durable.ts, fencing).
SharedLandsOnce ==
    Shared => \A g, h \in Hosts :
                /\ landings[h] <= 1
                /\ landings[g] = 1 /\ landings[h] = 1 => g = h

\* A taker finds the branch of every task the remote's journal calls
\* completed, though the journal is read and the branches are listed at
\* different times (SwarmService.mirror, JournalMirror.push).
BranchesWithJournal == remote.journal.done \subseteq remote.branches

\* The mirror's state has its shape, and the remote is a run a taker can start from.
MirrorSafe == TypeOK /\ BranchesWithJournal

\* What the remote has of the run is never taken back by a host that lost it:
\* completed tasks stay completed, a landing stays marked.
RemoteKeeps ==
    [][/\ remote.journal.done \subseteq remote'.journal.done
       /\ remote.journal.landing => remote'.journal.landing]_vars

\* A host asked to confirm that it may land gets to know, remote or no
\* remote, and lands or fails.
LandingDecided ==
    \A h \in Hosts : mode[h] = "confirming" ~> mode[h] # "confirming"

\* The run as its remote tells it: who holds it, what is completed, whether
\* its landing has begun.
Custody == INSTANCE RunCustody WITH
    holder <- remote.journal.writer,
    completed <- remote.journal.done,
    landing <- remote.journal.landing,
    landed <- \E h \in Hosts : landings[h] > 0

\* Onto a shared target, the hosts implement RunCustody's one holder that
\* lands once and is then not taken over.
KeepsCustody == Custody!Spec

\* A push refused for the run's ref means another host took the run over, while every
\* answer of the remote arrives: neither the host's own pushes, queued, awaited or sent by
\* a process that died, nor its cancel fences it (durable.ts, the lease and the fence).
FencedByAnother ==
    lost = 0 => \A h \in Hosts : mirror[h] = "fenced" => remote.journal.writer # h
=============================================================================
