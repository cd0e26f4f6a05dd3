--------------------------- MODULE DurableProofs ---------------------------
(***************************************************************************)
(* Theorems about DurableRun, for any number of hosts, tasks, lost answers *)
(* and crashes: what the remote has of the run is never taken back, a run  *)
(* lands once onto a shared target, the hosts implement RunCustody, and    *)
(* only another host's takeover fences a host.                             *)
(***************************************************************************)
EXTENDS DurableRun, TLAPS

(***************************************************************************)
(* The inductive invariant                                                 *)
(***************************************************************************)
\* A host that runs the run, its confirm, its landing or its last checkpoint.
Active == {"starting", "working", "confirming", "landing", "settling"}

\* A push whose commit is made.
Made == {"read", "sent", "taken", "refused"}

\* What a host may have under way in each mode.
Shape ==
    /\ remote.commit = 0 => remote.journal = NoJournal
    /\ remote.commit # 0 => remote.journal.writer \in Hosts
    /\ commits > 0 => \E g \in Hosts : journal[g].status # "none"
    /\ \A h \in Hosts :
         /\ push[h].stage = "none" => push[h].why = "none"
         /\ mode[h] \in {"off", "watching"} =>
              push[h].stage = "none" /\ mirror[h] = "none"
         /\ mode[h] = "taking" => push[h].why = "take" /\ push[h].stage \in Made
         /\ mode[h] \in Active => push[h].why # "take"
         /\ mode[h] \in Active \/ landings[h] > 0 => journal[h].status # "none"
         /\ mode[h] = "watching" => seen[h].commit # 0
         /\ push[h].stage # "none" /\ push[h].why = "awaited" =>
              Awaits(h) /\ outcome[h] = "none"
         /\ mode[h] \notin {"starting", "confirming", "settling"} =>
              outcome[h] = "none"
         /\ mirror[h] = "fenced" => push[h].stage = "none"

\* A commit is of one push, and is named by nobody before the remote has it.
CommitsKnown ==
    /\ \A p \in inflight :
         /\ p.expected < p.commit
         /\ p.commit # remote.commit
         /\ \A q \in inflight :
              /\ p.commit = q.commit => p = q
              /\ q.expected # p.commit
         /\ \A h \in Hosts : lease[h] # p.commit /\ seen[h].commit # p.commit
         /\ \A h \in Hosts :
              push[h].stage \in Made /\ p.commit = push[h].commit =>
                /\ p.from = h
                /\ push[h].stage = "sent"
                /\ p.journal = push[h].journal
                /\ p.expected = lease[h]
    /\ \A h \in Hosts : push[h].stage \in Made =>
         /\ lease[h] < push[h].commit
         /\ push[h].stage = "taken" => push[h].commit <= remote.commit
         /\ \A g \in Hosts : push[g].stage \in Made
              => g = h \/ push[g].commit # push[h].commit
    /\ \A h \in Hosts : push[h].stage = "read" =>
         /\ remote.commit # push[h].commit
         /\ \A p \in inflight : p.expected # push[h].commit
         /\ \A g \in Hosts : /\ lease[g] # push[h].commit
                             /\ seen[g].commit # push[h].commit

\* Host h may put the journal j where the remote's now is.
Onto(j, h) ==
    /\ j.writer = h
    /\ remote.journal.done \subseteq j.done
    /\ remote.journal.landing => j.landing
    /\ \/ remote.journal.writer \in {h, NoHost}
       \/ /\ ~remote.journal.landing /\ ~j.landing
          /\ j.done = remote.journal.done

\* Whoever names the remote's commit knows its journal and extends it.
Follows ==
    /\ BranchesWithJournal
    /\ \A p \in inflight : p.expected = remote.commit =>
         /\ Onto(p.journal, p.from)
         /\ p.journal.done \subseteq remote.branches \cup p.branches
    /\ \A h \in Hosts :
         /\ push[h].stage = "read" /\ lease[h] = remote.commit =>
              /\ Onto(push[h].journal, h)
              /\ mode[h] = "taking" =>
                   push[h].journal.done \subseteq remote.branches
         /\ mode[h] \in Active /\ lease[h] = remote.commit =>
              /\ Onto(journal[h], h)
              /\ remote.journal.writer \in {h, NoHost}
              /\ mode[h] = "starting" =>
                   journal[h].done \subseteq remote.branches
         /\ push[h].stage = "taken" /\ push[h].commit = remote.commit =>
              remote.journal = push[h].journal
         /\ push[h].stage \in Made => push[h].journal.writer = h
         /\ mode[h] \in Active => journal[h].writer = h
         /\ mode[h] \in Active /\ push[h].stage \in Made =>
              /\ push[h].journal.done \subseteq journal[h].done
              /\ push[h].journal.landing => journal[h].landing
              /\ mode[h] = "starting" =>
                   journal[h].done \subseteq push[h].journal.done
         /\ mode[h] = "watching" /\ seen[h].commit = remote.commit =>
              seen[h].journal = remote.journal

\* The remote has host h's mark that landing has begun.
Marked(h) == remote.journal.writer = h /\ remote.journal.landing

\* A host told that its mark is on the remote is the writer there for good.
MarkStays ==
    /\ \A h \in Hosts :
         push[h].stage = "taken" /\ push[h].journal.landing => Marked(h)
    /\ Shared => \A h \in Hosts :
         /\ mode[h] = "confirming" => journal[h].landing
         /\ /\ mode[h] = "confirming" /\ push[h].why = "awaited"
            /\ push[h].stage \in Made
            => push[h].journal.landing
         /\ mode[h] = "confirming" /\ outcome[h] = "pushed" => Marked(h)
         /\ landings[h] > 0 =>
              /\ landings[h] = 1
              /\ Marked(h)
              /\ mode[h] \in {"landing", "settling", "off", "watching"}
              /\ mode[h] = "watching" => seen[h].journal.landing

\* While every answer arrives, a host whom the remote calls the run's writer
\* names the remote's commit in its next push, or is about to.
InStep ==
    /\ \A h \in Hosts : mode[h] = "taking" =>
         /\ \A p \in inflight : p.from = h => p.commit <= push[h].commit
         /\ push[h].stage = "taken" =>
              push[h].commit = remote.commit \/ remote.journal.writer # h
    /\ lost = 0 => \A h \in Hosts : mode[h] \in Active =>
         /\ \A p \in inflight : p.from = h =>
              \/ push[h].stage = "sent" /\ p.commit = push[h].commit
              \/ p.expected < remote.commit
         /\ \/ remote.journal.writer # h
            \/ lease[h] = remote.commit
            \/ push[h].stage = "taken" /\ push[h].commit = remote.commit
         /\ push[h].stage = "refused" \/ mirror[h] = "fenced" =>
              remote.journal.writer # h

IInv == TypeOK /\ Shape /\ CommitsKnown /\ Follows /\ MarkStays /\ InStep

(***************************************************************************)
(* Types                                                                   *)
(***************************************************************************)
\* What a host's push may be.
PushType ==
    [stage: {"none", "started", "read", "sent", "taken", "refused"},
     why: {"none", "beat", "awaited", "take"},
     commit: 0..commits, journal: Journal]

\* The values TypeOK speaks of, field by field.
LEMMA Types ==
    ASSUME TypeOK
    PROVE  /\ remote.commit \in 0..commits /\ remote.journal \in Journal
           /\ remote.branches \subseteq Tasks
           /\ commits \in Nat /\ MaxCommits \in Nat
           /\ \A p \in inflight :
                /\ p.from \in Hosts /\ p.journal \in Journal
                /\ p.commit \in 1..commits /\ p.expected \in 0..commits
                /\ p.branches \subseteq Tasks
           /\ \A h \in Hosts :
                /\ mode[h] \in Modes /\ journal[h] \in Journal
                /\ lease[h] \in 0..commits
                /\ push[h].journal \in Journal /\ push[h].commit \in 0..commits
                /\ seen[h].commit \in 0..commits /\ seen[h].journal \in Journal
                /\ landings[h] \in Nat
  BY DurableAssumption DEF TypeOK, PushType

\* A journal's fields.
LEMMA JournalFields ==
    ASSUME NEW j \in Journal
    PROVE  /\ j.done \subseteq Tasks /\ j.aborted \subseteq Tasks
           /\ j.writer \in Hosts \cup {NoHost}
           /\ j.landing \in BOOLEAN /\ j.landed \in BOOLEAN
  BY DEF Journal

(***************************************************************************)
(* Steps of the run on its host: nothing of the pushes changes             *)
(***************************************************************************)
\* What host h's journal may become while it has the run: it only grows.
Grows(h) ==
    /\ journal' \in [Hosts -> Journal]
    /\ \A g \in Hosts : g # h => journal'[g] = journal[g]
    /\ journal'[h].status # "none"
    /\ journal'[h].writer = journal[h].writer
    /\ journal[h].landing => journal'[h].landing
    /\ journal[h].done \subseteq journal'[h].done

\* A journal that is replaced by one that extends it grows.
LEMMA GrowsTo ==
    ASSUME TypeOK, NEW h \in Hosts, NEW j \in Journal,
           journal' = [journal EXCEPT ![h] = j],
           j.status # "none", j.writer = journal[h].writer,
           journal[h].landing => j.landing, journal[h].done \subseteq j.done
    PROVE  Grows(h) /\ journal'[h] = j
  BY DEF TypeOK, PushType, Grows

\* A completed task, or a closed one, is added to the journal.
LEMMA TaskStep ==
    ASSUME IInv, NEW h \in Hosts, NEW t \in Tasks,
           CompleteTask(h, t) \/ CloseAborted(h, t)
    PROVE  IInv'
<1> USE DEF ref, run, pushing, bounds
<1> DEFINE completed == [journal[h] EXCEPT !.done = @ \cup {t}]
           closed == [journal[h] EXCEPT !.done = @ \cup {t},
                                        !.aborted = @ \cup {t}]
<1>1. /\ UNCHANGED <<ref, mode, tries, cancelled, seen, landings, pushing, bounds>>
      /\ mode[h] = "working"
      /\ \/ journal' = [journal EXCEPT ![h] = completed]
         \/ journal' = [journal EXCEPT ![h] = closed]
  BY DEF CompleteTask, CloseAborted
<1>2. Grows(h)
  <2>1. journal[h] \in Journal /\ journal[h].status # "none"
    BY <1>1, Types DEF IInv, Shape, Active
  <2> DEFINE Extends(j) ==
               /\ j.status = journal[h].status /\ j.writer = journal[h].writer
               /\ j.landing = journal[h].landing
               /\ journal[h].done \subseteq j.done
  <2>2. completed \in Journal /\ Extends(completed)
    BY <2>1 DEF Journal
  <2>3. closed \in Journal /\ Extends(closed)
    BY <2>1 DEF Journal
  <2> QED  BY <1>1, <2>1, <2>2, <2>3, GrowsTo DEF IInv
<1>3. TypeOK'
  BY <1>1, <1>2 DEF IInv, TypeOK, PushType, Grows
<1>4. Shape' /\ CommitsKnown'
  BY <1>1, <1>2 DEF IInv, Shape, CommitsKnown, Awaits, Grows
<1>5. Follows'
  BY <1>1, <1>2 DEF IInv, Follows, Onto, BranchesWithJournal, Active, Grows
<1>6. MarkStays' /\ InStep'
  BY <1>1, <1>2 DEF IInv, MarkStays, Marked, InStep, Grows
<1> QED  BY <1>3, <1>4, <1>5, <1>6 DEF IInv

\* A cancel stops the mirror once the run has started.
LEMMA CancelStep ==
    ASSUME IInv, NEW h \in Hosts, Cancel(h) PROVE IInv'
<1> USE DEF ref, run, pushing, bounds
<1>1. /\ UNCHANGED <<ref, mode, journal, tries, seen, landings, lease, push,
                     outcome, lost, crashes>>
      /\ mode[h] \in Active
      /\ \A g \in Hosts : g # h => mirror'[g] = mirror[g]
      /\ mirror'[h] = mirror[h] \/ mirror'[h] = "stopped"
  BY DEF Cancel, IInv, TypeOK, PushType, Active
<1>2. TypeOK'
  BY <1>1, DurableAssumption DEF IInv, TypeOK, PushType, Cancel
<1>3. Shape' /\ CommitsKnown'
  BY <1>1 DEF IInv, Shape, CommitsKnown, Awaits, Active
<1>4. Follows' /\ MarkStays' /\ InStep'
  BY <1>1 DEF IInv, Follows, Onto, BranchesWithJournal, MarkStays, Marked, InStep
<1> QED  BY <1>2, <1>3, <1>4 DEF IInv

\* The record of the run's end leaves the journal's work as it is.
LEMMA SettleGrows ==
    ASSUME IInv, NEW h \in Hosts, mode[h] \in Active,
           NEW s \in {"failed", "finished"}, NEW b \in BOOLEAN, Settle(h, s, b)
    PROVE  /\ Grows(h)
           /\ mode' = [mode EXCEPT ![h] = "settling"]
           /\ mode' \in [Hosts -> Modes]
<1>1. /\ journal' = [journal EXCEPT ![h] =
                       [journal[h] EXCEPT !.status = s, !.landed = b]]
      /\ mode' = [mode EXCEPT ![h] = "settling"]
  BY DEF Settle, Go
<1> DEFINE ended == [journal[h] EXCEPT !.status = s, !.landed = b]
<1>2. journal[h] \in Journal
  BY Types DEF IInv
<1>3. /\ ended \in Journal /\ ended.status = s
      /\ ended.writer = journal[h].writer
      /\ ended.landing = journal[h].landing /\ ended.done = journal[h].done
  BY <1>2 DEF Journal
<1>4. Grows(h)
  BY <1>1, <1>3, GrowsTo DEF IInv
<1> QED  BY <1>1, <1>4 DEF IInv, TypeOK, PushType, Modes

\* A run that fails, or whose landing is over, settles.
LEMMA EndStep ==
    ASSUME IInv, NEW h \in Hosts,
           NEW s \in {"failed", "finished"}, NEW b \in BOOLEAN,
           RunFails(h) \/ LandEnds(h, s, b)
    PROVE  IInv'
<1> USE DEF ref, run, pushing, bounds
<1>1. /\ UNCHANGED <<ref, tries, cancelled, seen, landings, pushing, bounds>>
      /\ mode[h] \in {"working", "landing"}
      /\ mode' = [mode EXCEPT ![h] = "settling"]
      /\ Grows(h)
      /\ mode' \in [Hosts -> Modes]
  BY SettleGrows DEF RunFails, LandEnds, Active
<1>2. TypeOK'
  BY <1>1 DEF IInv, TypeOK, PushType, Grows
<1>3. Shape' /\ CommitsKnown'
  BY <1>1 DEF IInv, TypeOK, PushType, Shape, CommitsKnown, Awaits, Active, Grows
<1>4. Follows'
  BY <1>1 DEF IInv, TypeOK, PushType, Follows, Onto, BranchesWithJournal, Active, Grows
<1>5. MarkStays' /\ InStep'
  BY <1>1 DEF IInv, TypeOK, PushType, MarkStays, Marked, InStep, Active, Grows
<1> QED  BY <1>2, <1>3, <1>4, <1>5 DEF IInv

\* The team is through: the landing is marked before it is confirmed.
LEMMA WorkEndsStep ==
    ASSUME IInv, NEW h \in Hosts, WorkEnds(h) PROVE IInv'
<1> USE DEF ref, run, pushing, bounds
<1> DEFINE marked == [journal[h] EXCEPT !.landing = @ \/ Shared]
<1>1. /\ UNCHANGED <<ref, cancelled, seen, landings, pushing, bounds>>
      /\ mode[h] = "working"
      /\ mode' = [mode EXCEPT ![h] = "confirming"]
      /\ journal' = [journal EXCEPT ![h] = marked]
      /\ tries' \in [Hosts -> 0..Tries]
  BY DurableAssumption DEF WorkEnds, Go, IInv, TypeOK, PushType
<1>2. Grows(h) /\ (Shared => journal'[h].landing)
  <2>1. journal[h] \in Journal /\ journal[h].status # "none"
    BY <1>1, Types DEF IInv, Shape, Active
  <2>2. /\ marked \in Journal
        /\ marked.status = journal[h].status /\ marked.writer = journal[h].writer
        /\ journal[h].landing \/ Shared => marked.landing
        /\ marked.done = journal[h].done
    BY <2>1, DurableAssumption DEF Journal
  <2>3. Grows(h) /\ journal'[h] = marked
    BY <1>1, <2>1, <2>2, GrowsTo DEF IInv
  <2> QED  BY <2>2, <2>3
<1>3. TypeOK'
  BY <1>1, <1>2 DEF IInv, TypeOK, PushType, Grows, Modes
<1>4. Shape' /\ CommitsKnown'
  BY <1>1, <1>2 DEF IInv, TypeOK, PushType, Shape, CommitsKnown, Awaits, Active, Grows
<1>5. Follows'
  BY <1>1, <1>2 DEF IInv, TypeOK, PushType, Follows, Onto, BranchesWithJournal, Active, Grows
<1>6. MarkStays'
  BY <1>1, <1>2 DEF IInv, TypeOK, PushType, MarkStays, Marked, Grows, Shape, Awaits, Made
<1>7. InStep'
  BY <1>1 DEF IInv, TypeOK, PushType, InStep, Active
<1> QED  BY <1>3, <1>4, <1>5, <1>6, <1>7 DEF IInv

\* Once fenced or stopped, the checkpoint awaited is refused at once.
LEMMA CheckpointRefusedStep ==
    ASSUME IInv, NEW h \in Hosts, CheckpointRefused(h) PROVE IInv'
<1> USE DEF ref, run, pushing, bounds
<1>1. /\ UNCHANGED <<ref, run, lease, mirror, push, bounds>>
      /\ Awaits(h) /\ push[h].stage = "none"
      /\ outcome' = [outcome EXCEPT ![h] = "fenced"]
  BY DEF CheckpointRefused
<1>2. TypeOK'
  BY <1>1 DEF IInv, TypeOK, PushType
<1>3. Shape' /\ CommitsKnown'
  BY <1>1 DEF IInv, TypeOK, PushType, Shape, CommitsKnown, Awaits
<1>4. Follows' /\ MarkStays' /\ InStep'
  BY <1>1 DEF IInv, TypeOK, PushType, Follows, Onto, BranchesWithJournal, MarkStays, Marked,
     InStep
<1> QED  BY <1>2, <1>3, <1>4 DEF IInv

\* A confirm that tries again leaves everything else alone.
LEMMA ConfirmRetryStep ==
    ASSUME IInv, NEW h \in Hosts, ConfirmRetry(h) PROVE IInv'
<1> USE DEF ref, run, pushing, bounds
<1>1. /\ UNCHANGED <<ref, mode, journal, cancelled, seen, landings, lease, mirror,
                     push, bounds>>
      /\ outcome' = [outcome EXCEPT ![h] = "none"]
      /\ outcome[h] = "unreachable"
      /\ tries' = [tries EXCEPT ![h] = @ - 1] /\ tries[h] > 1
  BY DEF ConfirmRetry, Looked
<1>2. TypeOK'
  <2>1. tries[h] - 1 \in 0..Tries
    BY <1>1, DurableAssumption DEF IInv, TypeOK, PushType
  <2> QED  BY <1>1, <2>1 DEF IInv, TypeOK, PushType
<1>3. Shape' /\ CommitsKnown'
  BY <1>1 DEF IInv, TypeOK, PushType, Shape, CommitsKnown, Awaits
<1>4. Follows' /\ MarkStays' /\ InStep'
  BY <1>1 DEF IInv, TypeOK, PushType, Follows, Onto, BranchesWithJournal, MarkStays, Marked,
     InStep
<1> QED  BY <1>2, <1>3, <1>4 DEF IInv

\* What the decision of a confirm does to the outcome and the tries.
LEMMA DecidedTypes ==
    ASSUME IInv, NEW h \in Hosts, Decided(h)
    PROVE  /\ outcome' = [outcome EXCEPT ![h] = "none"]
           /\ tries' \in [Hosts -> 0..Tries]
  BY DurableAssumption DEF Decided, Looked, IInv, TypeOK, PushType

\* The remote has the run: it starts.
LEMMA StartHeldStep ==
    ASSUME IInv, NEW h \in Hosts, StartHeld(h) PROVE IInv'
<1> USE DEF ref, run, pushing, bounds
<1>1. /\ UNCHANGED <<ref, journal, cancelled, seen, landings, lease, push, bounds>>
      /\ mode[h] = "starting" /\ mode' = [mode EXCEPT ![h] = "working"]
      /\ outcome[h] = "pushed" /\ outcome' = [outcome EXCEPT ![h] = "none"]
      /\ tries' \in [Hosts -> 0..Tries]
      /\ \A g \in Hosts : g # h => mirror'[g] = mirror[g]
      /\ mirror'[h] = mirror[h] \/ mirror'[h] = "stopped"
  BY DecidedTypes DEF StartHeld, Go, IInv, TypeOK, PushType
<1>2. TypeOK'
  BY <1>1 DEF IInv, TypeOK, PushType, StartHeld, Modes
<1>3. Shape' /\ CommitsKnown'
  BY <1>1 DEF IInv, TypeOK, PushType, Shape, CommitsKnown, Awaits, Active
<1>4. Follows' /\ MarkStays'
  BY <1>1 DEF IInv, TypeOK, PushType, Follows, Onto, BranchesWithJournal, MarkStays, Marked,
     Active, Shape
<1>5. InStep'
  BY <1>1 DEF IInv, TypeOK, PushType, InStep, Active
<1> QED  BY <1>2, <1>3, <1>4, <1>5 DEF IInv

\* Nobody has landed when a host is told that it may: the mark on the remote
\* is its own.
LEMMA FirstToLand ==
    ASSUME IInv, NEW h \in Hosts, LandHeld(h), Shared
    PROVE  Marked(h) /\ \A g \in Hosts : landings[g] = 0
<1>1. Marked(h) /\ mode[h] = "confirming"
  BY DEF LandHeld, IInv, MarkStays
<1>2. \A g \in Hosts : ~(landings[g] > 0)
  BY <1>1 DEF IInv, MarkStays, Marked
<1> QED  BY <1>1, <1>2, Types DEF IInv

\* The run still holds its lease: it lands.
LEMMA LandHeldStep ==
    ASSUME IInv, NEW h \in Hosts, LandHeld(h) PROVE IInv'
<1> USE DEF ref, run, pushing, bounds
<1>1. /\ UNCHANGED <<ref, journal, cancelled, seen, lease, mirror, push, bounds>>
      /\ mode[h] = "confirming" /\ mode' = [mode EXCEPT ![h] = "landing"]
      /\ outcome[h] = "pushed" /\ outcome' = [outcome EXCEPT ![h] = "none"]
      /\ tries' \in [Hosts -> 0..Tries]
      /\ landings' = [landings EXCEPT ![h] = @ + 1]
  BY DecidedTypes DEF LandHeld, Go
<1>2. TypeOK'
  BY <1>1 DEF IInv, TypeOK, PushType, Modes
<1>3. Shape' /\ CommitsKnown'
  BY <1>1 DEF IInv, TypeOK, PushType, Shape, CommitsKnown, Awaits, Active
<1>4. Follows' /\ InStep'
  BY <1>1 DEF IInv, TypeOK, PushType, Follows, Onto, BranchesWithJournal, InStep, Active
<1>5. MarkStays'
  BY <1>1, FirstToLand DEF IInv, TypeOK, PushType, MarkStays, Marked
<1> QED  BY <1>2, <1>3, <1>4, <1>5 DEF IInv

\* A confirm that is lost settles the run as failed.
LEMMA ConfirmLostStep ==
    ASSUME IInv, NEW h \in Hosts, ConfirmLost(h) PROVE IInv'
<1> USE DEF ref, run, pushing, bounds
<1>1. /\ UNCHANGED <<ref, cancelled, seen, landings, lease, push, bounds>>
      /\ mode[h] \in {"starting", "confirming"}
      /\ outcome[h] # "none" /\ outcome' = [outcome EXCEPT ![h] = "none"]
      /\ tries' \in [Hosts -> 0..Tries]
      /\ \A g \in Hosts : g # h => mirror'[g] = mirror[g]
      /\ mirror'[h] = mirror[h] \/ mirror'[h] = "stopped"
  BY DecidedTypes DEF ConfirmLost, Confirming, IInv, TypeOK, PushType
<1>2. /\ mode' = [mode EXCEPT ![h] = "settling"]
      /\ mode' \in [Hosts -> Modes]
      /\ Grows(h)
  BY <1>1, SettleGrows DEF ConfirmLost, Active
<1>3. TypeOK'
  BY <1>1, <1>2 DEF IInv, TypeOK, PushType, ConfirmLost, Grows
<1>4. Shape' /\ CommitsKnown'
  BY <1>1, <1>2 DEF IInv, TypeOK, PushType, Shape, CommitsKnown, Awaits, Active, Grows
<1>5. Follows'
  BY <1>1, <1>2 DEF IInv, TypeOK, PushType, Follows, Onto, BranchesWithJournal, Active, Grows
<1>6. MarkStays'
  BY <1>1, <1>2 DEF IInv, TypeOK, PushType, MarkStays, Marked, Grows
<1>7. InStep'
  BY <1>1, <1>2 DEF IInv, TypeOK, PushType, InStep, Active
<1> QED  BY <1>3, <1>4, <1>5, <1>6, <1>7 DEF IInv

\* A host that has nothing of the run any more names no commit.
LEMMA ForgetStep ==
    ASSUME IInv, NEW h \in Hosts, Forget(h),
           UNCHANGED <<remote, commits, journal, landings>>,
           inflight' \subseteq inflight,
           lost' \in lost..MaxLost, cancels' = cancels, crashes' \in 0..MaxCrashes
    PROVE  IInv'
<1> USE DEF ref, run, pushing, bounds
<1>1. /\ mode' = [mode EXCEPT ![h] = "off"]
      /\ mirror' = [mirror EXCEPT ![h] = "none"]
      /\ lease' = [lease EXCEPT ![h] = 0]
      /\ push' = [push EXCEPT ![h] = NoPush]
      /\ outcome' = [outcome EXCEPT ![h] = "none"]
      /\ seen' = [seen EXCEPT ![h] = Unseen]
  BY DEF Forget, Go
<1>2. NoPush.stage = "none" /\ NoPush.why = "none" /\ Unseen.commit = 0
  BY DEF NoPush, Unseen
<1>3. TypeOK'
  BY <1>1, DurableAssumption DEF IInv, TypeOK, PushType, Forget, Modes, NoPush, Unseen, NoJournal,
     Journal
<1>4. Shape'
  BY <1>1, <1>2 DEF IInv, TypeOK, PushType, Shape, Awaits, Active
<1>5. CommitsKnown'
  BY <1>1, <1>2, Types DEF IInv, TypeOK, PushType, CommitsKnown, Made
<1>6. Follows'
  BY <1>1, <1>2 DEF IInv, TypeOK, PushType, Follows, Onto, BranchesWithJournal, Active, Made
<1>7. MarkStays'
  BY <1>1, <1>2 DEF IInv, TypeOK, PushType, MarkStays, Marked, Made
<1>8. InStep'
  BY <1>1, <1>2 DEF IInv, TypeOK, PushType, InStep, Active
<1> QED  BY <1>3, <1>4, <1>5, <1>6, <1>7, <1>8 DEF IInv

\* So does the step of a host that leaves the run, or dies.
LEMMA LeaveStep ==
    ASSUME IInv, NEW h \in Hosts,
           Settled(h) \/ Crash(h) \/ TakeRefused(h) \/ TakeFails(h)
    PROVE  IInv'
<1> USE DEF ref, bounds
<1>1. /\ Forget(h) /\ UNCHANGED <<remote, commits, journal, landings, cancels>>
      /\ inflight' = inflight
           \/ inflight' = {p \in inflight : p.commit # push[h].commit}
      /\ lost' = lost \/ (lost < MaxLost /\ lost' = lost + 1)
      /\ crashes' = crashes \/ (crashes < MaxCrashes /\ crashes' = crashes + 1)
  BY DEF Settled, Crash, TakeRefused, TakeFails, Unreachable
<1>2. inflight' \subseteq inflight
  BY <1>1
<1>3. lost' \in lost..MaxLost /\ crashes' \in 0..MaxCrashes
  BY <1>1, DurableAssumption DEF IInv, TypeOK, PushType
<1> QED  BY <1>1, <1>2, <1>3, ForgetStep

(***************************************************************************)
(* Steps of a push                                                         *)
(***************************************************************************)
\* The run is started once, before there is any commit.
LEMMA StartStep ==
    ASSUME IInv, NEW h \in Hosts, Start(h) PROVE IInv'
<1> USE DEF ref, run, pushing, bounds
<1> DEFINE first == [NoJournal EXCEPT !.status = "running", !.writer = h]
<1>1. /\ UNCHANGED <<ref, cancelled, seen, landings, lease, push, outcome, bounds>>
      /\ \A g \in Hosts : mode[g] = "off" /\ journal[g].status = "none"
      /\ journal' = [journal EXCEPT ![h] = first]
      /\ mode' = [mode EXCEPT ![h] = "starting"]
      /\ mirror' = [mirror EXCEPT ![h] = "on"]
      /\ tries' \in [Hosts -> 0..Tries]
  BY DurableAssumption DEF Start, Launch, Go, IInv, TypeOK, PushType
<1>2. /\ first \in Journal /\ first.status = "running" /\ first.writer = h
      /\ first.done = {} /\ ~first.landing
  BY DEF Journal, NoJournal
<1>3. commits = 0 /\ remote.commit = 0 /\ remote.journal = NoJournal
  BY <1>1, Types DEF IInv, Shape
<1>4. \A p \in inflight : FALSE
  BY <1>3, Types DEF IInv
<1>5. \A g \in Hosts : push[g].stage = "none"
  BY <1>1 DEF IInv, Shape
<1>6. TypeOK'
  BY <1>1, <1>2 DEF IInv, TypeOK, PushType, Modes
<1>7. Shape' /\ CommitsKnown'
  BY <1>1, <1>2, <1>5 DEF IInv, TypeOK, PushType, Shape, CommitsKnown, Awaits, Active
<1>8. Follows'
  BY <1>1, <1>2, <1>3, <1>4, <1>5
     DEF IInv, TypeOK, PushType, Follows, Onto, BranchesWithJournal, Active, Made, NoJournal
<1>9. MarkStays'
  BY <1>1, <1>2, <1>3, <1>5 DEF IInv, TypeOK, PushType, MarkStays, Marked, Made, NoJournal
<1>10. InStep'
  BY <1>1, <1>3, <1>4, <1>5, DurableAssumption
     DEF IInv, TypeOK, PushType, InStep, Active, NoJournal
<1> QED  BY <1>6, <1>7, <1>8, <1>9, <1>10 DEF IInv

\* A push that starts has no commit yet.
LEMMA StartPushStep ==
    ASSUME IInv, NEW h \in Hosts, Beat(h) \/ Checkpoint(h) PROVE IInv'
<1> USE DEF ref, run, pushing, bounds
<1>1. /\ UNCHANGED <<ref, run, lease, mirror, outcome, bounds>>
      /\ mode[h] \in Active /\ mirror[h] = "on" /\ push[h].stage = "none"
      /\ \E why \in {"beat", "awaited"} :
           /\ push' = [push EXCEPT ![h] =
                         [stage |-> "started", why |-> why, commit |-> 0,
                          journal |-> NoJournal]]
           /\ why = "awaited" => Awaits(h) /\ outcome[h] = "none"
  BY DEF Beat, Checkpoint, StartPush, Awaits, Active, NoPush
<1>2. /\ \A g \in Hosts : g # h => push'[g] = push[g]
      /\ push'[h].stage = "started"
      /\ push'[h].why \in {"beat", "awaited"}
      /\ push'[h].why = "awaited" => Awaits(h) /\ outcome[h] = "none"
  BY <1>1 DEF IInv, TypeOK, PushType
<1>3. push' \in [Hosts -> PushType']
  <2>1. NoJournal \in Journal
    BY DEF NoJournal, Journal
  <2> QED  BY <1>1, <2>1, Types DEF IInv, TypeOK, PushType
<1>4. TypeOK'
  BY <1>1, <1>3 DEF IInv, TypeOK, PushType
<1>5. Shape' /\ CommitsKnown'
  BY <1>1, <1>2 DEF IInv, TypeOK, PushType, Shape, CommitsKnown, Awaits, Active, Made
<1>6. Follows'
  BY <1>1, <1>2 DEF IInv, TypeOK, PushType, Follows, Onto, BranchesWithJournal, Made
<1>7. MarkStays'
  BY <1>1, <1>2 DEF IInv, TypeOK, PushType, MarkStays, Marked, Made
<1>8. InStep'
  BY <1>1, <1>2 DEF IInv, TypeOK, PushType, InStep, Active
<1> QED  BY <1>4, <1>5, <1>6, <1>7, <1>8 DEF IInv

\* The journal read becomes a commit that nobody names yet.
LEMMA PushReadStep ==
    ASSUME IInv, NEW h \in Hosts, PushRead(h) PROVE IInv'
<1> USE DEF ref, run, pushing, bounds
<1>1. /\ UNCHANGED <<remote, inflight, run, lease, mirror, outcome, bounds>>
      /\ commits' = commits + 1 /\ commits' \in 0..MaxCommits
      /\ push[h].stage = "started"
      /\ mode[h] \in Active
  BY Types DEF PushRead, IInv, Shape, Modes, Active, Made, TypeOK, PushType
<1>2. /\ \A g \in Hosts : g # h => push'[g] = push[g]
      /\ push'[h].stage = "read" /\ push'[h].why = push[h].why
      /\ push'[h].commit = commits + 1 /\ push'[h].journal = journal[h]
  BY DEF IInv, TypeOK, PushType, PushRead
<1>3. TypeOK'
  <2>1. push' \in [Hosts -> PushType']
    BY <1>1, Types DEF IInv, TypeOK, PushType, PushRead
  <2>2. remote' \in [commit: 0..commits', journal: Journal, branches: SUBSET Tasks]
    BY <1>1, Types DEF IInv, TypeOK, PushType
  <2>3. \A p \in inflight' :
          p \in [from: Hosts, commit: 1..commits', expected: 0..commits',
                 journal: Journal, branches: SUBSET Tasks]
    BY <1>1, Types DEF IInv, TypeOK, PushType
  <2>4. /\ lease' \in [Hosts -> 0..commits']
        /\ seen' \in [Hosts -> [commit: 0..commits', journal: Journal]]
    BY <1>1, Types DEF IInv, TypeOK, PushType
  <2> QED  BY <1>1, <2>1, <2>2, <2>3, <2>4 DEF IInv, TypeOK, PushType
<1>4. Shape'
  BY <1>1, <1>2, Types DEF IInv, Shape, Awaits, Active, Made
<1>5. CommitsKnown'
  BY <1>1, <1>2, Types DEF IInv, CommitsKnown, Made
<1>6. Follows'
  BY <1>1, <1>2 DEF IInv, Follows, Onto, BranchesWithJournal, Made, Active
<1>7. MarkStays'
  BY <1>1, <1>2 DEF IInv, MarkStays, Marked, Made
<1>8. InStep'
  BY <1>1, <1>2 DEF IInv, InStep, Active
<1> QED  BY <1>3, <1>4, <1>5, <1>6, <1>7, <1>8 DEF IInv

\* The push is on its way, with the branches its journal needs.
LEMMA PushSendStep ==
    ASSUME IInv, NEW h \in Hosts, PushSend(h) PROVE IInv'
<1> USE DEF ref, run, pushing, bounds
<1> DEFINE new == [from |-> h, commit |-> push[h].commit, expected |-> lease[h],
                   journal |-> push[h].journal, branches |-> Pushable(h)]
<1>1. /\ UNCHANGED <<remote, commits, run, lease, mirror, outcome, bounds>>
      /\ push[h].stage = "read"
      /\ inflight' = inflight \cup {new}
      /\ push' = [push EXCEPT ![h].stage = "sent"]
  BY DEF PushSend, Send
<1>2. /\ \A g \in Hosts : /\ g # h => push'[g] = push[g]
                          /\ push'[g].why = push[g].why
                          /\ push'[g].commit = push[g].commit
                          /\ push'[g].journal = push[g].journal
      /\ push'[h].stage = "sent"
  BY <1>1 DEF IInv, TypeOK, PushType
<1>3. /\ push[h].commit \in 1..commits /\ lease[h] < push[h].commit
      /\ Pushable(h) \subseteq Tasks
  BY <1>1, Types, JournalFields DEF IInv, CommitsKnown, Made, Pushable
<1>4. TypeOK'
  <2>1. new \in [from: Hosts, commit: 1..commits, expected: 0..commits,
                 journal: Journal, branches: SUBSET Tasks]
    BY <1>3, Types DEF IInv
  <2>2. \A p \in inflight' :
          p \in [from: Hosts, commit: 1..commits', expected: 0..commits',
                 journal: Journal, branches: SUBSET Tasks]
    BY <1>1, <2>1 DEF IInv, TypeOK, PushType
  <2>3. push' \in [Hosts -> PushType']
    <3>1. push' = [push EXCEPT ![h] = [push[h] EXCEPT !.stage = "sent"]]
      BY <1>1
    <3>2. push[h] \in
            PushType
      BY DEF IInv, TypeOK, PushType
    <3>3. [push[h] EXCEPT !.stage = "sent"] \in
            PushType
      BY <3>2 DEF PushType
    <3> QED  BY <1>1, <3>1, <3>3 DEF IInv, TypeOK, PushType
  <2> QED  BY <1>1, <2>2, <2>3 DEF IInv, TypeOK, PushType
<1>5. Shape'
  BY <1>1, <1>2 DEF IInv, Shape, Awaits, Made
<1>6. CommitsKnown'
  BY <1>1, <1>2, <1>3, Types DEF IInv, CommitsKnown, Made
<1>7. Follows'
  <2>1. lease[h] = remote.commit =>
          /\ Onto(push[h].journal, h)
          /\ push[h].journal.done \subseteq remote.branches \cup Pushable(h)
    BY <1>1, Types DEF IInv, Follows, Shape, Modes, Active, Made, Pushable
  <2> QED  BY <1>1, <1>2, <2>1 DEF IInv, Follows, Onto, BranchesWithJournal, Made
<1>8. MarkStays'
  BY <1>1, <1>2 DEF IInv, MarkStays, Marked, Made
<1>9. InStep'
  BY <1>1, <1>2, Types DEF IInv, InStep
<1> QED  BY <1>4, <1>5, <1>6, <1>7, <1>8, <1>9 DEF IInv

\* What the remote's answer to push p tells its sender.
LEMMA Answered ==
    ASSUME TypeOK, NEW p \in inflight, NEW s \in {"taken", "refused"}, Answer(p, s)
    PROVE  /\ push' \in [Hosts -> PushType]
           /\ \A g \in Hosts :
                /\ push'[g].why = push[g].why
                /\ push'[g].commit = push[g].commit
                /\ push'[g].journal = push[g].journal
                /\ push'[g].stage =
                     IF /\ g = p.from /\ push[g].stage = "sent"
                        /\ push[g].commit = p.commit
                     THEN s ELSE push[g].stage
  BY SMTT(30) DEF TypeOK, PushType, Answer

\* What a push that the remote takes does to the ref.
LEMMA TakesWhat ==
    ASSUME IInv, NEW p \in inflight, RemoteTakes(p)
    PROVE  /\ UNCHANGED <<commits, run, lease, mirror, outcome, bounds>>
           /\ p.from \in Hosts
           /\ p.expected = remote.commit /\ remote.commit < p.commit
           /\ remote'.commit = p.commit /\ remote'.journal = p.journal
           /\ remote'.branches = remote.branches \cup p.branches
           /\ inflight' = inflight \ {p}
           /\ Onto(p.journal, p.from)
           /\ p.journal.done \subseteq remote'.branches
  BY Types DEF RemoteTakes, IInv, Follows, CommitsKnown

\* The remote takes a push: it follows the journal there, whoever sent it.
LEMMA RemoteTakesStep ==
    ASSUME IInv, NEW p \in inflight, RemoteTakes(p) PROVE IInv'
<1> USE DEF run, bounds
<1>1. /\ p.from \in Hosts /\ p.expected = remote.commit /\ remote.commit < p.commit
      /\ remote'.commit = p.commit /\ remote'.journal = p.journal
      /\ remote'.branches = remote.branches \cup p.branches
      /\ inflight' = inflight \ {p}
      /\ Onto(p.journal, p.from)
      /\ p.journal.done \subseteq remote'.branches
  BY TakesWhat
<1>2. UNCHANGED <<commits, run, lease, mirror, outcome, bounds>>
  BY TakesWhat
<1>3. \A g \in Hosts :
        /\ push'[g].why = push[g].why
        /\ push'[g].commit = push[g].commit
        /\ push'[g].journal = push[g].journal
        /\ push'[g].stage =
             IF g = p.from /\ push[g].stage = "sent" /\ push[g].commit = p.commit
             THEN "taken" ELSE push[g].stage
  BY Answered DEF RemoteTakes, IInv
<1>4. TypeOK'
  <2>1. remote' = [commit |-> p.commit, journal |-> p.journal,
                   branches |-> remote.branches \cup p.branches]
    BY DEF RemoteTakes
  <2>2. remote' \in [commit: 0..commits', journal: Journal, branches: SUBSET Tasks]
    BY <1>2, <2>1, Types DEF IInv
  <2>3. push' \in [Hosts -> PushType']
    BY <1>2, Answered DEF RemoteTakes, IInv, PushType
  <2>4. \A q \in inflight' :
          q \in [from: Hosts, commit: 1..commits', expected: 0..commits',
                 journal: Journal, branches: SUBSET Tasks]
    BY <1>1, <1>2 DEF IInv, TypeOK, PushType
  <2> QED  BY <1>2, <2>2, <2>3, <2>4 DEF IInv, TypeOK, PushType
<1>5. Shape'
  BY <1>1, <1>2, <1>3, Types DEF IInv, Shape, Awaits, Made, Onto
<1>6. CommitsKnown'
  BY <1>1, <1>2, <1>3, Types DEF IInv, CommitsKnown, Made
<1>7. Follows'
  BY <1>1, <1>2, <1>3, Types DEF IInv, Follows, CommitsKnown, BranchesWithJournal, Made
<1>8. MarkStays'
  <2>1. \A h \in Hosts : Marked(h) => Marked(h)'
    BY <1>1, DurableAssumption DEF Marked, Onto
  <2>2. \A h \in Hosts : push'[h].stage = "taken" /\ push[h].stage # "taken" =>
          remote'.journal = push[h].journal /\ remote'.journal.writer = h
    BY <1>1, <1>3 DEF IInv, CommitsKnown, Onto, Made
  <2>3. \A h \in Hosts :
          push'[h].stage = "taken" /\ push'[h].journal.landing => Marked(h)'
    BY <1>3, <2>1, <2>2 DEF IInv, MarkStays, Marked
  <2> QED  BY <1>2, <1>3, <2>1, <2>3 DEF IInv, MarkStays, Made
<1>9. InStep'
  BY <1>1, <1>2, <1>3, Types DEF IInv, InStep, CommitsKnown, Onto, Made, Shape
<1> QED  BY <1>4, <1>5, <1>6, <1>7, <1>8, <1>9 DEF IInv

\* A refused push leaves the ref alone.
LEMMA RemoteRefusesStep ==
    ASSUME IInv, NEW p \in inflight, RemoteRefuses(p) PROVE IInv'
<1> USE DEF run, bounds
<1>1. /\ p.from \in Hosts /\ p.expected # remote.commit
      /\ inflight' = inflight \ {p}
      /\ UNCHANGED <<remote, commits, run, lease, mirror, outcome, bounds>>
  BY Types DEF RemoteRefuses, IInv
<1>2. /\ push' \in [Hosts -> PushType]
      /\ \A g \in Hosts :
           /\ push'[g].why = push[g].why
           /\ push'[g].commit = push[g].commit
           /\ push'[g].journal = push[g].journal
           /\ push'[g].stage =
                IF g = p.from /\ push[g].stage = "sent" /\ push[g].commit = p.commit
                THEN "refused" ELSE push[g].stage
  BY Answered DEF RemoteRefuses, IInv
<1>3. TypeOK'
  BY <1>1, <1>2 DEF IInv, TypeOK, PushType
<1>4. Shape'
  BY <1>1, <1>2 DEF IInv, Shape, Awaits, Made
<1>5. CommitsKnown'
  BY <1>1, <1>2 DEF IInv, CommitsKnown, Made
<1>6. Follows'
  BY <1>1, <1>2 DEF IInv, Follows, Onto, BranchesWithJournal, Made
<1>7. MarkStays'
  BY <1>1, <1>2 DEF IInv, MarkStays, Marked, Made
<1>8. InStep'
  BY <1>1, <1>2, Types DEF IInv, InStep, CommitsKnown, Made
<1> QED  BY <1>3, <1>4, <1>5, <1>6, <1>7, <1>8 DEF IInv

\* A push that is over: who awaited it finds its outcome.
LEMMA OverWhat ==
    ASSUME IInv, NEW h \in Hosts, push[h].stage # "none", push[h].why # "take",
           NEW result \in {"pushed", "fenced", "unreachable"}, PushOver(h, result)
    PROVE  /\ mode[h] \in Active
           /\ push' = [push EXCEPT ![h] = NoPush]
           /\ NoPush.stage = "none" /\ NoPush.why = "none"
           /\ push' \in [Hosts -> PushType]
           /\ \A g \in Hosts : g # h => outcome'[g] = outcome[g]
           /\ outcome'[h] = IF push[h].why = "awaited" THEN result ELSE outcome[h]
           /\ outcome' \in [Hosts -> {"none", "pushed", "fenced", "unreachable"}]
<1>1. mode[h] \in Active
  BY Types DEF IInv, Shape, Modes, Active, Made
<1>2. NoPush \in PushType
  BY Types DEF IInv, NoPush, NoJournal, Journal, PushType
<1> QED  BY <1>1, <1>2 DEF PushOver, IInv, TypeOK, PushType, NoPush

\* The remote has the push: its sender's next one names its commit.
LEMMA PushLandsStep ==
    ASSUME IInv, NEW h \in Hosts, PushLands(h) PROVE IInv'
<1> USE DEF ref, run, pushing, bounds
<1>1. /\ UNCHANGED <<ref, run, mirror, bounds>>
      /\ push[h].stage = "taken"
      /\ lease' = [lease EXCEPT ![h] = push[h].commit]
  BY DEF PushLands
<1>2. /\ mode[h] \in Active
      /\ push' = [push EXCEPT ![h] = NoPush]
      /\ NoPush.stage = "none" /\ NoPush.why = "none"
      /\ \A g \in Hosts : g # h => outcome'[g] = outcome[g]
      /\ outcome'[h] = IF push[h].why = "awaited" THEN "pushed" ELSE outcome[h]
  BY OverWhat DEF PushLands
<1>3. TypeOK'
  BY <1>1, OverWhat DEF PushLands, IInv, TypeOK, PushType
<1>4. Shape'
  BY <1>1, <1>2 DEF IInv, TypeOK, PushType, Shape, Awaits, Active, Made
<1>5. CommitsKnown'
  BY <1>1, <1>2, Types DEF IInv, TypeOK, PushType, CommitsKnown, Made
<1>6. Follows'
  BY <1>1, <1>2, Types DEF IInv, TypeOK, PushType, Follows, Onto, BranchesWithJournal, Made
<1>7. MarkStays'
  BY <1>1, <1>2 DEF IInv, TypeOK, PushType, MarkStays, Marked, Made
<1>8. InStep'
  <2>1. lease'[h] = push[h].commit /\ mirror[h] # "fenced" /\ push'[h].stage = "none"
    BY <1>1, <1>2 DEF IInv, TypeOK, PushType, Shape
  <2>2. lost = 0 => remote.journal.writer # h \/ push[h].commit = remote.commit
    BY <1>1, <1>2, Types DEF IInv, InStep, CommitsKnown, Made
  <2>3. \A g \in Hosts : g # h => lease'[g] = lease[g] /\ push'[g] = push[g]
    BY <1>1, <1>2 DEF IInv, TypeOK, PushType
  <2> QED  BY <1>1, <1>2, <2>1, <2>2, <2>3 DEF IInv, InStep, Active
<1> QED  BY <1>3, <1>4, <1>5, <1>6, <1>7, <1>8 DEF IInv

\* A refused push fences its sender.
LEMMA PushFencedStep ==
    ASSUME IInv, NEW h \in Hosts, PushFenced(h) PROVE IInv'
<1> USE DEF ref, run, pushing, bounds
<1>1. /\ UNCHANGED <<ref, mode, journal, tries, seen, landings, lease, bounds>>
      /\ push[h].stage = "refused"
      /\ mirror' = [mirror EXCEPT ![h] = "fenced"]
      /\ cancelled' = [cancelled EXCEPT ![h] = TRUE]
  BY DEF PushFenced
<1>2. /\ mode[h] \in Active
      /\ push' = [push EXCEPT ![h] = NoPush]
      /\ NoPush.stage = "none" /\ NoPush.why = "none"
      /\ \A g \in Hosts : g # h => outcome'[g] = outcome[g]
      /\ outcome'[h] = IF push[h].why = "awaited" THEN "fenced" ELSE outcome[h]
  BY OverWhat DEF PushFenced
<1>3. TypeOK'
  BY <1>1, OverWhat DEF PushFenced, IInv, TypeOK, PushType
<1>4. Shape'
  BY <1>1, <1>2 DEF IInv, TypeOK, PushType, Shape, Awaits, Active, Made
<1>5. CommitsKnown' /\ Follows'
  BY <1>1, <1>2 DEF IInv, TypeOK, PushType, CommitsKnown, Follows, Onto, BranchesWithJournal, Made
<1>6. MarkStays'
  BY <1>1, <1>2 DEF IInv, TypeOK, PushType, MarkStays, Marked, Made
<1>7. InStep'
  <2>1. push'[h].stage = "none" /\ (lost = 0 => remote.journal.writer # h)
    BY <1>1, <1>2 DEF IInv, TypeOK, PushType, InStep
  <2>2. \A g \in Hosts : g # h => mirror'[g] = mirror[g] /\ push'[g] = push[g]
    BY <1>1, <1>2 DEF IInv, TypeOK, PushType
  <2> QED  BY <1>1, <1>2, <2>1, <2>2 DEF IInv, InStep, Active
<1> QED  BY <1>3, <1>4, <1>5, <1>6, <1>7 DEF IInv

\* A push that failed may still be on its way; if no answer was lost, it is not.
LEMMA PushUnreachableStep ==
    ASSUME IInv, NEW h \in Hosts, PushUnreachable(h) PROVE IInv'
<1> USE DEF ref, run, pushing, bounds
<1>1. /\ UNCHANGED <<remote, commits, run, lease, mirror, cancels, crashes>>
      /\ inflight' \subseteq inflight
      /\ lost' \in lost..MaxLost
      /\ lost' = 0 =>
           \/ push[h].stage \in {"started", "read"}
           \/ /\ push[h].stage = "sent"
              /\ \A p \in inflight' : p.commit # push[h].commit
  BY DurableAssumption DEF PushUnreachable, Unreachable, IInv, TypeOK, PushType
<1>2. /\ mode[h] \in Active
      /\ push' = [push EXCEPT ![h] = NoPush]
      /\ NoPush.stage = "none" /\ NoPush.why = "none"
      /\ \A g \in Hosts : g # h => outcome'[g] = outcome[g]
      /\ outcome'[h] = IF push[h].why = "awaited" THEN "unreachable" ELSE outcome[h]
  BY OverWhat DEF PushUnreachable, Unreachable
<1>3. TypeOK'
  BY <1>1, OverWhat, DurableAssumption DEF PushUnreachable, Unreachable, IInv, TypeOK, PushType
<1>4. Shape'
  BY <1>1, <1>2 DEF IInv, TypeOK, PushType, Shape, Awaits, Active, Made
<1>5. CommitsKnown' /\ Follows'
  BY <1>1, <1>2 DEF IInv, TypeOK, PushType, CommitsKnown, Follows, Onto, BranchesWithJournal, Made
<1>6. MarkStays'
  BY <1>1, <1>2 DEF IInv, TypeOK, PushType, MarkStays, Marked, Made
<1>7. InStep'
  BY <1>1, <1>2, Types, DurableAssumption
     DEF IInv, TypeOK, PushType, InStep, CommitsKnown, Made, Active, Shape
<1> QED  BY <1>3, <1>4, <1>5, <1>6, <1>7 DEF IInv

(***************************************************************************)
(* Steps of a takeover                                                     *)
(***************************************************************************)
\* The ref is fetched.
LEMMA ObserveStep ==
    ASSUME IInv, NEW h \in Hosts, Observe(h) PROVE IInv'
<1> USE DEF ref, run, pushing, bounds
<1>1. /\ UNCHANGED <<ref, journal, tries, cancelled, landings, pushing, bounds>>
      /\ mode[h] = "off" /\ mode' = [mode EXCEPT ![h] = "watching"]
      /\ remote.commit # 0
      /\ seen' = [seen EXCEPT ![h] = [commit |-> remote.commit,
                                      journal |-> remote.journal]]
  BY DEF Observe, Go
<1>2. TypeOK'
  BY <1>1 DEF IInv, TypeOK, PushType, Modes
<1>3. Shape'
  BY <1>1 DEF IInv, TypeOK, PushType, Shape, Awaits, Active, Made
<1>4. CommitsKnown'
  BY <1>1 DEF IInv, TypeOK, PushType, CommitsKnown, Made
<1>5. Follows'
  BY <1>1 DEF IInv, TypeOK, PushType, Follows, Onto, BranchesWithJournal, Active
<1>6. MarkStays' /\ InStep'
  BY <1>1 DEF IInv, TypeOK, PushType, MarkStays, Marked, InStep, Active
<1> QED  BY <1>2, <1>3, <1>4, <1>5, <1>6 DEF IInv

\* The takeover is a push on the commit fetched, that only names a new writer.
LEMMA TakeStep ==
    ASSUME IInv, NEW h \in Hosts, Take(h) PROVE IInv'
<1> USE DEF ref, run, pushing, bounds
<1> DEFINE taken == [seen[h].journal EXCEPT !.status = "interrupted", !.writer = h]
           new == [stage |-> "read", why |-> "take", commit |-> commits + 1,
                   journal |-> taken]
<1>1. /\ UNCHANGED <<remote, inflight, journal, tries, cancelled, landings,
                     mirror, outcome, bounds>>
      /\ mode[h] = "watching" /\ mode' = [mode EXCEPT ![h] = "taking"]
      /\ ~seen[h].journal.landing
      /\ commits' = commits + 1 /\ commits' \in 0..MaxCommits
      /\ lease' = [lease EXCEPT ![h] = seen[h].commit]
      /\ push' = [push EXCEPT ![h] = new]
      /\ seen' = [seen EXCEPT ![h] = Unseen]
  BY Types DEF Take, Go, MayTake, IInv
<1>2. /\ taken \in Journal /\ taken.writer = h
      /\ taken.done = seen[h].journal.done
      /\ ~taken.landing
  BY <1>1, Types DEF IInv, Journal
<1>3. /\ \A g \in Hosts : g # h => /\ push'[g] = push[g] /\ lease'[g] = lease[g]
                                   /\ mode'[g] = mode[g] /\ seen'[g] = seen[g]
      /\ push'[h].stage = "read" /\ push'[h].why = "take"
      /\ push'[h].commit = commits + 1 /\ push'[h].journal = taken
      /\ lease'[h] = seen[h].commit /\ mode'[h] = "taking" /\ seen'[h].commit = 0
  BY <1>1 DEF IInv, TypeOK, PushType, Unseen
<1>4. TypeOK'
  <2>1. /\ remote' \in [commit: 0..commits', journal: Journal, branches: SUBSET Tasks]
        /\ \A p \in inflight' :
             p \in [from: Hosts, commit: 1..commits', expected: 0..commits',
                    journal: Journal, branches: SUBSET Tasks]
    BY <1>1, Types DEF IInv, TypeOK, PushType
  <2>2. push' \in [Hosts -> PushType']
    BY <1>1, <1>2, Types DEF IInv, TypeOK, PushType
  <2>3. lease' \in [Hosts -> 0..commits']
    BY <1>1, Types DEF IInv, TypeOK, PushType
  <2>4. seen' \in [Hosts -> [commit: 0..commits', journal: Journal]]
    <3>1. Unseen \in [commit: 0..commits', journal: Journal]
      BY <1>1, Types DEF IInv, Unseen, NoJournal, Journal
    <3> QED  BY <1>1, <3>1, Types DEF IInv, TypeOK, PushType
  <2> QED  BY <1>1, <2>1, <2>2, <2>3, <2>4 DEF IInv, TypeOK, PushType, Modes
<1>5. Shape'
  BY <1>1, <1>3, Types DEF IInv, Shape, Awaits, Active, Made
<1>6. CommitsKnown'
  BY <1>1, <1>3, Types DEF IInv, CommitsKnown, Made
<1>7. Follows'
  <2>1. seen[h].commit = remote.commit => seen[h].journal = remote.journal
    BY <1>1 DEF IInv, Follows
  <2>2. seen[h].commit = remote.commit =>
          Onto(taken, h) /\ taken.done \subseteq remote.branches
    BY <1>1, <1>2, <2>1 DEF IInv, Follows, Onto, BranchesWithJournal
  <2> HIDE DEF taken
  <2> QED  BY <1>1, <1>2, <1>3, <2>2
           DEF IInv, Follows, Onto, BranchesWithJournal, Active
<1>8. MarkStays'
  BY <1>1, <1>2, <1>3, Types DEF IInv, MarkStays, Marked, Made
<1>9. InStep'
  BY <1>1, <1>3, Types DEF IInv, InStep, Active
<1> QED  BY <1>4, <1>5, <1>6, <1>7, <1>8, <1>9 DEF IInv

\* The takeover is pushed: the run is launched on the journal taken.
LEMMA TakeLandsStep ==
    ASSUME IInv, NEW h \in Hosts, TakeLands(h) PROVE IInv'
<1> USE DEF ref, run, pushing, bounds
<1> DEFINE first == [push[h].journal EXCEPT !.status = "running", !.writer = h]
<1>1. /\ UNCHANGED <<ref, cancelled, seen, landings, outcome, bounds>>
      /\ push[h].why = "take" /\ push[h].stage = "taken"
      /\ lease' = [lease EXCEPT ![h] = push[h].commit]
      /\ push' = [push EXCEPT ![h] = NoPush]
      /\ journal' = [journal EXCEPT ![h] = first]
      /\ mode' = [mode EXCEPT ![h] = "starting"]
      /\ mirror' = [mirror EXCEPT ![h] = "on"]
      /\ tries' \in [Hosts -> 0..Tries]
  BY DurableAssumption DEF TakeLands, Launch, Go, IInv, TypeOK, PushType
<1>2. mode[h] = "taking"
  BY <1>1, Types DEF IInv, Shape, Modes, Active
<1>3. /\ first \in Journal /\ first.status = "running" /\ first.writer = h
      /\ first.done = push[h].journal.done
      /\ first.landing = push[h].journal.landing
  BY Types DEF IInv, Journal
<1>4. /\ \A g \in Hosts : g # h => /\ push'[g] = push[g] /\ lease'[g] = lease[g]
                                   /\ mode'[g] = mode[g] /\ mirror'[g] = mirror[g]
                                   /\ journal'[g] = journal[g]
      /\ push'[h].stage = "none" /\ push'[h].why = "none"
      /\ lease'[h] = push[h].commit /\ mode'[h] = "starting"
      /\ mirror'[h] = "on" /\ journal'[h] = first
  BY <1>1 DEF IInv, TypeOK, PushType, NoPush
<1>5. TypeOK'
  <2>1. NoPush \in PushType
    BY Types DEF IInv, NoPush, NoJournal, Journal, PushType
  <2>2. push' \in [Hosts -> PushType']
    BY <1>1, <2>1 DEF IInv, TypeOK, PushType
  <2> QED  BY <1>1, <1>3, <2>2, Types DEF IInv, TypeOK, PushType, Modes
<1> HIDE DEF first
<1>6. Shape'
  BY <1>1, <1>2, <1>3, <1>4 DEF IInv, Shape, Awaits, Active, Made
<1>7. CommitsKnown'
  BY <1>1, <1>4, Types DEF IInv, CommitsKnown, Made
<1>8. Follows'
  <2>1. push[h].commit = remote.commit =>
          /\ Onto(first, h) /\ remote.journal.writer = h
          /\ first.done \subseteq remote.branches
    BY <1>1, <1>3 DEF IInv, Follows, Onto, BranchesWithJournal, Made
  <2> QED  BY <1>1, <1>3, <1>4, <2>1
           DEF IInv, Follows, Onto, BranchesWithJournal, Active, Made
<1>9. MarkStays'
  BY <1>1, <1>2, <1>4, Types DEF IInv, MarkStays, Marked, Made
<1>10. InStep'
  BY <1>1, <1>2, <1>4, Types DEF IInv, InStep, Active, CommitsKnown, Made
<1> QED  BY <1>5, <1>6, <1>7, <1>8, <1>9, <1>10 DEF IInv

(***************************************************************************)
(* Theorems                                                                *)
(***************************************************************************)
\* There is no commit to begin with.
LEMMA Initial == Init => IInv
<1>1. NoJournal \in Journal /\ NoJournal.done = {} /\ NoJournal.status = "none"
  BY DEF NoJournal, Journal
<1>2. Init => TypeOK
  BY <1>1, DurableAssumption DEF Init, TypeOK, Modes, NoPush, Unseen
<1>3. Init => Shape /\ CommitsKnown /\ Follows /\ MarkStays /\ InStep
  BY <1>1 DEF Init, Shape, CommitsKnown, Follows, MarkStays, InStep, NoPush, Unseen,
     Active, Made, BranchesWithJournal
<1> QED  BY <1>2, <1>3 DEF IInv

\* Every step keeps the invariant.
LEMMA Steps == IInv /\ [Next]_vars => IInv'
<1> SUFFICES ASSUME IInv, [Next]_vars PROVE IInv'
  OBVIOUS
<1>1. CASE UNCHANGED vars
  BY <1>1 DEF vars, ref, run, pushing, bounds, IInv, TypeOK, Shape, CommitsKnown,
     Follows, MarkStays, InStep, BranchesWithJournal, Onto, Marked, Awaits
<1>2. ASSUME NEW h \in Hosts, HostStep(h) PROVE IInv'
  BY <1>2, StartStep, TaskStep, CancelStep, EndStep, WorkEndsStep, StartPushStep,
     CheckpointRefusedStep, PushReadStep, PushSendStep, PushLandsStep, PushFencedStep,
     PushUnreachableStep, ConfirmRetryStep, StartHeldStep, LandHeldStep,
     ConfirmLostStep, LeaveStep, ObserveStep, TakeStep, TakeLandsStep
     DEF HostStep
<1>3. ASSUME NEW p \in inflight, RemoteTakes(p) \/ RemoteRefuses(p) PROVE IInv'
  BY <1>3, RemoteTakesStep, RemoteRefusesStep
<1> QED  BY <1>1, <1>2, <1>3 DEF Next

\* So it always holds.
LEMMA Inductive == Spec => []IInv
<1>1. Init => IInv
  BY Initial
<1>2. IInv /\ [Next]_vars => IInv'
  BY Steps
<1> QED  BY <1>1, <1>2, PTL DEF Spec

\* The mirror's state has its shape, and the remote has the branch of every task
\* its journal calls completed (JournalMirror.push, SwarmService.mirror).
THEOREM RemoteCanStartATaker == Spec => []MirrorSafe
<1>1. IInv => MirrorSafe
  BY DEF IInv, Follows, MirrorSafe
<1> QED  BY <1>1, Inductive, PTL

\* A host whose push is refused was taken over by another one, while no answer of
\* the remote is lost (durable.ts, the lease and the fence).
THEOREM OnlyATakeoverFences == Spec => []FencedByAnother
<1>1. IInv => FencedByAnother
  BY Types DEF IInv, Shape, InStep, FencedByAnother, Active, Modes
<1> QED  BY <1>1, Inductive, PTL

\* Onto a shared target the run lands once, over all its hosts (index.ts, the
\* landing confirmed after its marker; durable.ts, fencing).
THEOREM LandsOnce == Spec => []SharedLandsOnce
<1>1. ASSUME IInv, Shared, NEW g \in Hosts, NEW h \in Hosts
      PROVE  landings[h] <= 1 /\ (landings[g] = 1 /\ landings[h] = 1 => g = h)
  <2>1. \A k \in Hosts : landings[k] > 0 =>
          landings[k] = 1 /\ remote.journal.writer = k
    BY <1>1 DEF IInv, MarkStays, Marked
  <2> QED  BY <1>1, <2>1, Types DEF IInv
<1>2. IInv => SharedLandsOnce
  BY <1>1 DEF SharedLandsOnce
<1> QED  BY <1>2, Inductive, PTL

\* The ref only moves when the remote takes a push.
LEMMA RefStays ==
    ASSUME IInv, [Next]_vars, ~\E p \in inflight : RemoteTakes(p)
    PROVE  remote' = remote
<1>1. ASSUME NEW h \in Hosts, HostStep(h) PROVE remote' = remote
  <2>1. /\ Start(h) => remote' = remote
        /\ (\E t \in Tasks : CompleteTask(h, t)) => remote' = remote
        /\ (\E t \in Tasks : CloseAborted(h, t)) => remote' = remote
        /\ Cancel(h) => remote' = remote
        /\ RunFails(h) => remote' = remote
        /\ WorkEnds(h) => remote' = remote
    BY DEF Start, CompleteTask, CloseAborted, Cancel, RunFails, WorkEnds, ref
  <2>2. /\ (\E status \in {"finished", "failed"}, landed \in BOOLEAN : LandEnds(h, status, landed)) => remote' = remote
        /\ Beat(h) => remote' = remote
        /\ Checkpoint(h) => remote' = remote
        /\ CheckpointRefused(h) => remote' = remote
        /\ PushRead(h) => remote' = remote
    BY DEF LandEnds, Beat, Checkpoint, CheckpointRefused, PushRead, ref
  <2>3. /\ PushSend(h) => remote' = remote
        /\ PushLands(h) => remote' = remote
        /\ PushFenced(h) => remote' = remote
        /\ PushUnreachable(h) => remote' = remote
        /\ ConfirmRetry(h) => remote' = remote
    BY DEF PushSend, PushLands, PushFenced, PushUnreachable, ConfirmRetry, Send, ref
  <2>4. /\ StartHeld(h) => remote' = remote
        /\ LandHeld(h) => remote' = remote
        /\ ConfirmLost(h) => remote' = remote
        /\ Settled(h) => remote' = remote
        /\ Crash(h) => remote' = remote
    BY DEF StartHeld, LandHeld, ConfirmLost, Settled, Crash, ref
  <2>5. /\ Observe(h) => remote' = remote
        /\ TakeRefused(h) => remote' = remote
        /\ Take(h) => remote' = remote
        /\ TakeLands(h) => remote' = remote
        /\ TakeFails(h) => remote' = remote
    BY DEF Observe, TakeRefused, Take, TakeLands, TakeFails, ref
  <2> QED  BY <1>1, <2>1, <2>2, <2>3, <2>4, <2>5 DEF HostStep
<1>2. ASSUME NEW p \in inflight, RemoteRefuses(p) PROVE remote' = remote
  BY <1>2 DEF RemoteRefuses
<1> QED  BY <1>1, <1>2 DEF Next, vars, ref

\* What the remote has of the run is never taken back: completed tasks stay
\* completed and a landing stays marked (durable.ts, leased pushes).
THEOREM RemoteNeverLoses == Spec => RemoteKeeps
<1>1. IInv /\ [Next]_vars =>
        [/\ remote.journal.done \subseteq remote'.journal.done
         /\ remote.journal.landing => remote'.journal.landing]_vars
  <2> SUFFICES ASSUME IInv, [Next]_vars
               PROVE  /\ remote.journal.done \subseteq remote'.journal.done
                      /\ remote.journal.landing => remote'.journal.landing
    OBVIOUS
  <2>1. CASE \E p \in inflight : RemoteTakes(p)
    BY <2>1, TakesWhat DEF Onto
  <2>2. CASE ~\E p \in inflight : RemoteTakes(p)
    BY <2>2, RefStays
  <2> QED  BY <2>1, <2>2
<1> QED  BY <1>1, Inductive, PTL DEF Spec, RemoteKeeps

\* No step but LandHeld lands the run.
LEMMA LandingsStay ==
    ASSUME [Next]_vars, ~\E h \in Hosts : LandHeld(h)
    PROVE  landings' = landings
<1>1. ASSUME NEW h \in Hosts, HostStep(h) PROVE landings' = landings
  <2>1. /\ Start(h) => landings' = landings
        /\ (\E t \in Tasks : CompleteTask(h, t)) => landings' = landings
        /\ (\E t \in Tasks : CloseAborted(h, t)) => landings' = landings
        /\ Cancel(h) => landings' = landings
        /\ RunFails(h) => landings' = landings
        /\ WorkEnds(h) => landings' = landings
    BY DEF Start, CompleteTask, CloseAborted, Cancel, RunFails, WorkEnds, run
  <2>2. /\ (\E status \in {"finished", "failed"}, landed \in BOOLEAN : LandEnds(h, status, landed)) => landings' = landings
        /\ Beat(h) => landings' = landings
        /\ Checkpoint(h) => landings' = landings
        /\ CheckpointRefused(h) => landings' = landings
        /\ PushRead(h) => landings' = landings
    BY DEF LandEnds, Beat, Checkpoint, CheckpointRefused, PushRead, run
  <2>3. /\ PushSend(h) => landings' = landings
        /\ PushLands(h) => landings' = landings
        /\ PushFenced(h) => landings' = landings
        /\ PushUnreachable(h) => landings' = landings
        /\ ConfirmRetry(h) => landings' = landings
    BY DEF PushSend, PushLands, PushFenced, PushUnreachable, ConfirmRetry, Send, run
  <2>4. /\ StartHeld(h) => landings' = landings
        /\ ConfirmLost(h) => landings' = landings
        /\ Settled(h) => landings' = landings
        /\ Crash(h) => landings' = landings
    BY DEF StartHeld, ConfirmLost, Settled, Crash, run
  <2>5. /\ Observe(h) => landings' = landings
        /\ TakeRefused(h) => landings' = landings
        /\ Take(h) => landings' = landings
        /\ TakeLands(h) => landings' = landings
        /\ TakeFails(h) => landings' = landings
    BY DEF Observe, TakeRefused, Take, TakeLands, TakeFails, run
  <2> QED  BY <1>1, <2>1, <2>2, <2>3, <2>4, <2>5 DEF HostStep
<1>2. ASSUME NEW p \in inflight, RemoteTakes(p) \/ RemoteRefuses(p) PROVE landings' = landings
  BY <1>2 DEF RemoteTakes, RemoteRefuses, run
<1> QED  BY <1>1, <1>2 DEF Next, vars, run

\* A push taken publishes its host's progress, or takes the run over.
LEMMA TakesRefines ==
    ASSUME IInv, NEW p \in inflight, RemoteTakes(p)
    PROVE  \E h \in Hosts : Custody!Publish(h) \/ Custody!Take(h)
<1>1. /\ landings' = landings /\ p.from \in Hosts
      /\ remote'.journal = p.journal /\ Onto(p.journal, p.from)
  BY TakesWhat DEF run
<1>2. /\ p.journal.done \subseteq Tasks
      /\ p.journal.landing \in BOOLEAN /\ remote.journal.landing \in BOOLEAN
  BY Types, JournalFields DEF IInv
<1>3. CASE remote.journal.writer \in {p.from, NoHost}
  <2>1. Custody!Publish(p.from)
    BY <1>1, <1>2, <1>3 DEF Onto, Custody!Publish
  <2> QED  BY <1>1, <2>1
<1>4. CASE remote.journal.writer \notin {p.from, NoHost}
  <2>1. /\ ~remote.journal.landing /\ ~p.journal.landing
        /\ p.journal.done = remote.journal.done /\ p.journal.writer = p.from
    BY <1>1, <1>4 DEF Onto
  <2>2. p.journal.landing = remote.journal.landing
    BY <1>2, <2>1
  <2>3. Custody!Take(p.from)
    BY <1>1, <1>4, <2>1, <2>2 DEF Custody!Take
  <2> QED  BY <1>1, <2>3
<1> QED  BY <1>3, <1>4

\* A landing is the one landing of the run, and the remote has its mark.
LEMMA LandRefines ==
    ASSUME IInv, Shared, NEW h \in Hosts, LandHeld(h)
    PROVE  Custody!Land
<1>1. Marked(h) /\ \A g \in Hosts : landings[g] = 0
  BY FirstToLand
<1>2. remote' = remote /\ landings' = [landings EXCEPT ![h] = @ + 1]
  BY DEF LandHeld, ref
<1>3. landings'[h] > 0 /\ ~\E g \in Hosts : landings[g] > 0
  BY <1>1, <1>2 DEF IInv, TypeOK
<1>4. (\E g \in Hosts : landings'[g] > 0) = TRUE
  BY <1>3
<1> QED  BY <1>1, <1>2, <1>3, <1>4 DEF Custody!Land, Marked

\* Onto a shared target, the hosts implement RunCustody: one host holds the run
\* at a time, lands it once, and is then not taken over.
THEOREM HostsKeepCustody == Shared => (Spec => KeepsCustody)
<1> SUFFICES ASSUME Shared PROVE Spec => KeepsCustody
  OBVIOUS
<1>1. Init => Custody!Init
  BY DEF Init, Custody!Init, NoJournal
<1>2. IInv /\ [Next]_vars => [Custody!Next]_(Custody!vars)
  <2> SUFFICES ASSUME IInv, [Next]_vars PROVE [Custody!Next]_(Custody!vars)
    OBVIOUS
  <2>1. CASE \E p \in inflight : RemoteTakes(p)
    BY <2>1, TakesRefines DEF Custody!Next
  <2>2. CASE \E h \in Hosts : LandHeld(h)
    BY <2>2, LandRefines DEF Custody!Next
  <2>3. CASE ~(\E p \in inflight : RemoteTakes(p)) /\ ~\E h \in Hosts : LandHeld(h)
    BY <2>3, RefStays, LandingsStay DEF Custody!vars
  <2> QED  BY <2>1, <2>2, <2>3
<1> QED  BY <1>1, <1>2, Inductive, PTL DEF Spec, KeepsCustody, Custody!Spec
=============================================================================
