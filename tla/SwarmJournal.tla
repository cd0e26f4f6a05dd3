---------------------------- MODULE SwarmJournal ----------------------------
(***************************************************************************)
(* A run's journal file and the processes around it (journal.ts; attachRun *)
(* and viewRun in index.ts; swarm/events in protocol.ts): the lead that    *)
(* writes it, the processes that take a dead lead's journal over, and the  *)
(* followers that read it by a cursor.                                     *)
(*                                                                         *)
(* An append reaches the file in two halves, of which the second ends in   *)
(* the newline, and the writer knows its event a step later, so a reader,  *)
(* a crash or an error may come between them.  Nothing locks the file, and *)
(* nothing keeps two processes from taking a dead lead's run over at once: *)
(* the history variable `together' says that they did.                     *)
(***************************************************************************)
EXTENDS Integers, Sequences, FiniteSets

CONSTANTS
    Lead,        \* the process that starts the run
    Takers,      \* the processes of attachRun
    Followers,   \* clients of swarm/events, and the attach loop of the command line
    MaxSeq,      \* bound: seqs handed out
    MaxFails,    \* bound: appends that write nothing
    MaxTears     \* bound: appends that fail half way in a live process

ASSUME JournalConstants == Lead \notin Takers /\ MaxSeq \in Nat

Procs == {Lead} \cup Takers

VARIABLES
    file,      \* the halves written: [ev, half], ev = [seq, by, kind]
    at,        \* [Procs -> "off" | "viewed" | "open" | "done" | "dead"]
    events,    \* [Procs -> journal.events]
    nextSeq,   \* [Procs -> Nat]
    writes,    \* [Procs -> the appends of its Serializer], the first being written
    half,      \* [Procs -> 0..2], how many of its halves are in the file
    resolved,  \* the events whose append resolved
    cursor,    \* [Followers -> the last seq given, or -1]
    given,     \* [Followers -> the events given, in order]
    together,  \* history: a takeover began while another was under way
    fails, tears

vars ==
    <<file, at, events, nextSeq, writes, half, resolved, cursor, given, together, fails, tears>>

Kinds == {"running", "data", "interrupted", "finished"}
Event == [seq: Nat, by: Procs, kind: Kinds]
Elements(s) == {s[i] : i \in DOMAIN s}

(***************************************************************************)
(* load()                                                                  *)
(***************************************************************************)
\* Where the complete lines end: after the last newline.
End(f) == LET ends == {i \in DOMAIN f : f[i].half = 2}
          IN  IF ends = {} THEN 0 ELSE CHOOSE i \in ends : \A j \in ends : j <= i

\* Every complete line parses: its two halves are one event's, and nothing else.
Parses(f) ==
    /\ End(f) % 2 = 0
    /\ \A i \in 1..End(f) :
         f[i].half = IF i % 2 = 1 THEN 1 ELSE 2
    /\ \A i \in 1..End(f) : i % 2 = 1 => f[i].ev = f[i + 1].ev

\* The events of a file that parses.
Lines(f) == [i \in 1..(End(f) \div 2) |-> f[2 * i].ev]

\* Mutant of Cut: what is behind the last newline stays.
CutNothing(f) == f

\* open() cuts a torn write off.
Cut(f) == SubSeq(f, 1, End(f))

Last(s) == s[Len(s)]

\* Mutant of SeqAfter: the events are counted.
SeqAfterCounted(s) == Len(s)

\* Mutant of SeqAfter: the last seq is handed out again.
SeqAfterAgain(s) == IF s = <<>> THEN 0 ELSE Last(s).seq

SeqAfter(s) == IF s = <<>> THEN 0 ELSE Last(s).seq + 1

(***************************************************************************)
(* append()                                                                *)
(***************************************************************************)
\* The seq is taken at once, the write waits for its turn.
Append1(p, kind) ==
    /\ nextSeq[p] < MaxSeq
    /\ nextSeq' = [nextSeq EXCEPT ![p] = @ + 1]
    /\ writes' = [writes EXCEPT ![p] =
                    Append(@, [seq |-> nextSeq[p], by |-> p, kind |-> kind])]

\* The append whose turn it is, the oldest, goes to the file ...
WriteHalf(p) ==
    /\ at[p] = "open" /\ half[p] = 0 /\ writes[p] # <<>>
    /\ file' = Append(file, [ev |-> Head(writes[p]), half |-> 1])
    /\ half' = [half EXCEPT ![p] = 1]
    /\ UNCHANGED <<at, events, nextSeq, writes, resolved, cursor, given, together, fails, tears>>

\* ... with its newline last ...
WriteRest(p) ==
    /\ at[p] = "open" /\ half[p] = 1
    /\ file' = Append(file, [ev |-> Head(writes[p]), half |-> 2])
    /\ half' = [half EXCEPT ![p] = 2]
    /\ UNCHANGED <<at, events, nextSeq, writes, resolved, cursor, given, together, fails, tears>>

\* ... and then the writer has its event, and the append resolves.
Resolve(p) ==
    /\ at[p] = "open" /\ half[p] = 2
    /\ LET ev == Head(writes[p])
       IN  /\ events' = [events EXCEPT ![p] = Append(@, ev)]
           /\ resolved' = resolved \cup {ev}
           \* The run settles with its last record, the takeover with its own.
           /\ at' = IF ev.kind \in {"finished", "interrupted"}
                    THEN [at EXCEPT ![p] = "done"] ELSE at
    /\ writes' = [writes EXCEPT ![p] = Tail(@)] /\ half' = [half EXCEPT ![p] = 0]
    /\ UNCHANGED <<file, nextSeq, cursor, given, together, fails, tears>>

\* An append that rejects: its caller gets the error, and the next append is written.  A
\* takeover ends with it, and so does a run whose own record it was.
Rejects(p) ==
    /\ writes' = [writes EXCEPT ![p] = Tail(@)] /\ half' = [half EXCEPT ![p] = 0]
    /\ at' = IF p \in Takers THEN [at EXCEPT ![p] = "dead"]
             ELSE IF Head(writes[p]).kind # "data" THEN [at EXCEPT ![p] = "done"] ELSE at
    /\ UNCHANGED <<file, events, nextSeq, resolved, cursor, given, together>>

WriteFails(p) ==
    /\ at[p] = "open" /\ writes[p] # <<>> /\ half[p] = 0
    /\ fails < MaxFails /\ fails' = fails + 1 /\ Rejects(p) /\ UNCHANGED tears

\* The disk fills up in the middle of a line, or closing the file fails when all of the line
\* is in it, and the process lives on.
Tear(p) ==
    /\ at[p] = "open" /\ half[p] # 0
    /\ tears < MaxTears /\ tears' = tears + 1 /\ Rejects(p) /\ UNCHANGED fails

(***************************************************************************)
(* The processes                                                           *)
(***************************************************************************)
Opened(p) ==
    /\ Parses(file)
    /\ file' = Cut(file)
    /\ events' = [events EXCEPT ![p] = Lines(file)]

\* start(): a new journal, and the run's first record.
StartRun ==
    /\ at[Lead] = "off" /\ at' = [at EXCEPT ![Lead] = "open"]
    /\ Opened(Lead) /\ Append1(Lead, "running")
    /\ UNCHANGED <<half, resolved, cursor, given, together, fails, tears>>

Record == {i \in DOMAIN Lines(file) : Lines(file)[i].kind # "data"}

\* foldRun(): the last run record, its status and its writer.
RunOf == Lines(file)[CHOOSE i \in Record : \A j \in Record : j <= i]

\* What the lead's run journals as it goes, once its first record is written.
Journal(kind) ==
    /\ at[Lead] = "open" /\ events[Lead] # <<>>
    /\ kind = "data" \/ writes[Lead] = <<>>
    /\ \A i \in DOMAIN writes[Lead] : writes[Lead][i].kind = "data"
    /\ Append1(Lead, kind)
    /\ UNCHANGED <<file, at, events, half, resolved, cursor, given, together, fails, tears>>

\* Mutant of WriterLive: any run that is recorded as running may be taken.
WriterLiveNever(run) == FALSE

\* The writer of the record still exists, as a process.
WriterLive(run) == at[run.by] # "dead"

\* attachRun(): the run is read, and left alone unless it is running and its writer dead.
\* Whether another process is taking it over is not asked.
View(p) ==
    /\ at[p] = "off"
    /\ Parses(file) /\ Record # {}
    /\ RunOf.kind = "running" /\ ~WriterLive(RunOf)
    /\ at' = [at EXCEPT ![p] = "viewed"]
    /\ together' = (together \/ \E q \in Takers : at[q] \in {"viewed", "open"})
    /\ UNCHANGED <<file, events, nextSeq, writes, half, resolved, cursor, given, fails, tears>>

\* It becomes the writer ...
Open(p) ==
    /\ at[p] = "viewed" /\ at' = [at EXCEPT ![p] = "open"]
    /\ Opened(p) /\ nextSeq' = [nextSeq EXCEPT ![p] = SeqAfter(Lines(file))]
    /\ UNCHANGED <<writes, half, resolved, cursor, given, together, fails, tears>>

\* ... releases the claims of the dead one, one append after the other, and records the run.
Attach(p) ==
    /\ at[p] = "open" /\ writes[p] = <<>>
    /\ \E kind \in {"data", "interrupted"} : Append1(p, kind)
    /\ UNCHANGED <<file, at, events, half, resolved, cursor, given, together, fails, tears>>

\* A process dies, and with it what it had not written.
Die(p) ==
    /\ at[p] \in {"viewed", "open"} \/ (p = Lead /\ at[p] = "done")
    /\ at' = [at EXCEPT ![p] = "dead"]
    /\ writes' = [writes EXCEPT ![p] = <<>>] /\ half' = [half EXCEPT ![p] = 0]
    /\ UNCHANGED <<file, events, nextSeq, resolved, cursor, given, together, fails, tears>>

(***************************************************************************)
(* The followers                                                           *)
(***************************************************************************)
\* The events a follower reads: the live run's, by way of its process, or the file's.
Sources ==
    (IF at[Lead] = "open" /\ events[Lead] # <<>> THEN {events[Lead]} ELSE {})
        \cup (IF Parses(file) THEN {Lines(file)} ELSE {})

\* What a filter keeps of s: the elements at the places I, in their order.
Kept(s, I) ==
    [k \in 1..Cardinality(I) |->
       s[CHOOSE i \in I : Cardinality({j \in I : j < i}) = k - 1]]

\* Mutant of NewIn: the cursor is the next seq, not the last.
NewInSkipped(s, since) == Kept(s, {i \in DOMAIN s : s[i].seq > since + 1})

\* What is past the cursor.
NewIn(s, since) == Kept(s, {i \in DOMAIN s : s[i].seq > since})

Poll(f) ==
    /\ \E s \in Sources : LET new == NewIn(s, cursor[f]) IN
         /\ new # <<>>
         /\ given' = [given EXCEPT ![f] = @ \o new]
         /\ cursor' = [cursor EXCEPT ![f] = Last(new).seq]
    /\ UNCHANGED <<file, at, events, nextSeq, writes, half, resolved, together, fails, tears>>

Init ==
    /\ file = <<>> /\ at = [p \in Procs |-> "off"]
    /\ events = [p \in Procs |-> <<>>] /\ nextSeq = [p \in Procs |-> 0]
    /\ writes = [p \in Procs |-> <<>>] /\ half = [p \in Procs |-> 0]
    /\ resolved = {} /\ cursor = [f \in Followers |-> -1] /\ given = [f \in Followers |-> <<>>]
    /\ together = FALSE /\ fails = 0 /\ tears = 0

Next ==
    \/ StartRun \/ \E kind \in {"data", "finished"} : Journal(kind)
    \/ \E p \in Procs :
         WriteHalf(p) \/ WriteRest(p) \/ Resolve(p) \/ WriteFails(p) \/ Tear(p) \/ Die(p)
    \/ \E p \in Takers : View(p) \/ Open(p) \/ Attach(p)
    \/ \E f \in Followers : Poll(f)

\* A follower polls again.
Spec == Init /\ [][Next]_vars /\ \A f \in Followers : WF_vars(Poll(f))

(***************************************************************************)
(* Properties                                                              *)
(***************************************************************************)
\* The shape of the state.
TypeOK ==
    /\ \A i \in DOMAIN file : file[i].ev \in Event /\ file[i].half \in {1, 2}
    /\ at \in [Procs -> {"off", "viewed", "open", "done", "dead"}]
    /\ \A p \in Procs : Elements(events[p]) \cup Elements(writes[p]) \subseteq Event
    /\ half \in [Procs -> 0..2]
    /\ \A p \in Procs : half[p] # 0 => writes[p] # <<>>
    /\ cursor \in [Followers -> -1..MaxSeq]
    /\ together \in BOOLEAN

\* The event that is in the file and not yet among its writer's.
OnItsWay(p) == IF half[p] = 2 THEN <<Head(writes[p])>> ELSE <<>>

\* A takeover and the lead never both write the journal (attachRun's check of the dead
\* writer), and a writer folds its state from what the file says and hands out seqs past
\* those.  The second half holds unless two processes took the run over at once: nothing in
\* attachRun prevents that, both then write, and the file need not read again.
OneWriter ==
    /\ \A t \in Takers : at[t] \in {"viewed", "open"} => at[Lead] = "dead"
    /\ ~together => \A p \in Procs : at[p] = "open" =>
         /\ \A e \in Elements(events[p]) : e.seq < nextSeq[p]
         /\ tears = 0 => Lines(file) = events[p] \o OnItsWay(p)

\* Whatever a crash left behind, the file can be read and opened again, and in the order
\* of its seqs: unless an append failed half way in a process that went on, or two processes
\* took the run over at once.
JournalReads ==
    tears = 0 /\ ~together =>
        /\ Parses(file)
        /\ LET lines == Lines(file)
           IN  \A i, j \in DOMAIN lines : i < j => lines[i].seq < lines[j].seq

\* A follower misses nothing and sees nothing twice, across crashes, one takeover after the
\* other, failed appends and the reuse of a seq whose line was cut off: it was given what the
\* file begins with.  (Of torn lines and of takeovers at once nothing is said.)
GivenIsTheFile ==
    tears = 0 /\ ~together => \A f \in Followers : LET lines == Lines(file) IN
        /\ Len(given[f]) <= Len(lines)
        /\ \A i \in DOMAIN given[f] : given[f][i] = lines[i]

\* The end of an append that resolved is in the file for good: nobody's cut reaches it, not
\* even when two processes open the file at once.  (That its line is whole is JournalReads.)
ResolvedKept ==
    \A e \in resolved : \E i \in DOMAIN file : file[i] = [ev |-> e, half |-> 2]

\* A takeover only of a dead lead's journal, a file that reads, and nothing cut from it that
\* was acknowledged; the parts state what tears and takeovers at once except.
JournalSafe == TypeOK /\ OneWriter /\ JournalReads /\ ResolvedKept

\* Each resolved event reaches each follower, unless the file was torn, or two processes took
\* the run over at once.
AllGiven ==
    \A f \in Followers : \A s \in 0..(MaxSeq - 1) :
        (\E e \in resolved : e.seq = s) ~>
            (tears > 0 \/ together \/ \E e \in Elements(given[f]) : e.seq = s)
=============================================================================
