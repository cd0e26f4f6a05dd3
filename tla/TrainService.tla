--------------------------- MODULE TrainService ---------------------------
(***************************************************************************)
(* The standalone train (train-service.ts): one long-lived queue per       *)
(* target branch, which merges the branches its clients enqueue onto the   *)
(* target's tip, verifies each batch once and lands a passing one by a     *)
(* push that never forces.                                                 *)
(*                                                                         *)
(* A commit is the set of the pieces of work in its history.  The piece    *)
(* <<b, v>> is the v-th commit of branch b, and is also the id of the      *)
(* train's entry for that branch at that commit; the other pieces are      *)
(* pushed to the target by somebody else.  A merge is a union, "the target *)
(* contains the commit" is membership, and whether the checks pass depends *)
(* on the set alone.  The target only ever gains pieces, so its content    *)
(* identifies its tip.                                                     *)
(*                                                                         *)
(* The service is one process with several handlers in flight.  It records *)
(* a step by appending to its journal and applies it when the append       *)
(* resolves; appends are ordered by submission (journal.ts), so "writes"   *)
(* is the queue of records submitted and not yet applied.  What the        *)
(* process holds in memory (svc, writes, casc, calls) dies with it.        *)
(***************************************************************************)
EXTENDS Integers, Sequences, FiniteSets

CONSTANTS
    Clients,          \* the invited principals
    Branches,         \* their branches, each of one client
    Owner,            \* [Branches -> Clients]
    BlockedBy,        \* [Branches -> SUBSET Branches]: blockers, of the same client
    MaxVersion,       \* bound: commits a branch is enqueued at
    Outside,          \* pieces pushed to the target by others
    BatchSize,        \* config.batchSize
    Breakages,        \* what fails the checks: [by, fixed : SUBSET Pieces]
    Clashes,          \* pairs of pieces that conflict when merged
    MaxTroubles       \* bound: git errors, crashes, cancels and dead hosts together

Ids == Branches \X (1..MaxVersion)
Pieces == Ids \cup Outside

ASSUME TrainConstants ==
    /\ Owner \in [Branches -> Clients]
    /\ BlockedBy \in [Branches -> SUBSET Branches]
    /\ \A b \in Branches, x \in Branches : x \in BlockedBy[b] => Owner[x] = Owner[b]
    /\ BatchSize \in Nat \ {0} /\ MaxVersion \in Nat \ {0}
    /\ \A k \in Breakages : k.by \subseteq Pieces /\ k.fixed \subseteq Pieces
    /\ Clashes \subseteq SUBSET Pieces
    /\ Outside \cap Ids = {} /\ <<>> \notin Pieces

VARIABLES
    target,    \* the target branch on the remote: the pieces it contains
    ref,       \* [Branches -> version]: where each branch is on the remote, 0 before its push
    hist,      \* [Ids -> SUBSET Pieces]: the history of each commit
    state,     \* [Ids -> State]: the entries, folded from the journal
    queue,     \* the queued entries in enqueue order
    pushed,    \* the target this train last pushed, or NoTip
    log,       \* [Clients -> Seq]: the journal's records about each client's entries
    svc,       \* the run() loop: where it is in a pass
    writes,    \* records submitted to the journal and not yet applied
    casc,      \* [Handlers -> Seq(Ids)]: dependents a record still has to eject
    calls,     \* [Clients -> enqueue call in flight: its id, or NoCall]
    troubles   \* how many things went wrong so far

trainVars == <<target, ref, hist, state, queue, pushed, log, svc, writes, casc,
               calls, troubles>>

NoCall == <<>>
NoTip == {<<>>}
Train == "train"
Handlers == Clients \cup {Train}
Ejects == {"conflict", "check", "moved", "blocked"}
\* The records a client acts on.
Told == Ejects \cup {"landed", "found", "withdrawn"}
States == {"none", "queued", "landed", "ejected", "withdrawn"}

\* The checks of a commit with these pieces fail (verify, over config.checks).
Fails(content) ==
    \E k \in Breakages : k.by \subseteq content /\ k.fixed \cap content = {}

\* Merging the commit "id" into a tree with this content conflicts.
Conflicts(content, id) ==
    \E p \in hist[id] \ content, q \in content \ hist[id] : {p, q} \in Clashes

\* Everything merged onto a tip.
Merged(tip, ids) == tip \cup UNION {hist[i] : i \in ids}

Elems(s) == {s[i] : i \in DOMAIN s}

\* What a filter keeps of s: its elements in S, in their order.
Only(s, S) ==
    LET places == {i \in DOMAIN s : s[i] \in S}
    IN  [k \in 1..Cardinality(places) |->
           s[CHOOSE i \in places : Cardinality({j \in places : j < i}) = k - 1]]

Without(s, S) == Only(s, Elems(s) \ S)

\* The newest entry of a branch has landed, or the train knows none of it.
LatestLanded(b) ==
    LET known == {v \in 1..MaxVersion : state[<<b, v>>] # "none"}
    IN  \A v \in known : (\A w \in known : w <= v) => state[<<b, v>>] = "landed"

\* Queued entries whose blockers have landed, in enqueue order.
ReadyIds == Only(queue, {i \in Ids : \A b \in BlockedBy[i[1]] : LatestLanded(b)})

\* ready(): round-robin across clients, each in enqueue order.  An entry's turn is
\* its place among its own client's, then its client's first entry's place.
Ready ==
    LET r == ReadyIds
        N == Len(r)
        C(i) == Owner[r[i][1]]
        turn(i) == Cardinality({j \in 1..i : C(j) = C(i)})
        first(i) == CHOOSE j \in 1..N : C(j) = C(i) /\ \A k \in 1..(j - 1) : C(k) # C(i)
        before(i, j) == turn(i) < turn(j) \/ (turn(i) = turn(j) /\ first(i) < first(j))
        place(i) == 1 + Cardinality({j \in 1..N : before(j, i)})
    IN  [n \in 1..N |-> r[CHOOSE i \in 1..N : place(i) = n]]

Take == SubSeq(Ready, 1, IF Len(Ready) < BatchSize THEN Len(Ready) ELSE BatchSize)

(***************************************************************************)
(* record(): append, then fold.                                            *)
(***************************************************************************)
Rec(by, type, id, tip) == [by |-> by, type |-> type, id |-> id, tip |-> tip]

\* Submitted to the journal; nothing is folded yet.
Submit(r) == writes' = Append(writes, r)

\* The queued entries a client loses with "gone", in enqueue order.
Dependents(gone) == Only(queue, {e \in Ids : gone[1] \in BlockedBy[e[1]]})

\* mark(): the state a record leaves its entry in.
After(type) ==
    CASE type \in {"landed", "found"} -> "landed"
      [] type \in Ejects -> "ejected"
      [] type \in {"withdrawn", "superseded"} -> "withdrawn"
      [] type = "enqueued" -> "queued"

PushedByMut(r) == IF r.type \in {"landed", "found"} THEN r.tip ELSE pushed

\* "batch" is -1 for an entry found in the target, which pushed nothing.
PushedBy(r) == IF r.type = "landed" THEN r.tip ELSE pushed

\* The oldest submitted record resolves and is folded.  A record that takes an entry
\* out of the queue for good goes on to its queued dependents, before its caller does.
JournalWrite ==
    /\ writes # <<>>
    /\ LET r == Head(writes)
           c == Owner[r.id[1]]
           rest == Tail(writes)
       IN  /\ state' = [state EXCEPT ![r.id] = After(r.type)]
           /\ queue' = IF r.type = "enqueued" THEN Append(queue, r.id)
                                              ELSE Without(queue, {r.id})
           /\ pushed' = PushedBy(r)
           /\ log' = IF r.type \in Told THEN [log EXCEPT ![c] = Append(@, <<r.id, r.type>>)]
                                        ELSE log
           /\ casc' = IF r.type \in Ejects \cup {"withdrawn"}
                        THEN [casc EXCEPT ![r.by] = Without(Dependents(r.id), {r.id}) \o @]
                        ELSE casc
           /\ calls' = IF r.type = "enqueued" THEN [calls EXCEPT ![c] = NoCall] ELSE calls
           /\ writes' = IF r.type = "superseded"
                          THEN Append(rest, Rec(c, "enqueued", calls[c], NoTip))
                          ELSE rest
    /\ UNCHANGED <<target, ref, hist, svc, troubles>>

\* Nothing of handler h is waiting for the journal.
Resolved(h) == casc[h] = <<>> /\ \A i \in DOMAIN writes : writes[i].by # h

\* The dependents are forgotten.
CascadeMut(h) ==
    /\ casc[h] # <<>> /\ \A i \in DOMAIN writes : writes[i].by # h
    /\ casc' = [casc EXCEPT ![h] = Tail(@)]
    /\ UNCHANGED <<target, ref, hist, state, queue, pushed, log, svc, writes, calls, troubles>>

\* record()'s loop over the dependents: one still queued is ejected too.
Cascade(h) ==
    /\ casc[h] # <<>> /\ \A i \in DOMAIN writes : writes[i].by # h
    /\ casc' = [casc EXCEPT ![h] = Tail(@)]
    /\ IF state[Head(casc[h])] = "queued"
         THEN Submit(Rec(h, "blocked", Head(casc[h]), NoTip))
         ELSE writes' = writes
    /\ UNCHANGED <<target, ref, hist, state, queue, pushed, log, svc, calls, troubles>>

(***************************************************************************)
(* The calls of a client, as the service handles them.                     *)
(***************************************************************************)
\* enqueue(): an entry the train has answers with its state; otherwise a queued
\* older commit of the branch is superseded first.
HandleEnqueue(c, id) ==
    LET older == {i \in Elems(queue) : i[1] = id[1]}
    IN  IF state[id] # "none"
          THEN UNCHANGED <<calls, writes>>
          ELSE /\ calls' = [calls EXCEPT ![c] = id]
               /\ Submit(IF older = {} THEN Rec(c, "enqueued", id, NoTip)
                         ELSE Rec(c, "superseded", CHOOSE i \in older : TRUE, NoTip))

\* withdraw(): only a queued entry, as the entry is when the call arrives.
HandleWithdraw(c, id) ==
    IF state[id] = "queued" THEN Submit(Rec(c, "withdrawn", id, NoTip)) ELSE writes' = writes

(***************************************************************************)
(* run(), pass() and land().  "batch" is what the current pass or land is  *)
(* about, "todo" what its loop has left, "halves" the second halves a      *)
(* bisection still owes a pass.                                            *)
(***************************************************************************)
Idle == [pc |-> "idle", tip |-> NoTip, todo |-> <<>>, batch |-> <<>>, halves |-> <<>>]

\* pass() or land() returns ...
Done == [svc EXCEPT !.pc = "return", !.tip = NoTip, !.todo = <<>>, !.batch = <<>>]

LoopOnly == UNCHANGED <<target, ref, hist, state, queue, pushed, log, casc, calls>>
ServiceOnly == LoopOnly /\ UNCHANGED troubles

At(pc) == svc.pc = pc /\ Resolved(Train)

\* ... to the pass a bisection owes its second half, of the entries still queued,
\* or to run().
Return ==
    /\ At("return")
    /\ svc' = IF svc.halves = <<>> THEN Idle
              ELSE [Idle EXCEPT !.pc = "sync", !.halves = Tail(svc.halves),
                        !.batch = Only(Head(svc.halves), {i \in Ids : state[i] = "queued"})]
    /\ writes' = writes /\ ServiceOnly

TakeBatch ==
    /\ At("idle") /\ Take # <<>>
    /\ svc' = [Idle EXCEPT !.pc = "sync", !.batch = Take]
    /\ writes' = writes /\ ServiceOnly

SyncTip ==
    /\ At("sync")
    /\ svc' = [svc EXCEPT !.pc = "contained", !.tip = target]
    /\ writes' = writes /\ ServiceOnly

\* The containment check dropped.
ContainedMut ==
    /\ At("contained")
    /\ svc' = IF svc.batch = <<>> THEN Done ELSE [svc EXCEPT !.pc = "baseline"]
    /\ writes' = writes /\ ServiceOnly

\* Already in the target: landed, one record at a time.  Nothing left: the pass is over.
\* (An error of git here, which the code takes for "not contained", is left out: the entry is
\* then merged once more, which adds nothing, or ejected as moved.)
Contained ==
    /\ At("contained")
    /\ LET in == Only(svc.batch, svc.tip)
       IN  IF in # <<>>
             THEN /\ Submit(Rec(Train, "found", Head(in), svc.tip))
                  /\ svc' = [svc EXCEPT !.batch = Without(@, {Head(in)})]
             ELSE /\ writes' = writes
                  /\ svc' = IF svc.batch = <<>> THEN Done
                            ELSE [svc EXCEPT !.pc = "baseline"]
    /\ ServiceOnly

\* A tip this train did not push is verified alone.  A verdict kept from before is
\* one on the same commit, so re-using it or asking again is the same.
TipPasses == svc.tip = pushed \/ ~Fails(svc.tip)

Baseline ==
    /\ At("baseline")
    /\ svc' = IF TipPasses THEN [svc EXCEPT !.pc = "fetch", !.todo = svc.batch, !.batch = <<>>]
                           ELSE Done
    /\ writes' = writes /\ ServiceOnly

\* fetchEntry(), entry by entry: a branch that is no longer at its commit is ejected.
FetchEntry ==
    /\ At("fetch")
    /\ IF svc.todo = <<>>
         THEN /\ svc' = [svc EXCEPT !.pc = "land"]
              /\ writes' = writes
         ELSE LET e == Head(svc.todo)
              IN  IF ref[e[1]] = e[2]
                    THEN /\ svc' = [svc EXCEPT !.todo = Tail(@), !.batch = Append(@, e)]
                         /\ writes' = writes
                    ELSE /\ svc' = [svc EXCEPT !.todo = Tail(@)]
                         /\ Submit(Rec(Train, "moved", e, svc.tip))
    /\ ServiceOnly

\* speculate(): merged in order onto the tip, conflicting entries left out.
CleanOf(tip, ids) ==
    LET step[n \in 0..Len(ids)] ==
          IF n = 0 THEN [ok |-> <<>>, content |-> tip]
          ELSE IF Conflicts(step[n - 1].content, ids[n]) THEN step[n - 1]
          ELSE [ok |-> Append(step[n - 1].ok, ids[n]),
                content |-> step[n - 1].content \cup hist[ids[n]]]
    IN  step[Len(ids)].ok

Speculate ==
    /\ At("land")
    /\ LET clean == CleanOf(svc.tip, svc.batch)
       IN  svc' = IF svc.batch = <<>> THEN Done
                  ELSE [svc EXCEPT !.pc = "verify", !.batch = clean,
                                   !.todo = Without(svc.batch, Elems(clean))]
    /\ writes' = writes /\ ServiceOnly

EjectConflicted ==
    /\ At("verify") /\ svc.todo # <<>>
    /\ Submit(Rec(Train, "conflict", Head(svc.todo), svc.tip))
    /\ svc' = [svc EXCEPT !.todo = Tail(@)]
    /\ ServiceOnly

Commit == Merged(svc.tip, Elems(svc.batch))

Half(n) == (n + 1) \div 2

\* The batch tree passes, fails with one entry in it, or is bisected: the first
\* half on the same tip now, the second through a pass of its own later.
Verify ==
    /\ At("verify") /\ svc.todo = <<>>
    /\ LET n == Len(svc.batch)
       IN  IF n = 0
             THEN svc' = Done /\ writes' = writes
           ELSE IF ~Fails(Commit)
             THEN svc' = [svc EXCEPT !.pc = "push"] /\ writes' = writes
           ELSE IF n = 1
             THEN /\ Submit(Rec(Train, "check", svc.batch[1], svc.tip))
                  /\ svc' = Done
           ELSE /\ svc' = [svc EXCEPT !.pc = "land",
                               !.batch = SubSeq(@, 1, Half(n)),
                               !.halves = <<SubSeq(svc.batch, Half(n) + 1, n)>> \o @]
                /\ writes' = writes
    /\ ServiceOnly

\* A forced push.
PushMut ==
    /\ At("push")
    /\ target' = Commit
    /\ svc' = [svc EXCEPT !.pc = "landed", !.tip = Commit]
    /\ UNCHANGED <<ref, hist, state, queue, pushed, log, writes, casc, calls, troubles>>

\* Journaled without asking whether the push was refused.
PushMut2 ==
    /\ At("push")
    /\ target' = IF target = svc.tip THEN Commit ELSE target
    /\ svc' = [svc EXCEPT !.pc = "landed", !.tip = Commit]
    /\ UNCHANGED <<ref, hist, state, queue, pushed, log, writes, casc, calls, troubles>>

\* push(): a plain push, or a compare-and-set, from the tip.  Refused because the
\* target moved: nothing is journaled and the entries stay queued.
Push ==
    /\ At("push")
    /\ target' = IF target = svc.tip THEN Commit ELSE target
    /\ svc' = IF target = svc.tip THEN [svc EXCEPT !.pc = "landed", !.tip = Commit] ELSE Done
    /\ UNCHANGED <<ref, hist, state, queue, pushed, log, writes, casc, calls, troubles>>

\* Only then is each entry of the batch recorded as landed.
RecordLanded ==
    /\ At("landed")
    /\ IF svc.batch = <<>>
         THEN svc' = Done /\ writes' = writes
         ELSE /\ Submit(Rec(Train, "landed", Head(svc.batch), svc.tip))
              /\ svc' = [svc EXCEPT !.batch = Tail(@)]
    /\ ServiceOnly

ServiceStep ==
    \/ TakeBatch \/ SyncTip \/ Contained \/ Baseline \/ FetchEntry \/ Speculate
    \/ EjectConflicted \/ Verify \/ Push \/ RecordLanded \/ Return

(***************************************************************************)
(* Failures, and the world outside.                                        *)
(***************************************************************************)
Trouble == troubles < MaxTroubles /\ troubles' = troubles + 1

\* Where a git error is read as an answer: the branch is no longer at its commit ...
FetchErrs ==
    /\ At("fetch") /\ svc.todo # <<>> /\ Trouble
    /\ Submit(Rec(Train, "moved", Head(svc.todo), svc.tip))
    /\ svc' = [svc EXCEPT !.todo = Tail(@)]
    /\ LoopOnly

\* ... or the merge conflicts.
MergeErrs ==
    /\ At("land") /\ Trouble
    /\ \E e \in Elems(svc.batch) :
         LET clean == CleanOf(svc.tip, Without(svc.batch, {e}))
         IN  svc' = [svc EXCEPT !.pc = "verify", !.batch = clean,
                                !.todo = Without(svc.batch, Elems(clean))]
    /\ writes' = writes /\ LoopOnly

GitErrs == FetchErrs \/ MergeErrs

\* Another git command or a push errs: the pass throws, and run() backs off.
PassFails ==
    /\ svc.pc \in {"sync", "fetch", "land", "verify", "push"} /\ Resolved(Train)
    /\ Trouble
    /\ svc' = Idle
    /\ UNCHANGED <<target, ref, hist, state, queue, pushed, log, writes, casc, calls>>

\* The push reaches the remote and its answer does not: the target moved, so the
\* service takes it for somebody else's push.
PushAnswerLost ==
    /\ At("push") /\ target = svc.tip
    /\ Trouble
    /\ target' = Commit /\ svc' = Done
    /\ UNCHANGED <<ref, hist, state, queue, pushed, log, writes, casc, calls>>

\* Somebody else pushes to the target.
OutsidePush(o) ==
    /\ o \in Outside \ target
    /\ target' = target \cup {o}
    /\ UNCHANGED <<ref, hist, state, queue, pushed, log, svc, writes, casc, calls, troubles>>

\* The process dies and comes back: the journal is folded again.
ServiceCrash ==
    /\ Trouble
    /\ svc' = Idle /\ writes' = <<>>
    /\ casc' = [h \in Handlers |-> <<>>] /\ calls' = [c \in Clients |-> NoCall]
    /\ UNCHANGED <<target, ref, hist, state, queue, pushed, log>>

TrainInit ==
    /\ target = {} /\ ref = [b \in Branches |-> 0]
    /\ hist = [i \in Ids |-> IF i[2] = 1 THEN {i} ELSE {}]
    /\ state = [i \in Ids |-> "none"] /\ queue = <<>> /\ pushed = NoTip
    /\ log = [c \in Clients |-> <<>>] /\ svc = Idle /\ writes = <<>>
    /\ casc = [h \in Handlers |-> <<>>] /\ calls = [c \in Clients |-> NoCall]
    /\ troubles = 0
===========================================================================
