----------------------------- MODULE LandTrain -----------------------------
(***************************************************************************)
(* The lead-hosted merge train (train.ts, landTrain): the branches of one  *)
(* run landed on its target in waves of batches, each verified once.  A    *)
(* failing batch is bisected, an entry that fails alone goes to its member *)
(* for a repair and one that conflicts to a resolver; what they fix is     *)
(* queued again, what they do not is ejected with everything behind it.    *)
(*                                                                         *)
(* As in TrainService, a commit is the set of the pieces of work in it: a  *)
(* merge is a union and a verdict depends on the set.  <<e, v>> is the     *)
(* v-th commit of entry e; <<0, 1>> is a base that fails already.  Only    *)
(* the train moves its target.  Entry 1 is the first task: the entries are *)
(* in order of priority, and so is a batch, which is a set of them.        *)
(***************************************************************************)
EXTENDS Integers, Sequences, FiniteSets

CONSTANTS
    N,              \* entries with commits
    Works,          \* runs to land: [blockedBy, base, breaks, clashes], see "w"
    BatchSize, MaxRepairs,
    MaxVersion,     \* bound: commits of an entry, and so its fixes
    MaxRetries,     \* bound: "retry" and "continue" answers
    MaxTroubles     \* bound: failures of the verifier, git or the journal

Entries == 1..N
Pieces == (Entries \X (1..MaxVersion)) \cup {<<0, 1>>}

ASSUME LandTrainConstants ==
    /\ N \in Nat /\ BatchSize \in Nat \ {0} /\ MaxRepairs \in Nat /\ MaxVersion \in Nat \ {0}
    /\ \A x \in Works :
         /\ x.blockedBy \in [Entries -> SUBSET Entries] /\ x.base \subseteq {<<0, 1>>}
         /\ \A k \in x.breaks : k.by \subseteq Pieces /\ k.fixed \subseteq Pieces
         /\ x.clashes \subseteq SUBSET Pieces

VARIABLES
    pc,          \* where landTrain is
    target,      \* the pieces in the target
    w,           \* the run: each entry's blockers, the target before anything landed,
                 \* what fails the verifier, and the pairs of pieces that conflict
    branch,      \* [Entries -> SUBSET Pieces]: what each entry's branch holds
    ver,         \* [Entries -> version]: its commits
    st,          \* [Entries -> EntryState]
    repairs,     \* [Entries -> repairs dispatched]
    extra,       \* [Entries -> repairs granted past MaxRepairs]
    batches,     \* sets still to land in turn: the wave's batch, or the halves of a bisection
    merged,      \* the entries of the batch that passed, about to land
    fixes,       \* culprits and conflicts found this wave, in the order they were found
    todo,        \* those of them whose agent steps are under way
    out,         \* [Entries -> what the outcome says of each]
    aborted,     \* the run's signal
    retries, troubles

vars == <<pc, target, w, branch, ver, st, repairs, extra, batches, merged, fixes, todo,
          out, aborted, retries, troubles>>

EntryStates == {"queued", "repair", "resolve", "landed", "ejected"}
Outcomes == {"none", "landed", "unverified", "conflicted", "ejected", "withheld"}

Elems(s) == {s[i] : i \in DOMAIN s}

Fails(content) ==
    \E k \in w.breaks : k.by \subseteq content /\ k.fixed \cap content = {}

Conflicts(content, e) ==
    \E p \in branch[e] \ content, q \in content \ branch[e] : {p, q} \in w.clashes

\* The first k of a set of entries, and all of them, by priority.
First(E, k) == {e \in E : Cardinality({d \in E : d < e}) < k}

InOrder(E) == [k \in 1..Cardinality(E) |-> CHOOSE e \in E : Cardinality({d \in E : d < e}) = k - 1]

\* Merging a sequence of entries onto the tip in turn leaves out those that conflict
\* with what is there by then.
Clean(tip, s) ==
    LET into[n \in 0..Len(s)] ==
          IF n = 0 THEN tip
          ELSE IF Conflicts(into[n - 1], s[n]) THEN into[n - 1] ELSE into[n - 1] \cup branch[s[n]]
    IN  {s[n] : n \in {k \in DOMAIN s : ~Conflicts(into[k - 1], s[k])}}

Commit(tip, E) == tip \cup UNION {branch[e] : e \in E}

\* Verified on its own, not on the target's tip.
PassesMut(tip, E) == ~Fails(Commit({}, E))

\* deps.verify on the batch tree.
Passes(tip, E) == ~Fails(Commit(tip, E))

Trouble == troubles < MaxTroubles /\ troubles' = troubles + 1
Retry == retries < MaxRetries /\ retries' = retries + 1
Same == UNCHANGED <<retries, troubles, w, aborted>>

(***************************************************************************)
(* Ends: stop() withholds what is neither landed nor ejected.              *)
(***************************************************************************)
\* What is under repair is forgotten.
WithheldMut == [e \in Entries |-> IF st[e] = "queued" THEN "withheld" ELSE out[e]]

Withheld == [e \in Entries |-> IF st[e] \in {"landed", "ejected"} THEN out[e] ELSE "withheld"]

Stop ==
    /\ pc' = "stopped" /\ out' = Withheld
    /\ UNCHANGED <<target, branch, ver, st, repairs, extra, batches, merged, fixes, todo>>

\* An error anywhere but in landing a batch (below): the catch stops the train.
Throw ==
    /\ pc \notin {"stopped", "ended"}
    /\ Trouble /\ Stop /\ UNCHANGED <<retries, w, aborted>>

\* The run is aborted ...
Abort ==
    /\ ~aborted /\ pc \notin {"stopped", "ended"} /\ aborted' = TRUE
    /\ UNCHANGED <<pc, target, w, branch, ver, st, repairs, extra, batches, merged, fixes,
                   todo, out, retries, troubles>>

\* ... and live() throws, wherever it is checked.
LivePoints == {"baseline", "ask", "wave", "advance", "fix", "askRepair", "integrate", "repair"}

StopAborted ==
    /\ aborted /\ pc \in LivePoints
    /\ Stop /\ Same

Live == ~aborted

\* The entry alone.
EjectedWithMut(E) == E

\* eject(): the entry and, in turn, everything blocked by it that has not ended.
EjectedWith(E) ==
    LET Waits(e, S) == st[e] \notin {"landed", "ejected"} /\ w.blockedBy[e] \cap S # {}
        Closed(S) == E \subseteq S /\ \A e \in Entries : Waits(e, S) => e \in S
    IN  {e \in Entries : \A S \in SUBSET Entries : Closed(S) => e \in S}

Mark(E, how) ==
    /\ st' = [e \in Entries |-> IF e \in E THEN how ELSE st[e]]
    /\ out' = [e \in Entries |-> IF e \in E THEN how ELSE out[e]]

Eject(E) == Mark(EjectedWith(E), "ejected")

\* The error that stops the train comes once some of E are marked.
MarkedOnly(E, how) ==
    /\ st' = [e \in Entries |-> IF e \in E THEN how ELSE st[e]]
    /\ out' = [e \in Entries |-> IF e \in E THEN how ELSE Withheld[e]]
    /\ pc' = "stopped"

(***************************************************************************)
(* The baseline.                                                           *)
(***************************************************************************)
Baseline ==
    /\ pc = "baseline" /\ Live
    /\ pc' = IF Fails(target) THEN "ask" ELSE "wave"
    /\ Same
    /\ UNCHANGED <<target, branch, ver, st, repairs, extra, batches, merged, fixes, todo, out>>

\* A target that fails already: stop (the default), or merge everything unverified.
AnswerStop == pc = "ask" /\ Live /\ Stop /\ Same

AnswerMerge ==
    /\ pc = "ask" /\ Live /\ pc' = "merge" /\ Same
    /\ UNCHANGED <<target, branch, ver, st, repairs, extra, batches, merged, fixes, todo, out>>

\* The worktrees in the order of their creation: a task's comes after its blockers'.
Orders == {s \in [Entries -> Entries] : \A i, j \in Entries :
             /\ s[i] = s[j] => i = j
             /\ s[i] \in w.blockedBy[s[j]] => i < j}

\* mergeAll(): the sequential queue takes what merges cleanly.
MergeAll ==
    /\ pc = "merge"
    /\ \E order \in Orders :
         LET ok == Clean(target, order)
         IN  /\ target' = Commit(target, ok)
             /\ st' = [e \in Entries |-> IF e \in ok THEN "landed" ELSE st[e]]
             /\ out' = [e \in Entries |-> IF e \in ok THEN "unverified" ELSE "conflicted"]
    /\ pc' = "ended" /\ Same
    /\ UNCHANGED <<branch, ver, repairs, extra, batches, merged, fixes, todo>>

\* It stops on an error after k branches, or while its j-th landing is recorded.  The
\* train's outcome lists none of what it merged, and what is marked not as withheld either.
MergeAllFails ==
    /\ pc = "merge" /\ Trouble
    /\ \E order \in Orders, k, j \in 0..N :
         LET ok == Clean(target, SubSeq(order, 1, k))
             marked == ok \cap {order[i] : i \in 1..j}
         IN  /\ k < N => j = 0
             /\ target' = Commit(target, ok) /\ merged' = ok
             /\ st' = [e \in Entries |-> IF e \in marked THEN "landed" ELSE st[e]]
             /\ out' = [e \in Entries |-> IF e \in marked THEN out[e] ELSE "withheld"]
    /\ pc' = "stopped"
    /\ UNCHANGED <<w, branch, ver, repairs, extra, batches, fixes, todo, aborted, retries>>

(***************************************************************************)
(* Waves and batches.                                                      *)
(***************************************************************************)
\* Not waiting for the blockers to land, only to be tried.
ReadyMut == {e \in Entries : st[e] = "queued" /\ \A b \in w.blockedBy[e] : st[b] # "queued"}

Ready == {e \in Entries : st[e] = "queued" /\ \A b \in w.blockedBy[e] : st[b] = "landed"}

\* The head of the loop: land what is ready; else the wave is over, and its culprits and
\* conflicts get their agent steps; else the train is.
Wave ==
    /\ pc = "wave" /\ Live
    /\ \/ /\ Ready # {}
          /\ pc' = "land" /\ batches' = <<First(Ready, BatchSize)>>
          /\ UNCHANGED <<st, fixes, todo, out>>
       \/ /\ Ready = {} /\ fixes # <<>>
          /\ pc' = "fix" /\ todo' = fixes /\ fixes' = <<>>
          /\ UNCHANGED <<batches, st, out>>
       \* What is still queued waits on an entry that will never land.
       \/ /\ Ready = {} /\ fixes = <<>>
          /\ pc' = "ended" /\ Eject({e \in Entries : st[e] = "queued"})
          /\ UNCHANGED <<batches, fixes, todo>>
    /\ Same
    /\ UNCHANGED <<target, branch, ver, repairs, extra, merged>>

Half(n) == (n + 1) \div 2

\* land(): speculate, send the conflicts to the resolver, verify what merged: it passes and
\* lands, or it is one culprit, or each half of it is landed in turn.
Land ==
    /\ pc = "land" /\ batches # <<>>
    /\ LET batch == Head(batches)
           ok == Clean(target, InOrder(batch))
           clash == batch \ ok
           half == First(ok, Half(Cardinality(ok)))
           Sent(culprits) ==
             /\ st' = [e \in Entries |-> IF e \in clash THEN "resolve"
                                         ELSE IF e \in culprits THEN "repair" ELSE st[e]]
             /\ fixes' = fixes \o InOrder(clash) \o InOrder(culprits)
       IN  \/ /\ ok = {}
              /\ Sent({}) /\ batches' = Tail(batches) /\ UNCHANGED <<pc, merged>>
           \/ /\ ok # {} /\ Passes(target, ok)
              /\ Sent({}) /\ batches' = Tail(batches) /\ pc' = "advance" /\ merged' = ok
           \/ /\ Cardinality(ok) = 1 /\ ~Passes(target, ok)
              /\ Sent(ok) /\ batches' = Tail(batches) /\ UNCHANGED <<pc, merged>>
           \/ /\ Cardinality(ok) > 1 /\ ~Passes(target, ok)
              /\ Sent({}) /\ batches' = <<half, ok \ half>> \o Tail(batches)
              /\ UNCHANGED <<pc, merged>>
    /\ Same
    /\ UNCHANGED <<target, branch, ver, repairs, extra, todo, out>>

Landed ==
    /\ pc = "land" /\ batches = <<>> /\ pc' = "wave"
    /\ Same
    /\ UNCHANGED <<target, branch, ver, st, repairs, extra, batches, merged, fixes, todo, out>>

\* The verifier could not run, twice: nothing more lands.
Unavailable == pc \in {"baseline", "land"} /\ Trouble /\ Stop /\ UNCHANGED <<retries, w, aborted>>

\* advanceTarget(): fast-forwarded to the verified commit, then each entry marked,
\* recorded and its worktree removed.
Advance ==
    /\ pc = "advance" /\ Live
    /\ target' = Commit(target, merged) /\ Mark(merged, "landed")
    /\ pc' = "land" /\ merged' = {} /\ Same
    /\ UNCHANGED <<branch, ver, repairs, extra, batches, fixes, todo>>

\* Recording the k-th of them fails (its journal, its evidence, its worktree): the error
\* stops the train, and those after it are neither landed nor ejected by then.
AdvanceFails ==
    /\ pc = "advance" /\ Live /\ Trouble
    /\ target' = Commit(target, merged)
    /\ \E k \in 1..Cardinality(merged) : MarkedOnly(First(merged, k), "landed")
    /\ UNCHANGED <<w, branch, ver, repairs, extra, batches, merged, fixes, todo, aborted, retries>>

\* Recording an ejection fails: what it would have taken along is withheld.
EjectFails ==
    /\ Live /\ Trouble
    /\ \/ /\ pc \in {"askRepair", "integrate", "repair"}
          /\ \E S \in SUBSET EjectedWith({Head(todo)}) :
               Head(todo) \in S /\ MarkedOnly(S, "ejected")
       \/ /\ pc = "wave" /\ Ready = {} /\ fixes = <<>>
          /\ \E S \in SUBSET {e \in Entries : st[e] = "queued"} : MarkedOnly(S, "ejected")
    /\ UNCHANGED <<target, w, branch, ver, repairs, extra, batches, merged, fixes, todo, aborted,
                   retries>>

(***************************************************************************)
(* fix(): the agent step of each culprit and conflict, one after another.  *)
(***************************************************************************)
Fixing == Head(todo)

Next_(where) == pc' = where /\ UNCHANGED <<batches, merged, fixes>>

\* The entry's step is over: the next one's, or the next wave.
FixDone == Next_(IF Len(todo) = 1 THEN "wave" ELSE "fix") /\ todo' = Tail(todo)

\* A culprit past its repairs is asked about first.
Fix ==
    /\ pc = "fix" /\ Live
    /\ Next_(IF st[Fixing] = "repair" /\ repairs[Fixing] >= MaxRepairs + extra[Fixing]
               THEN "askRepair" ELSE "integrate")
    /\ Same /\ UNCHANGED <<target, branch, ver, st, repairs, extra, todo, out>>

AskRepair ==
    /\ pc = "askRepair" /\ Live
    /\ \/ Eject({Fixing}) /\ FixDone /\ UNCHANGED <<extra, retries>>
       \/ /\ Retry /\ Next_("integrate")
          /\ extra' = [extra EXCEPT ![Fixing] = @ + 1]
          /\ UNCHANGED <<st, out, todo>>
    /\ UNCHANGED <<target, w, branch, ver, repairs, aborted, troubles>>

\* enqueue(): what was integrated goes back to the queue, a culprit to its repair.
Integrated ==
    IF st[Fixing] = "resolve"
      THEN st' = [st EXCEPT ![Fixing] = "queued"] /\ FixDone
      ELSE st' = st /\ Next_("repair") /\ todo' = todo

\* integrate() and resolve(): the tip merged into the branch.  On a conflict the member
\* resolves it, or gives up and a person says eject or retry; a refused budget or a
\* tamper incident nobody waves through ejects.
Integrate ==
    /\ pc = "integrate" /\ Live
    /\ \/ /\ ~Conflicts(target, Fixing)
          /\ branch' = [branch EXCEPT ![Fixing] = @ \cup target]
          /\ Integrated /\ UNCHANGED <<ver, out, retries>>
       \/ /\ Conflicts(target, Fixing) /\ ver[Fixing] < MaxVersion
          /\ ver' = [ver EXCEPT ![Fixing] = @ + 1]
          /\ branch' = [branch EXCEPT ![Fixing] = @ \cup target \cup {<<Fixing, ver[Fixing] + 1>>}]
          /\ Integrated /\ UNCHANGED <<out, retries>>
       \/ /\ Conflicts(target, Fixing)
          /\ Eject({Fixing}) /\ FixDone /\ UNCHANGED <<branch, ver, retries>>
       \/ /\ Conflicts(target, Fixing) /\ Retry /\ Next_("integrate")
          /\ UNCHANGED <<branch, ver, st, out, todo>>
    /\ UNCHANGED <<target, w, repairs, extra, aborted, troubles>>

\* The repair is not counted.
RepairMut ==
    /\ pc = "repair" /\ Live
    /\ \/ /\ ver[Fixing] < MaxVersion
          /\ ver' = [ver EXCEPT ![Fixing] = @ + 1]
          /\ branch' = [branch EXCEPT ![Fixing] = @ \cup {<<Fixing, ver[Fixing] + 1>>}]
       \/ UNCHANGED <<ver, branch>>
    /\ st' = [st EXCEPT ![Fixing] = "queued"] /\ out' = out /\ FixDone
    /\ Same /\ UNCHANGED <<target, repairs, extra>>

\* The member's repair, committed or not, is queued again; a refused budget or a tamper
\* incident ejects.
Repair ==
    /\ pc = "repair" /\ Live
    /\ repairs' = [repairs EXCEPT ![Fixing] = @ + 1]
    /\ \/ /\ ver[Fixing] < MaxVersion
          /\ ver' = [ver EXCEPT ![Fixing] = @ + 1]
          /\ branch' = [branch EXCEPT ![Fixing] = @ \cup {<<Fixing, ver[Fixing] + 1>>}]
          /\ st' = [st EXCEPT ![Fixing] = "queued"] /\ out' = out
       \/ st' = [st EXCEPT ![Fixing] = "queued"] /\ out' = out /\ UNCHANGED <<ver, branch>>
       \/ Eject({Fixing}) /\ UNCHANGED <<ver, branch>>
    /\ FixDone /\ Same /\ UNCHANGED <<target, extra>>

Init ==
    /\ pc = "baseline" /\ w \in Works /\ target = w.base
    /\ branch = [e \in Entries |-> {<<e, 1>>}] /\ ver = [e \in Entries |-> 1]
    /\ st = [e \in Entries |-> "queued"] /\ out = [e \in Entries |-> "none"]
    /\ repairs = [e \in Entries |-> 0] /\ extra = [e \in Entries |-> 0]
    /\ batches = <<>> /\ merged = {} /\ fixes = <<>> /\ todo = <<>>
    /\ aborted = FALSE /\ retries = 0 /\ troubles = 0

Step ==
    \/ StopAborted \/ Baseline \/ AnswerStop \/ AnswerMerge \/ MergeAll \/ Wave \/ Land
    \/ Landed \/ Advance \/ Fix \/ AskRepair \/ Integrate \/ Repair

Next == Step \/ Throw \/ Unavailable \/ MergeAllFails \/ AdvanceFails \/ EjectFails \/ Abort

\* landTrain is one async function: it goes on unless an answer or an agent never comes,
\* and each of those is bounded by a timeout of its own.
Spec == Init /\ [][Next]_vars /\ WF_vars(Step)

(***************************************************************************)
(* Properties                                                              *)
(***************************************************************************)
Ended == pc \in {"ended", "stopped"}

\* The shape of the state; an entry's agent step is under way for a culprit or a conflict
\* only, never for one that landed or was ejected meanwhile.
TypeOK ==
    /\ pc \in LivePoints \cup {"merge", "land", "ended", "stopped"}
    /\ target \in SUBSET Pieces /\ branch \in [Entries -> SUBSET Pieces]
    /\ ver \in [Entries -> 1..MaxVersion] /\ st \in [Entries -> EntryStates]
    /\ out \in [Entries -> Outcomes]
    /\ repairs \in [Entries -> Nat] /\ extra \in [Entries -> Nat]
    /\ batches \in Seq(SUBSET Entries) /\ merged \in SUBSET Entries
    /\ fixes \in Seq(Entries) /\ todo \in Seq(Entries)
    /\ ~Ended => \A e \in Elems(fixes) \cup Elems(todo) : st[e] \in {"repair", "resolve"}

\* What the train lands was verified where it lands: the target fails the verifier only
\* if it did before, and then nothing was merged or, a person having had everything
\* merged unverified, the train is over.
TargetVerified == Fails(target) => target = w.base \/ (Fails(w.base) /\ Ended)

\* Through waves, bisections, repairs and ejections, work reaches the target after the
\* work it is blocked by.  A base that fails the verifier already is excepted: a person may
\* have everything merged unverified, and mergeAll() leaves conflicting work out and goes
\* on with what it blocks.
BlockersLandFirst ==
    \A e \in Entries : st[e] = "landed" /\ ~Fails(w.base) =>
        \A b \in w.blockedBy[e] : st[b] = "landed" /\ branch[b] \subseteq target

\* The train's state has its shape, and it lands work after what it is blocked by, verified
\* where it lands.
LandSafe == TypeOK /\ BlockersLandFirst /\ TargetVerified

\* The outcome is the truth however the train ended: what it calls landed is what reached
\* the target, nothing else did, and every entry is accounted for.  The one exception is
\* what was being landed when git or the journal failed: the outcome may name those
\* entries withheld, or leave them out, though the target has them.
OutcomeTrueElsewhere ==
    Ended => \A e \in Entries \ merged :
        /\ out[e] # "none"
        /\ out[e] \in {"landed", "unverified"} <=> <<e, 1>> \in target

\* The train lands as RunLanding promises: each of its steps decides nothing, or lands a
\* verified batch, gives entries up with their dependents, or merges everything unverified.
Landing == INSTANCE RunLanding WITH
    fate <- [e \in Entries |-> IF st[e] \in {"landed", "ejected"} THEN st[e] ELSE "open"],
    over <- IF pc = "ended" THEN "done" ELSE IF pc = "stopped" THEN "stopped" ELSE "no"

LandsAsPromised == Landing!Spec

\* The train ends: repairs run out, and a conflict that resolves cleanly does not come
\* back for ever.
TrainEnds == <>Ended
=============================================================================
