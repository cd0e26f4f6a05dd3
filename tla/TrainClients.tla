--------------------------- MODULE TrainClients ---------------------------
(***************************************************************************)
(* Runs landing through a standalone train: the client half                *)
(* (train-client.ts, landRemote) of each, and the train they share.        *)
(*                                                                         *)
(* A client pushes and enqueues its branches one after the other, then     *)
(* follows the train's records about its own entries from the first one    *)
(* on: a landed entry is settled; an ejected one is repaired by its        *)
(* member, pushed and enqueued again, or settled as ejected.  A cancel, or *)
(* a connection that dies, ends the landing: what is unsettled is          *)
(* withdrawn.  A run whose host died is resumed, and lands again.          *)
(***************************************************************************)
EXTENDS TrainService

CONSTANTS
    Worktrees,        \* [Clients -> Seq(Branches)]: git_.list(), blockers first
    MaxRepairs        \* config.maxRepairs

ASSUME ClientConstants ==
    /\ MaxRepairs \in Nat
    /\ \A c \in Clients : /\ Worktrees[c] \in Seq(Branches)
                          /\ Elems(Worktrees[c]) = {b \in Branches : Owner[b] = c}
                          /\ \A i, j \in DOMAIN Worktrees[c] :
                                Worktrees[c][i] \in BlockedBy[Worktrees[c][j]] => i < j

VARIABLES
    ver,       \* [Branches -> version]: the commit each branch is at, in its run's repository
    ent,       \* [Branches -> the run's entry: the id it follows, its repairs, its outcome]
    cl         \* [Clients -> where landRemote is]

vars == <<trainVars, ver, ent, cl>>

Outcomes == {"none", "open", "landed", "ejected", "withheld"}

NoEntry == [v |-> 0, repairs |-> 0, out |-> "none"]

\* The landing's place: enqueueing the i-th branch, or following, with the records up
\* to "upto" fetched and those up to "at" acted on; "cut" once its connection is gone.
Start == [pc |-> "enqueue", i |-> 1, at |-> 0, upto |-> 0, cut |-> FALSE]

Mine(c) == {b \in Branches : Owner[b] = c}
Settled(b) == ent[b].out # "open"
Unsettled(c) == {b \in Mine(c) : ~Settled(b)}

Settle(b, out) == [ent EXCEPT ![b].out = out]

Current(c) == Worktrees[c][cl[c].i]

TrainButTroubles == <<target, ref, hist, state, queue, pushed, log, svc, writes, casc, calls>>

ClientOnly == UNCHANGED <<target, ref, hist, state, queue, pushed, log, svc, casc, troubles>>

\* enqueue(): push the branch, then ask the train.  It answers at once for an entry it
\* already has at that commit.
Enqueue(c) ==
    /\ cl[c].pc = "enqueue" /\ cl[c].i <= Len(Worktrees[c]) /\ calls[c] = NoCall
    /\ LET b == Current(c)
           id == <<b, ver[b]>>
           had == state[id]
       IN  /\ ref' = [ref EXCEPT ![b] = ver[b]]
           /\ HandleEnqueue(c, id)
           /\ IF had = "none"
                THEN cl' = [cl EXCEPT ![c].pc = "enqueuing"] /\ ent' = ent
                ELSE /\ cl' = [cl EXCEPT ![c].i = @ + 1]
                     /\ ent' = [ent EXCEPT ![b] =
                          [v |-> ver[b], repairs |-> 0,
                           out |-> IF had = "queued" THEN "open"
                                   ELSE IF had = "landed" THEN "landed" ELSE "ejected"]]
    /\ UNCHANGED <<target, hist, state, queue, pushed, log, svc, casc, troubles, ver>>

\* The train's answer: the entry is queued.
Enqueued(c) ==
    /\ cl[c].pc = "enqueuing" /\ calls[c] = NoCall
    /\ LET b == Current(c)
       IN  ent' = [ent EXCEPT ![b] = [NoEntry EXCEPT !.v = ver[b], !.out = "open"]]
    /\ cl' = [cl EXCEPT ![c].pc = "enqueue", ![c].i = @ + 1]
    /\ UNCHANGED <<trainVars, ver>>

\* The loop's head: nothing unsettled ends the landing, a cut connection stops it, and
\* else the records since the last ones are asked for.
Poll(c) ==
    /\ \/ cl[c].pc = "enqueue" /\ cl[c].i > Len(Worktrees[c])
       \/ cl[c].pc = "follow" /\ cl[c].at = cl[c].upto
    /\ \/ /\ Unsettled(c) = {}
          /\ cl' = [cl EXCEPT ![c].pc = "done"]
       \/ /\ Unsettled(c) # {} /\ cl[c].cut
          /\ cl' = [cl EXCEPT ![c].pc = "withdraw"]
       \/ /\ Unsettled(c) # {} /\ ~cl[c].cut /\ Len(log[c]) > cl[c].upto
          /\ cl' = [cl EXCEPT ![c].pc = "follow", ![c].upto = Len(log[c])]
    /\ UNCHANGED <<trainVars, ver, ent>>

\* An ejected entry the client may repair.
Repairable(b, type) == ent[b].repairs < MaxRepairs /\ type \in {"conflict", "check"}

\* The next record of the client's entries: one about an entry it does not follow, or
\* no longer follows at that commit, is passed over.
Observe(c) ==
    /\ cl[c].pc = "follow" /\ cl[c].at < cl[c].upto
    /\ LET rec == log[c][cl[c].at + 1]
           b == rec[1][1]
           type == rec[2]
           seen == [cl EXCEPT ![c].at = @ + 1]
           mine == ent[b].v = rec[1][2]
       IN  IF mine /\ type \in {"landed", "found"}
             THEN cl' = seen /\ ent' = Settle(b, "landed")
           ELSE IF mine /\ type \in Ejects /\ Repairable(b, type)
             THEN /\ cl' = [seen EXCEPT ![c].pc = "repair",
                                          ![c].i = CHOOSE j \in DOMAIN Worktrees[c] : Worktrees[c][j] = b]
                  /\ ent' = [ent EXCEPT ![b].repairs = @ + 1]
           ELSE IF mine /\ type \in Ejects \cup {"withdrawn"}
             THEN cl' = seen /\ ent' = Settle(b, "ejected")
           ELSE cl' = seen /\ ent' = ent
    /\ UNCHANGED <<trainVars, ver>>

\* repair(): the target's tip is merged into the branch, the member fixes it, and the
\* new commit is pushed and enqueued.
Repair(c) ==
    /\ cl[c].pc = "repair" /\ ~cl[c].cut /\ calls[c] = NoCall
    /\ LET b == Current(c)
           v == ver[b] + 1
       IN  /\ v <= MaxVersion
           /\ ver' = [ver EXCEPT ![b] = v]
           /\ hist' = [hist EXCEPT ![<<b, v>>] = hist[<<b, ver[b]>>] \cup {<<b, v>>} \cup target]
           /\ ref' = [ref EXCEPT ![b] = v]
           /\ HandleEnqueue(c, <<b, v>>)
    /\ cl' = [cl EXCEPT ![c].pc = "repairing"]
    /\ UNCHANGED <<target, state, queue, pushed, log, svc, casc, troubles, ent>>

\* The new commit's id is not taken over.
RepairedMut(c) ==
    /\ cl[c].pc = "repairing" /\ calls[c] = NoCall
    /\ cl' = [cl EXCEPT ![c].pc = "follow", ![c].i = 1]
    /\ UNCHANGED <<trainVars, ver, ent>>

\* The answer: the entry is followed at its new commit.
Repaired(c) ==
    /\ cl[c].pc = "repairing" /\ calls[c] = NoCall
    /\ ent' = [ent EXCEPT ![Current(c)].v = ver[Current(c)]]
    /\ cl' = [cl EXCEPT ![c].pc = "follow", ![c].i = 1]
    /\ UNCHANGED <<trainVars, ver>>

\* The step failed, changed nothing or left the conflict: ejected for good.
RepairFails(c) ==
    /\ cl[c].pc = "repair"
    /\ ent' = Settle(Current(c), "ejected")
    /\ cl' = [cl EXCEPT ![c].pc = "follow", ![c].i = 1]
    /\ UNCHANGED <<trainVars, ver>>

Running(c) == cl[c].pc \in {"enqueue", "enqueuing", "follow", "repair", "repairing"}

\* The connections of these clients are gone: a call of theirs in flight rejects, though
\* the service may carry it out.  While enqueueing that ends the landing; inside a repair
\* it ends the entry; a following client finds out at its next poll.
Cut(C) ==
    LET lost == {Current(c) : c \in {d \in C : cl[d].pc = "repairing"}}
        on(c) == [cl[c] EXCEPT !.cut = TRUE,
                    !.pc = IF @ \in {"enqueue", "enqueuing"} THEN "withdraw"
                           ELSE IF @ = "repairing" THEN "follow" ELSE @]
    IN  /\ ent' = [b \in Branches |-> IF b \in lost THEN Settle(b, "ejected")[b] ELSE ent[b]]
        /\ cl' = [c \in Clients |-> IF c \in C /\ Running(c) THEN on(c) ELSE cl[c]]

\* The run is cancelled: its signal closes the connection.
Cancel(c) ==
    /\ Trouble
    /\ Running(c) /\ ~cl[c].cut /\ Cut({c})
    /\ UNCHANGED <<TrainButTroubles, ver>>

\* The catch: each unsettled entry is withdrawn, one call after the other.
Withdraw(c) ==
    /\ cl[c].pc = "withdraw" /\ Resolved(c)
    /\ IF Unsettled(c) = {}
         THEN cl' = [cl EXCEPT ![c].pc = "stopped"] /\ UNCHANGED <<writes, ent>>
         ELSE LET b == CHOOSE x \in Unsettled(c) : TRUE
              IN  /\ HandleWithdraw(c, <<b, ent[b].v>>)
                  /\ ent' = Settle(b, "withheld") /\ cl' = cl
    /\ calls' = calls /\ ClientOnly /\ ver' = ver

\* The client's host dies; its call in flight is still carried out.
Die(c) ==
    /\ Trouble
    /\ Running(c)
    /\ cl' = [cl EXCEPT ![c].pc = "dead"]
    /\ UNCHANGED <<TrainButTroubles, ver, ent>>

\* The run is resumed and lands again, some of its branches at a newer commit.
LandAgain(c) ==
    /\ cl[c].pc = "dead" /\ calls[c] = NoCall
    /\ \E moved \in SUBSET {b \in Mine(c) : ver[b] < MaxVersion} :
         /\ ver' = [b \in Branches |-> IF b \in moved THEN ver[b] + 1 ELSE ver[b]]
         /\ hist' = [i \in Ids |-> IF i[1] \in moved /\ i[2] = ver[i[1]] + 1
                                     THEN hist[<<i[1], ver[i[1]]>>] \cup {i} ELSE hist[i]]
    /\ ent' = [b \in Branches |-> IF b \in Mine(c) THEN NoEntry ELSE ent[b]]
    /\ cl' = [cl EXCEPT ![c] = Start]
    /\ UNCHANGED <<target, ref, state, queue, pushed, log, svc, writes, casc, calls, troubles>>

\* The service's crash breaks every connection.
Crash ==
    /\ ServiceCrash /\ Cut(Clients)
    /\ ver' = ver

Init ==
    /\ TrainInit
    /\ ver = [b \in Branches |-> 1] /\ ent = [b \in Branches |-> NoEntry]
    /\ cl = [c \in Clients |-> Start]

ClientStep(c) ==
    \/ Enqueue(c) \/ Enqueued(c) \/ Poll(c) \/ Observe(c) \/ Repair(c) \/ Repaired(c)
    \/ RepairFails(c) \/ Withdraw(c)

ClientSame == UNCHANGED <<ver, ent, cl>>

Next ==
    \/ ServiceStep /\ ClientSame
    \/ JournalWrite /\ ClientSame
    \/ \E h \in Handlers : Cascade(h) /\ ClientSame
    \/ (PassFails \/ GitErrs) /\ ClientSame
    \/ PushAnswerLost /\ ClientSame
    \/ \E o \in Outside : OutsidePush(o) /\ ClientSame
    \/ Crash
    \/ \E c \in Clients : ClientStep(c) \/ Cancel(c) \/ Die(c) \/ LandAgain(c)

\* The service and the clients take their steps, and a submitted append resolves.  The
\* faults, the cancels, the deaths and the pushes of others are nobody's duty.
Fairness ==
    /\ WF_vars(ServiceStep /\ ClientSame)
    /\ WF_vars((JournalWrite \/ \E h \in Handlers : Cascade(h)) /\ ClientSame)
    /\ \A c \in Clients : WF_vars(ClientStep(c) \/ LandAgain(c))

Spec == Init /\ [][Next]_vars /\ Fairness

(***************************************************************************)
(* Properties                                                              *)
(***************************************************************************)
Piece == SUBSET Pieces

\* The shape of the state; the queue holds exactly the entries marked queued.
TypeOK ==
    /\ target \in Piece /\ ref \in [Branches -> 0..MaxVersion]
    /\ hist \in [Ids -> Piece] /\ state \in [Ids -> States]
    /\ queue \in Seq(Ids) /\ Elems(queue) = {i \in Ids : state[i] = "queued"}
    /\ pushed \in Piece \cup {NoTip}
    /\ \A c \in Clients : log[c] \in Seq(Ids \X Told) /\ calls[c] \in Ids \cup {NoCall}
    /\ svc.tip \in Piece \cup {NoTip} /\ svc.todo \in Seq(Ids) /\ svc.batch \in Seq(Ids)
    /\ svc.halves \in Seq(Seq(Ids))
    /\ \A w \in Elems(writes) : w.by \in Handlers /\ w.id \in Ids
    /\ \A h \in Handlers : casc[h] \in Seq(Ids)
    /\ ver \in [Branches -> 1..MaxVersion]
    /\ \A b \in Branches : ent[b].out \in Outcomes /\ ent[b].v \in 0..MaxVersion

\* Whatever the train, its crashes and the pushes of others do to each other, the target
\* only gains commits, and only somebody else's push can leave it failing the checks.
TargetKept ==
    [][ /\ target \subseteq target'
        /\ target' # target /\ Fails(target') => target' \ target \subseteq Outside ]_vars

\* An entry recorded as landed is in the target: the record follows the push, and the
\* refused push of a moved target records nothing.
LandedIsInTarget == \A i \in Ids : state[i] = "landed" => i \in target

\* An entry ejected over a check is to blame for it: the tip it was merged onto passed
\* without it, whoever pushed that tip, and fails with it alone.
BlamedAlone ==
    \A w \in Elems(writes) :
        w.type = "check" => ~Fails(w.tip) /\ Fails(Merged(w.tip, {w.id}))

\* Work reaches the target after the branches it is blocked by.
BlockersLandFirst ==
    \A i \in Ids : i \in target =>
        \A b \in BlockedBy[i[1]] : \E v \in 1..MaxVersion : <<b, v>> \in target

\* The train's state has its shape, what it records as landed is in the target, and the
\* target gets work in the order of its blockers.
TrainSafe == TypeOK /\ LandedIsInTarget /\ BlockersLandFirst

\* A queued entry of the client waits on a blocker that is out of the queue for good.
WaitsOnGone(c) ==
    \E i \in Elems(queue) : Owner[i[1]] = c /\ \E b \in BlockedBy[i[1]] :
        ~LatestLanded(b) /\ \A v \in 1..MaxVersion : <<b, v>> \notin Elems(queue)

\* A landing ends, unless its target stays failing or one of its entries is left waiting
\* on a blocker that will never land.
LandingEnds ==
    \A c \in Clients :
        Running(c) ~> (~Running(c) \/ WaitsOnGone(c) \/ Fails(target))

\* An entry that waits behind a queued blocker leaves the queue, one way or the other,
\* unless the target stays failing: the blocker lands first or takes it along.  (A crash
\* in the middle of taking them along loses the rest, so nothing else may go wrong.)
DependentsLeave ==
    \A e \in Ids : \A g \in {x \in Ids : x[1] \in BlockedBy[e[1]]} :
        (state[e] = "queued" /\ state[g] = "queued")
            ~> (state[e] # "queued" \/ Fails(target) \/ troubles > 0)

\* A push that reached the target while its answer or its record was lost is found there,
\* even when the target fails by then (with no more than a batch of entries ready).
InTargetIsFound ==
    \A i \in Ids : (state[i] = "queued" /\ i \in target) ~> state[i] # "queued"
=============================================================================
