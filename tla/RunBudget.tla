----------------------------- MODULE RunBudget -----------------------------
(***************************************************************************)
(* Budgets (budget.ts, BudgetGuard; worktrees.ts, runMember and Slots):    *)
(* the starts of a run's member runs, each admitted by its task's and the  *)
(* run's budget before it waits for a slot and again once it has one.  A   *)
(* scope out of budget asks one question while its starts wait, and is     *)
(* stopped or extended by the answer.                                      *)
(*                                                                         *)
(* One limit per scope, in dollars; a task has one member run at a time.   *)
(***************************************************************************)
EXTENDS Questions

CONSTANTS
    Tasks,
    Budgets,       \* limits a run may be given: [Scopes -> Nat], 0 for none
    SlotCount,     \* worktrees.maxConcurrency
    MaxCost,       \* bound: dollars of a member run
    MaxRuns        \* bound: member runs that ended before one starts

Scopes == Tasks \cup {"run"}

ASSUME RunBudgetConstants ==
    /\ IsFiniteSet(Tasks) /\ "run" \notin Tasks /\ SlotCount \in Nat \ {0}
    /\ MaxCost \in Nat \ {0} /\ Budgets \subseteq [Scopes -> Nat]

VARIABLES
    first, limit,    \* [Scopes -> Nat]: the budget, and the limit now; 0 for none
    stopped,         \* [Scopes -> BOOLEAN]
    pending,         \* [Scopes -> its question: [q, unpriced, said], or NoQuestion]
    spent, unpriced, \* [Scopes -> what the journal says its runs spent, and how many it cannot price]
    st,              \* [Tasks -> where its start is]
    at,              \* [Tasks -> the scope it is checked against]
    queue,           \* starts waiting for a slot
    runs,            \* member runs that ended
    extensions       \* [Scopes -> questions that extended it]

budgetVars == <<first, limit, stopped, pending, spent, unpriced, st, at, queue, runs,
                extensions>>
vars == <<queueVars, budgetVars>>

NoQuestion == [q |-> 0, unpriced |-> FALSE, said |-> FALSE]
InSlot == {"second", "running", "settling"}
Starting == {"first", "queued", "second"}

\* A member run of t is its task's and the run's.
Charged(f, t, n) == [s \in Scopes |-> IF s \in {t, "run"} THEN f[s] + n ELSE f[s]]

Unpriced(s) == limit[s] # 0 /\ unpriced[s] > 0

Over(s) == limit[s] # 0 /\ (Unpriced(s) \/ spent[s] >= limit[s])

\* Slots: a released slot goes straight to the starts waiting longest, which go through
\* both checks again.
Woken(H) == {queue[i] : i \in {j \in DOMAIN queue : j <= Cardinality(H)}}
Released(f, H) == [t \in Tasks |-> IF t \in Woken(H) THEN "second" ELSE f[t]]
Release(f, H) ==
    /\ st' = Released(f, H)
    /\ queue' = SubSeq(queue, Cardinality(H) + 1, Len(queue))
    /\ at' = [t \in Tasks |-> IF t \in Woken(H) THEN t ELSE at[t]]

Holding(T) == {t \in T : st[t] \in InSlot}

SlotFree == Cardinality(Holding(Tasks)) < SlotCount

(***************************************************************************)
(* The starts.                                                             *)
(***************************************************************************)
Begin(t) ==
    /\ st[t] = "idle" /\ runs < MaxRuns
    /\ st' = [st EXCEPT ![t] = "first"] /\ at' = [at EXCEPT ![t] = t]
    /\ UNCHANGED <<queueVars, first, limit, stopped, pending, spent, unpriced, queue, runs,
                   extensions>>

\* A start whose task or run is stopped: its task is abandoned, and on a run's stop every
\* task not started with it.  (A start that waited for the answer reads it once that is
\* recorded, a new one at once; here either may do both.)
Refuse(t) ==
    /\ st[t] \in {"first", "second"} /\ stopped[at[t]]
    /\ Release([u \in Tasks |-> IF u = t \/ (at[t] = "run" /\ st[u] = "idle") THEN "abandoned"
                                ELSE st[u]], Holding({t}))
    /\ UNCHANGED <<queueVars, first, limit, stopped, pending, spent, unpriced, runs, extensions>>

\* A start that waited for the answer does not look at it.
FreeMut(t) == st[t] \in {"first", "second"} /\ pending[at[t]] = NoQuestion

Free(t) == st[t] \in {"first", "second"} /\ ~stopped[at[t]] /\ pending[at[t]] = NoQuestion

\* check(): out of budget, the scope's one question.
AskBudget(t) ==
    /\ Free(t) /\ Over(at[t])
    /\ Raise(asked)
    /\ pending' = [pending EXCEPT ![at[t]] = [q |-> asked, unpriced |-> Unpriced(at[t]), said |-> FALSE]]
    /\ UNCHANGED <<first, limit, stopped, spent, unpriced, st, at, queue, runs, extensions>>

\* check() passes: the run's budget after the task's, a slot after both, and the member
\* run after both again.
Admit(t) ==
    /\ Free(t) /\ ~Over(at[t])
    /\ \/ at[t] # "run" /\ at' = [at EXCEPT ![t] = "run"] /\ UNCHANGED <<st, queue>>
       \/ /\ at[t] = "run" /\ st[t] = "first"
          /\ \/ /\ SlotFree
                /\ st' = [st EXCEPT ![t] = "second"] /\ at' = [at EXCEPT ![t] = t]
                /\ UNCHANGED queue
             \/ /\ ~SlotFree
                /\ st' = [st EXCEPT ![t] = "queued"] /\ queue' = Append(queue, t)
                /\ UNCHANGED at
       \/ at[t] = "run" /\ st[t] = "second" /\ st' = [st EXCEPT ![t] = "running"]
          /\ UNCHANGED <<at, queue>>
    /\ UNCHANGED <<queueVars, first, limit, stopped, pending, spent, unpriced, runs, extensions>>

\* The member run ends, its slot held until its usage is in the journal.
Settle(t) ==
    /\ st[t] = "running" /\ st' = [st EXCEPT ![t] = "settling"]
    /\ \E cost \in 0..MaxCost :   \* 0: reported no dollars, and has no price
         writes' = Append(writes, [t |-> "usage", task |-> t, cost |-> cost])
    /\ UNCHANGED <<open, asked, ended, reply, log, troubles, crashes>>
    /\ UNCHANGED <<first, limit, stopped, pending, spent, unpriced, at, queue, runs, extensions>>

(***************************************************************************)
(* The question's answer.                                                  *)
(***************************************************************************)
Answered(s) == pending[s] # NoQuestion /\ ~pending[s].said /\ reply[pending[s].q] # "none"

Extended(s) == IF pending[s].unpriced THEN 0 ELSE limit[s] + first[s]

Extends(s) == reply[pending[s].q] = "other"

\* decide(): extended by a person, else stopped, an ask that failed included; then recorded.
Decide(s) ==
    /\ Answered(s)
    /\ \/ /\ Extends(s)
          /\ limit' = [limit EXCEPT ![s] = Extended(s)]
          /\ extensions' = [extensions EXCEPT ![s] = @ \cup {pending[s].q}]
          /\ UNCHANGED stopped
       \/ /\ ~Extends(s)
          /\ stopped' = [stopped EXCEPT ![s] = TRUE] /\ UNCHANGED <<limit, extensions>>
    /\ writes' = Append(writes, [t |-> "budget", scope |-> s])
    /\ pending' = [pending EXCEPT ![s].said = TRUE]
    /\ UNCHANGED <<open, asked, ended, reply, log, troubles, crashes>>
    /\ UNCHANGED <<first, spent, unpriced, st, at, queue, runs>>

\* The record of the decision lets the scope's starts on; a usage ends its member run.
BudgetWrite ==
    /\ Write
    /\ LET r == Head(writes)
       IN  \/ /\ IsQuestion(r)
              /\ UNCHANGED <<pending, spent, unpriced, st, at, queue, runs>>
           \/ /\ r.t = "budget" /\ pending' = [pending EXCEPT ![r.scope] = NoQuestion]
              /\ UNCHANGED <<spent, unpriced, st, at, queue, runs>>
           \/ /\ r.t = "usage"
              /\ spent' = Charged(spent, r.task, r.cost)
              /\ unpriced' = Charged(unpriced, r.task, IF r.cost = 0 THEN 1 ELSE 0)
              /\ runs' = runs + 1
              /\ Release([st EXCEPT ![r.task] = "idle"], {r.task})
              /\ UNCHANGED pending
    /\ UNCHANGED <<first, limit, stopped, extensions>>

\* A write that fails fails the starts that wait for it: the scope's, or the usage's.
BudgetWriteFails ==
    /\ WriteFails
    /\ LET r == Head(writes)
           failed == IF r.t = "budget" THEN {t \in Tasks : st[t] \in {"first", "second"} /\ at[t] = r.scope}
                     ELSE IF r.t = "usage" THEN {r.task} ELSE {}
       IN  /\ pending' = IF r.t = "budget" THEN [pending EXCEPT ![r.scope] = NoQuestion] ELSE pending
           /\ runs' = runs + Cardinality(failed)
           /\ Release([t \in Tasks |-> IF t \in failed THEN "idle" ELSE st[t]], Holding(failed))
    /\ UNCHANGED <<first, limit, stopped, spent, unpriced, extensions>>

(***************************************************************************)
(* The rest of the run.                                                    *)
(***************************************************************************)
Elsewhere == UNCHANGED budgetVars

\* A resumed run has its first budgets again, and what its journal says was spent.
Resume ==
    /\ Crash
    /\ limit' = first /\ stopped' = [s \in Scopes |-> FALSE]
    /\ pending' = [s \in Scopes |-> NoQuestion]
    /\ st' = [t \in Tasks |-> "idle"] /\ at' = [t \in Tasks |-> t] /\ queue' = <<>>
    /\ extensions' = [s \in Scopes |-> {}]
    /\ UNCHANGED <<first, spent, unpriced, runs>>

Init ==
    /\ QueueInit
    /\ first \in Budgets /\ limit = first
    /\ stopped = [s \in Scopes |-> FALSE] /\ pending = [s \in Scopes |-> NoQuestion]
    /\ spent = [s \in Scopes |-> 0] /\ unpriced = [s \in Scopes |-> 0]
    /\ st = [t \in Tasks |-> "idle"] /\ at = [t \in Tasks |-> t] /\ queue = <<>>
    /\ runs = 0 /\ extensions = [s \in Scopes |-> {}]

Progress(t) == Refuse(t) \/ AskBudget(t) \/ Admit(t) \/ Settle(t)
TimeOut == \E q \in open : Timeout(q) /\ Elsewhere

Next ==
    \/ \E t \in Tasks : Begin(t) \/ Progress(t)
    \/ \E s \in Scopes : Decide(s)
    \/ BudgetWrite \/ BudgetWriteFails
    \/ TimeOut
    \/ \E q \in open, a \in Answers : Answer(q, a) /\ Elsewhere
    \/ End /\ Elsewhere
    \/ Resume

\* A member run ends, an append is written or fails, a continuation runs and a timer
\* fires.  Nothing says that a person answers.
Spec ==
    /\ Init /\ [][Next]_vars
    /\ \A t \in Tasks : WF_vars(Progress(t))
    /\ \A s \in Scopes : WF_vars(Decide(s))
    /\ WF_vars(BudgetWrite) /\ WF_vars(TimeOut)

(***************************************************************************)
(* Properties                                                              *)
(***************************************************************************)
\* The shape of the state; never more member runs than slots.
TypeOK ==
    /\ open \subseteq 1..asked - 1 /\ Len(reply) = asked - 1
    /\ limit \in [Scopes -> Nat] /\ stopped \in [Scopes -> BOOLEAN]
    /\ st \in [Tasks -> Starting \cup InSlot \cup {"idle", "abandoned"}]
    /\ at \in [Tasks -> Scopes] /\ Cardinality(Holding(Tasks)) <= SlotCount

\* A start that waited, for a budget's answer or for a slot, does not run once its task
\* or its run was stopped meanwhile.
NoRunPastStop ==
    [][\A t \in Tasks : st'[t] = "running" /\ st[t] # "running" => ~stopped[t] /\ ~stopped["run"]]_vars

\* "A scope overshoots by at most its runs in flight": what was spent, and may yet be by
\* the runs under way, stays below the limit but for one run to each slot.
OvershootBounded ==
    limit["run"] # 0 /\ crashes = 0 =>
        spent["run"] + MaxCost * Cardinality({t \in Tasks : st[t] \in {"running", "settling"}})
            < limit["run"] + MaxCost * SlotCount

\* Only a person spends more: every extension was answered so, by a person and not by a
\* timeout, a full queue or the run's end, and the journal holds that answer.
ExtendedByPerson ==
    \A s \in Scopes : \A q \in extensions[s] :
        \E i \in DOMAIN log : log[i] = Closed(q, "other", "person")

\* The run's budget and its questions: within their bounds, closed once, and extended by
\* a person only.
BudgetSafe ==
    TypeOK /\ QueueBounded /\ QuestionClosedOnce /\ OvershootBounded /\ ExtendedByPerson

\* Every start is let on or refused in the end, with nobody answering and each slot held
\* by a start that waits for an answer.
StartsDecided == \A t \in Tasks : st[t] \in Starting ~> st[t] \notin Starting
=============================================================================
