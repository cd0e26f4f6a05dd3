----------------------------- MODULE Questions -----------------------------
(***************************************************************************)
(* A run's question queue (index.ts, ask/answer/endQuestions; foldQuestions *)
(* of run.ts) over the run's journal.  A question is closed by the first   *)
(* of a person's answer, its timeout and the run's end; it is recorded     *)
(* when it opens and when it closes, and its asker goes on once the close  *)
(* is in the journal.  Appends are written one by one, in order.           *)
(*                                                                         *)
(* An answer is "default", the option the question takes when nobody       *)
(* answers, or "other".                                                    *)
(***************************************************************************)
EXTENDS Integers, Sequences, FiniteSets

CONSTANTS
    MaxOpen,     \* options.questions.maxOpen
    Attended,    \* options.questions.timeoutMs > 0
    MaxFaults    \* bound: failed appends and deaths of the lead

ASSUME QuestionsConstants == MaxOpen \in Nat /\ Attended \in BOOLEAN

VARIABLES
    open,      \* the ids of the open questions
    asked,     \* the next id
    ended,     \* the run has settled or was cancelled
    reply,     \* what each asker was given: a sequence of "none", an answer, "error"
    writes,    \* records on their way to the journal
    log,       \* the journal's question records
    troubles, crashes

queueVars == <<open, asked, ended, reply, writes, log, troubles, crashes>>

Answers == {"default", "other"}

\* by: "nobody" | "person" | "cap" (the queue was full).
Opened(q) == [t |-> "open", id |-> q]
Closed(q, a, by) == [t |-> "closed", id |-> q, answer |-> a, by |-> by]

\* ask(), by which a question gets the next id: capped, closed at once when nobody would
\* answer, or left open.
Ask(q) ==
    \/ /\ Cardinality(open) >= MaxOpen
       /\ writes' = Append(writes, Closed(q, "default", "cap")) /\ UNCHANGED open
    \/ /\ Cardinality(open) < MaxOpen /\ (ended \/ ~Attended)
       /\ writes' = writes \o <<Opened(q), Closed(q, "default", "nobody")>> /\ UNCHANGED open
    \/ /\ Cardinality(open) < MaxOpen /\ ~ended /\ Attended
       /\ open' = open \cup {q} /\ writes' = Append(writes, Opened(q))

Raise(q) ==
    /\ q = asked /\ asked' = asked + 1 /\ reply' = Append(reply, "none")
    /\ Ask(q)
    /\ UNCHANGED <<ended, log, troubles, crashes>>

\* The first to close a question takes it out; the others find it gone.
Close(q, a, by) ==
    /\ q \in open /\ open' = open \ {q}
    /\ writes' = Append(writes, Closed(q, a, by))
    /\ UNCHANGED <<asked, ended, reply, log, troubles, crashes>>

Timeout(q) == Close(q, "default", "nobody")
Answer(q, a) == Close(q, a, "person")

\* endQuestions(): the run settles or is cancelled, and each takes its default.
Defaults(Q) == [i \in 1..Cardinality(Q) |->
    Closed(CHOOSE q \in Q : Cardinality({p \in Q : p < q}) = i - 1, "default", "nobody")]

End ==
    /\ ~ended /\ ended' = TRUE /\ open' = {}
    /\ writes' = writes \o Defaults(open)
    /\ UNCHANGED <<asked, reply, log, troubles, crashes>>

IsQuestion(r) == r.t \in {"open", "closed"}

\* What an append settles: the asker of the question it closed.
ReplyAfter(r) ==
    IF r.t = "closed" /\ reply[r.id] = "none" THEN [reply EXCEPT ![r.id] = r.answer] ELSE reply

Write ==
    /\ writes # <<>> /\ writes' = Tail(writes)
    /\ log' = IF IsQuestion(Head(writes)) THEN Append(log, Head(writes)) ELSE log
    /\ reply' = ReplyAfter(Head(writes))
    /\ UNCHANGED <<open, asked, ended, troubles, crashes>>

\* A close that is not recorded leaves its asker waiting.
ReplyFailedMut(r) ==
    IF r.t = "open" /\ reply[r.id] = "none" THEN [reply EXCEPT ![r.id] = "error"] ELSE reply

ReplyFailed(r) ==
    IF IsQuestion(r) /\ reply[r.id] = "none" THEN [reply EXCEPT ![r.id] = "error"] ELSE reply

WriteFails ==
    /\ writes # <<>> /\ writes' = Tail(writes)
    /\ troubles + crashes < MaxFaults /\ troubles' = troubles + 1
    /\ reply' = ReplyFailed(Head(writes))
    /\ UNCHANGED <<open, asked, ended, log, crashes>>

\* foldQuestions(): the last record of each question.
Ids == {log[i].id : i \in DOMAIN log}
FoldOpen == {q \in Ids : \E i \in DOMAIN log : log[i] = Opened(q)
                           /\ \A j \in i + 1..Len(log) : log[j].id # q}

\* A resumed run counts on from the records that close a question.
ResumedIdMut == Cardinality({log[i].id : i \in {j \in DOMAIN log : log[j].t = "closed"}}) + 1

\* asked = foldQuestions(journal.events).size
ResumedId == Cardinality(Ids) + 1

\* The lead dies with what it had not written, and the run is resumed: the old writer's
\* open questions take their defaults and the new one's follow them.
Crash ==
    /\ troubles + crashes < MaxFaults /\ crashes' = crashes + 1
    /\ writes' = <<>> /\ open' = {} /\ ended' = FALSE
    /\ log' = log \o Defaults(FoldOpen)
    /\ asked' = ResumedId
    /\ reply' = [q \in 1..ResumedId - 1 |-> "none"]
    /\ UNCHANGED troubles

QueueInit ==
    /\ open = {} /\ asked = 1 /\ ended = FALSE /\ reply = <<>>
    /\ writes = <<>> /\ log = <<>> /\ troubles = 0 /\ crashes = 0

(***************************************************************************)
(* Properties                                                              *)
(***************************************************************************)
Closings(q) == {i \in DOMAIN log : log[i].id = q /\ log[i].t = "closed"}

\* Whoever closes it, and whenever the lead dies, the journal closes a question once, and
\* says nothing of it after: a reader that saw its answer saw the last of it.  (A failed
\* append and then a death can make a resumed run use an id again.)
QuestionClosedOnce ==
    troubles = 0 \/ crashes = 0 =>
        \A q \in Ids : \A i \in Closings(q) : \A j \in DOMAIN log : log[j].id = q => j <= i

\* The queue does not outrun the person answering it, and a run that ended leaves no
\* question for them.
QueueBounded == Cardinality(open) <= MaxOpen /\ (ended => open = {})
=============================================================================
