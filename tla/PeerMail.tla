------------------------------ MODULE PeerMail ------------------------------
(***************************************************************************)
(* The durable mailbox and the remote peers it delivers to (mailbox.ts;    *)
(* remote-peer.ts; server.ts; the worker of a remote messaging team in     *)
(* index.ts).  A member sends from within its turn and waits for the lead; *)
(* the lead handles one send at a time, and a waking message is delivered  *)
(* when the peer accepts it as its next turn, behind the turns it has      *)
(* already.  Quiet mail rides in front of the next turn of its addressee.  *)
(*                                                                         *)
(* Messages are numbered as the journal queues them.  An idle clock runs   *)
(* out only when nothing else in the team can move: every other step takes *)
(* far less than its five minutes.                                         *)
(***************************************************************************)
EXTENDS Integers, Sequences, FiniteSets

CONSTANTS
    Peers,
    MaxRestarts,   \* spec.maxMemberRestarts
    MaxMsgs,       \* bound: messages
    MaxDeaths,     \* bound: members that exit or hang
    MaxTroubles    \* bound: appends that fail

ASSUME PeerMailConstants == IsFiniteSet(Peers) /\ MaxRestarts \in Nat /\ MaxMsgs \in Nat

VARIABLES
    msgs,        \* the journal's queued messages: [to, kind]
    delivered,   \* those it says were delivered
    delivering,  \* those reserved by a delivery
    sends,       \* the mailbox's serializer: [from, life, to, kind], the first under way
    phase,       \* of that one: "idle" | "offered" | "ack"
    prelude,     \* the quiet mail it carries
    chain,       \* [Peers -> queued turns: [of, carries]], the first under way or next
    turn,        \* [Peers -> "none" | "busy" | "sending" | "hung"]
    up,          \* [Peers -> BOOLEAN]: its process serves turns
    life,        \* [Peers -> restarts]
    task,        \* [Peers -> its task: "todo" | "asked" | "ack" | "failing" | "done" | "failed"]
    carried,     \* [Peers -> the quiet mail its task's turn carries]
    retried,     \* [Peers -> BOOLEAN]: this task's turn was asked again
    got,         \* [1..MaxMsgs -> times its addressee accepted it]
    deaths, troubles

vars == <<msgs, delivered, delivering, sends, phase, prelude, chain, turn, up, life, task,
          carried, retried, got, deaths, troubles>>

mailVars == <<msgs, delivered, delivering, sends, phase, prelude>>
peerVars == <<chain, turn, up, life>>
workVars == <<task, carried, retried>>

Ids == 1..MaxMsgs
Queued == 1..Len(msgs)
Cur == Len(msgs)     \* the message of the send under way
Now == Head(sends)

\* The filter keeps the mail other deliveries carry, and only that.
QuietForMut(p) ==
    {m \in Queued : msgs[m].to = p /\ msgs[m].kind = "quiet" /\ m \in delivering \ delivered}

\* framePendingQuiet(): queued and not delivered, and not reserved.
QuietFor(p) ==
    {m \in Queued : msgs[m].to = p /\ msgs[m].kind = "quiet" /\ m \notin delivered \cup delivering}

Trouble == troubles < MaxTroubles /\ troubles' = troubles + 1

(***************************************************************************)
(* A member's turn.                                                        *)
(***************************************************************************)
Job(of, carries) == [of |-> of, carries |-> carries]

\* The worker asks its peer: the task, with the quiet mail in front.
Ask(p) ==
    /\ task[p] = "todo"
    /\ \/ /\ up[p]
          /\ carried' = [carried EXCEPT ![p] = QuietFor(p)]
          /\ delivering' = delivering \cup QuietFor(p)
          /\ chain' = [chain EXCEPT ![p] = Append(@, Job("task", QuietFor(p)))]
          /\ task' = [task EXCEPT ![p] = "asked"]
       \/ ~up[p] /\ task' = [task EXCEPT ![p] = "failing"] /\ UNCHANGED <<carried, delivering, chain>>
    /\ UNCHANGED <<msgs, delivered, sends, phase, prelude, turn, up, life, retried, got, deaths,
                   troubles>>

\* The prompt of the next turn is accepted, which is what a delivery waits for.
StartTurn(p) ==
    /\ up[p] /\ turn[p] = "none" /\ chain[p] # <<>>
    /\ turn' = [turn EXCEPT ![p] = "busy"]
    /\ LET job == Head(chain[p])
           reached == job.carries \cup IF job.of = "mail" THEN {Cur} ELSE {}
       IN  /\ got' = [m \in Ids |-> IF m \in reached THEN got[m] + 1 ELSE got[m]]
           /\ phase' = IF job.of = "mail" THEN "ack" ELSE phase
    /\ UNCHANGED <<msgs, delivered, delivering, sends, prelude, chain, up, life, workVars, deaths,
                   troubles>>

\* swarm_send_message: a tool call, which ends when the lead's send does.
Send(p) ==
    /\ turn[p] = "busy" /\ Len(msgs) + Len(sends) < MaxMsgs
    /\ \E to \in Peers, kind \in {"quiet", "wakeup"} :
         sends' = Append(sends, [from |-> p, life |-> life[p], to |-> to, kind |-> kind])
    /\ turn' = [turn EXCEPT ![p] = "sending"]
    /\ UNCHANGED <<msgs, delivered, delivering, phase, prelude, chain, up, life, workVars, got,
                   deaths, troubles>>

EndTurn(p) ==
    /\ turn[p] = "busy" /\ turn' = [turn EXCEPT ![p] = "none"]
    /\ chain' = [chain EXCEPT ![p] = Tail(@)]
    /\ task' = IF Head(chain[p]).of = "task" THEN [task EXCEPT ![p] = "ack"] ELSE task
    /\ UNCHANGED <<mailVars, up, life, carried, retried, got, deaths, troubles>>

(***************************************************************************)
(* The mailbox: one send at a time.                                        *)
(***************************************************************************)
\* The send returns, and its sender, unless it died meanwhile, goes on.
Return ==
    /\ sends' = Tail(sends) /\ phase' = "idle" /\ prelude' = {}
    /\ turn' = IF turn[Now.from] = "sending" /\ life[Now.from] = Now.life
                 THEN [turn EXCEPT ![Now.from] = "busy"] ELSE turn

\* The message is queued in the journal.  A quiet one waits; a waking one is offered to
\* its peer behind the turns it has, with its quiet mail, or refused by a dead one.
Queue ==
    /\ phase = "idle" /\ sends # <<>>
    /\ msgs' = Append(msgs, [to |-> Now.to, kind |-> Now.kind])
    /\ \/ /\ Now.kind = "quiet" \/ ~up[Now.to]
          /\ Return /\ UNCHANGED <<delivering, chain>>
       \/ /\ Now.kind = "wakeup" /\ up[Now.to]
          /\ prelude' = QuietFor(Now.to) /\ delivering' = delivering \cup prelude'
          /\ chain' = [chain EXCEPT ![Now.to] = Append(@, Job("mail", prelude'))]
          /\ phase' = "offered" /\ UNCHANGED <<sends, turn>>
    /\ UNCHANGED <<delivered, up, life, workVars, got, deaths, troubles>>

QueueFails ==
    /\ phase = "idle" /\ sends # <<>> /\ Trouble /\ Return
    /\ UNCHANGED <<msgs, delivered, delivering, chain, up, life, workVars, got, deaths>>

First(S) == CHOOSE m \in S : \A k \in S : m <= k

Unmarked(S) == S \ delivered

\* ack(): the mail it carried is marked delivered one by one and let go; then its own.
AckSend ==
    /\ phase = "ack"
    /\ \/ /\ Unmarked(prelude) # {} /\ delivered' = delivered \cup {First(Unmarked(prelude))}
          /\ UNCHANGED <<delivering, sends, phase, prelude, turn>>
       \/ /\ Unmarked(prelude) = {} /\ delivered' = delivered \cup {Cur}
          /\ delivering' = delivering \ prelude /\ Return
    /\ UNCHANGED <<msgs, chain, up, life, workVars, got, deaths, troubles>>

\* The send fails, and what it carried stays reserved.
AckSendFails ==
    /\ phase = "ack" /\ Trouble /\ Return
    /\ UNCHANGED <<msgs, delivered, delivering, chain, up, life, workVars, got, deaths>>

\* The worker's turn has ended: the mail that rode with it is marked.
AckTask(p) ==
    /\ task[p] = "ack"
    /\ \/ /\ Unmarked(carried[p]) # {} /\ delivered' = delivered \cup {First(Unmarked(carried[p]))}
          /\ UNCHANGED <<delivering, task, carried>>
       \/ /\ Unmarked(carried[p]) = {} /\ task' = [task EXCEPT ![p] = "done"]
          /\ delivering' = delivering \ carried[p] /\ carried' = [carried EXCEPT ![p] = {}]
          /\ UNCHANGED delivered
    /\ UNCHANGED <<msgs, sends, phase, prelude, peerVars, retried, got, deaths, troubles>>

AckTaskFails(p) ==
    /\ task[p] = "ack" /\ Unmarked(carried[p]) # {} /\ Trouble
    /\ task' = [task EXCEPT ![p] = "failing"]
    /\ delivering' = delivering \ carried[p] /\ carried' = [carried EXCEPT ![p] = {}]
    /\ UNCHANGED <<msgs, delivered, sends, phase, prelude, peerVars, retried, got, deaths>>

(***************************************************************************)
(* Deaths and restarts.                                                    *)
(***************************************************************************)
\* The turns of p are rejected: the task's, and a delivery p has not accepted, which
\* release what they carried.
Offered(p) == phase = "offered" /\ Now.to = p

Asked(p) == task[p] = "asked"

\* A delivery that is refused keeps its reservation.
FreedMut(p) == IF Asked(p) THEN carried[p] ELSE {}

Freed(p) == (IF Offered(p) THEN prelude ELSE {}) \cup (IF Asked(p) THEN carried[p] ELSE {})

Fail(p) ==
    /\ up' = [up EXCEPT ![p] = FALSE] /\ chain' = [chain EXCEPT ![p] = <<>>]
    /\ delivering' = delivering \ Freed(p)
    /\ IF Asked(p) THEN task' = [task EXCEPT ![p] = "failing"] /\ carried' = [carried EXCEPT ![p] = {}]
                   ELSE UNCHANGED <<task, carried>>
    /\ IF Offered(p)
         THEN /\ sends' = Tail(sends) /\ phase' = "idle" /\ prelude' = {}
              /\ turn' = [q \in Peers |-> IF q = p THEN "none"
                            ELSE IF q = Now.from /\ turn[q] = "sending" /\ life[q] = Now.life
                              THEN "busy" ELSE turn[q]]
         ELSE turn' = [turn EXCEPT ![p] = "none"] /\ UNCHANGED <<sends, phase, prelude>>
    /\ UNCHANGED <<msgs, delivered, life, retried, got, troubles>>

\* The stream ends: the member's process exited.
Exit(p) == up[p] /\ deaths < MaxDeaths /\ deaths' = deaths + 1 /\ Fail(p)

Hang(p) ==
    /\ turn[p] = "busy" /\ deaths < MaxDeaths /\ deaths' = deaths + 1
    /\ turn' = [turn EXCEPT ![p] = "hung"]
    /\ UNCHANGED <<mailVars, chain, up, life, workVars, got, troubles>>

\* Nothing but an idle clock can move the team.  Each peer has a clock of its own; one that
\* runs out on a silent member while others are at work fails it as a death, which is Exit.
Quiet ==
    /\ \A p \in Peers :
         /\ turn[p] # "busy" /\ (turn[p] = "none" => chain[p] = <<>>)
         /\ task[p] \notin {"todo", "ack", "failing"}
    /\ phase = "offered" \/ (phase = "idle" /\ sends = <<>>)

\* A tool call that is under way holds the clock back.
SilentMut(p) == turn[p] = "hung"

\* No event comes from a member that hangs or waits for its send.
Silent(p) == turn[p] \in {"sending", "hung"}

\* Two idle windows without an event, and nobody says wait: the turn fails as a death.
Stall(p) ==
    /\ Quiet /\ Silent(p)
    /\ Fail(p) /\ UNCHANGED deaths

Restartable(p) == task[p] = "failing" /\ ~retried[p] /\ life[p] < MaxRestarts

\* A failed turn is asked again on its member restarted, once and within its restarts:
\* the old one is closed first, if it did not die ...
Shut(p) == Restartable(p) /\ up[p] /\ Fail(p) /\ UNCHANGED deaths

Restart(p) ==
    /\ Restartable(p) /\ ~up[p]
    /\ task' = [task EXCEPT ![p] = "todo"] /\ retried' = [retried EXCEPT ![p] = TRUE]
    /\ up' = [up EXCEPT ![p] = TRUE] /\ life' = [life EXCEPT ![p] = @ + 1]
    /\ UNCHANGED <<mailVars, chain, turn, carried, got, deaths, troubles>>

\* ... and a worker whose member is not, or does not start again, leaves its task.
Drop(p) ==
    /\ task[p] = "failing" /\ task' = [task EXCEPT ![p] = "failed"]
    /\ UNCHANGED <<mailVars, peerVars, carried, retried, got, deaths, troubles>>

Init ==
    /\ msgs = <<>> /\ delivered = {} /\ delivering = {}
    /\ sends = <<>> /\ phase = "idle" /\ prelude = {}
    /\ chain = [p \in Peers |-> <<>>] /\ turn = [p \in Peers |-> "none"]
    /\ up = [p \in Peers |-> TRUE] /\ life = [p \in Peers |-> 0]
    /\ task = [p \in Peers |-> "todo"] /\ carried = [p \in Peers |-> {}]
    /\ retried = [p \in Peers |-> FALSE]
    /\ got = [m \in Ids |-> 0] /\ deaths = 0 /\ troubles = 0

Step(p) == Ask(p) \/ StartTurn(p) \/ EndTurn(p) \/ AckTask(p) \/ Shut(p) \/ Restart(p) \/ Drop(p)
Mail == Queue \/ AckSend

Next ==
    \/ \E p \in Peers : Step(p) \/ Send(p) \/ Exit(p) \/ Hang(p) \/ Stall(p) \/ AckTaskFails(p)
    \/ Mail \/ QueueFails \/ AckSendFails

\* Each async function goes on, a member that does not hang ends its turn, and an idle
\* clock that is left alone runs out.
Spec ==
    /\ Init /\ [][Next]_vars
    /\ \A p \in Peers : WF_vars(Step(p)) /\ WF_vars(Stall(p))
    /\ WF_vars(Mail)

(***************************************************************************)
(* Properties                                                              *)
(***************************************************************************)
Carried == [p \in Peers |-> IF task[p] \in {"asked", "ack"} THEN carried[p] ELSE {}]

\* The shape of the state; a turn under way is the first of its peer's chain, and the
\* mailbox offers at most the one message it is sending.
TypeOK ==
    /\ delivered \subseteq Queued /\ delivering \subseteq Queued /\ prelude \subseteq Queued
    /\ phase \in {"idle", "offered", "ack"} /\ (phase # "idle" => sends # <<>>)
    /\ \A p \in Peers :
         /\ turn[p] # "none" => up[p] /\ chain[p] # <<>>
         /\ Cardinality({i \in DOMAIN chain[p] : chain[p][i].of = "task"}) <= 1

\* The same quiet mail never rides with two turns at once, a worker's and a message's,
\* which frame it outside each other's locks.
CarriedByOne ==
    \A p, q \in Peers : Carried[p] \cap prelude = {} /\ (p # q => Carried[p] \cap Carried[q] = {})

\* A peer is given a message again only after a fault: a death, a restart or an append
\* that failed.
OncePerFault ==
    LET restarts == Cardinality({p \in Peers : life[p] > 0})
    IN  \A m \in Ids : got[m] <= 1 + deaths + troubles + restarts

\* The journal says "delivered" of nothing the addressee did not accept, and a message
\* held back as being delivered is on its way or accepted: none is stranded.
NothingLost ==
    /\ \A m \in delivered : got[m] > 0
    /\ \A m \in delivering : got[m] > 0 \/ m \in prelude \/ \E p \in Peers : m \in Carried[p]

\* No message is carried twice at once, given oftener than its faults explain, or lost.
MailSafe == TypeOK /\ CarriedByOne /\ OncePerFault /\ NothingLost

\* Every send returns to a member that waits for it, and every task ends, ...
SendsReturn == \A p \in Peers : turn[p] = "sending" ~> turn[p] # "sending"
TasksEnd == <>(\A p \in Peers : task[p] \in {"done", "failed"})

\* ... whoever dies, hangs or waits on whom.
TurnsEnd == SendsReturn /\ TasksEnd

\* A waking message never overtakes quiet mail: when its peer accepts it, no quiet message
\* to that peer is left that the peer was not given, or that its worker's turn holds.
QuietRides ==
    [][\A p \in Peers : Offered(p) /\ phase' = "ack" =>
         \A m \in Queued : msgs[m].to = p /\ msgs[m].kind = "quiet" =>
            got'[m] > 0 \/ m \in delivering]_vars
=============================================================================
