--------------------------- MODULE PeerMailProofs ---------------------------
(***************************************************************************)
(* Theorems about PeerMail, for any team, mail, deaths and failures: no    *)
(* message is lost, called delivered when it was not, or given again       *)
(* without a fault, and none overtakes the quiet mail before it.           *)
(***************************************************************************)
EXTENDS PeerMail, FiniteSetTheorems, SequenceTheorems, WellFoundedInduction, TLAPS

(***************************************************************************)
(* The inductive invariant                                                 *)
(***************************************************************************)
Kinds == {"quiet", "wakeup"}
Message == [to : Peers, kind : Kinds]
Sending == [from : Peers, life : Nat, to : Peers, kind : Kinds]
Turn == [of : {"task", "mail"}, carries : SUBSET Ids]
TurnStates == {"none", "busy", "sending", "hung"}
TaskStates == {"todo", "asked", "ack", "failing", "done", "failed"}

MailTypes ==
    /\ msgs \in Seq(Message) /\ sends \in Seq(Sending)
    /\ delivered \subseteq Queued /\ delivering \subseteq Queued /\ prelude \subseteq Queued
    /\ phase \in {"idle", "offered", "ack"}
    /\ got \in [Ids -> Nat] /\ deaths \in Nat /\ troubles \in Nat

PeerTypes ==
    /\ chain \in [Peers -> Seq(Turn)] /\ turn \in [Peers -> TurnStates]
    /\ up \in [Peers -> BOOLEAN] /\ life \in [Peers -> Nat]
    /\ task \in [Peers -> TaskStates] /\ carried \in [Peers -> SUBSET Ids]
    /\ retried \in [Peers -> BOOLEAN]

\* The message of the send under way is the journal's last.
Serialized ==
    /\ phase # "idle" => sends # <<>> /\ msgs # <<>> /\ msgs[Cur] = [to |-> Now.to, kind |-> "wakeup"]
    /\ phase = "idle" => prelude = {}
    /\ Len(msgs) + Len(sends) <= MaxMsgs + (IF phase = "idle" THEN 0 ELSE 1)

QuietTo(m, p) == msgs[m].to = p /\ msgs[m].kind = "quiet"

\* What a turn carries is quiet mail to its peer, reserved for it alone.
Reserved ==
    /\ prelude \subseteq delivering /\ \A m \in prelude : QuietTo(m, Now.to)
    /\ \A p \in Peers :
         /\ carried[p] \subseteq delivering /\ \A m \in carried[p] : QuietTo(m, p)
         /\ task[p] \notin {"asked", "ack"} => carried[p] = {}
         /\ carried[p] \cap prelude = {}

\* A turn of p's chain that its peer has not accepted.
Unaccepted(p, i) == i \in DOMAIN chain[p] /\ (i # 1 \/ turn[p] = "none")

IsMail(p, i) == chain[p][i].of = "mail"

\* A chain has its worker's task at most once, and the message on offer.
ChainOf(p) ==
    /\ turn[p] # "none" => up[p] /\ chain[p] # <<>>
    /\ \A i \in DOMAIN chain[p] : ~IsMail(p, i) => task[p] = "asked" /\ chain[p][i].carries = carried[p]
    /\ \A i, j \in DOMAIN chain[p] : ~IsMail(p, i) /\ ~IsMail(p, j) => i = j
    /\ \A i \in DOMAIN chain[p] : Unaccepted(p, i) /\ IsMail(p, i) =>
         Offered(p) /\ chain[p][i].carries = prelude
    /\ \A i, j \in DOMAIN chain[p] :
         Unaccepted(p, i) /\ Unaccepted(p, j) /\ IsMail(p, i) /\ IsMail(p, j) => i = j

Chained == \A p \in Peers : ChainOf(p)

\* What its peer accepted, and is being marked or will be when its turn ends.
Accepted ==
    /\ phase = "ack" => \A m \in prelude \cup {Cur} : got[m] > 0
    /\ \A p \in Peers : \A m \in carried[p] :
         \/ task[p] = "ack"
         \/ turn[p] # "none" /\ ~IsMail(p, 1)
         => got[m] > 0
    /\ \A m \in Ids : m \notin Queued => got[m] = 0

\* A peer is restarted once.
RestartedOnce == \A p \in Peers : retried[p] <=> life[p] > 0

\* What a peer that is up may still be given: what its turns bring, and its quiet mail.
Brings(p, i) == chain[p][i].carries \cup IF IsMail(p, i) THEN {Cur} ELSE {}

Pending(p, m) ==
    /\ msgs[m].to = p /\ up[p]
    /\ \/ \E i \in DOMAIN chain[p] : Unaccepted(p, i) /\ m \in Brings(p, i)
       \/ msgs[m].kind = "quiet" /\ m \notin delivering /\ m \notin delivered

Restarted == {p \in Peers : life[p] > 0}
Faults == 1 + deaths + troubles + Cardinality(Restarted)

\* ... which is once more, and no more than its faults explain.
Explained ==
    \A m \in Queued : got[m] <= Faults /\ \A p \in Peers : Pending(p, m) => got[m] + 1 <= Faults

\* Behind an offered message no quiet mail waits.
Swept ==
    phase = "offered" => \A m \in Queued : QuietTo(m, Now.to) => m \in delivering \/ got[m] > 0

IInv ==
    /\ MailTypes /\ PeerTypes /\ Serialized /\ Reserved /\ Chained /\ Accepted /\ RestartedOnce
    /\ Explained /\ Swept /\ NothingLost

(***************************************************************************)
(* What the steps share                                                    *)
(***************************************************************************)
\* The messages are numbered within the bound, and the last is the one being sent.
LEMMA Facts ==
    ASSUME MailTypes, Serialized
    PROVE  /\ Len(msgs) \in Nat /\ DOMAIN msgs = Queued /\ Queued \subseteq Ids
           /\ \A m \in Queued : msgs[m].to \in Peers /\ msgs[m].kind \in Kinds /\ got[m] \in Nat
           /\ phase # "idle" =>
                Cur \in Queued /\ msgs[Cur].to = Now.to /\ msgs[Cur].kind = "wakeup" /\ sends # <<>>
           /\ sends # <<>> => Now \in Sending /\ Now.to \in Peers /\ Now.from \in Peers
<1>1. msgs \in Seq(Message) /\ sends \in Seq(Sending) /\ got \in [Ids -> Nat]
  BY DEF MailTypes
<1>2. PICK n \in Nat : n = Len(msgs) /\ DOMAIN msgs = 1..n
  BY <1>1
<1>3. PICK k \in Nat : k = Len(sends)
  BY <1>1
<1>4. k = 0 => sends = <<>>
  BY <1>1, <1>3, EmptySeq
<1>5. n <= MaxMsgs
  <2>1. n + k <= MaxMsgs + (IF phase = "idle" THEN 0 ELSE 1)
    BY <1>2, <1>3 DEF Serialized
  <2>2. phase # "idle" => k # 0
    BY <1>4 DEF Serialized
  <2> QED  BY <2>1, <2>2, PeerMailConstants
<1>6. Queued = 1..n /\ Queued \subseteq Ids
  <2>1. 1..n \subseteq 1..MaxMsgs
    BY <1>5, PeerMailConstants
  <2> QED  BY <1>2, <2>1 DEF Queued, Ids
<1>7. \A m \in Queued : msgs[m].to \in Peers /\ msgs[m].kind \in Kinds /\ got[m] \in Nat
  <2>1. \A m \in Queued : msgs[m] \in Message
    BY <1>1, <1>2, <1>6
  <2>2. \A x \in Message : x.to \in Peers /\ x.kind \in Kinds
    BY DEF Message
  <2>3. \A m \in Ids : got[m] \in Nat
    BY <1>1
  <2> QED  BY <1>6, <2>1, <2>2, <2>3
<1>8. phase # "idle" =>
        Cur \in Queued /\ msgs[Cur].to = Now.to /\ msgs[Cur].kind = "wakeup" /\ sends # <<>>
  <2> SUFFICES ASSUME phase # "idle"
               PROVE  Cur \in Queued /\ msgs[Cur].to = Now.to /\ msgs[Cur].kind = "wakeup"
                      /\ sends # <<>>
    OBVIOUS
  <2>1. msgs # <<>> /\ msgs[Cur] = [to |-> Now.to, kind |-> "wakeup"] /\ sends # <<>>
    BY DEF Serialized
  <2>2. n # 0
    BY <1>1, <1>2, <2>1
  <2>3. n \in 1..n
    BY <2>2
  <2> QED  BY <1>2, <1>6, <2>1, <2>3 DEF Cur
<1>9. sends # <<>> => Now \in Sending /\ Now.to \in Peers /\ Now.from \in Peers
  <2>1. sends # <<>> => Now \in Sending
    BY <1>1 DEF Now
  <2> QED  BY <2>1 DEF Sending
<1> QED  BY <1>2, <1>6, <1>7, <1>8, <1>9

\* The send under way returns.
LEMMA Returned ==
    ASSUME MailTypes, PeerTypes, Serialized, sends # <<>>, Return
    PROVE  /\ sends' \in Seq(Sending) /\ Len(sends) \in Nat /\ Len(sends') = Len(sends) - 1
           /\ turn' \in [Peers -> TurnStates] /\ phase' = "idle" /\ prelude' = {}
           /\ \A p \in Peers : turn'[p] = "none" <=> turn[p] = "none"
<1>1. sends \in Seq(Sending) /\ Now \in Sending /\ Now.from \in Peers
  BY Facts DEF MailTypes
<1>2. sends' \in Seq(Sending) /\ Len(sends) \in Nat /\ Len(sends') = Len(sends) - 1
  BY <1>1 DEF Return
<1>3. turn \in [Peers -> TurnStates] /\ "busy" \in TurnStates
  BY DEF PeerTypes, TurnStates
<1>4. CASE turn' = turn
  BY <1>2, <1>3, <1>4 DEF Return
<1>5. CASE turn[Now.from] = "sending" /\ turn' = [turn EXCEPT ![Now.from] = "busy"]
  BY <1>1, <1>2, <1>3, <1>5 DEF Return
<1> QED  BY <1>4, <1>5 DEF Return

\* The faults so far.
LEMMA FaultsAre ==
    ASSUME MailTypes, PeerTypes
    PROVE  Faults \in Nat /\ IsFiniteSet(Restarted) /\ Cardinality(Restarted) \in Nat
<1>1. Restarted \subseteq Peers
  BY DEF Restarted
<1>2. IsFiniteSet(Restarted)
  BY <1>1, PeerMailConstants, FS_Subset
<1>3. Cardinality(Restarted) \in Nat
  BY <1>2, FS_CardinalityType
<1> QED  BY <1>2, <1>3 DEF Faults, MailTypes

\* They grow with each death and each append that fails.
LEMMA FaultsGrow ==
    ASSUME MailTypes, PeerTypes, life' = life, deaths' \in {deaths, deaths + 1},
           troubles' \in {troubles, troubles + 1}
    PROVE  /\ Faults' \in Nat /\ Faults <= Faults'
           /\ troubles' = troubles + 1 => Faults < Faults'
<1>1. Restarted' = Restarted
  BY DEF Restarted
<1>2. Cardinality(Restarted) \in Nat
  BY FaultsAre
<1> DEFINE c == Cardinality(Restarted)
           d == deaths'
           t == troubles'
<1>3. Faults' = 1 + d + t + c /\ Faults = 1 + deaths + troubles + c
  BY <1>1 DEF Faults
<1>4. /\ c \in Nat /\ deaths \in Nat /\ troubles \in Nat
      /\ d \in {deaths, deaths + 1} /\ t \in {troubles, troubles + 1}
  BY <1>2 DEF MailTypes
<1> HIDE DEF c, d, t
<1> DEFINE F == 1 + d + t + c
<1>5. /\ F \in Nat /\ 1 + deaths + troubles + c <= F
      /\ t = troubles + 1 => 1 + deaths + troubles + c < F
  BY <1>4
<1> HIDE DEF F
<1>6. Faults' = F
  BY <1>3 DEF F
<1> QED  BY <1>3, <1>5, <1>6 DEF t

\* Nothing is given, and what may be given now might be before, unless a fault explains it.
LEMMA StillExplained ==
    ASSUME MailTypes, PeerTypes, Serialized, Explained, msgs' = msgs, got' = got,
           Faults' \in Nat, Faults <= Faults',
           \A m \in Queued, p \in Peers : Pending(p, m)' => Pending(p, m) \/ Faults < Faults'
    PROVE  Explained'
<1> DEFINE F == Faults'
<1>1. Queued' = Queued
  BY DEF Queued
<1>2. Faults \in Nat /\ F \in Nat /\ Faults <= F /\ \A m \in Queued : got[m] \in Nat
  BY Facts, FaultsAre
<1>3. \A m \in Queued, p \in Peers : Pending(p, m)' => Pending(p, m) \/ Faults < F
  OBVIOUS
<1> HIDE DEF F
<1>4. \A m \in Queued : got[m] <= F
  BY <1>2 DEF Explained
<1>5. ASSUME NEW m \in Queued, NEW p \in Peers, Pending(p, m)' PROVE got[m] + 1 <= F
  <2>1. got[m] <= Faults /\ (Pending(p, m) => got[m] + 1 <= Faults) /\ got[m] \in Nat
    BY <1>2 DEF Explained
  <2>2. Pending(p, m) \/ Faults < F
    BY <1>3, <1>5
  <2> QED  BY <1>2, <2>1, <2>2
<1> QED  BY <1>1, <1>4, <1>5 DEF Explained, F

\* A chain stays, and which of its turns are accepted.
LEMMA SameChain ==
    ASSUME NEW p \in Peers, ChainOf(p), chain'[p] = chain[p],
           turn'[p] = "none" <=> turn[p] = "none", turn[p] # "none" => up'[p],
           task[p] = "asked" => task'[p] = "asked" /\ carried'[p] = carried[p],
           Offered(p) => Offered(p)' /\ prelude' = prelude
    PROVE  ChainOf(p)' /\ \A i : Unaccepted(p, i)' <=> Unaccepted(p, i)
<1>1. \A i : Unaccepted(p, i)' <=> Unaccepted(p, i)
  BY DEF Unaccepted
<1>2. \A i \in DOMAIN chain[p] : IsMail(p, i)' <=> IsMail(p, i)
  BY DEF IsMail
<1>3. turn'[p] # "none" => up'[p] /\ chain'[p] # <<>>
  BY DEF ChainOf
<1>4. \A i \in DOMAIN chain[p] : ~IsMail(p, i) =>
        task'[p] = "asked" /\ chain[p][i].carries = carried'[p]
  BY DEF ChainOf
<1>5. \A i \in DOMAIN chain[p] : Unaccepted(p, i) /\ IsMail(p, i) =>
        Offered(p)' /\ chain[p][i].carries = prelude'
  BY DEF ChainOf
<1>6. /\ \A i, j \in DOMAIN chain[p] : ~IsMail(p, i) /\ ~IsMail(p, j) => i = j
      /\ \A i, j \in DOMAIN chain[p] :
           Unaccepted(p, i) /\ Unaccepted(p, j) /\ IsMail(p, i) /\ IsMail(p, j) => i = j
  BY DEF ChainOf
<1> QED  BY <1>1, <1>2, <1>3, <1>4, <1>5, <1>6 DEF ChainOf

\* The same of all chains.
LEMMA SameChains ==
    ASSUME Chained, chain' = chain,
           \A p \in Peers : turn'[p] = "none" <=> turn[p] = "none",
           \A p \in Peers : up[p] => up'[p],
           \A p \in Peers : task[p] = "asked" => task'[p] = "asked" /\ carried'[p] = carried[p],
           \A p \in Peers : Offered(p) => Offered(p)' /\ prelude' = prelude
    PROVE  /\ Chained'
           /\ \A p \in Peers : \A i : Unaccepted(p, i)' <=> Unaccepted(p, i)
<1>1. ASSUME NEW p \in Peers
      PROVE  ChainOf(p)' /\ \A i : Unaccepted(p, i)' <=> Unaccepted(p, i)
  <2>1. ChainOf(p) /\ (turn[p] # "none" => up'[p])
    BY DEF Chained, ChainOf
  <2> QED  BY <2>1, SameChain
<1> QED  BY <1>1 DEF Chained

\* Then a peer is given nothing that it might not have been given before.
LEMMA SamePending ==
    ASSUME MailTypes, Serialized, chain' = chain, msgs' = msgs,
           \A p \in Peers : \A i : Unaccepted(p, i)' <=> Unaccepted(p, i),
           \A p \in Peers : up'[p] => up[p],
           \A m \in delivering \cup delivered : m \in delivering' \cup delivered'
    PROVE  \A m \in Queued, p \in Peers : Pending(p, m)' => Pending(p, m)
<1> SUFFICES ASSUME NEW m \in Queued, NEW p \in Peers, Pending(p, m)' PROVE Pending(p, m)
  OBVIOUS
<1>1. \A i : Brings(p, i)' = Brings(p, i)
  BY DEF Brings, IsMail, Cur
<1>2. /\ msgs[m].to = p /\ up'[p]
      /\ \/ \E i \in DOMAIN chain[p] : Unaccepted(p, i)' /\ m \in Brings(p, i)'
         \/ msgs[m].kind = "quiet" /\ m \notin delivering' /\ m \notin delivered'
  BY DEF Pending
<1> QED  BY <1>1, <1>2 DEF Pending

(***************************************************************************)
(* Each step keeps the invariant: the members                              *)
(***************************************************************************)
\* The parts of the invariant that only name the mailbox's state and what was given.
LEMMA SameMail ==
    ASSUME IInv, UNCHANGED <<msgs, delivered, delivering, phase, prelude, got>>,
           \A p \in Peers : carried'[p] = carried[p] /\ (task'[p] \in {task[p], "ack"} \/ carried[p] = {}),
           phase # "idle" => sends # <<>> /\ sends' # <<>> /\ Now' = Now
    PROVE  Reserved' /\ Swept' /\ NothingLost'
<1>1. \A p \in Peers : task'[p] \notin {"asked", "ack"} => carried'[p] = {}
  BY DEF IInv, Reserved
<1>2. phase = "idle" => prelude = {}
  BY DEF IInv, Serialized
<1>3. Reserved'
  BY <1>1, <1>2 DEF IInv, Reserved, QuietTo
<1>4. Swept'
  BY DEF IInv, Swept, Queued, QuietTo
<1>5. \A p \in Peers : \A m \in Carried[p] : m \in Carried'[p]
  BY DEF Carried
<1>6. NothingLost'
  BY <1>5 DEF IInv, NothingLost
<1> QED  BY <1>3, <1>4, <1>6

\* A member sends from within its turn.
LEMMA SendKeeps ==
    ASSUME IInv, NEW p \in Peers, Send(p)
    PROVE  IInv'
<1>1. PICK to \in Peers, kind \in Kinds :
        /\ turn[p] = "busy" /\ Len(msgs) + Len(sends) < MaxMsgs
        /\ sends' = Append(sends, [from |-> p, life |-> life[p], to |-> to, kind |-> kind])
        /\ turn' = [turn EXCEPT ![p] = "sending"]
        /\ UNCHANGED <<msgs, delivered, delivering, phase, prelude, chain, up, life, workVars, got,
                       deaths, troubles>>
  BY DEF Send, Kinds
<1>2. task' = task /\ carried' = carried /\ retried' = retried
  BY <1>1 DEF workVars
<1> DEFINE x == [from |-> p, life |-> life[p], to |-> to, kind |-> kind]
<1>3. /\ sends \in Seq(Sending) /\ x \in Sending /\ Len(sends) \in Nat /\ Len(msgs) \in Nat
      /\ turn \in [Peers -> TurnStates] /\ "sending" \in TurnStates
  BY DEF IInv, MailTypes, PeerTypes, Sending, TurnStates
<1>4. sends' = Append(sends, x)
  BY <1>1
<1> HIDE DEF x
<1>5. /\ sends' \in Seq(Sending) /\ Len(sends') = Len(sends) + 1 /\ sends' # <<>>
      /\ sends # <<>> => Now' = Now
  <2>1. sends' \in Seq(Sending) /\ Len(sends') = Len(sends) + 1
    BY <1>3, <1>4
  <2>2. sends' # <<>>
    BY <1>3, <1>4
  <2>3. sends # <<>> => Head(sends') = Head(sends)
    BY <1>3, <1>4
  <2> QED  BY <2>1, <2>2, <2>3 DEF Now
<1>6. /\ turn' \in [Peers -> TurnStates]
      /\ \A q \in Peers : turn'[q] = "none" <=> turn[q] = "none"
  BY <1>1, <1>3
<1>7. MailTypes' /\ PeerTypes'
  BY <1>1, <1>2, <1>5, <1>6 DEF IInv, MailTypes, PeerTypes, Queued
<1>8. Serialized'
  <2>1. Len(msgs') + Len(sends') <= MaxMsgs + (IF phase' = "idle" THEN 0 ELSE 1)
    BY <1>1, <1>3, <1>5, PeerMailConstants
  <2> QED  BY <1>1, <1>5, <2>1 DEF IInv, Serialized, Cur
<1>9. phase # "idle" => sends # <<>> /\ sends' # <<>> /\ Now' = Now
  BY <1>5 DEF IInv, Serialized
<1>10. Reserved' /\ Swept' /\ NothingLost'
  BY <1>1, <1>2, <1>9, SameMail
<1>11. Chained' /\ \A q \in Peers : \A i : Unaccepted(q, i)' <=> Unaccepted(q, i)
  <2>1. \A q \in Peers : Offered(q) => Offered(q)' /\ prelude' = prelude
    BY <1>1, <1>9 DEF Offered
  <2> QED  BY <1>1, <1>2, <1>6, <2>1, SameChains DEF IInv
<1>12. Accepted'
  BY <1>1, <1>2, <1>6 DEF IInv, Accepted, IsMail, Queued, Cur
<1>13. RestartedOnce'
  BY <1>1, <1>2 DEF IInv, RestartedOnce
<1>14. Explained'
  <2>1. \A m \in Queued, q \in Peers : Pending(q, m)' => Pending(q, m)
    BY <1>1, <1>11, SamePending DEF IInv
  <2>2. Faults' \in Nat /\ Faults <= Faults'
    BY <1>1, FaultsGrow DEF IInv
  <2> QED  BY <1>1, <2>1, <2>2, StillExplained DEF IInv
<1> QED
  BY <1>7, <1>8, <1>10, <1>11, <1>12, <1>13, <1>14 DEF IInv

\* Steps of the workers and of a member's clock that touch no mail and no turn's place.
LEMMA WorkerKeeps ==
    ASSUME IInv, UNCHANGED <<mailVars, chain, up, life, carried, retried, got, troubles>>,
           deaths' \in {deaths, deaths + 1},
           turn' \in [Peers -> TurnStates], task' \in [Peers -> TaskStates],
           \A q \in Peers : turn'[q] = "none" <=> turn[q] = "none",
           \A q \in Peers : task'[q] = task[q] \/
             (task[q] \in {"todo", "failing"} /\ task'[q] \notin {"asked", "ack"})
    PROVE  IInv'
<1>1. UNCHANGED <<msgs, delivered, delivering, sends, phase, prelude>>
  BY DEF mailVars
<1>2. MailTypes' /\ PeerTypes' /\ Serialized' /\ RestartedOnce'
  BY <1>1 DEF IInv, MailTypes, PeerTypes, Serialized, RestartedOnce, Queued, Cur, Now
<1>3. \A q \in Peers : task'[q] = task[q] \/ carried[q] = {}
  BY DEF IInv, Reserved
<1>4. Reserved' /\ Swept' /\ NothingLost'
  <2>1. phase # "idle" => sends # <<>> /\ sends' # <<>> /\ Now' = Now
    BY <1>1 DEF IInv, Serialized, Now
  <2> QED  BY <1>1, <1>3, <2>1, SameMail
<1>5. Chained' /\ \A q \in Peers : \A i : Unaccepted(q, i)' <=> Unaccepted(q, i)
  <2>1. \A q \in Peers : Offered(q) => Offered(q)' /\ prelude' = prelude
    BY <1>1 DEF Offered, Now
  <2>2. \A q \in Peers : task[q] = "asked" => task'[q] = "asked"
    OBVIOUS
  <2> QED  BY <2>1, <2>2, SameChains DEF IInv
<1>6. Accepted'
  BY <1>1, <1>3 DEF IInv, Accepted, IsMail, Queued, Cur
<1>7. Explained'
  <2>1. \A m \in Queued, q \in Peers : Pending(q, m)' => Pending(q, m)
    BY <1>1, <1>5, SamePending DEF IInv
  <2>2. Faults' \in Nat /\ Faults <= Faults'
    BY FaultsGrow DEF IInv
  <2> QED  BY <1>1, <2>1, <2>2, StillExplained DEF IInv
<1> QED  BY <1>2, <1>4, <1>5, <1>6, <1>7 DEF IInv

\* A member hangs, or its worker leaves its task.
LEMMA HangKeeps ==
    ASSUME IInv, NEW p \in Peers, Hang(p) \/ Drop(p)
    PROVE  IInv'
<1>1. turn \in [Peers -> TurnStates] /\ task \in [Peers -> TaskStates] /\ deaths \in Nat
  BY DEF IInv, PeerTypes, MailTypes
<1>2. CASE Hang(p)
  <2>1. /\ turn[p] = "busy" /\ turn' = [turn EXCEPT ![p] = "hung"] /\ deaths' = deaths + 1
        /\ UNCHANGED <<mailVars, chain, up, life, task, carried, retried, got, troubles>>
    BY <1>2 DEF Hang, workVars
  <2>2. /\ turn' \in [Peers -> TurnStates]
        /\ \A q \in Peers : turn'[q] = "none" <=> turn[q] = "none"
    BY <1>1, <2>1 DEF TurnStates
  <2>3. task' \in [Peers -> TaskStates] /\ \A q \in Peers : task'[q] = task[q]
    BY <1>1, <2>1
  <2> QED  BY <2>1, <2>2, <2>3, WorkerKeeps
<1>3. CASE Drop(p)
  <2>1. /\ task[p] = "failing" /\ task' = [task EXCEPT ![p] = "failed"]
        /\ UNCHANGED <<mailVars, chain, turn, up, life, carried, retried, got, deaths, troubles>>
    BY <1>3 DEF Drop, peerVars
  <2>2. /\ task' \in [Peers -> TaskStates]
        /\ \A q \in Peers : task'[q] = task[q] \/
             (task[q] \in {"todo", "failing"} /\ task'[q] \notin {"asked", "ack"})
    <3>1. "failed" \in TaskStates
      BY DEF TaskStates
    <3> QED  BY <1>1, <2>1, <3>1
  <2>3. turn' \in [Peers -> TurnStates] /\ \A q \in Peers : turn'[q] = turn[q]
    BY <1>1, <2>1
  <2> QED  BY <1>1, <2>1, <2>2, <2>3, WorkerKeeps
<1> QED  BY <1>2, <1>3

\* A member starts again, once.
LEMMA RestartKeeps ==
    ASSUME IInv, NEW p \in Peers, Restart(p)
    PROVE  IInv'
<1>1. /\ task[p] = "failing" /\ ~retried[p] /\ ~up[p]
      /\ task' = [task EXCEPT ![p] = "todo"] /\ retried' = [retried EXCEPT ![p] = TRUE]
      /\ up' = [up EXCEPT ![p] = TRUE] /\ life' = [life EXCEPT ![p] = life[p] + 1]
      /\ UNCHANGED <<msgs, delivered, delivering, sends, phase, prelude>>
      /\ UNCHANGED <<chain, turn, carried, got, deaths, troubles>>
  BY DEF Restart, Restartable, mailVars
<1>2. /\ task \in [Peers -> TaskStates] /\ retried \in [Peers -> BOOLEAN]
      /\ up \in [Peers -> BOOLEAN] /\ life \in [Peers -> Nat] /\ "todo" \in TaskStates
  BY DEF IInv, PeerTypes, TaskStates
<1>3. /\ task' \in [Peers -> TaskStates] /\ retried' \in [Peers -> BOOLEAN]
      /\ up' \in [Peers -> BOOLEAN] /\ life' \in [Peers -> Nat]
  BY <1>1, <1>2
<1>4. /\ task'[p] = "todo" /\ retried'[p] = TRUE /\ up'[p] = TRUE /\ life'[p] = life[p] + 1
      /\ \A q \in Peers : q # p => /\ task'[q] = task[q] /\ retried'[q] = retried[q]
                                   /\ up'[q] = up[q] /\ life'[q] = life[q]
  BY <1>1, <1>2
<1>5. MailTypes' /\ PeerTypes' /\ Serialized'
  BY <1>1, <1>3 DEF IInv, MailTypes, PeerTypes, Serialized, Queued, Cur, Now
<1>6. RestartedOnce'
  BY <1>2, <1>4 DEF IInv, RestartedOnce
<1>7. \A q \in Peers : task'[q] = task[q] \/ carried[q] = {}
  BY <1>1, <1>4 DEF IInv, Reserved
<1>8. Reserved' /\ Swept' /\ NothingLost'
  <2>1. phase # "idle" => sends # <<>> /\ sends' # <<>> /\ Now' = Now
    BY <1>1 DEF IInv, Serialized, Now
  <2> QED  BY <1>1, <1>7, <2>1, SameMail
<1>9. Chained'
  <2>1. \A q \in Peers : Offered(q) => Offered(q)' /\ prelude' = prelude
    BY <1>1 DEF Offered, Now
  <2>2. \A q \in Peers : (up[q] => up'[q]) /\ (task[q] = "asked" => task'[q] = "asked")
    BY <1>1, <1>4
  <2> QED  BY <1>1, <2>1, <2>2, SameChains DEF IInv
<1>10. Accepted'
  BY <1>1, <1>4, <1>7 DEF IInv, Accepted, IsMail, Queued, Cur
<1>11. Explained'
  <2>1. life[p] = 0
    BY <1>1, <1>2 DEF IInv, RestartedOnce
  <2>2. Restarted' = Restarted \cup {p} /\ p \notin Restarted
    BY <1>2, <1>4, <2>1 DEF Restarted
  <2>3. IsFiniteSet(Restarted) /\ Cardinality(Restarted) \in Nat /\ Faults \in Nat
    BY FaultsAre DEF IInv
  <2>4. Cardinality(Restarted') = Cardinality(Restarted) + 1
    BY <2>2, <2>3, FS_AddElement
  <2>5. Faults' = Faults + 1
    <3> DEFINE c == Cardinality(Restarted)
               d == Cardinality(Restarted')
    <3>1. Faults' = 1 + deaths + troubles + d /\ Faults = 1 + deaths + troubles + c
      BY <1>1 DEF Faults
    <3>2. c \in Nat /\ d = c + 1 /\ deaths \in Nat /\ troubles \in Nat
      BY <2>3, <2>4 DEF IInv, MailTypes
    <3> HIDE DEF c, d
    <3> QED  BY <3>1, <3>2
  <2>6. Faults' \in Nat /\ Faults <= Faults' /\ Faults < Faults'
    BY <2>3, <2>5
  <2> QED  BY <1>1, <2>6, StillExplained DEF IInv
<1> QED
  BY <1>5, <1>6, <1>8, <1>9, <1>10, <1>11 DEF IInv

(***************************************************************************)
(* Each step keeps the invariant: the mailbox                              *)
(***************************************************************************)
\* The mail that is marked first.
LEMMA FirstIsOne ==
    ASSUME NEW S \in SUBSET Nat, S # {}
    PROVE  First(S) \in S
<1>1. PICK x \in S : \A y \in S : ~(<<y, x>> \in OpToRel(<, Nat))
  BY NatLessThanWellFounded, WFMin
<1>2. \A y \in S : ~(y < x)
  BY <1>1 DEF OpToRel
<1>3. \A y \in S : x <= y
  BY <1>2
<1> QED  BY <1>3 DEF First

\* A send that fails before its message is queued, or while what it carried is marked.
LEMMA SendFailsKeeps ==
    ASSUME IInv, QueueFails \/ AckSendFails
    PROVE  IInv'
<1>1. /\ phase \in {"idle", "ack"} /\ sends # <<>> /\ Return /\ troubles' = troubles + 1
      /\ UNCHANGED <<msgs, delivered, delivering, chain, up, life, task, carried, retried, got, deaths>>
  BY DEF QueueFails, AckSendFails, Trouble, workVars, IInv, Serialized
<1>2. /\ sends' \in Seq(Sending) /\ Len(sends) \in Nat /\ Len(sends') = Len(sends) - 1
      /\ turn' \in [Peers -> TurnStates] /\ phase' = "idle" /\ prelude' = {}
      /\ \A p \in Peers : turn'[p] = "none" <=> turn[p] = "none"
  BY <1>1, Returned DEF IInv
<1>3. MailTypes' /\ PeerTypes'
  <2>1. troubles' \in Nat
    BY <1>1 DEF IInv, MailTypes
  <2> QED  BY <1>1, <1>2, <2>1 DEF IInv, MailTypes, PeerTypes, Queued
<1>4. Serialized'
  <2>1. Len(msgs) \in Nat
    BY Facts DEF IInv
  <2>2. Len(msgs) + Len(sends') <= MaxMsgs
    BY <1>1, <1>2, <2>1, PeerMailConstants DEF IInv, Serialized
  <2> QED  BY <1>1, <1>2, <2>2, PeerMailConstants DEF Serialized
<1>5. Reserved' /\ RestartedOnce' /\ Swept'
  BY <1>1, <1>2 DEF IInv, Reserved, RestartedOnce, Swept, QuietTo
<1>6. Chained' /\ \A q \in Peers : \A i : Unaccepted(q, i)' <=> Unaccepted(q, i)
  <2>1. \A q \in Peers : ~Offered(q)
    BY <1>1 DEF Offered
  <2> QED  BY <1>1, <1>2, <2>1, SameChains DEF IInv
<1>7. Accepted'
  BY <1>1, <1>2 DEF IInv, Accepted, IsMail, Queued
<1>8. NothingLost'
  <2>1. \A p \in Peers : Carried'[p] = Carried[p]
    BY <1>1 DEF Carried
  <2>2. \A m \in prelude : got[m] > 0
    BY <1>1 DEF IInv, Accepted, Serialized
  <2> QED  BY <1>1, <2>1, <2>2 DEF IInv, NothingLost
<1>9. Explained'
  <2>1. Faults' \in Nat /\ Faults <= Faults' /\ Faults < Faults'
    BY <1>1, FaultsGrow DEF IInv
  <2> QED  BY <1>1, <2>1, StillExplained DEF IInv
<1> QED  BY <1>3, <1>4, <1>5, <1>6, <1>7, <1>8, <1>9 DEF IInv

\* What a send carried is marked, one by one, and then its own message.
LEMMA AckSendKeeps ==
    ASSUME IInv, AckSend
    PROVE  IInv'
<1>1. /\ phase = "ack"
      /\ UNCHANGED <<msgs, chain, up, life, task, carried, retried, got, deaths, troubles>>
  BY DEF AckSend, workVars
<1>2. /\ delivered \subseteq Queued /\ delivering \subseteq Queued /\ prelude \subseteq Queued
      /\ Queued \subseteq Nat /\ Cur \in Queued /\ sends # <<>> /\ Len(msgs) \in Nat
      /\ Len(sends) \in Nat
      /\ \A m \in prelude \cup {Cur} : got[m] > 0
  BY <1>1, Facts DEF IInv, MailTypes, Accepted, Ids
<1>3. Faults' \in Nat /\ Faults <= Faults'
  BY <1>1, FaultsGrow DEF IInv, MailTypes
<1>4. RestartedOnce'
  BY <1>1 DEF IInv, RestartedOnce
<1>5. \A p \in Peers : Carried'[p] = Carried[p]
  BY <1>1 DEF Carried
<1>6. CASE /\ Unmarked(prelude) # {} /\ delivered' = delivered \cup {First(Unmarked(prelude))}
           /\ UNCHANGED <<delivering, sends, phase, prelude, turn>>
  <2>1. First(Unmarked(prelude)) \in prelude
    <3>1. Unmarked(prelude) \in SUBSET Nat
      BY <1>2 DEF Unmarked
    <3>2. First(Unmarked(prelude)) \in Unmarked(prelude)
      BY <1>6, <3>1, FirstIsOne
    <3> QED  BY <3>2 DEF Unmarked
  <2>2. MailTypes' /\ PeerTypes' /\ Serialized'
    BY <1>1, <1>2, <1>6, <2>1 DEF IInv, MailTypes, PeerTypes, Serialized, Queued, Cur, Now
  <2>3. Reserved' /\ Swept'
    BY <1>1, <1>6 DEF IInv, Reserved, Swept, QuietTo, Now
  <2>4. Chained' /\ \A q \in Peers : \A i : Unaccepted(q, i)' <=> Unaccepted(q, i)
    <3>1. \A q \in Peers : ~Offered(q)
      BY <1>1 DEF Offered
    <3> QED  BY <1>1, <1>6, <3>1, SameChains DEF IInv
  <2>5. Accepted'
    BY <1>1, <1>6 DEF IInv, Accepted, IsMail, Queued, Cur
  <2>6. NothingLost'
    BY <1>1, <1>2, <1>5, <1>6, <2>1 DEF IInv, NothingLost
  <2>7. Explained'
    <3>1. \A m \in Queued, q \in Peers : Pending(q, m)' => Pending(q, m)
      BY <1>1, <1>6, <2>4, SamePending DEF IInv
    <3> QED  BY <1>1, <1>3, <3>1, StillExplained DEF IInv
  <2> QED  BY <1>4, <2>2, <2>3, <2>4, <2>5, <2>6, <2>7 DEF IInv
<1>7. CASE /\ Unmarked(prelude) = {} /\ delivered' = delivered \cup {Cur}
           /\ delivering' = delivering \ prelude /\ Return
  <2>1. /\ sends' \in Seq(Sending) /\ Len(sends') = Len(sends) - 1
        /\ turn' \in [Peers -> TurnStates] /\ phase' = "idle" /\ prelude' = {}
        /\ \A p \in Peers : turn'[p] = "none" <=> turn[p] = "none"
    BY <1>2, <1>7, Returned DEF IInv
  <2>2. MailTypes' /\ PeerTypes'
    BY <1>1, <1>2, <1>7, <2>1 DEF IInv, MailTypes, PeerTypes, Queued
  <2>3. Serialized'
    <3>1. Len(msgs) + Len(sends') <= MaxMsgs
      BY <1>1, <1>2, <2>1, PeerMailConstants DEF IInv, Serialized
    <3> QED  BY <1>1, <2>1, <3>1, PeerMailConstants DEF Serialized
  <2>4. Reserved' /\ Swept'
    BY <1>1, <1>7, <2>1 DEF IInv, Reserved, Swept, QuietTo
  <2>5. Chained' /\ \A q \in Peers : \A i : Unaccepted(q, i)' <=> Unaccepted(q, i)
    <3>1. \A q \in Peers : ~Offered(q)
      BY <1>1 DEF Offered
    <3> QED  BY <1>1, <2>1, <3>1, SameChains DEF IInv
  <2>6. Accepted'
    BY <1>1, <2>1 DEF IInv, Accepted, IsMail, Queued
  <2>7. NothingLost'
    BY <1>1, <1>2, <1>5, <1>7 DEF IInv, NothingLost
  <2>8. Explained'
    <3>1. \A m \in delivering \cup delivered : m \in delivering' \cup delivered'
      BY <1>7 DEF Unmarked
    <3>2. \A m \in Queued, q \in Peers : Pending(q, m)' => Pending(q, m)
      BY <1>1, <2>5, <3>1, SamePending DEF IInv
    <3> QED  BY <1>1, <1>3, <3>2, StillExplained DEF IInv
  <2> QED  BY <1>4, <2>2, <2>3, <2>4, <2>5, <2>6, <2>7, <2>8 DEF IInv
<1> QED  BY <1>6, <1>7 DEF AckSend

\* The mail that rode with a worker's turn is marked, or the turn fails over it.
LEMMA AckTaskKeeps ==
    ASSUME IInv, NEW p \in Peers, AckTask(p) \/ AckTaskFails(p)
    PROVE  IInv'
<1>1. /\ task[p] = "ack" /\ deaths' = deaths
      /\ UNCHANGED <<msgs, sends, phase, prelude, chain, turn, up, life, retried, got>>
  BY DEF AckTask, AckTaskFails, peerVars
<1>2. /\ delivered \subseteq Queued /\ delivering \subseteq Queued /\ prelude \subseteq Queued
      /\ Queued \subseteq Nat /\ carried[p] \subseteq delivering
      /\ task \in [Peers -> TaskStates] /\ carried \in [Peers -> SUBSET Ids]
      /\ \A m \in carried[p] : got[m] > 0
  BY <1>1, Facts DEF IInv, MailTypes, PeerTypes, Accepted, Reserved, Ids
<1>3. troubles' \in {troubles, troubles + 1} /\ troubles \in Nat /\ deaths \in Nat
  BY DEF AckTask, AckTaskFails, Trouble, IInv, MailTypes
<1>4. /\ Faults' \in Nat /\ Faults <= Faults'
      /\ troubles' = troubles + 1 => Faults < Faults'
  BY <1>1, <1>3, FaultsGrow DEF IInv
<1>5. RestartedOnce' /\ Serialized'
  BY <1>1 DEF IInv, RestartedOnce, Serialized, Cur, Now
<1>6. CASE /\ Unmarked(carried[p]) # {} /\ delivered' = delivered \cup {First(Unmarked(carried[p]))}
           /\ UNCHANGED <<delivering, task, carried, troubles>>
  <2>1. First(Unmarked(carried[p])) \in carried[p]
    <3>1. Unmarked(carried[p]) \in SUBSET Nat
      BY <1>2 DEF Unmarked
    <3>2. First(Unmarked(carried[p])) \in Unmarked(carried[p])
      BY <1>6, <3>1, FirstIsOne
    <3> QED  BY <3>2 DEF Unmarked
  <2>2. MailTypes' /\ PeerTypes'
    BY <1>1, <1>2, <1>6, <2>1 DEF IInv, MailTypes, PeerTypes, Queued
  <2>3. Reserved' /\ Swept'
    BY <1>1, <1>6 DEF IInv, Reserved, Swept, QuietTo, Queued, Now
  <2>4. Chained' /\ \A q \in Peers : \A i : Unaccepted(q, i)' <=> Unaccepted(q, i)
    <3>1. \A q \in Peers : Offered(q) => Offered(q)' /\ prelude' = prelude
      BY <1>1 DEF Offered, Now
    <3> QED  BY <1>1, <1>6, <3>1, SameChains DEF IInv
  <2>5. Accepted'
    BY <1>1, <1>6 DEF IInv, Accepted, IsMail, Queued, Cur
  <2>6. NothingLost'
    <3>1. \A q \in Peers : Carried'[q] = Carried[q]
      BY <1>6 DEF Carried
    <3> QED  BY <1>1, <1>2, <1>6, <2>1, <3>1 DEF IInv, NothingLost
  <2>7. Explained'
    <3>1. \A m \in Queued, q \in Peers : Pending(q, m)' => Pending(q, m)
      BY <1>1, <1>6, <2>4, SamePending DEF IInv
    <3> QED  BY <1>1, <1>4, <3>1, StillExplained DEF IInv
  <2> QED  BY <1>5, <2>2, <2>3, <2>4, <2>5, <2>6, <2>7 DEF IInv
<1>7. ASSUME NEW v \in {"done", "failing"}, task' = [task EXCEPT ![p] = v],
             delivering' = delivering \ carried[p], carried' = [carried EXCEPT ![p] = {}],
             delivered' = delivered, Unmarked(carried[p]) = {} \/ troubles' = troubles + 1
      PROVE  IInv'
  <2>1. /\ task' \in [Peers -> TaskStates] /\ carried' \in [Peers -> SUBSET Ids]
        /\ task'[p] = v /\ carried'[p] = {}
        /\ \A q \in Peers : q # p => task'[q] = task[q] /\ carried'[q] = carried[q]
    <3>1. v \in TaskStates /\ {} \in SUBSET Ids
      BY DEF TaskStates
    <3> QED  BY <1>2, <1>7, <3>1
  <2>2. MailTypes' /\ PeerTypes'
    <3>1. troubles' \in Nat
      BY <1>3
    <3> QED  BY <1>1, <1>2, <1>7, <2>1, <3>1 DEF IInv, MailTypes, PeerTypes, Queued
  <2>3. Reserved'
    <3>1. prelude \subseteq delivering'
      BY <1>7 DEF IInv, Reserved
    <3>2. \A q \in Peers : carried'[q] \subseteq delivering'
      <4>1. \A q \in Peers : q # p => carried[q] \cap carried[p] = {}
        <5>1. \A q \in Peers : \A m \in carried[q] : msgs[m].to = q
          BY DEF IInv, Reserved, QuietTo
        <5> QED  BY <5>1
      <4> QED  BY <1>7, <2>1, <4>1 DEF IInv, Reserved
    <3>3. \A q \in Peers : /\ \A m \in carried'[q] : QuietTo(m, q)
                           /\ task'[q] \notin {"asked", "ack"} => carried'[q] = {}
                           /\ carried'[q] \cap prelude = {}
      BY <2>1 DEF IInv, Reserved
    <3> QED  BY <1>1, <3>1, <3>2, <3>3 DEF IInv, Reserved, QuietTo, Now
  <2>4. Swept'
    BY <1>1, <1>2, <1>7 DEF IInv, Swept, Queued, QuietTo, Now
  <2>5. Chained' /\ \A q \in Peers : \A i : Unaccepted(q, i)' <=> Unaccepted(q, i)
    <3>1. \A q \in Peers : Offered(q) => Offered(q)' /\ prelude' = prelude
      BY <1>1 DEF Offered, Now
    <3> QED  BY <1>1, <2>1, <3>1, SameChains DEF IInv
  <2>6. Accepted'
    BY <1>1, <2>1 DEF IInv, Accepted, IsMail, Queued, Cur
  <2>7. NothingLost'
    <3>1. \A q \in Peers : q # p => Carried'[q] = Carried[q]
      BY <2>1 DEF Carried
    <3>2. Carried[p] = carried[p]
      BY <1>1 DEF Carried
    <3> QED  BY <1>1, <1>2, <1>7, <3>1, <3>2 DEF IInv, NothingLost
  <2>8. Explained'
    <3>1. CASE troubles' = troubles + 1
      BY <1>1, <1>4, <3>1, StillExplained DEF IInv
    <3>2. CASE Unmarked(carried[p]) = {}
      <4>1. \A m \in delivering \cup delivered : m \in delivering' \cup delivered'
        BY <1>7, <3>2 DEF Unmarked
      <4>2. \A m \in Queued, q \in Peers : Pending(q, m)' => Pending(q, m)
        BY <1>1, <2>5, <4>1, SamePending DEF IInv
      <4> QED  BY <1>1, <1>4, <4>2, StillExplained DEF IInv
    <3> QED  BY <1>7, <3>1, <3>2
  <2> QED  BY <1>5, <2>2, <2>3, <2>4, <2>5, <2>6, <2>7, <2>8 DEF IInv
<1>8. CASE AckTask(p)
  BY <1>6, <1>7, <1>8 DEF AckTask
<1>9. CASE AckTaskFails(p)
  BY <1>7, <1>9 DEF AckTaskFails, Trouble
<1> QED  BY <1>8, <1>9

(***************************************************************************)
(* Each step keeps the invariant: the turns                                *)
(***************************************************************************)
\* A chain without its first turn.
LEMMA TailOf ==
    ASSUME NEW S, NEW s \in Seq(S), s # <<>>
    PROVE  /\ Tail(s) \in Seq(S) /\ 1 \in DOMAIN s /\ Head(s) = s[1]
           /\ \A i \in DOMAIN Tail(s) :
                i \in Nat /\ i + 1 \in DOMAIN s /\ i + 1 # 1 /\ Tail(s)[i] = s[i + 1]
<1>1. PICK n \in Nat : n = Len(s) /\ DOMAIN s = 1..n
  OBVIOUS
<1>2. n # 0
  BY <1>1, EmptySeq
<1>3. DOMAIN Tail(s) = 1..(n - 1)
  BY <1>1
<1>4. \A i \in 1..(n - 1) : i \in Nat /\ i + 1 \in 1..n /\ i + 1 # 1 /\ Tail(s)[i] = s[i + 1]
  BY <1>1, <1>2
<1> QED  BY <1>1, <1>2, <1>3, <1>4

\* A turn ends; the worker whose task it was marks what it carried.
LEMMA EndTurnKeeps ==
    ASSUME IInv, NEW p \in Peers, EndTurn(p)
    PROVE  IInv'
<1>1. /\ turn[p] = "busy" /\ turn' = [turn EXCEPT ![p] = "none"]
      /\ chain' = [chain EXCEPT ![p] = Tail(chain[p])]
      /\ task' = IF Head(chain[p]).of = "task" THEN [task EXCEPT ![p] = "ack"] ELSE task
      /\ UNCHANGED <<msgs, delivered, delivering, sends, phase, prelude>>
      /\ UNCHANGED <<up, life, carried, retried, got, deaths, troubles>>
  BY DEF EndTurn, mailVars
<1>2. /\ turn \in [Peers -> TurnStates] /\ chain \in [Peers -> Seq(Turn)]
      /\ task \in [Peers -> TaskStates] /\ "none" \in TurnStates /\ "ack" \in TaskStates
      /\ chain[p] # <<>> /\ chain[p] \in Seq(Turn)
  BY <1>1 DEF IInv, PeerTypes, TurnStates, TaskStates, Chained, ChainOf
<1>3. /\ Tail(chain[p]) \in Seq(Turn) /\ 1 \in DOMAIN chain[p] /\ Head(chain[p]) = chain[p][1]
      /\ \A i \in DOMAIN Tail(chain[p]) :
           i \in Nat /\ i + 1 \in DOMAIN chain[p] /\ i + 1 # 1 /\ Tail(chain[p])[i] = chain[p][i + 1]
  BY <1>2, TailOf
<1>4. Head(chain[p]).of = "task" <=> ~IsMail(p, 1)
  <2>1. chain[p][1] \in Turn
    BY <1>2, <1>3
  <2>2. chain[p][1].of \in {"task", "mail"}
    BY <2>1 DEF Turn
  <2> QED  BY <1>3, <2>2 DEF IsMail
<1>5. ~IsMail(p, 1) => task[p] = "asked"
  BY <1>3 DEF IInv, Chained, ChainOf
<1>6. /\ turn' \in [Peers -> TurnStates] /\ chain' \in [Peers -> Seq(Turn)]
      /\ task' \in [Peers -> TaskStates]
      /\ turn'[p] = "none" /\ chain'[p] = Tail(chain[p])
      /\ task'[p] = IF ~IsMail(p, 1) THEN "ack" ELSE task[p]
      /\ \A q \in Peers : q # p => turn'[q] = turn[q] /\ chain'[q] = chain[q] /\ task'[q] = task[q]
  BY <1>1, <1>2, <1>3, <1>4
<1>7. MailTypes' /\ PeerTypes' /\ Serialized' /\ RestartedOnce'
  BY <1>1, <1>6 DEF IInv, MailTypes, PeerTypes, Serialized, RestartedOnce, Queued, Cur, Now
<1>8. Reserved' /\ Swept' /\ NothingLost'
  <2>1. phase # "idle" => sends # <<>> /\ sends' # <<>> /\ Now' = Now
    BY <1>1 DEF IInv, Serialized, Now
  <2>2. \A q \in Peers : task'[q] \in {task[q], "ack"}
    BY <1>6
  <2> QED  BY <1>1, <2>1, <2>2, SameMail
<1>9. \A q \in Peers : q # p => ChainOf(q)' /\ \A i : Unaccepted(q, i)' <=> Unaccepted(q, i)
  <2> SUFFICES ASSUME NEW q \in Peers, q # p
               PROVE  ChainOf(q)' /\ \A i : Unaccepted(q, i)' <=> Unaccepted(q, i)
    OBVIOUS
  <2>1. ChainOf(q) /\ (turn[q] # "none" => up[q])
    BY DEF IInv, Chained, ChainOf
  <2>2. Offered(q) => Offered(q)'
    BY <1>1 DEF Offered, Now
  <2> QED  BY <1>1, <1>6, <2>1, <2>2, SameChain
<1>10. \A i \in DOMAIN chain'[p] :
         /\ i + 1 \in DOMAIN chain[p] /\ Unaccepted(p, i + 1) /\ chain'[p][i] = chain[p][i + 1]
         /\ (IsMail(p, i)' <=> IsMail(p, i + 1)) /\ Brings(p, i)' = Brings(p, i + 1)
  <2> SUFFICES ASSUME NEW i \in DOMAIN chain'[p]
               PROVE  /\ i + 1 \in DOMAIN chain[p] /\ Unaccepted(p, i + 1)
                      /\ chain'[p][i] = chain[p][i + 1]
                      /\ (IsMail(p, i)' <=> IsMail(p, i + 1)) /\ Brings(p, i)' = Brings(p, i + 1)
    OBVIOUS
  <2>1. i + 1 \in DOMAIN chain[p] /\ i + 1 # 1 /\ chain'[p][i] = chain[p][i + 1]
    BY <1>3, <1>6
  <2>2. Unaccepted(p, i + 1)
    BY <2>1 DEF Unaccepted
  <2>3. IsMail(p, i)' <=> IsMail(p, i + 1)
    BY <2>1 DEF IsMail
  <2>4. Brings(p, i)' = Brings(p, i + 1)
    BY <1>1, <2>1, <2>3 DEF Brings, Cur
  <2> QED  BY <2>1, <2>2, <2>3, <2>4
<1>11. ChainOf(p)'
  <2>1. ChainOf(p) /\ \A i, j \in DOMAIN chain'[p] : i + 1 = j + 1 => i = j
    BY <1>3, <1>6 DEF IInv, Chained
  <2>2. \A i \in DOMAIN chain'[p] : ~IsMail(p, i)' =>
          task'[p] = "asked" /\ chain'[p][i].carries = carried'[p]
    <3> SUFFICES ASSUME NEW i \in DOMAIN chain'[p], ~IsMail(p, i + 1)
                 PROVE  task'[p] = "asked" /\ chain'[p][i].carries = carried'[p]
      BY <1>10
    <3>1. task[p] = "asked" /\ chain[p][i + 1].carries = carried[p]
      BY <1>10, <2>1 DEF ChainOf
    <3>2. i + 1 # 1
      BY <1>3, <1>6
    <3>3. IsMail(p, 1)
      BY <1>3, <1>10, <2>1, <3>2 DEF ChainOf
    <3> QED  BY <1>1, <1>6, <1>10, <3>1, <3>3
  <2>3. \A i, j \in DOMAIN chain'[p] : ~IsMail(p, i)' /\ ~IsMail(p, j)' => i = j
    BY <1>10, <2>1 DEF ChainOf
  <2>4. \A i \in DOMAIN chain'[p] : Unaccepted(p, i)' /\ IsMail(p, i)' =>
          Offered(p)' /\ chain'[p][i].carries = prelude'
    <3>1. Offered(p)' <=> Offered(p)
      BY <1>1 DEF Offered, Now
    <3> QED  BY <1>1, <1>10, <2>1, <3>1 DEF ChainOf
  <2>5. \A i, j \in DOMAIN chain'[p] :
          Unaccepted(p, i)' /\ Unaccepted(p, j)' /\ IsMail(p, i)' /\ IsMail(p, j)' => i = j
    BY <1>10, <2>1 DEF ChainOf
  <2> QED  BY <1>6, <2>2, <2>3, <2>4, <2>5 DEF ChainOf
<1>12. Chained'
  BY <1>9, <1>11 DEF Chained
<1>13. Accepted'
  <2>1. \A m \in carried[p] : task'[p] = "ack" => got[m] > 0
    BY <1>1, <1>6 DEF IInv, Accepted
  <2>2. \A q \in Peers : q # p => (IsMail(q, 1)' <=> IsMail(q, 1))
    BY <1>6 DEF IsMail
  <2>3. phase' = "ack" => \A m \in prelude' \cup {Cur'} : got'[m] > 0
    BY <1>1 DEF IInv, Accepted, Cur
  <2>4. \A q \in Peers : \A m \in carried'[q] :
          task'[q] = "ack" \/ (turn'[q] # "none" /\ ~IsMail(q, 1)') => got'[m] > 0
    BY <1>1, <1>6, <2>1, <2>2 DEF IInv, Accepted
  <2>5. \A m \in Ids : m \notin Queued' => got'[m] = 0
    BY <1>1 DEF IInv, Accepted, Queued
  <2> QED  BY <2>3, <2>4, <2>5 DEF Accepted
<1>14. Explained'
  <2>1. \A m \in Queued, q \in Peers : Pending(q, m)' => Pending(q, m)
    <3> SUFFICES ASSUME NEW m \in Queued, NEW q \in Peers, Pending(q, m)' PROVE Pending(q, m)
      OBVIOUS
    <3>1. /\ msgs[m].to = q /\ up[q]
          /\ \/ \E i \in DOMAIN chain'[q] : Unaccepted(q, i)' /\ m \in Brings(q, i)'
             \/ msgs[m].kind = "quiet" /\ m \notin delivering /\ m \notin delivered
      BY <1>1 DEF Pending
    <3>2. CASE q = p
      BY <1>10, <3>1, <3>2 DEF Pending
    <3>3. CASE q # p
      <4>1. \A i : Brings(q, i)' = Brings(q, i)
        BY <1>1, <1>6, <3>3 DEF Brings, IsMail, Cur
      <4> QED  BY <1>6, <1>9, <3>1, <3>3, <4>1 DEF Pending
    <3> QED  BY <3>2, <3>3
  <2>2. Faults' \in Nat /\ Faults <= Faults'
    BY <1>1, FaultsGrow DEF IInv
  <2> QED  BY <1>1, <2>1, <2>2, StillExplained DEF IInv
<1> QED  BY <1>7, <1>8, <1>12, <1>13, <1>14 DEF IInv

\* What the next turn of a peer brings was still to be given to it, and no other turn
\* brings it again.
LEMMA HeadBrings ==
    ASSUME IInv, NEW p \in Peers, up[p], turn[p] = "none", chain[p] # <<>>
    PROVE  /\ 1 \in DOMAIN chain[p] /\ Head(chain[p]) = chain[p][1] /\ chain[p][1].of \in {"task", "mail"}
           /\ Brings(p, 1) \subseteq Queued
           /\ \A m \in Brings(p, 1) : Pending(p, m) /\ (msgs[m].kind = "quiet" => m \in delivering)
           /\ \A i \in DOMAIN chain[p] : i # 1 => Brings(p, i) \cap Brings(p, 1) = {}
           /\ IsMail(p, 1) => Offered(p) /\ Brings(p, 1) = prelude \cup {Cur}
           /\ ~IsMail(p, 1) => task[p] = "asked" /\ Brings(p, 1) = carried[p]
<1>1. chain[p] \in Seq(Turn) /\ ChainOf(p)
  BY DEF IInv, PeerTypes, Chained
<1>2. /\ 1 \in DOMAIN chain[p] /\ Head(chain[p]) = chain[p][1]
      /\ \A i \in DOMAIN chain[p] : chain[p][i].of \in {"task", "mail"}
  <2>1. 1 \in DOMAIN chain[p] /\ Head(chain[p]) = chain[p][1]
    BY <1>1, TailOf
  <2>2. \A i \in DOMAIN chain[p] : chain[p][i] \in Turn
    BY <1>1
  <2> QED  BY <2>1, <2>2 DEF Turn
<1>3. \A i : Unaccepted(p, i) <=> i \in DOMAIN chain[p]
  BY DEF Unaccepted
<1>4. \A i \in DOMAIN chain[p] :
        /\ IsMail(p, i) => Offered(p) /\ Brings(p, i) = prelude \cup {Cur}
        /\ ~IsMail(p, i) => task[p] = "asked" /\ Brings(p, i) = carried[p]
  BY <1>1, <1>3 DEF ChainOf, Brings
<1>5. Offered(p) => /\ Cur \in Queued /\ msgs[Cur].to = p /\ msgs[Cur].kind = "wakeup"
                    /\ \A m \in prelude : QuietTo(m, p)
  BY Facts DEF IInv, Offered, Reserved
<1>6. /\ \A m \in carried[p] : QuietTo(m, p) /\ m \in delivering
      /\ carried[p] \cap prelude = {} /\ prelude \subseteq delivering /\ delivering \subseteq Queued
  BY DEF IInv, Reserved, MailTypes
<1>7. \A i \in DOMAIN chain[p] : \A m \in Brings(p, i) :
        m \in Queued /\ msgs[m].to = p /\ (msgs[m].kind = "quiet" => m \in delivering)
  BY <1>4, <1>5, <1>6 DEF QuietTo
<1>8. \A m \in Brings(p, 1) : Pending(p, m)
  BY <1>2, <1>3, <1>7 DEF Pending
<1>9. ASSUME NEW i \in DOMAIN chain[p], i # 1 PROVE Brings(p, i) \cap Brings(p, 1) = {}
  <2>1. IsMail(p, i) # IsMail(p, 1)
    BY <1>1, <1>2, <1>3, <1>9 DEF ChainOf, IsMail
  <2>2. Offered(p) => Cur \notin carried[p]
    BY <1>5, <1>6 DEF QuietTo
  <2>3. CASE IsMail(p, i)
    <3>1. ~IsMail(p, 1)
      BY <2>1, <2>3
    <3> QED  BY <1>2, <1>4, <1>6, <2>2, <2>3, <3>1
  <2>4. CASE ~IsMail(p, i)
    <3>1. IsMail(p, 1)
      BY <2>1, <2>4 DEF IsMail
    <3> QED  BY <1>2, <1>4, <1>6, <2>2, <2>4, <3>1
  <2> QED  BY <2>3, <2>4
<1> QED  BY <1>2, <1>4, <1>7, <1>8, <1>9

\* A peer accepts its next turn.
LEMMA StartTurnKeeps ==
    ASSUME IInv, NEW p \in Peers, StartTurn(p)
    PROVE  IInv'
<1> DEFINE reached == Brings(p, 1)
<1>1. /\ up[p] /\ turn[p] = "none" /\ chain[p] # <<>>
      /\ turn' = [turn EXCEPT ![p] = "busy"]
      /\ UNCHANGED <<msgs, delivered, delivering, sends, prelude, chain, up, life>>
      /\ UNCHANGED <<task, carried, retried, deaths, troubles>>
  BY DEF StartTurn, workVars
<1>2. /\ 1 \in DOMAIN chain[p] /\ Head(chain[p]) = chain[p][1] /\ chain[p][1].of \in {"task", "mail"}
      /\ reached \subseteq Queued
      /\ \A m \in reached : Pending(p, m) /\ (msgs[m].kind = "quiet" => m \in delivering)
      /\ \A i \in DOMAIN chain[p] : i # 1 => Brings(p, i) \cap reached = {}
      /\ IsMail(p, 1) => Offered(p) /\ reached = prelude \cup {Cur}
      /\ ~IsMail(p, 1) => task[p] = "asked" /\ reached = carried[p]
  BY <1>1, HeadBrings
<1>3. /\ got' = [m \in Ids |-> IF m \in reached THEN got[m] + 1 ELSE got[m]]
      /\ phase' = IF IsMail(p, 1) THEN "ack" ELSE phase
  <2>1. Head(chain[p]) = chain[p][1]
    BY <1>2
  <2> QED  BY <2>1 DEF StartTurn, Brings, IsMail
<1> HIDE DEF reached
<1>4. /\ turn \in [Peers -> TurnStates] /\ got \in [Ids -> Nat] /\ Queued \subseteq Ids
      /\ "busy" \in TurnStates /\ phase \in {"idle", "offered", "ack"}
  BY Facts DEF IInv, MailTypes, PeerTypes, TurnStates
<1>5. /\ got' \in [Ids -> Nat]
      /\ \A m \in Ids : /\ m \in reached => got'[m] = got[m] + 1
                        /\ m \notin reached => got'[m] = got[m]
                        /\ got'[m] \in Nat /\ got[m] \in Nat /\ got[m] <= got'[m]
  BY <1>3, <1>4
<1>6. turn' \in [Peers -> TurnStates] /\ turn'[p] = "busy" /\ \A q \in Peers : q # p => turn'[q] = turn[q]
  BY <1>1, <1>4
<1>7. Offered(p) => phase = "offered"
  BY DEF Offered
<1>8. MailTypes' /\ PeerTypes' /\ Serialized' /\ RestartedOnce'
  <2>1. phase' = "idle" <=> phase = "idle"
    BY <1>2, <1>3, <1>7
  <2>2. phase' \in {"idle", "offered", "ack"}
    BY <1>3, <1>4
  <2>3. MailTypes' /\ PeerTypes'
    BY <1>1, <1>5, <1>6, <2>2 DEF IInv, MailTypes, PeerTypes, Queued
  <2>4. Serialized' /\ RestartedOnce'
    BY <1>1, <2>1 DEF IInv, Serialized, RestartedOnce, Cur, Now
  <2> QED  BY <2>3, <2>4
<1>9. Reserved'
  BY <1>1 DEF IInv, Reserved, QuietTo, Now
<1>10. Chained' /\ \A q \in Peers : \A i : Unaccepted(q, i)' => Unaccepted(q, i) /\ (q = p => i # 1)
  <2>1. ASSUME NEW q \in Peers, q # p
        PROVE  ChainOf(q)' /\ \A i : Unaccepted(q, i)' <=> Unaccepted(q, i)
    <3>1. ChainOf(q) /\ (turn[q] # "none" => up[q])
      BY DEF IInv, Chained, ChainOf
    <3>2. Offered(q) => Offered(q)'
      BY <1>1, <1>2, <1>3, <2>1 DEF Offered, Now
    <3> QED  BY <1>1, <1>6, <2>1, <3>1, <3>2, SameChain
  <2>2. \A i : Unaccepted(p, i)' <=> i \in DOMAIN chain[p] /\ i # 1
    BY <1>1, <1>6 DEF Unaccepted
  <2>3. \A i : i \in DOMAIN chain[p] => Unaccepted(p, i)
    BY <1>1 DEF Unaccepted
  <2>4. ChainOf(p)'
    <3>1. ChainOf(p)
      BY DEF IInv, Chained
    <3>2. \A i : IsMail(p, i)' <=> IsMail(p, i)
      BY <1>1 DEF IsMail
    <3>3. turn'[p] # "none" => up'[p] /\ chain'[p] # <<>>
      BY <1>1
    <3>4. \A i \in DOMAIN chain[p] : ~IsMail(p, i) => task'[p] = "asked" /\ chain[p][i].carries = carried'[p]
      BY <1>1, <3>1 DEF ChainOf
    <3>5. \A i, j \in DOMAIN chain[p] : ~IsMail(p, i) /\ ~IsMail(p, j) => i = j
      BY <3>1 DEF ChainOf
    <3>6. \A i, j \in DOMAIN chain[p] :
            Unaccepted(p, i)' /\ Unaccepted(p, j)' /\ IsMail(p, i) /\ IsMail(p, j) => i = j
      BY <2>2, <2>3, <3>1 DEF ChainOf
    <3>7. \A i \in DOMAIN chain[p] : Unaccepted(p, i)' /\ IsMail(p, i) =>
            Offered(p)' /\ chain[p][i].carries = prelude'
      <4> SUFFICES ASSUME NEW i \in DOMAIN chain[p], i # 1, IsMail(p, i)
                   PROVE  Offered(p)' /\ chain[p][i].carries = prelude'
        BY <2>2
      <4>1. ~IsMail(p, 1)
        BY <1>2, <2>3, <3>1 DEF ChainOf
      <4>2. Offered(p) /\ chain[p][i].carries = prelude
        BY <2>3, <3>1 DEF ChainOf
      <4>3. phase' = phase
        BY <1>3, <4>1
      <4> QED  BY <1>1, <4>2, <4>3 DEF Offered, Now
    <3> QED  BY <1>1, <3>2, <3>3, <3>4, <3>5, <3>6, <3>7 DEF ChainOf
  <2> QED  BY <2>1, <2>2, <2>3, <2>4 DEF Chained
<1>11. Accepted'
  <2>1. phase' = "ack" => \A m \in prelude' \cup {Cur'} : got'[m] > 0
    <3>1. Cur' = Cur
      BY <1>1 DEF Cur
    <3>2. CASE IsMail(p, 1)
      <4>1. prelude \cup {Cur} \subseteq reached /\ reached \subseteq Ids
        BY <1>2, <1>4, <3>2
      <4> QED  BY <1>1, <1>5, <3>1, <4>1
    <3>3. CASE ~IsMail(p, 1) /\ phase = "ack"
      <4>1. \A m \in prelude \cup {Cur} : m \in Ids /\ got[m] > 0
        BY <1>4, <3>3, Facts DEF IInv, Accepted, MailTypes
      <4> QED  BY <1>1, <1>5, <3>1, <4>1
    <3> QED  BY <1>3, <3>2, <3>3
  <2>2. \A q \in Peers : \A m \in carried'[q] :
          task'[q] = "ack" \/ (turn'[q] # "none" /\ ~IsMail(q, 1)') => got'[m] > 0
    <3> SUFFICES ASSUME NEW q \in Peers, NEW m \in carried[q],
                        task[q] = "ack" \/ (turn'[q] # "none" /\ ~IsMail(q, 1))
                 PROVE  got'[m] > 0
      BY <1>1 DEF IsMail
    <3>1. m \in Ids
      BY DEF IInv, PeerTypes
    <3>2. CASE task[q] = "ack" \/ (turn[q] # "none" /\ ~IsMail(q, 1))
      <4>1. got[m] > 0
        BY <3>2 DEF IInv, Accepted
      <4> QED  BY <1>5, <3>1, <4>1
    <3>3. CASE q = p /\ ~IsMail(p, 1)
      BY <1>2, <1>5, <3>1, <3>3
    <3> QED  BY <1>6, <3>2, <3>3
  <2>3. \A m \in Ids : m \notin Queued' => got'[m] = 0
    BY <1>1, <1>2, <1>5 DEF IInv, Accepted, Queued
  <2> QED  BY <2>1, <2>2, <2>3 DEF Accepted
<1>12. Swept'
  <2>1. phase' = "offered" => phase = "offered"
    BY <1>3
  <2>2. \A m \in Queued : got[m] > 0 => got'[m] > 0
    BY <1>4, <1>5
  <2> QED  BY <1>1, <2>1, <2>2 DEF IInv, Swept, Queued, QuietTo, Now
<1>13. NothingLost'
  <2>1. \A q \in Peers : Carried'[q] = Carried[q]
    BY <1>1 DEF Carried
  <2>2. \A m \in delivered \cup delivering : m \in Ids
    BY <1>4 DEF IInv, MailTypes
  <2>3. \A m \in delivered \cup delivering : got[m] > 0 => got'[m] > 0
    BY <1>5, <2>2
  <2> QED  BY <1>1, <2>1, <2>3 DEF IInv, NothingLost
<1>14. Explained'
  <2>1. \A m \in Queued, q \in Peers : Pending(q, m)' => Pending(q, m) /\ m \notin reached
    <3> SUFFICES ASSUME NEW m \in Queued, NEW q \in Peers, Pending(q, m)'
                 PROVE  Pending(q, m) /\ m \notin reached
      OBVIOUS
    <3>1. \A i : Brings(q, i)' = Brings(q, i)
      BY <1>1 DEF Brings, IsMail, Cur
    <3>2. /\ msgs[m].to = q /\ up[q]
          /\ \/ \E i \in DOMAIN chain[q] :
                  Unaccepted(q, i) /\ (q = p => i # 1) /\ m \in Brings(q, i)
             \/ msgs[m].kind = "quiet" /\ m \notin delivering /\ m \notin delivered
      BY <1>1, <1>10, <3>1 DEF Pending
    <3>3. Pending(q, m)
      BY <3>2 DEF Pending
    <3>4. m \in reached => q = p
      BY <1>2, <3>2 DEF Pending
    <3> QED  BY <1>2, <3>2, <3>3, <3>4
  <2>2. Faults' \in Nat /\ Faults <= Faults' /\ Faults \in Nat
    BY <1>1, FaultsGrow, FaultsAre DEF IInv
  <2> DEFINE F == Faults'
  <2>3. F \in Nat /\ Faults <= F /\ Queued' = Queued
    BY <1>1, <2>2 DEF Queued
  <2> HIDE DEF F
  <2>4. ASSUME NEW m \in Queued PROVE got'[m] <= F
    <3>1. got[m] <= Faults /\ (Pending(p, m) => got[m] + 1 <= Faults)
      BY DEF IInv, Explained
    <3> QED  BY <1>2, <1>4, <1>5, <2>2, <2>3, <3>1
  <2>5. ASSUME NEW m \in Queued, NEW q \in Peers, Pending(q, m)' PROVE got'[m] + 1 <= F
    <3>1. Pending(q, m) /\ m \notin reached
      BY <2>1, <2>5
    <3>2. got[m] + 1 <= Faults
      BY <3>1 DEF IInv, Explained
    <3> QED  BY <1>4, <1>5, <2>2, <2>3, <3>1, <3>2
  <2> QED  BY <2>3, <2>4, <2>5 DEF Explained, F
<1> QED
  BY <1>8, <1>9, <1>10, <1>11, <1>12, <1>13, <1>14 DEF IInv

\* A turn is put behind the others of a peer: it is not accepted yet.
LEMMA ChainGrows ==
    ASSUME IInv, NEW p \in Peers, NEW job \in Turn, turn' = turn,
           chain' = [chain EXCEPT ![p] = Append(chain[p], job)]
    PROVE  /\ chain' \in [Peers -> Seq(Turn)] /\ chain'[p] # <<>>
           /\ \A q \in Peers : q # p => chain'[q] = chain[q]
           /\ \E k : /\ k \notin DOMAIN chain[p] /\ DOMAIN chain'[p] = DOMAIN chain[p] \cup {k}
                     /\ chain'[p][k] = job /\ Unaccepted(p, k)'
                     /\ \A i \in DOMAIN chain[p] : /\ chain'[p][i] = chain[p][i]
                                                   /\ (Unaccepted(p, i)' <=> Unaccepted(p, i))
                     /\ turn[p] # "none" => 1 \in DOMAIN chain[p]
<1>1. chain \in [Peers -> Seq(Turn)] /\ chain[p] \in Seq(Turn) /\ (turn[p] # "none" => chain[p] # <<>>)
  BY DEF IInv, PeerTypes, Chained, ChainOf
<1>2. PICK n \in Nat : n = Len(chain[p]) /\ DOMAIN chain[p] = 1..n
  BY <1>1
<1>3. /\ Append(chain[p], job) \in Seq(Turn) /\ DOMAIN Append(chain[p], job) = 1..(n + 1)
      /\ Append(chain[p], job)[n + 1] = job /\ Append(chain[p], job) # <<>>
      /\ \A i \in 1..n : Append(chain[p], job)[i] = chain[p][i]
  BY <1>1, <1>2
<1>4. /\ chain' \in [Peers -> Seq(Turn)] /\ chain'[p] = Append(chain[p], job)
      /\ \A q \in Peers : q # p => chain'[q] = chain[q]
  BY <1>1, <1>3
<1>5. n + 1 \notin 1..n /\ 1..(n + 1) = 1..n \cup {n + 1} /\ (n # 0 => n + 1 # 1 /\ 1 \in 1..n)
  OBVIOUS
<1>6. turn[p] # "none" => n # 0
  BY <1>1, <1>2, EmptySeq
<1>7. Unaccepted(p, n + 1)' /\ \A i \in DOMAIN chain[p] : Unaccepted(p, i)' <=> Unaccepted(p, i)
  BY <1>2, <1>3, <1>4, <1>5, <1>6 DEF Unaccepted
<1>8. /\ n + 1 \notin DOMAIN chain[p] /\ DOMAIN chain'[p] = DOMAIN chain[p] \cup {n + 1}
      /\ chain'[p][n + 1] = job
      /\ \A i \in DOMAIN chain[p] : chain'[p][i] = chain[p][i]
      /\ turn[p] # "none" => 1 \in DOMAIN chain[p]
  BY <1>2, <1>3, <1>4, <1>5, <1>6
<1> QED  BY <1>3, <1>4, <1>7, <1>8

\* A worker asks its peer, with the quiet mail that nobody carries in front.
LEMMA AskKeeps ==
    ASSUME IInv, NEW p \in Peers, Ask(p)
    PROVE  IInv'
<1>1. /\ task[p] = "todo"
      /\ UNCHANGED <<msgs, delivered, sends, phase, prelude, turn, up, life, retried, got, deaths,
                     troubles>>
  BY DEF Ask
<1>2. task \in [Peers -> TaskStates] /\ turn \in [Peers -> TurnStates]
  BY DEF IInv, PeerTypes
<1>3. CASE ~up[p] /\ task' = [task EXCEPT ![p] = "failing"] /\ UNCHANGED <<carried, delivering, chain>>
  <2>1. "failing" \in TaskStates
    BY DEF TaskStates
  <2>2. task' \in [Peers -> TaskStates] /\ turn' \in [Peers -> TurnStates]
    BY <1>1, <1>2, <1>3, <2>1
  <2>3. \A q \in Peers : task'[q] = task[q] \/
             (task[q] \in {"todo", "failing"} /\ task'[q] \notin {"asked", "ack"})
    BY <1>1, <1>2, <1>3
  <2>4. UNCHANGED <<mailVars, chain, up, life, carried, retried, got, troubles>>
    BY <1>1, <1>3 DEF mailVars
  <2> QED  BY <1>1, <2>2, <2>3, <2>4, WorkerKeeps
<1>4. CASE /\ up[p]
           /\ carried' = [carried EXCEPT ![p] = QuietFor(p)]
           /\ delivering' = delivering \cup QuietFor(p)
           /\ chain' = [chain EXCEPT ![p] = Append(chain[p], Job("task", QuietFor(p)))]
           /\ task' = [task EXCEPT ![p] = "asked"]
  <2> DEFINE S == QuietFor(p)
             job == Job("task", S)
  <2>1. /\ S \subseteq Queued /\ S \subseteq Ids
        /\ \A m \in S : QuietTo(m, p) /\ m \notin delivered /\ m \notin delivering
    <3>1. Queued \subseteq Ids
      BY Facts DEF IInv
    <3> QED  BY <3>1 DEF QuietFor, QuietTo
  <2>2. job \in Turn /\ job.of = "task" /\ job.carries = S
    BY <2>1 DEF Turn, Job
  <2>3. /\ carried' = [carried EXCEPT ![p] = S] /\ delivering' = delivering \cup S
        /\ chain' = [chain EXCEPT ![p] = Append(chain[p], job)]
    BY <1>4
  <2> HIDE DEF S, job
  <2>4. /\ carried \in [Peers -> SUBSET Ids] /\ "asked" \in TaskStates
        /\ delivered \subseteq Queued /\ delivering \subseteq Queued /\ prelude \subseteq delivering
    BY DEF IInv, MailTypes, PeerTypes, Reserved, TaskStates
  <2>5. /\ carried' \in [Peers -> SUBSET Ids] /\ task' \in [Peers -> TaskStates]
        /\ carried'[p] = S /\ task'[p] = "asked"
        /\ \A q \in Peers : q # p => carried'[q] = carried[q] /\ task'[q] = task[q]
    BY <1>2, <1>4, <2>1, <2>3, <2>4
  <2>6. /\ chain' \in [Peers -> Seq(Turn)] /\ chain'[p] # <<>>
        /\ \A q \in Peers : q # p => chain'[q] = chain[q]
        /\ \E k : /\ k \notin DOMAIN chain[p] /\ DOMAIN chain'[p] = DOMAIN chain[p] \cup {k}
                  /\ chain'[p][k] = job /\ Unaccepted(p, k)'
                  /\ \A i \in DOMAIN chain[p] : /\ chain'[p][i] = chain[p][i]
                                                /\ (Unaccepted(p, i)' <=> Unaccepted(p, i))
                  /\ turn[p] # "none" => 1 \in DOMAIN chain[p]
    BY <1>1, <2>2, <2>3, ChainGrows
  <2>7. PICK k : /\ k \notin DOMAIN chain[p] /\ DOMAIN chain'[p] = DOMAIN chain[p] \cup {k}
                 /\ chain'[p][k] = job /\ Unaccepted(p, k)'
                 /\ \A i \in DOMAIN chain[p] : /\ chain'[p][i] = chain[p][i]
                                               /\ (Unaccepted(p, i)' <=> Unaccepted(p, i))
                 /\ turn[p] # "none" => 1 \in DOMAIN chain[p]
    BY <2>6
  <2>8. MailTypes' /\ PeerTypes' /\ Serialized' /\ RestartedOnce'
    <3>1. delivering' \subseteq Queued
      BY <2>1, <2>3, <2>4
    <3> QED  BY <1>1, <2>5, <2>6, <3>1
             DEF IInv, MailTypes, PeerTypes, Serialized, RestartedOnce, Queued, Cur, Now
  <2>9. Reserved'
    <3>1. prelude \subseteq delivering' /\ S \cap prelude = {}
      BY <2>1, <2>3, <2>4
    <3>2. \A q \in Peers : /\ carried'[q] \subseteq delivering' /\ \A m \in carried'[q] : QuietTo(m, q)
                           /\ task'[q] \notin {"asked", "ack"} => carried'[q] = {}
                           /\ carried'[q] \cap prelude = {}
      BY <2>1, <2>3, <2>5, <3>1 DEF IInv, Reserved
    <3> QED  BY <1>1, <3>1, <3>2 DEF IInv, Reserved, QuietTo, Now
  <2>10. \A i \in DOMAIN chain[p] : IsMail(p, i) /\ IsMail(p, i)'
    <3>1. \A i \in DOMAIN chain[p] : IsMail(p, i)
      BY <1>1 DEF IInv, Chained, ChainOf
    <3> QED  BY <2>7, <3>1 DEF IsMail
  <2>11. Chained' /\ \A q \in Peers : q # p => \A i : Unaccepted(q, i)' <=> Unaccepted(q, i)
    <3>1. ASSUME NEW q \in Peers, q # p
          PROVE  ChainOf(q)' /\ \A i : Unaccepted(q, i)' <=> Unaccepted(q, i)
      <4>1. ChainOf(q) /\ (turn[q] # "none" => up[q])
        BY DEF IInv, Chained, ChainOf
      <4>2. Offered(q) => Offered(q)'
        BY <1>1 DEF Offered, Now
      <4> QED  BY <1>1, <2>5, <2>6, <3>1, <4>1, <4>2, SameChain
    <3>2. ChainOf(p)'
      <4>1. ChainOf(p)
        BY DEF IInv, Chained
      <4>2. \A i \in DOMAIN chain'[p] : ~IsMail(p, i)' => i = k
        BY <2>7, <2>10
      <4>3. ~IsMail(p, k)'
        BY <2>2, <2>7 DEF IsMail
      <4>4. turn'[p] # "none" => up'[p] /\ chain'[p] # <<>>
        BY <1>1, <1>4, <2>6
      <4>5. \A i \in DOMAIN chain'[p] : ~IsMail(p, i)' => task'[p] = "asked" /\ chain'[p][i].carries = carried'[p]
        BY <2>2, <2>5, <2>7, <4>2
      <4>6. \A i \in DOMAIN chain'[p] : Unaccepted(p, i)' /\ IsMail(p, i)' =>
              i \in DOMAIN chain[p] /\ Unaccepted(p, i) /\ chain'[p][i] = chain[p][i]
        BY <2>7, <4>3
      <4>7. Offered(p)' <=> Offered(p)
        BY <1>1 DEF Offered, Now
      <4>8. \A i \in DOMAIN chain'[p] : Unaccepted(p, i)' /\ IsMail(p, i)' =>
              Offered(p)' /\ chain'[p][i].carries = prelude'
        BY <1>1, <2>10, <4>1, <4>6, <4>7 DEF ChainOf
      <4>9. \A i, j \in DOMAIN chain'[p] :
              Unaccepted(p, i)' /\ Unaccepted(p, j)' /\ IsMail(p, i)' /\ IsMail(p, j)' => i = j
        BY <2>10, <4>1, <4>6 DEF ChainOf
      <4> QED  BY <4>2, <4>4, <4>5, <4>8, <4>9 DEF ChainOf
    <3> QED  BY <3>1, <3>2 DEF Chained
  <2>12. Accepted'
    <3>1. phase' = "ack" => \A m \in prelude' \cup {Cur'} : got'[m] > 0
      BY <1>1 DEF IInv, Accepted, Cur
    <3>2. \A m \in Ids : m \notin Queued' => got'[m] = 0
      BY <1>1 DEF IInv, Accepted, Queued
    <3>3. turn'[p] # "none" => IsMail(p, 1)'
      BY <1>1, <2>7, <2>10
    <3>4. \A q \in Peers : \A m \in carried'[q] :
            task'[q] = "ack" \/ (turn'[q] # "none" /\ ~IsMail(q, 1)') => got'[m] > 0
      <4> SUFFICES ASSUME NEW q \in Peers, NEW m \in carried'[q],
                          task'[q] = "ack" \/ (turn'[q] # "none" /\ ~IsMail(q, 1)')
                   PROVE  got'[m] > 0
        OBVIOUS
      <4>1. q # p
        BY <2>5, <3>3
      <4>2. IsMail(q, 1)' <=> IsMail(q, 1)
        BY <2>6, <4>1 DEF IsMail
      <4> QED  BY <1>1, <2>5, <4>1, <4>2 DEF IInv, Accepted
    <3> QED  BY <3>1, <3>2, <3>4 DEF Accepted
  <2>13. Swept'
    BY <1>1, <2>3 DEF IInv, Swept, Queued, QuietTo, Now
  <2>14. NothingLost'
    <3>1. \A q \in Peers : Carried[q] \subseteq Carried'[q]
      BY <1>1, <2>5 DEF Carried
    <3>2. Carried'[p] = S
      BY <2>5 DEF Carried
    <3> QED  BY <1>1, <2>3, <3>1, <3>2 DEF IInv, NothingLost
  <2>15. Explained'
    <3>1. ASSUME NEW m \in Queued, NEW q \in Peers, Pending(q, m)' PROVE Pending(q, m)
      <4>1. /\ msgs[m].to = q /\ up[q]
            /\ \/ \E i \in DOMAIN chain'[q] : Unaccepted(q, i)' /\ m \in Brings(q, i)'
               \/ msgs[m].kind = "quiet" /\ m \notin delivering /\ m \notin delivered
        BY <1>1, <2>3, <3>1 DEF Pending
      <4>2. CASE q # p
        <5>1. \A i : Brings(q, i)' = Brings(q, i)
          BY <1>1, <2>6, <4>2 DEF Brings, IsMail, Cur
        <5> QED  BY <2>6, <2>11, <4>1, <4>2, <5>1 DEF Pending
      <4>3. CASE q = p
        <5>1. \A i \in DOMAIN chain[p] : Brings(p, i)' = Brings(p, i)
          BY <1>1, <2>7 DEF Brings, IsMail, Cur
        <5>2. Brings(p, k)' = S
          BY <2>2, <2>7 DEF Brings, IsMail
        <5>3. m \in S => Pending(q, m)
          BY <2>1, <4>1, <4>3 DEF Pending, QuietTo
        <5> QED  BY <2>7, <4>1, <4>3, <5>1, <5>2, <5>3 DEF Pending
      <4> QED  BY <4>2, <4>3
    <3>2. Faults' \in Nat /\ Faults <= Faults'
      BY <1>1, FaultsGrow DEF IInv
    <3> QED  BY <1>1, <3>1, <3>2, StillExplained DEF IInv
  <2> QED  BY <2>8, <2>9, <2>11, <2>12, <2>13, <2>14, <2>15 DEF IInv
<1> QED  BY <1>1, <1>3, <1>4 DEF Ask

\* The message that is queued is the journal's last; no delivery is under way.
LEMMA NewMessage ==
    ASSUME IInv, phase = "idle", sends # <<>>,
           msgs' = Append(msgs, [to |-> Now.to, kind |-> Now.kind])
    PROVE  /\ msgs' \in Seq(Message) /\ Queued' = Queued \cup {Cur'} /\ Cur' \notin Queued
           /\ Cur' \in Ids /\ got[Cur'] = 0 /\ msgs' # <<>>
           /\ \A m \in Queued : msgs'[m] = msgs[m]
           /\ msgs'[Cur'] = [to |-> Now.to, kind |-> Now.kind]
           /\ Len(msgs) \in Nat /\ Len(sends) \in Nat /\ Len(msgs') = Len(msgs) + 1
           /\ Len(msgs) + Len(sends) <= MaxMsgs
           /\ \A p \in Peers : \A i \in DOMAIN chain[p] : Unaccepted(p, i) => ~IsMail(p, i)
<1> DEFINE x == [to |-> Now.to, kind |-> Now.kind]
<1>1. msgs \in Seq(Message) /\ sends \in Seq(Sending) /\ x \in Message /\ msgs' = Append(msgs, x)
  <2>1. Now \in Sending
    BY Facts DEF IInv
  <2> QED  BY <2>1 DEF IInv, MailTypes, Sending, Message
<1> HIDE DEF x
<1>2. PICK n \in Nat : n = Len(msgs) /\ DOMAIN msgs = 1..n
  BY <1>1
<1>3. PICK k \in Nat : k = Len(sends)
  BY <1>1
<1>4. k # 0
  BY <1>1, <1>3, EmptySeq
<1>5. n + k <= MaxMsgs
  BY <1>2, <1>3, PeerMailConstants DEF IInv, Serialized
<1>6. Len(msgs') = n + 1 /\ msgs' \in Seq(Message) /\ msgs'[n + 1] = x /\ msgs' # <<>>
  BY <1>1, <1>2
<1>7. \A m \in 1..n : msgs'[m] = msgs[m]
  BY <1>1, <1>2
<1>8. Queued = 1..n /\ Queued' = 1..(n + 1) /\ Cur' = n + 1
  BY <1>2, <1>6 DEF Queued, Cur
<1>9. 1..(n + 1) = 1..n \cup {n + 1} /\ n + 1 \notin 1..n /\ n + 1 \in 1..MaxMsgs
  BY <1>4, <1>5, PeerMailConstants
<1>10. got[n + 1] = 0
  BY <1>8, <1>9 DEF IInv, Accepted, Ids
<1>11. \A p \in Peers : \A i \in DOMAIN chain[p] : Unaccepted(p, i) => ~IsMail(p, i)
  BY DEF IInv, Chained, ChainOf, Offered
<1> QED
  BY <1>2, <1>3, <1>5, <1>6, <1>7, <1>8, <1>9, <1>10, <1>11 DEF Ids, x

\* Giving a new message once needs no fault.
LEMMA NewExplained ==
    ASSUME IInv, phase = "idle", sends # <<>>,
           msgs' = Append(msgs, [to |-> Now.to, kind |-> Now.kind]),
           UNCHANGED <<got, deaths, troubles, life>>,
           \A m \in Queued, p \in Peers : Pending(p, m)' => Pending(p, m)
    PROVE  Explained'
<1>1. Queued' = Queued \cup {Cur'} /\ Cur' \in Ids /\ got[Cur'] = 0
  BY NewMessage
<1>2. Faults' = Faults
  BY DEF Faults, Restarted
<1>3. Faults \in Nat /\ 1 <= Faults
  <2> DEFINE c == Cardinality(Restarted)
  <2>1. c \in Nat /\ deaths \in Nat /\ troubles \in Nat /\ Faults = 1 + deaths + troubles + c
    BY FaultsAre DEF IInv, MailTypes, Faults
  <2> HIDE DEF c
  <2> QED  BY <2>1
<1>4. got[Cur'] <= Faults /\ got[Cur'] + 1 <= Faults
  BY <1>1, <1>3
<1>5. ASSUME NEW m \in Queued'
      PROVE  got'[m] <= Faults' /\ \A p \in Peers : Pending(p, m)' => got'[m] + 1 <= Faults'
  <2>1. CASE m \in Queued
    BY <1>2, <2>1 DEF IInv, Explained
  <2>2. CASE m = Cur'
    BY <1>2, <1>4, <2>2
  <2> QED  BY <1>1, <2>1, <2>2
<1> QED  BY <1>5 DEF Explained

\* A message is queued; a waking one is offered to its peer with the quiet mail before it.
LEMMA QueueKeeps ==
    ASSUME IInv, Queue
    PROVE  IInv'
<1>1. /\ phase = "idle" /\ sends # <<>> /\ msgs' = Append(msgs, [to |-> Now.to, kind |-> Now.kind])
      /\ UNCHANGED <<delivered, up, life, task, carried, retried, got, deaths, troubles>>
  BY DEF Queue, workVars
<1> DEFINE new == Cur'
<1>2. /\ msgs' \in Seq(Message) /\ Queued' = Queued \cup {new} /\ new \notin Queued
      /\ new \in Ids /\ got[new] = 0 /\ msgs' # <<>>
      /\ \A m \in Queued : msgs'[m] = msgs[m]
      /\ msgs'[new] = [to |-> Now.to, kind |-> Now.kind]
      /\ Len(msgs) \in Nat /\ Len(sends) \in Nat /\ Len(msgs') = Len(msgs) + 1
      /\ Len(msgs) + Len(sends) <= MaxMsgs
      /\ \A p \in Peers : \A i \in DOMAIN chain[p] : Unaccepted(p, i) => ~IsMail(p, i)
  BY <1>1, NewMessage
<1>3. new = Cur'
  OBVIOUS
<1> HIDE DEF new
<1>4. /\ delivered \subseteq Queued /\ delivering \subseteq Queued /\ prelude = {}
      /\ Queued \subseteq Ids /\ Now.to \in Peers /\ RestartedOnce'
      /\ \A p \in Peers : carried[p] \subseteq delivering /\ \A m \in carried[p] : QuietTo(m, p)
  BY <1>1, Facts DEF IInv, MailTypes, Serialized, RestartedOnce, Reserved
<1>5. \A m \in Ids : m \notin Queued' => got'[m] = 0
  BY <1>1, <1>2 DEF IInv, Accepted
<1>6. \A p \in Peers : \A m \in Queued : QuietTo(m, p)' <=> QuietTo(m, p)
  BY <1>2 DEF QuietTo
<1>7. CASE Return /\ UNCHANGED <<delivering, chain>>
  <2>1. /\ sends' \in Seq(Sending) /\ Len(sends') = Len(sends) - 1
        /\ turn' \in [Peers -> TurnStates] /\ phase' = "idle" /\ prelude' = {}
        /\ \A p \in Peers : turn'[p] = "none" <=> turn[p] = "none"
    BY <1>1, <1>7, Returned DEF IInv
  <2>2. MailTypes' /\ PeerTypes'
    BY <1>1, <1>2, <1>4, <1>7, <2>1 DEF IInv, MailTypes, PeerTypes
  <2>3. Serialized'
    <3>1. Len(msgs') + Len(sends') <= MaxMsgs
      BY <1>2, <2>1, PeerMailConstants
    <3> QED  BY <2>1, <3>1, PeerMailConstants DEF Serialized
  <2>4. Reserved' /\ Swept'
    <3>1. \A p \in Peers : \A m \in carried[p] : QuietTo(m, p)'
      BY <1>4, <1>6
    <3> QED  BY <1>1, <1>7, <2>1, <3>1 DEF IInv, Reserved, Swept
  <2>5. Chained' /\ \A q \in Peers : \A i : Unaccepted(q, i)' <=> Unaccepted(q, i)
    <3>1. \A q \in Peers : ~Offered(q)
      BY <1>1 DEF Offered
    <3> QED  BY <1>1, <1>7, <2>1, <3>1, SameChains DEF IInv
  <2>6. Accepted'
    BY <1>1, <1>5, <1>7, <2>1 DEF IInv, Accepted, IsMail
  <2>7. NothingLost'
    <3>1. \A p \in Peers : Carried'[p] = Carried[p]
      BY <1>1 DEF Carried
    <3> QED  BY <1>1, <1>4, <1>7, <3>1 DEF IInv, NothingLost
  <2>8. Explained'
    <3>1. ASSUME NEW m \in Queued, NEW q \in Peers, Pending(q, m)' PROVE Pending(q, m)
      <4>1. \A i \in DOMAIN chain[q] : Unaccepted(q, i) => Brings(q, i)' = Brings(q, i)
        BY <1>2, <1>7 DEF Brings, IsMail
      <4>2. \A i : Unaccepted(q, i) => i \in DOMAIN chain[q]
        BY DEF Unaccepted
      <4>3. /\ msgs[m].to = q /\ up[q]
            /\ \/ \E i \in DOMAIN chain[q] : Unaccepted(q, i)' /\ m \in Brings(q, i)'
               \/ msgs[m].kind = "quiet" /\ m \notin delivering /\ m \notin delivered
        BY <1>1, <1>2, <1>7, <3>1 DEF Pending
      <4> QED  BY <2>5, <4>1, <4>2, <4>3 DEF Pending
    <3> QED  BY <1>1, <3>1, NewExplained
  <2> QED  BY <1>4, <2>2, <2>3, <2>4, <2>5, <2>6, <2>7, <2>8 DEF IInv
<1>8. CASE /\ Now.kind = "wakeup" /\ up[Now.to]
           /\ prelude' = QuietFor(Now.to) /\ delivering' = delivering \cup prelude'
           /\ chain' = [chain EXCEPT ![Now.to] = Append(chain[Now.to], Job("mail", prelude'))]
           /\ phase' = "offered" /\ UNCHANGED <<sends, turn>>
  <2>0. PICK p \in Peers : p = Now.to
    BY <1>4
  <2> DEFINE S == QuietFor(p)
             job == Job("mail", S)
  <2>1. /\ S \subseteq Queued /\ S \subseteq Ids /\ p \in Peers
        /\ \A m \in S : QuietTo(m, p) /\ m \notin delivered /\ m \notin delivering
        /\ \A m \in Queued : QuietTo(m, p) => m \in S \cup delivered \cup delivering
    BY <1>4, <2>0 DEF QuietFor, QuietTo
  <2>2. job \in Turn /\ job.of = "mail" /\ job.carries = S
    BY <2>1 DEF Turn, Job
  <2>3. /\ up[p] /\ prelude' = S /\ delivering' = delivering \cup S /\ p = Now.to /\ Now' = Now
        /\ chain' = [chain EXCEPT ![p] = Append(chain[p], job)]
    BY <1>8, <2>0 DEF Now
  <2> HIDE DEF S, job
  <2>4. /\ chain' \in [Peers -> Seq(Turn)] /\ chain'[p] # <<>>
        /\ \A q \in Peers : q # p => chain'[q] = chain[q]
        /\ \E k : /\ k \notin DOMAIN chain[p] /\ DOMAIN chain'[p] = DOMAIN chain[p] \cup {k}
                  /\ chain'[p][k] = job /\ Unaccepted(p, k)'
                  /\ \A i \in DOMAIN chain[p] : /\ chain'[p][i] = chain[p][i]
                                                /\ (Unaccepted(p, i)' <=> Unaccepted(p, i))
                  /\ turn[p] # "none" => 1 \in DOMAIN chain[p]
    <3>1. turn' = turn
      BY <1>8
    <3>2. job \in Turn /\ chain' = [chain EXCEPT ![p] = Append(chain[p], job)]
      BY <2>2, <2>3
    <3> QED  BY <3>1, <3>2, ChainGrows
  <2>5. PICK k : /\ k \notin DOMAIN chain[p] /\ DOMAIN chain'[p] = DOMAIN chain[p] \cup {k}
                 /\ chain'[p][k] = job /\ Unaccepted(p, k)'
                 /\ \A i \in DOMAIN chain[p] : /\ chain'[p][i] = chain[p][i]
                                               /\ (Unaccepted(p, i)' <=> Unaccepted(p, i))
                 /\ turn[p] # "none" => 1 \in DOMAIN chain[p]
    BY <2>4
  <2>6. MailTypes' /\ PeerTypes'
    BY <1>1, <1>2, <1>4, <1>8, <2>1, <2>3, <2>4 DEF IInv, MailTypes, PeerTypes
  <2>7. Serialized'
    <3>1. Len(msgs') + Len(sends') <= MaxMsgs + 1
      BY <1>2, <1>8, PeerMailConstants
    <3> QED  BY <1>1, <1>2, <1>3, <1>8, <2>3, <3>1 DEF Serialized
  <2>8. Reserved'
    <3>1. prelude' \subseteq delivering' /\ \A m \in prelude' : QuietTo(m, p)'
      BY <1>6, <2>1, <2>3
    <3>2. ASSUME NEW q \in Peers
          PROVE  /\ carried'[q] \subseteq delivering' /\ \A m \in carried'[q] : QuietTo(m, q)'
                 /\ task'[q] \notin {"asked", "ack"} => carried'[q] = {}
                 /\ carried'[q] \cap prelude' = {}
      BY <1>1, <1>4, <1>6, <2>1, <2>3 DEF IInv, Reserved
    <3> QED  BY <2>3, <3>1, <3>2 DEF Reserved
  <2>9. \A i \in DOMAIN chain[p] : IsMail(p, i)' <=> IsMail(p, i)
    BY <2>5 DEF IsMail
  <2>10. Chained' /\ \A q \in Peers : q # p => \A i : Unaccepted(q, i)' <=> Unaccepted(q, i)
    <3>1. ASSUME NEW q \in Peers, q # p
          PROVE  ChainOf(q)' /\ \A i : Unaccepted(q, i)' <=> Unaccepted(q, i)
      <4>1. ChainOf(q) /\ (turn[q] # "none" => up[q]) /\ ~Offered(q)
        BY <1>1 DEF IInv, Chained, ChainOf, Offered
      <4> QED  BY <1>1, <1>8, <2>4, <3>1, <4>1, SameChain
    <3>2. ChainOf(p)'
      <4>1. ChainOf(p)
        BY <2>1 DEF IInv, Chained
      <4>2. IsMail(p, k)'
        BY <2>2, <2>5 DEF IsMail
      <4>3. turn'[p] # "none" => up'[p] /\ chain'[p] # <<>>
        BY <1>1, <2>3, <2>4
      <4>4. \A i \in DOMAIN chain'[p] : ~IsMail(p, i)' =>
              i \in DOMAIN chain[p] /\ ~IsMail(p, i) /\ chain'[p][i] = chain[p][i]
        BY <2>5, <2>9, <4>2
      <4>5. \A i \in DOMAIN chain'[p] : ~IsMail(p, i)' => task'[p] = "asked" /\ chain'[p][i].carries = carried'[p]
        BY <1>1, <4>1, <4>4 DEF ChainOf
      <4>6. \A i, j \in DOMAIN chain'[p] : ~IsMail(p, i)' /\ ~IsMail(p, j)' => i = j
        BY <4>1, <4>4 DEF ChainOf
      <4>7. \A i \in DOMAIN chain'[p] : Unaccepted(p, i)' /\ IsMail(p, i)' => i = k
        BY <1>2, <2>1, <2>5, <2>9
      <4>8. Offered(p)' /\ chain'[p][k].carries = prelude'
        BY <1>8, <2>2, <2>3, <2>5 DEF Offered
      <4> QED  BY <4>3, <4>5, <4>6, <4>7, <4>8 DEF ChainOf
    <3> QED  BY <3>1, <3>2 DEF Chained
  <2>11. Accepted'
    <3>1. \A q \in Peers : turn'[q] # "none" => (IsMail(q, 1)' <=> IsMail(q, 1))
      BY <1>8, <2>4, <2>5, <2>9 DEF IsMail
    <3> QED  BY <1>1, <1>5, <1>8, <3>1 DEF IInv, Accepted
  <2>12. Swept'
    <3>1. \A m \in Queued' : QuietTo(m, p)' => m \in delivering' \/ got'[m] > 0
      <4> SUFFICES ASSUME NEW m \in Queued', QuietTo(m, p)' PROVE m \in delivering' \/ got'[m] > 0
        OBVIOUS
      <4>1. m # new
        BY <1>2, <1>8 DEF QuietTo
      <4>2. m \in Queued /\ QuietTo(m, p)
        BY <1>2, <1>6, <2>1, <4>1
      <4>3. \A d \in delivered : got[d] > 0
        BY DEF IInv, NothingLost
      <4> QED  BY <1>1, <2>1, <2>3, <4>2, <4>3
    <3> QED  BY <2>3, <3>1 DEF Swept
  <2>13. NothingLost'
    <3>1. \A q \in Peers : Carried'[q] = Carried[q]
      BY <1>1 DEF Carried
    <3> QED  BY <1>1, <1>4, <2>3, <3>1 DEF IInv, NothingLost
  <2>14. Explained'
    <3>1. ASSUME NEW m \in Queued, NEW q \in Peers, Pending(q, m)' PROVE Pending(q, m)
      <4>1. /\ msgs[m].to = q /\ up[q]
            /\ \/ \E i \in DOMAIN chain'[q] : Unaccepted(q, i)' /\ m \in Brings(q, i)'
               \/ msgs[m].kind = "quiet" /\ m \notin delivering /\ m \notin delivered
        BY <1>1, <1>2, <2>3, <3>1 DEF Pending
      <4>2. CASE q # p
        <5>1. \A i \in DOMAIN chain[q] : Unaccepted(q, i) => Brings(q, i)' = Brings(q, i)
          BY <1>2, <2>4, <4>2 DEF Brings, IsMail
        <5> QED  BY <2>4, <2>10, <4>1, <4>2, <5>1 DEF Pending
      <4>3. CASE q = p
        <5>1. \A i \in DOMAIN chain[p] : Unaccepted(p, i) => Brings(p, i)' = Brings(p, i)
          BY <1>2, <2>1, <2>5, <2>9 DEF Brings
        <5>2. Brings(p, k)' = S \cup {new}
          BY <1>3, <2>2, <2>5 DEF Brings, IsMail
        <5>3. m \in S => Pending(q, m)
          BY <2>1, <4>1, <4>3 DEF Pending, QuietTo
        <5>4. m # new
          BY <1>2
        <5> QED  BY <2>5, <4>1, <4>3, <5>1, <5>2, <5>3, <5>4 DEF Pending
      <4> QED  BY <4>2, <4>3
    <3> QED  BY <1>1, <3>1, NewExplained
  <2> QED  BY <1>4, <2>6, <2>7, <2>8, <2>10, <2>11, <2>12, <2>13, <2>14 DEF IInv
<1> QED  BY <1>7, <1>8 DEF Queue

\* A member fails: what its rejected turns carried is let go, and nothing else is.
LEMMA FailKeeps ==
    ASSUME IInv, NEW p \in Peers, Fail(p), deaths' \in {deaths, deaths + 1}
    PROVE  IInv'
<1>1. /\ up' = [up EXCEPT ![p] = FALSE] /\ chain' = [chain EXCEPT ![p] = <<>>]
      /\ delivering' = delivering \ Freed(p)
      /\ UNCHANGED <<msgs, delivered, life, retried, got, troubles>>
  BY DEF Fail
<1>2. /\ up \in [Peers -> BOOLEAN] /\ chain \in [Peers -> Seq(Turn)] /\ turn \in [Peers -> TurnStates]
      /\ task \in [Peers -> TaskStates] /\ carried \in [Peers -> SUBSET Ids]
      /\ {"none", "busy"} \subseteq TurnStates /\ "failing" \in TaskStates
      /\ Len(msgs) \in Nat /\ Queued \subseteq Ids /\ deaths \in Nat
  BY Facts DEF IInv, MailTypes, PeerTypes, TurnStates, TaskStates
<1>3. /\ up' \in [Peers -> BOOLEAN] /\ chain' \in [Peers -> Seq(Turn)]
      /\ up'[p] = FALSE /\ chain'[p] = <<>>
      /\ \A q \in Peers : q # p => up'[q] = up[q] /\ chain'[q] = chain[q]
  <2>1. <<>> \in Seq(Turn)
    BY EmptySeq
  <2> QED  BY <1>1, <1>2, <2>1
<1>4. /\ Asked(p) => /\ task' = [task EXCEPT ![p] = "failing"]
                     /\ carried' = [carried EXCEPT ![p] = {}]
      /\ ~Asked(p) => task' = task /\ carried' = carried
  BY DEF Fail
<1>5. /\ task' \in [Peers -> TaskStates] /\ carried' \in [Peers -> SUBSET Ids]
      /\ \A q \in Peers : q # p => task'[q] = task[q] /\ carried'[q] = carried[q]
      /\ Asked(p) => task'[p] = "failing" /\ carried'[p] = {}
  BY <1>2, <1>4
<1>6. /\ Offered(p) =>
           /\ sends' = Tail(sends) /\ phase' = "idle" /\ prelude' = {}
           /\ turn' = [q \in Peers |-> IF q = p THEN "none"
                         ELSE IF q = Now.from /\ turn[q] = "sending" /\ life[q] = Now.life
                           THEN "busy" ELSE turn[q]]
      /\ ~Offered(p) => turn' = [turn EXCEPT ![p] = "none"] /\ UNCHANGED <<sends, phase, prelude>>
  BY DEF Fail
<1>7. /\ turn' \in [Peers -> TurnStates] /\ turn'[p] = "none"
      /\ \A q \in Peers : q # p => (turn'[q] = "none" <=> turn[q] = "none")
  BY <1>2, <1>6
<1>8. /\ sends \in Seq(Sending) /\ sends' \in Seq(Sending) /\ Len(sends) \in Nat
      /\ Offered(p) => Len(sends') = Len(sends) - 1
  <2>1. sends \in Seq(Sending)
    BY DEF IInv, MailTypes
  <2>2. Offered(p) => sends # <<>>
    BY Facts DEF IInv, Offered
  <2> QED  BY <1>6, <2>1, <2>2
<1>9. \A m \in Freed(p) : QuietTo(m, p)
  BY DEF IInv, Reserved, Freed, Offered
<1>10. MailTypes' /\ PeerTypes' /\ RestartedOnce'
  <2>1. /\ delivering' \subseteq Queued /\ prelude' \subseteq Queued
        /\ phase' \in {"idle", "offered", "ack"} /\ deaths' \in Nat
    BY <1>1, <1>2, <1>6 DEF IInv, MailTypes
  <2> QED  BY <1>1, <1>3, <1>5, <1>7, <1>8, <2>1
           DEF IInv, MailTypes, PeerTypes, RestartedOnce, Queued
<1>11. Serialized'
  <2>1. CASE Offered(p)
    <3>1. phase = "offered"
      BY <2>1 DEF Offered
    <3>2. Len(msgs) + Len(sends) <= MaxMsgs + 1
      BY <3>1 DEF IInv, Serialized
    <3>3. Len(msgs') + Len(sends') <= MaxMsgs
      BY <1>1, <1>2, <1>8, <2>1, <3>2, PeerMailConstants
    <3> QED  BY <1>6, <2>1, <3>3, PeerMailConstants DEF Serialized
  <2>2. CASE ~Offered(p)
    BY <1>1, <1>6, <2>2 DEF IInv, Serialized, Cur, Now
  <2> QED  BY <2>1, <2>2
<1>12. Reserved'
  <2>1. prelude' \subseteq delivering' /\ \A m \in prelude' : QuietTo(m, Now.to)' /\ m \in prelude
    BY <1>1, <1>6 DEF IInv, Reserved, Freed, QuietTo, Now
  <2>2. ASSUME NEW q \in Peers
        PROVE  /\ carried'[q] \subseteq delivering' /\ \A m \in carried'[q] : QuietTo(m, q)'
               /\ task'[q] \notin {"asked", "ack"} => carried'[q] = {}
               /\ carried'[q] \cap prelude' = {}
    <3>1. /\ carried[q] \subseteq delivering /\ \A m \in carried[q] : QuietTo(m, q)
          /\ task[q] \notin {"asked", "ack"} => carried[q] = {}
          /\ carried[q] \cap prelude = {}
      BY DEF IInv, Reserved
    <3>2. CASE q # p
      <4>1. carried[q] \cap Freed(p) = {}
        BY <1>9, <3>1, <3>2 DEF QuietTo
      <4> QED  BY <1>1, <1>5, <2>1, <3>1, <3>2, <4>1 DEF QuietTo
    <3>3. CASE q = p /\ Asked(p)
      BY <1>5, <3>3
    <3>4. CASE q = p /\ ~Asked(p)
      <4>1. carried[p] \cap Freed(p) = {}
        BY <3>1, <3>4 DEF Freed
      <4> QED  BY <1>1, <1>4, <2>1, <3>1, <3>4, <4>1 DEF QuietTo
    <3> QED  BY <3>2, <3>3, <3>4
  <2> QED  BY <2>1, <2>2 DEF Reserved
<1>13. \A q \in Peers : q # p => ChainOf(q)' /\ \A i : Unaccepted(q, i)' <=> Unaccepted(q, i)
  <2> SUFFICES ASSUME NEW q \in Peers, q # p
               PROVE  ChainOf(q)' /\ \A i : Unaccepted(q, i)' <=> Unaccepted(q, i)
    OBVIOUS
  <2>1. ChainOf(q) /\ (turn[q] # "none" => up[q])
    BY DEF IInv, Chained, ChainOf
  <2>2. Offered(q) => Offered(q)' /\ prelude' = prelude
    BY <1>6 DEF Offered, Now
  <2>3. task[q] = "asked" => task'[q] = "asked" /\ carried'[q] = carried[q]
    BY <1>5
  <2> QED  BY <1>3, <1>7, <2>1, <2>2, <2>3, SameChain
<1>14. Chained'
  <2>1. ChainOf(p)'
    BY <1>3, <1>7 DEF ChainOf
  <2> QED  BY <1>13, <2>1 DEF Chained
<1>15. Accepted'
  <2>1. phase' = "ack" => \A m \in prelude' \cup {Cur'} : got'[m] > 0
    BY <1>1, <1>6 DEF IInv, Accepted, Cur
  <2>2. \A q \in Peers : \A m \in carried'[q] :
          task'[q] = "ack" \/ (turn'[q] # "none" /\ ~IsMail(q, 1)') => got'[m] > 0
    <3> SUFFICES ASSUME NEW q \in Peers, NEW m \in carried'[q],
                        task'[q] = "ack" \/ (turn'[q] # "none" /\ ~IsMail(q, 1)')
                 PROVE  got'[m] > 0
      OBVIOUS
    <3>1. CASE q # p
      <4>1. IsMail(q, 1)' <=> IsMail(q, 1)
        BY <1>3, <3>1 DEF IsMail
      <4>2. m \in carried[q] /\ (task[q] = "ack" \/ (turn[q] # "none" /\ ~IsMail(q, 1)))
        BY <1>5, <1>7, <3>1, <4>1
      <4> QED  BY <1>1, <4>2 DEF IInv, Accepted
    <3>2. CASE q = p
      <4>1. ~Asked(p) /\ task[p] = "ack" /\ m \in carried[p]
        BY <1>4, <1>5, <1>7, <3>2
      <4> QED  BY <1>1, <4>1 DEF IInv, Accepted
    <3> QED  BY <3>1, <3>2
  <2>3. \A m \in Ids : m \notin Queued' => got'[m] = 0
    BY <1>1 DEF IInv, Accepted, Queued
  <2> QED  BY <2>1, <2>2, <2>3 DEF Accepted
<1>16. Swept'
  <2>1. phase' = "offered" => phase = "offered" /\ Now.to # p /\ Now' = Now
    BY <1>6 DEF Offered, Now
  <2>2. ASSUME phase' = "offered", NEW m \in Queued, QuietTo(m, Now.to)
        PROVE  m \in delivering' \/ got[m] > 0
    <3>1. m \in delivering \/ got[m] > 0
      BY <2>1, <2>2 DEF IInv, Swept
    <3>2. m \notin Freed(p)
      BY <1>9, <2>1, <2>2 DEF QuietTo
    <3> QED  BY <1>1, <3>1, <3>2
  <2>3. Queued' = Queued
    BY <1>1 DEF Queued
  <2>4. \A m, q : QuietTo(m, q)' <=> QuietTo(m, q)
    BY <1>1 DEF QuietTo
  <2> QED  BY <1>1, <2>1, <2>2, <2>3, <2>4 DEF Swept
<1>17. NothingLost'
  <2>1. \A m \in delivered' : got'[m] > 0
    BY <1>1 DEF IInv, NothingLost
  <2>2. ASSUME NEW m \in delivering'
        PROVE  got'[m] > 0 \/ m \in prelude' \/ \E q \in Peers : m \in Carried'[q]
    <3>1. m \notin Freed(p) /\ (got[m] > 0 \/ m \in prelude \/ \E q \in Peers : m \in Carried[q])
      BY <1>1 DEF IInv, NothingLost
    <3>2. CASE m \in prelude
      BY <1>6, <3>1, <3>2 DEF Freed
    <3>3. ASSUME NEW q \in Peers, m \in Carried[q] PROVE m \in Carried'[q]
      <4>1. q = p => ~Asked(p)
        BY <3>1, <3>3 DEF Freed, Carried, Asked
      <4> QED  BY <1>4, <1>5, <3>3, <4>1 DEF Carried
    <3> QED  BY <1>1, <3>1, <3>2, <3>3
  <2> QED  BY <2>1, <2>2 DEF NothingLost
<1>18. Explained'
  <2>1. ASSUME NEW m \in Queued, NEW q \in Peers, Pending(q, m)' PROVE Pending(q, m)
    <3>1. /\ msgs[m].to = q /\ up'[q]
          /\ \/ \E i \in DOMAIN chain'[q] : Unaccepted(q, i)' /\ m \in Brings(q, i)'
             \/ msgs[m].kind = "quiet" /\ m \notin delivering' /\ m \notin delivered
      BY <1>1, <2>1 DEF Pending
    <3>2. q # p
      BY <1>3, <3>1
    <3>3. \A i : Brings(q, i)' = Brings(q, i)
      BY <1>1, <1>3, <3>2 DEF Brings, IsMail, Cur
    <3>4. m \notin Freed(p)
      BY <1>9, <3>1, <3>2 DEF QuietTo
    <3> QED  BY <1>1, <1>3, <1>13, <3>1, <3>2, <3>3, <3>4 DEF Pending
  <2>2. Faults' \in Nat /\ Faults <= Faults'
    BY <1>1, FaultsGrow DEF IInv
  <2> QED  BY <1>1, <2>1, <2>2, StillExplained DEF IInv
<1> QED  BY <1>10, <1>11, <1>12, <1>14, <1>15, <1>16, <1>17, <1>18 DEF IInv

(***************************************************************************)
(* The theorems                                                            *)
(***************************************************************************)
\* The invariant holds before anybody was asked anything.
LEMMA InitKeeps ==
    ASSUME Init
    PROVE  IInv
<1>1. msgs = <<>> /\ Len(msgs) = 0 /\ Queued = {} /\ sends = <<>> /\ Len(sends) = 0
  BY EmptySeq DEF Init, Queued
<1>2. MailTypes /\ PeerTypes
  <2>1. <<>> \in Seq(Message) /\ <<>> \in Seq(Sending) /\ <<>> \in Seq(Turn)
    BY EmptySeq
  <2> QED  BY <1>1, <2>1 DEF Init, MailTypes, PeerTypes, TurnStates, TaskStates
<1>3. Serialized
  BY <1>1, PeerMailConstants DEF Init, Serialized
<1>4. Reserved /\ Accepted /\ RestartedOnce /\ Swept /\ NothingLost
  BY <1>1 DEF Init, Reserved, Accepted, RestartedOnce, Swept, NothingLost
<1>5. Chained
  BY DEF Init, Chained, ChainOf
<1>6. Explained
  BY <1>1 DEF Explained
<1> QED  BY <1>2, <1>3, <1>4, <1>5, <1>6 DEF IInv

\* Every step keeps it.
LEMMA NextKeeps ==
    ASSUME IInv, [Next]_vars
    PROVE  IInv'
<1>1. CASE vars' = vars
  <2>1. UNCHANGED <<msgs, delivered, delivering, sends, phase, prelude, chain, turn, up, life>>
    BY <1>1 DEF vars
  <2>2. UNCHANGED <<task, carried, retried, got, deaths, troubles>>
    BY <1>1 DEF vars
  <2>3. UNCHANGED mailVars /\ turn' \in [Peers -> TurnStates] /\ task' \in [Peers -> TaskStates]
    BY <2>1, <2>2 DEF mailVars, IInv, PeerTypes
  <2> QED  BY <2>1, <2>2, <2>3, WorkerKeeps
<1>2. CASE Mail \/ QueueFails \/ AckSendFails
  BY <1>2, QueueKeeps, AckSendKeeps, SendFailsKeeps DEF Mail
<1>3. ASSUME NEW p \in Peers, Step(p) \/ Send(p) \/ Exit(p) \/ Hang(p) \/ Stall(p) \/ AckTaskFails(p)
      PROVE  IInv'
  <2>1. CASE Ask(p) \/ StartTurn(p) \/ EndTurn(p)
    BY <2>1, AskKeeps, StartTurnKeeps, EndTurnKeeps
  <2>2. CASE AckTask(p) \/ AckTaskFails(p)
    BY <2>2, AckTaskKeeps
  <2>3. CASE Shut(p) \/ Stall(p) \/ Exit(p)
    <3>1. Fail(p) /\ deaths' \in {deaths, deaths + 1}
      BY <2>3 DEF Shut, Stall, Exit
    <3> QED  BY <3>1, FailKeeps
  <2>4. CASE Restart(p)
    BY <2>4, RestartKeeps
  <2>5. CASE Drop(p) \/ Hang(p)
    BY <2>5, HangKeeps
  <2>6. CASE Send(p)
    BY <2>6, SendKeeps
  <2> QED  BY <1>3, <2>1, <2>2, <2>3, <2>4, <2>5, <2>6 DEF Step
<1> QED  BY <1>1, <1>2, <1>3 DEF Next

\* The inductive invariant holds of every behaviour, for any team and any mail.
THEOREM Inductive == Spec => []IInv
<1> QED  BY InitKeeps, NextKeeps, PTL DEF Spec

\* The type invariant's claim that a chain has its task once, in its own words.
LEMMA TypesFollow ==
    ASSUME IInv
    PROVE  TypeOK
<1>1. ASSUME NEW p \in Peers
      PROVE  Cardinality({i \in DOMAIN chain[p] : chain[p][i].of = "task"}) <= 1
  <2> DEFINE T == {i \in DOMAIN chain[p] : chain[p][i].of = "task"}
  <2>1. \A i, j \in T : i = j
    BY DEF IInv, Chained, ChainOf, IsMail
  <2>2. CASE T = {}
    <3>1. Cardinality(T) = 0
      BY <2>2, FS_EmptySet
    <3> QED  BY <3>1
  <2>3. CASE T # {}
    <3>1. PICK i \in T : T = {i}
      BY <2>1, <2>3
    <3>2. Cardinality(T) = 1
      BY <3>1, FS_Singleton
    <3> QED  BY <3>2
  <2> QED  BY <2>2, <2>3
<1>2. \A p \in Peers : turn[p] # "none" => up[p] /\ chain[p] # <<>>
  BY DEF IInv, Chained, ChainOf
<1>3. phase # "idle" => sends # <<>>
  BY DEF IInv, Serialized
<1> QED  BY <1>1, <1>2, <1>3 DEF IInv, MailTypes, TypeOK

\* No message is carried twice at once, given oftener than its faults explain, called
\* delivered when nobody accepted it, or stranded (mailbox.ts, remote-peer.ts).
THEOREM MailIsSafe == Spec => []MailSafe
<1>1. ASSUME IInv PROVE MailSafe
  <2>1. TypeOK
    BY <1>1, TypesFollow
  <2>2. CarriedByOne
    <3>1. ASSUME NEW p \in Peers PROVE Carried[p] \subseteq carried[p]
      BY DEF Carried
    <3>2. \A p \in Peers : carried[p] \cap prelude = {} /\ \A m \in carried[p] : msgs[m].to = p
      BY <1>1 DEF IInv, Reserved, QuietTo
    <3> QED  BY <3>1, <3>2 DEF CarriedByOne
  <2>3. OncePerFault
    <3>1. Faults \in Nat
      BY <1>1, FaultsAre DEF IInv
    <3>2. \A m \in Ids : got[m] <= Faults
      BY <1>1, <3>1 DEF IInv, Explained, Accepted
    <3> QED  BY <3>2 DEF OncePerFault, Faults, Restarted
  <2> QED  BY <1>1, <2>1, <2>2, <2>3 DEF IInv, MailSafe
<1> QED  BY <1>1, Inductive, PTL

\* When a peer accepts a waking message, every quiet one to it was given to it, or is held
\* by its worker's turn (framePendingQuiet).
THEOREM NoneOvertakes == Spec => QuietRides
<1>1. ASSUME IInv, [Next]_vars
      PROVE  [\A p \in Peers : Offered(p) /\ phase' = "ack" =>
                \A m \in Queued : msgs[m].to = p /\ msgs[m].kind = "quiet" =>
                   got'[m] > 0 \/ m \in delivering]_vars
  <2> SUFFICES ASSUME NEW p \in Peers, Offered(p), phase' = "ack", NEW m \in Queued,
                      msgs[m].to = p, msgs[m].kind = "quiet"
               PROVE  got'[m] > 0 \/ m \in delivering
    OBVIOUS
  <2>1. m \in delivering \/ got[m] > 0
    BY <1>1 DEF IInv, Swept, Offered, QuietTo
  <2>2. got[m] > 0 => got'[m] > 0
    <3>1. phase = "offered" /\ got[m] \in Nat /\ m \in Ids
      BY <1>1, Facts DEF IInv, Offered
    <3>2. CASE got' = got
      BY <3>2
    <3>3. ASSUME NEW q \in Peers, StartTurn(q) PROVE got'[m] \in {got[m], got[m] + 1}
      BY <3>1, <3>3 DEF StartTurn
    <3>4. got' = got \/ \E q \in Peers : StartTurn(q)
      BY <1>1 DEF Next, vars, Step, Mail, Send, Exit, Hang, Stall, AckTaskFails, Ask, EndTurn,
                  AckTask, Shut, Restart, Drop, Fail, Queue, AckSend, QueueFails, AckSendFails
    <3> QED  BY <3>1, <3>2, <3>3, <3>4
  <2> QED  BY <2>1, <2>2
<1> QED  BY <1>1, Inductive, PTL DEF Spec, QuietRides
=============================================================================
