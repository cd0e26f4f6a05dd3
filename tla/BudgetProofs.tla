---------------------------- MODULE BudgetProofs ----------------------------
(***************************************************************************)
(* Theorems about RunBudget and the question queue it extends, for any     *)
(* tasks, budgets, slots and failures: what a run overshoots its budget    *)
(* by, who may extend it, what a stop refuses, and that a question's       *)
(* record is closed once.                                                  *)
(***************************************************************************)
EXTENDS RunBudget, FiniteSetTheorems, SequenceTheorems, WellFoundedInduction, TLAPS

(***************************************************************************)
(* The inductive invariant: the questions                                  *)
(***************************************************************************)
OpenRecord == [t : {"open"}, id : Nat \ {0}]
ClosedRecord ==
    [t : {"closed"}, id : Nat \ {0}, answer : Answers, by : {"nobody", "person", "cap"}]
QuestionRecord == OpenRecord \cup ClosedRecord
DecisionRecord == [t : {"budget"}, scope : Scopes]
UsageRecord == [t : {"usage"}, task : Tasks, cost : 0..MaxCost]
Record == QuestionRecord \cup DecisionRecord \cup UsageRecord

QuestionTypes ==
    /\ asked \in Nat \ {0} /\ open \subseteq 1..(asked - 1) /\ ended \in BOOLEAN
    /\ reply \in Seq({"none", "error"} \cup Answers) /\ Len(reply) = asked - 1
    /\ writes \in Seq(Record) /\ log \in Seq(QuestionRecord)
    /\ troubles \in Nat /\ crashes \in Nat

\* The questions' records on their way to the journal.
Waiting == {j \in DOMAIN writes : IsQuestion(writes[j])}

\* Two records of one question, in that order.
OpenThenClosed(r, s) == r.id = s.id => r.t = "open" /\ s.t = "closed"

\* A question is recorded when it opens and when it closes, whatever is written by now.
ClosedOnce ==
    /\ \A i, j \in DOMAIN log : i < j => OpenThenClosed(log[i], log[j])
    /\ \A i, j \in Waiting : i < j => OpenThenClosed(writes[i], writes[j])
    /\ \A i \in DOMAIN log, j \in Waiting : OpenThenClosed(log[i], writes[j])
    /\ \A i \in DOMAIN log : log[i].id < asked
    /\ \A i \in DOMAIN log : log[i].t = "closed" => log[i].id \notin open

\* No append failed: the ids in the journal are those up to some, in their order.
NoIdMissing ==
    /\ \A i \in DOMAIN log : \A m \in 1..log[i].id : m \in Ids
    /\ \A j \in Waiting : \A m \in 1..writes[j].id :
         m \in Ids \/ \E k \in Waiting : k <= j /\ writes[k].id = m
    /\ \A m \in 1..(asked - 1) : m \in Ids \/ \E k \in Waiting : writes[k].id = m

QuestionInv ==
    /\ QuestionTypes /\ QueueBounded
    /\ \A j \in Waiting : writes[j].id < asked
    /\ \A j \in Waiting : writes[j].t = "closed" => writes[j].id \notin open
    /\ troubles = 0 \/ crashes = 0 => ClosedOnce
    /\ troubles = 0 => NoIdMissing

\* Another answer than the default is a person's, and given once it is in the journal.
AnswersTrue ==
    /\ \A j \in Waiting :
         writes[j].t = "closed" /\ writes[j].answer = "other" => writes[j].by = "person"
    /\ \A q \in DOMAIN reply : reply[q] = "other" =>
         \E i \in DOMAIN log : log[i] = Closed(q, "other", "person")

(***************************************************************************)
(* The inductive invariant: the budgets                                    *)
(***************************************************************************)
States == Starting \cup InSlot \cup {"idle", "abandoned"}

BudgetTypes ==
    /\ first \in [Scopes -> Nat] /\ limit \in [Scopes -> Nat]
    /\ stopped \in [Scopes -> BOOLEAN]
    /\ pending \in [Scopes -> [q : Nat, unpriced : BOOLEAN, said : BOOLEAN]]
    /\ spent \in [Scopes -> Nat] /\ unpriced \in [Scopes -> Nat]
    /\ st \in [Tasks -> States] /\ at \in [Tasks -> Scopes]
    /\ queue \in Seq(Tasks) /\ runs \in Nat
    /\ extensions \in [Scopes -> SUBSET Nat]

\* A start checked against its run's budget passed its task's, which nobody asks about.
Checked ==
    \A t \in Tasks :
        /\ at[t] \in {t, "run"}
        /\ st[t] \in {"first", "second"} /\ at[t] = "run" =>
             ~stopped[t] /\ pending[t] = NoQuestion

\* A scope's question is asked, and of a limit.
AskedOf ==
    \A s \in Scopes : pending[s] # NoQuestion =>
        pending[s].q \in 1..(asked - 1) /\ (~pending[s].said => limit[s] # 0)

\* The starts that wait for a slot, and those that hold one.
Slots ==
    /\ \A i \in DOMAIN queue : st[queue[i]] = "queued"
    /\ \A i, j \in DOMAIN queue : i # j => queue[i] # queue[j]
    /\ Cardinality(Holding(Tasks)) <= SlotCount

\* A member run that ended keeps its slot until its usage is written.
Usages ==
    /\ \A j \in DOMAIN writes : writes[j].t = "usage" => st[writes[j].task] = "settling"
    /\ \A i, j \in DOMAIN writes : writes[i].t = "usage" /\ writes[j].t = "usage" /\ i # j =>
         writes[i].task # writes[j].task

IInv ==
    /\ QuestionInv /\ AnswersTrue /\ BudgetTypes /\ Checked /\ AskedOf /\ Slots /\ Usages
    /\ OvershootBounded /\ ExtendedByPerson

(***************************************************************************)
(* Finite sets of numbers                                                  *)
(***************************************************************************)
\* A set of places has a last one.
LEMMA LastPlace ==
    ASSUME NEW n \in Nat, NEW S \in SUBSET (1..n), S # {}
    PROVE  \E m \in S : \A i \in S : i <= m
<1> DEFINE T == {n - i : i \in S}
<1>1. \A i \in S : i \in 1..n /\ n - i \in Nat /\ n - i \in T
  OBVIOUS
<1>2. T \subseteq Nat /\ T # {}
  BY <1>1
<1>3. PICK x \in T : \A y \in T : ~(<<y, x>> \in OpToRel(<, Nat))
  BY <1>2, NatLessThanWellFounded, WFMin
<1>4. \A y \in T : ~(y < x)
  BY <1>2, <1>3 DEF OpToRel
<1>5. PICK m \in S : x = n - m
  OBVIOUS
<1>6. \A i \in S : ~(n - i < n - m)
  BY <1>1, <1>4, <1>5
<1> QED  BY <1>1, <1>6

\* The members of a set of ids can be counted off by how many are below each: what End and
\* Crash close, they close once.
LEMMA CountedOff ==
    ASSUME NEW Q \in SUBSET Nat, IsFiniteSet(Q)
    PROVE  /\ Cardinality(Q) \in Nat
           /\ \A k \in 1..Cardinality(Q) :
                \E q \in Q : Cardinality({p \in Q : p < q}) = k - 1
<1>1. IsFiniteSet(Q)
  OBVIOUS
<1>2. PICK c \in Nat : c = Cardinality(Q)
  BY <1>1, FS_CardinalityType
<1> DEFINE Below(q) == {p \in Q : p < q}
           rank == [q \in Q |-> Cardinality(Below(q)) + 1]
<1>3. ASSUME NEW q \in Q
      PROVE  /\ IsFiniteSet(Below(q)) /\ Cardinality(Below(q)) \in Nat
             /\ Cardinality(Below(q)) < c
  <2>1. Below(q) \in SUBSET Q /\ q \in Q /\ q \notin Below(q)
    OBVIOUS
  <2>2. /\ IsFiniteSet(Below(q)) /\ Cardinality(Below(q)) <= c
        /\ c = Cardinality(Below(q)) => Q = Below(q)
    BY <1>1, <1>2, <2>1, FS_Subset
  <2>3. Cardinality(Below(q)) \in Nat
    BY <2>2, FS_CardinalityType
  <2> QED  BY <1>2, <2>1, <2>2, <2>3
<1>4. ASSUME NEW q \in Q, NEW r \in Q, q < r
      PROVE  Cardinality(Below(q)) < Cardinality(Below(r))
  <2>1. \A p \in Q : p \in Nat
    OBVIOUS
  <2>2. (\A p \in Q : p < q => p < r) /\ ~(q < q) /\ q < r
    BY <1>4, <2>1
  <2>3. Below(q) \in SUBSET Below(r) /\ q \in Below(r) /\ q \notin Below(q)
    BY <2>2
  <2>4. /\ Cardinality(Below(q)) <= Cardinality(Below(r))
        /\ Cardinality(Below(r)) = Cardinality(Below(q)) => Below(r) = Below(q)
    BY <1>3, <2>3, FS_Subset
  <2> QED  BY <1>3, <2>3, <2>4
<1> HIDE DEF Below
<1>5. rank \in [Q -> 1..c]
  BY <1>2, <1>3
<1>6. \A q, r \in Q : rank[q] = rank[r] => q = r
  <2> TAKE q, r \in Q
  <2>1. q < r \/ q = r \/ r < q
    OBVIOUS
  <2>2. rank[q] = Cardinality(Below(q)) + 1 /\ rank[r] = Cardinality(Below(r)) + 1
    OBVIOUS
  <2>3. Cardinality(Below(q)) \in Nat /\ Cardinality(Below(r)) \in Nat
    BY <1>3
  <2> QED  BY <1>4, <2>1, <2>2, <2>3
<1>7. rank \in Injection(Q, 1..c)
  BY <1>5, <1>6 DEF Injection, IsInjective
<1>8. IsFiniteSet(1..c) /\ Cardinality(1..c) = c
  BY <1>2, FS_Interval
<1>9. rank \in Surjection(Q, 1..c)
  BY <1>2, <1>7, <1>8, FS_Injection
<1>10. \A k \in 1..c : \E q \in Q : rank[q] = k
  BY <1>9 DEF Surjection
<1>11. ASSUME NEW k \in 1..c PROVE \E q \in Q : Cardinality(Below(q)) = k - 1
  <2>1. PICK q \in Q : rank[q] = k
    BY <1>10
  <2>2. Cardinality(Below(q)) + 1 = k /\ Cardinality(Below(q)) \in Nat
    BY <1>3, <2>1
  <2>3. Cardinality(Below(q)) = k - 1
    BY <2>2
  <2> QED  BY <2>3
<1> QED  BY <1>2, <1>11 DEF Below

\* Ids that leave none out are as many as the last says.
LEMMA NoneLeftOut ==
    ASSUME NEW n \in Nat, NEW S \in SUBSET (1..n), \A s \in S : 1..s \subseteq S
    PROVE  Cardinality(S) \in Nat /\ S = 1..Cardinality(S)
<1>1. CASE S = {}
  <2>1. Cardinality(S) = 0 /\ 1..0 = {}
    BY <1>1, FS_EmptySet
  <2> QED  BY <1>1, <2>1
<1>2. CASE S # {}
  <2>1. PICK m \in S : \A i \in S : i <= m
    BY <1>2, LastPlace
  <2>2. m \in Nat /\ m >= 1
    OBVIOUS
  <2>3. S = 1..m
    <3>1. 1..m \subseteq S
      BY <2>1
    <3>2. \A i \in S : i \in 1..m
      BY <2>1, <2>2
    <3> QED  BY <3>1, <3>2
  <2>4. Cardinality(1..m) = IF 1 > m THEN 0 ELSE m - 1 + 1
    BY <2>2, FS_Interval
  <2>5. Cardinality(S) = m
    BY <2>2, <2>3, <2>4
  <2> QED  BY <2>2, <2>3, <2>5
<1> QED  BY <1>1, <1>2

(***************************************************************************)
(* The steps of the question queue                                         *)
(***************************************************************************)
\* What a record is, by its kind.
LEMMA Records ==
    /\ \A r \in Record : IsQuestion(r) <=> r \in QuestionRecord
    /\ \A r \in QuestionRecord :
         /\ r \in Record /\ r.id \in Nat \ {0} /\ r.t \in {"open", "closed"} /\ IsQuestion(r)
         /\ r.t = "closed" => r.answer \in Answers /\ r = Closed(r.id, r.answer, r.by)
    /\ \A q \in Nat \ {0} : Opened(q) \in QuestionRecord
    /\ \A q \in Nat \ {0}, a \in Answers, by \in {"nobody", "person", "cap"} :
         Closed(q, a, by) \in QuestionRecord
<1>1. \A r \in ClosedRecord : r.answer \in Answers /\ r = Closed(r.id, r.answer, r.by)
  BY DEF ClosedRecord, Closed
<1>2. \A r \in OpenRecord : r.t = "open" /\ r.id \in Nat \ {0}
  BY DEF OpenRecord
<1>3. \A r \in ClosedRecord : r.t = "closed" /\ r.id \in Nat \ {0}
  BY DEF ClosedRecord
<1>4. \A r \in DecisionRecord : r.t = "budget"
  BY DEF DecisionRecord
<1>5. \A r \in UsageRecord : r.t = "usage"
  BY DEF UsageRecord
<1>6. \A q \in Nat \ {0} : Opened(q) \in OpenRecord
  BY DEF OpenRecord, Opened
<1>7. \A q \in Nat \ {0}, a \in Answers, by \in {"nobody", "person", "cap"} :
        Closed(q, a, by) \in ClosedRecord
  BY DEF ClosedRecord, Closed
<1> QED
  BY <1>1, <1>2, <1>3, <1>4, <1>5, <1>6, <1>7 DEF Record, QuestionRecord, IsQuestion

\* Records put behind the others.
LEMMA Behind ==
    ASSUME NEW S, NEW s \in Seq(S), NEW t \in Seq(S)
    PROVE  /\ s \o t \in Seq(S) /\ Len(s \o t) = Len(s) + Len(t) /\ Len(s) \in Nat
           /\ \A i \in DOMAIN s : i \in DOMAIN (s \o t) /\ (s \o t)[i] = s[i] /\ i <= Len(s)
           /\ \A k \in DOMAIN t :
                Len(s) + k \in DOMAIN (s \o t) /\ (s \o t)[Len(s) + k] = t[k]
           /\ \A i \in DOMAIN (s \o t) : i \in DOMAIN s \/
                \E k \in DOMAIN t : i = Len(s) + k /\ (s \o t)[i] = t[k]
<1>1. PICK n \in Nat, m \in Nat : /\ n = Len(s) /\ m = Len(t)
                                 /\ DOMAIN s = 1..n /\ DOMAIN t = 1..m
  OBVIOUS
<1>2. /\ s \o t \in Seq(S) /\ Len(s \o t) = n + m /\ DOMAIN (s \o t) = 1..(n + m)
      /\ \A i \in 1..(n + m) : (s \o t)[i] = IF i <= n THEN s[i] ELSE t[i - n]
  BY <1>1, ConcatProperties
<1>3. \A i \in 1..n : i \in 1..(n + m) /\ i <= n
  OBVIOUS
<1>4. \A k \in 1..m : n + k \in 1..(n + m) /\ ~(n + k <= n) /\ (n + k) - n = k
  OBVIOUS
<1>5. \A i \in 1..(n + m) : i \in 1..n \/ (~(i <= n) /\ i - n \in 1..m /\ i = n + (i - n))
  OBVIOUS
<1>6. \A k \in 1..m : n + k \in DOMAIN (s \o t) /\ (s \o t)[n + k] = t[k]
  BY <1>2, <1>4
<1>7. \A i \in 1..(n + m) : i \in 1..n \/ \E k \in 1..m : i = n + k /\ (s \o t)[i] = t[k]
  BY <1>2, <1>5
<1> QED  BY <1>1, <1>2, <1>3, <1>6, <1>7

\* What the queue's steps put behind the records on their way: each record is of a question
\* that is open, and closes it, or of the next one, which it opens first.
Fits(s) ==
    /\ s \in Seq(Record)
    /\ \A k \in DOMAIN s : IsQuestion(s[k]) =>
         /\ s[k].id \in open \cup {asked} /\ s[k].id < asked'
         /\ s[k].t = "closed" => s[k].id \notin open'
         /\ s[k].t = "open" => s[k].id = asked
    /\ \A k, l \in DOMAIN s : IsQuestion(s[k]) /\ IsQuestion(s[l]) /\ k < l =>
         OpenThenClosed(s[k], s[l])
    /\ asked' = asked + 1 => \E k \in DOMAIN s : IsQuestion(s[k]) /\ s[k].id = asked

\* A question takes the next id, or none is asked.
LEMMA NextId ==
    ASSUME NEW a \in Nat \ {0}, NEW b \in {a, a + 1}
    PROVE  /\ b \in Nat \ {0} /\ a <= b
           /\ \A m \in 1..(b - 1) : m \in 1..(a - 1) \/ (m = a /\ b = a + 1)
           /\ \A m \in 1..(a - 1) : m \in 1..(b - 1) /\ m # a
           /\ a < b => a \in 1..(b - 1)
           /\ \A i \in (1..(a - 1)) \cup {a} : \A m \in 1..i : m \in 1..(a - 1) \/ m = i
           /\ \A i \in Nat : i < a => i < b /\ i # a
OBVIOUS

\* Such records keep the questions' invariant.
LEMMA Appended ==
    ASSUME QuestionInv, NEW s, Fits(s),
           writes' = writes \o s, UNCHANGED <<log, troubles, crashes>>,
           asked' \in {asked, asked + 1}, \A q \in open' : q \in open \/ (q = asked /\ q < asked'),
           ended' \in BOOLEAN, QueueBounded',
           reply' \in Seq({"none", "error"} \cup Answers), Len(reply') = asked' - 1
    PROVE  QuestionInv'
<1> DEFINE n == Len(writes)
<1>1. /\ writes' \in Seq(Record) /\ n \in Nat
      /\ \A i \in DOMAIN writes : i \in DOMAIN writes' /\ writes'[i] = writes[i] /\ i <= n
      /\ \A k \in DOMAIN s : n + k \in DOMAIN writes' /\ writes'[n + k] = s[k]
      /\ \A i \in DOMAIN writes' : i \in DOMAIN writes \/
           \E k \in DOMAIN s : i = n + k /\ writes'[i] = s[k]
  <2>1. s \in Seq(Record) /\ writes \in Seq(Record)
    BY DEF Fits, QuestionInv, QuestionTypes
  <2> QED  BY <2>1, Behind
<1>2. /\ \A i \in Waiting : i \in Waiting' /\ writes'[i] = writes[i] /\ i <= n
      /\ \A k \in DOMAIN s : IsQuestion(s[k]) =>
           n + k \in Waiting' /\ writes'[n + k] = s[k]
      /\ \A i \in Waiting' : i \in Waiting \/
           \E k \in DOMAIN s : i = n + k /\ writes'[i] = s[k] /\ IsQuestion(s[k])
  BY <1>1 DEF Waiting
<1>3. \A k, l \in DOMAIN s : k \in Nat /\ l \in Nat /\ (n + k < n + l <=> k < l)
                             /\ n + k \in Nat /\ n <= n + k
  BY <1>1 DEF Fits
<1>4. \A k \in DOMAIN s : k >= 1
  BY DEF Fits
<1>5. /\ asked \in Nat \ {0} /\ asked' \in Nat \ {0} /\ open \subseteq 1..(asked - 1)
      /\ \A m \in 1..(asked' - 1) : m \in 1..(asked - 1) \/ (m = asked /\ asked' = asked + 1)
      /\ \A m \in 1..(asked - 1) : m \in 1..(asked' - 1) /\ m # asked
      /\ asked < asked' => asked \in 1..(asked' - 1)
      /\ \A i \in (1..(asked - 1)) \cup {asked} : \A m \in 1..i :
           m \in 1..(asked - 1) \/ m = i
      /\ \A i \in Nat : i < asked => i < asked' /\ i # asked
  <2>1. asked \in Nat \ {0} /\ open \subseteq 1..(asked - 1)
    BY DEF QuestionInv, QuestionTypes
  <2> DEFINE a == asked
             b == asked'
  <2>2. a \in Nat \ {0} /\ b \in {a, a + 1}
    BY <2>1
  <2> HIDE DEF a, b
  <2>3. /\ b \in Nat \ {0}
        /\ \A m \in 1..(b - 1) : m \in 1..(a - 1) \/ (m = a /\ b = a + 1)
        /\ \A m \in 1..(a - 1) : m \in 1..(b - 1) /\ m # a
        /\ a < b => a \in 1..(b - 1)
        /\ \A i \in (1..(a - 1)) \cup {a} : \A m \in 1..i : m \in 1..(a - 1) \/ m = i
        /\ \A i \in Nat : i < a => i < b /\ i # a
    BY <2>2, NextId
  <2> QED  BY <2>1, <2>3 DEF a, b
<1> HIDE DEF n
<1>6. QuestionTypes'
  <2>1. open' \subseteq 1..(asked' - 1)
    BY <1>5
  <2> QED  BY <1>1, <1>5, <2>1 DEF QuestionInv, QuestionTypes
<1>7. \A j \in Waiting' : writes'[j].id < asked'
  <2>1. \A j \in Waiting : writes[j].id < asked /\ writes[j].id \in Nat
    BY Records DEF QuestionInv, QuestionTypes, Waiting
  <2>2. \A j \in Waiting : writes[j].id < asked'
    BY <1>5, <2>1
  <2> QED  BY <1>2, <2>2 DEF Fits
<1>8. \A j \in Waiting' : writes'[j].t = "closed" => writes'[j].id \notin open'
  <2>1. \A j \in Waiting : writes[j].id < asked /\ writes[j].id \in Nat
    BY Records DEF QuestionInv, QuestionTypes, Waiting
  <2>2. \A j \in Waiting : writes[j].t = "closed" => writes[j].id \notin open'
    BY <1>5, <2>1 DEF QuestionInv
  <2>3. \A k \in DOMAIN s : IsQuestion(s[k]) =>
          (s[k].t = "closed" => s[k].id \notin open')
    BY DEF Fits
  <2> QED  BY <1>2, <2>2, <2>3
<1>9. ASSUME troubles = 0 \/ crashes = 0 PROVE ClosedOnce'
  <2>1. ClosedOnce
    BY <1>9 DEF QuestionInv
  <2>2. \A i \in Waiting, k \in DOMAIN s : IsQuestion(s[k]) => OpenThenClosed(writes[i], s[k])
    <3> SUFFICES ASSUME NEW i \in Waiting, NEW k \in DOMAIN s, IsQuestion(s[k]),
                        writes[i].id = s[k].id
                 PROVE  writes[i].t = "open" /\ s[k].t = "closed"
      BY DEF OpenThenClosed
    <3>1. writes[i].id < asked /\ writes[i].t \in {"open", "closed"}
      BY DEF QuestionInv, QuestionTypes, Waiting, IsQuestion
    <3>2. s[k].id # asked /\ s[k].id \in open /\ s[k].t \in {"open", "closed"}
      BY <1>5, <3>1 DEF Fits, IsQuestion
    <3> QED  BY <3>1, <3>2 DEF QuestionInv, Fits
  <2>3. \A i \in DOMAIN log, k \in DOMAIN s : IsQuestion(s[k]) => OpenThenClosed(log[i], s[k])
    <3> SUFFICES ASSUME NEW i \in DOMAIN log, NEW k \in DOMAIN s, IsQuestion(s[k]),
                        log[i].id = s[k].id
                 PROVE  log[i].t = "open" /\ s[k].t = "closed"
      BY DEF OpenThenClosed
    <3>1. log[i].id < asked /\ log[i].t \in {"open", "closed"}
      BY <2>1, Records DEF QuestionInv, QuestionTypes, ClosedOnce
    <3>2. s[k].id # asked /\ s[k].id \in open /\ s[k].t \in {"open", "closed"}
      BY <1>5, <3>1 DEF Fits, IsQuestion
    <3> QED  BY <2>1, <3>1, <3>2 DEF ClosedOnce, Fits
  <2>4. \A i, j \in Waiting' : i < j => OpenThenClosed(writes'[i], writes'[j])
    <3> TAKE i, j \in Waiting'
    <3>1. CASE i \in Waiting /\ j \in Waiting
      BY <1>2, <2>1, <3>1 DEF ClosedOnce
    <3>2. CASE i \in Waiting /\ j \notin Waiting
      BY <1>2, <2>2, <3>2
    <3>3. CASE i \notin Waiting /\ j \in Waiting
      <4>1. PICK k \in DOMAIN s : i = n + k
        BY <1>2, <3>3
      <4>2. j <= n /\ j \in Nat
        BY <1>1, <1>2, <3>3 DEF Waiting, QuestionInv, QuestionTypes
      <4>3. ~(i < j)
        BY <1>1, <1>3, <1>4, <4>1, <4>2
      <4> QED  BY <4>3
    <3>4. CASE i \notin Waiting /\ j \notin Waiting
      <4>1. PICK k \in DOMAIN s : i = n + k /\ writes'[i] = s[k] /\ IsQuestion(s[k])
        BY <1>2, <3>4
      <4>2. PICK l \in DOMAIN s : j = n + l /\ writes'[j] = s[l] /\ IsQuestion(s[l])
        BY <1>2, <3>4
      <4> QED  BY <1>3, <4>1, <4>2 DEF Fits
    <3> QED  BY <3>1, <3>2, <3>3, <3>4
  <2>5. \A i \in DOMAIN log, j \in Waiting' : OpenThenClosed(log[i], writes'[j])
    BY <1>2, <2>1, <2>3 DEF ClosedOnce
  <2>6. \A i \in DOMAIN log : log[i].id < asked' /\ (log[i].t = "closed" => log[i].id \notin open')
    <3>1. \A i \in DOMAIN log : log[i].id \in Nat
      BY Records DEF QuestionInv, QuestionTypes
    <3> QED  BY <1>5, <2>1, <3>1 DEF ClosedOnce
  <2> QED  BY <2>1, <2>4, <2>5, <2>6 DEF ClosedOnce
<1>10. ASSUME troubles = 0 PROVE NoIdMissing'
  <2>1. NoIdMissing /\ Ids' = Ids
    BY <1>10 DEF QuestionInv, Ids
  <2>2. \A m \in 1..(asked - 1) : m \in Ids \/ \E k \in Waiting' : k <= n /\ writes'[k].id = m
    BY <1>2, <2>1 DEF NoIdMissing
  <2>3. \A m \in 1..(asked' - 1) : m \in Ids \/ \E k \in Waiting' : writes'[k].id = m
    <3> TAKE m \in 1..(asked' - 1)
    <3>1. m \in 1..(asked - 1) \/ (m = asked /\ asked' = asked + 1)
      BY <1>5
    <3>2. CASE m \in 1..(asked - 1)
      BY <2>2, <3>2
    <3>3. CASE m = asked /\ asked' = asked + 1
      <4>1. PICK k \in DOMAIN s : IsQuestion(s[k]) /\ s[k].id = asked
        BY <3>3 DEF Fits
      <4> QED  BY <1>2, <3>3, <4>1
    <3> QED  BY <3>1, <3>2, <3>3
  <2>4. \A j \in Waiting' : \A m \in 1..writes'[j].id :
          m \in Ids \/ \E k \in Waiting' : k <= j /\ writes'[k].id = m
    <3> TAKE j \in Waiting'
    <3> TAKE m \in 1..writes'[j].id
    <3>1. CASE j \in Waiting
      <4>0. writes'[j] = writes[j]
        BY <1>2, <3>1
      <4>1. m \in Ids \/ \E k \in Waiting : k <= j /\ writes[k].id = m
        BY <2>1, <3>1, <4>0 DEF NoIdMissing
      <4> QED  BY <1>2, <4>1
    <3>2. CASE j \notin Waiting
      <4>1. PICK l \in DOMAIN s : j = n + l /\ writes'[j] = s[l] /\ IsQuestion(s[l])
        BY <1>2, <3>2
      <4>2. s[l].id \in open \cup {asked}
        BY <4>1 DEF Fits
      <4>3. m \in 1..(asked - 1) \/ m = writes'[j].id
        BY <1>5, <4>1, <4>2
      <4>4. n <= j /\ j <= j /\ j \in Nat
        BY <1>1, <1>3, <1>4, <4>1
      <4>5. CASE m = writes'[j].id
        BY <4>4, <4>5
      <4>6. CASE m \in 1..(asked - 1)
        <5>1. \A k \in Waiting' : k <= n => k <= j
          <6>1. Waiting' \subseteq Nat
            <7>1. DOMAIN writes' = 1..Len(writes')
              BY <1>1
            <7> QED  BY <7>1 DEF Waiting
          <6>2. \A k, i, m2 \in Nat : k <= m2 /\ m2 <= i => k <= i
            OBVIOUS
          <6> QED  BY <1>1, <4>4, <6>1, <6>2
        <5> QED  BY <2>2, <4>6, <5>1
      <4> QED  BY <4>3, <4>5, <4>6
    <3> QED  BY <3>1, <3>2
  <2> QED  BY <2>1, <2>3, <2>4 DEF NoIdMissing
<1> QED  BY <1>6, <1>7, <1>8, <1>9, <1>10 DEF QuestionInv

\* Nor do they say of an answer what is not so.
LEMMA AppendedAnswers ==
    ASSUME QuestionInv, AnswersTrue, NEW s, s \in Seq(Record),
           \A k \in DOMAIN s : s[k].t = "closed" /\ s[k].answer = "other" => s[k].by = "person",
           writes' = writes \o s, log' = log,
           reply' = reply \/ reply' = Append(reply, "none")
    PROVE  AnswersTrue'
<1>1. \A i \in DOMAIN writes' :
        \/ i \in DOMAIN writes /\ writes'[i] = writes[i]
        \/ \E k \in DOMAIN s : writes'[i] = s[k]
  <2>1. writes \in Seq(Record)
    BY DEF QuestionInv, QuestionTypes
  <2> QED  BY <2>1, Behind
<1>2. \A q \in DOMAIN reply' : reply'[q] = "other" => q \in DOMAIN reply /\ reply[q] = "other"
  <2>1. reply \in Seq({"none", "error"} \cup Answers)
    BY DEF QuestionInv, QuestionTypes
  <2>2. /\ DOMAIN Append(reply, "none") = DOMAIN reply \cup {Len(reply) + 1}
        /\ \A q \in DOMAIN reply : Append(reply, "none")[q] = reply[q]
        /\ Append(reply, "none")[Len(reply) + 1] = "none"
    BY <2>1
  <2> QED  BY <2>2
<1>3. \A j \in Waiting' : writes'[j].t = "closed" /\ writes'[j].answer = "other" =>
        writes'[j].by = "person"
  BY <1>1 DEF AnswersTrue, Waiting
<1> QED  BY <1>2, <1>3 DEF AnswersTrue

\* What End and Crash close: each question of a set, once.
LEMMA DefaultsClose ==
    ASSUME NEW Q \in SUBSET (Nat \ {0}), IsFiniteSet(Q)
    PROVE  /\ Defaults(Q) \in Seq(QuestionRecord)
           /\ \A k \in DOMAIN Defaults(Q) :
                /\ Defaults(Q)[k].id \in Q
                /\ Defaults(Q)[k] = Closed(Defaults(Q)[k].id, "default", "nobody")
           /\ \A k, l \in DOMAIN Defaults(Q) : k < l => Defaults(Q)[k].id # Defaults(Q)[l].id
<1> DEFINE c == Cardinality(Q)
           Nth(k) == CHOOSE q \in Q : Cardinality({p \in Q : p < q}) = k - 1
<1>1. c \in Nat /\ \A k \in 1..c : Nth(k) \in Q /\ Cardinality({p \in Q : p < Nth(k)}) = k - 1
  BY CountedOff
<1>2. Defaults(Q) = [k \in 1..c |-> Closed(Nth(k), "default", "nobody")]
  BY DEF Defaults
<1> HIDE DEF c, Nth
<1>3. \A k \in 1..c : /\ Closed(Nth(k), "default", "nobody").id = Nth(k)
                      /\ Closed(Nth(k), "default", "nobody") \in QuestionRecord
  <2>1. \A k \in 1..c : Nth(k) \in Nat \ {0}
    <3>1. \A q \in Q : q \in Nat \ {0}
      OBVIOUS
    <3> QED  BY <1>1, <3>1
  <2>2. "default" \in Answers
    BY DEF Answers
  <2> QED  BY <2>1, <2>2, Records DEF Closed
<1>4. /\ Defaults(Q) \in Seq(QuestionRecord) /\ DOMAIN Defaults(Q) = 1..c
      /\ \A k \in 1..c : Defaults(Q)[k] = Closed(Nth(k), "default", "nobody")
                         /\ Defaults(Q)[k].id = Nth(k)
  BY <1>1, <1>2, <1>3
<1>5. \A k, l \in 1..c : k < l => Nth(k) # Nth(l)
  <2>1. \A k, l \in 1..c : k < l => k - 1 # l - 1
    BY <1>1
  <2> QED  BY <1>1, <2>1
<1> QED  BY <1>1, <1>4, <1>5

\* One record, or two, put behind the others.
LEMMA OneBehind ==
    ASSUME NEW S, NEW s \in Seq(S), NEW x \in S
    PROVE  /\ Append(s, x) = s \o <<x>> /\ <<x>> \in Seq(S)
           /\ DOMAIN <<x>> = {1} /\ <<x>>[1] = x
<1>1. <<x>> \in Seq(S) /\ DOMAIN <<x>> = {1} /\ <<x>>[1] = x
  OBVIOUS
<1> QED  BY <1>1

\* A question is asked.
LEMMA RaiseKeeps ==
    ASSUME QuestionInv, AnswersTrue, Raise(asked)
    PROVE  QuestionInv' /\ AnswersTrue' /\ asked' = asked + 1
<1> DEFINE o == Opened(asked)
           c(by) == Closed(asked, "default", by)
<1>1. /\ asked' = asked + 1 /\ reply' = Append(reply, "none") /\ asked \in Nat \ {0}
      /\ UNCHANGED <<ended, log, troubles, crashes>> /\ open \subseteq 1..(asked - 1)
      /\ reply \in Seq({"none", "error"} \cup Answers) /\ Len(reply) = asked - 1
      /\ writes \in Seq(Record) /\ ended \in BOOLEAN
  BY DEF Raise, QuestionInv, QuestionTypes
<1>2. /\ o \in Record /\ IsQuestion(o) /\ o.id = asked /\ o.t = "open"
      /\ \A by \in {"nobody", "cap"} :
           c(by) \in Record /\ IsQuestion(c(by)) /\ c(by).id = asked /\ c(by).t = "closed"
             /\ c(by).answer = "default"
  BY <1>1, Records DEF Opened, Closed, Answers
<1>3. asked < asked' /\ asked \notin open
  BY <1>1
<1>4. /\ reply' \in Seq({"none", "error"} \cup Answers) /\ Len(reply') = asked' - 1
  BY <1>1
<1> HIDE DEF o, c
<1>5. CASE Cardinality(open) >= MaxOpen /\ writes' = Append(writes, c("cap")) /\ open' = open
  <2>0. /\ writes' = writes \o <<c("cap")>> /\ <<c("cap")>> \in Seq(Record)
        /\ DOMAIN <<c("cap")>> = {1} /\ <<c("cap")>>[1] = c("cap")
    BY <1>1, <1>2, <1>5, OneBehind
  <2>1. Fits(<<c("cap")>>)
    BY <1>1, <1>2, <1>3, <1>5, <2>0 DEF Fits
  <2>2. QueueBounded'
    BY <1>1, <1>5 DEF QuestionInv, QueueBounded
  <2>3. QuestionInv'
    BY <1>1, <1>3, <1>4, <1>5, <2>0, <2>1, <2>2, Appended
  <2>4. AnswersTrue'
    BY <1>1, <1>2, <2>0, AppendedAnswers
  <2> QED  BY <1>1, <2>3, <2>4
<1>6. CASE writes' = writes \o <<o, c("nobody")>> /\ open' = open
  <2>1. /\ <<o, c("nobody")>> \in Seq(Record) /\ DOMAIN <<o, c("nobody")>> = {1, 2}
        /\ <<o, c("nobody")>>[1] = o /\ <<o, c("nobody")>>[2] = c("nobody")
    BY <1>2
  <2>2. Fits(<<o, c("nobody")>>)
    BY <1>1, <1>2, <1>3, <1>6, <2>1 DEF Fits, OpenThenClosed
  <2>3. QueueBounded'
    BY <1>1, <1>6 DEF QuestionInv, QueueBounded
  <2>4. QuestionInv'
    BY <1>1, <1>3, <1>4, <1>6, <2>2, <2>3, Appended
  <2>5. AnswersTrue'
    BY <1>1, <1>2, <1>6, <2>1, AppendedAnswers
  <2> QED  BY <1>1, <2>4, <2>5
<1>7. CASE /\ Cardinality(open) < MaxOpen /\ ~ended
           /\ open' = open \cup {asked} /\ writes' = Append(writes, o)
  <2>1. writes' = writes \o <<o>> /\ <<o>> \in Seq(Record) /\ DOMAIN <<o>> = {1} /\ <<o>>[1] = o
    BY <1>1, <1>2, <1>7, OneBehind
  <2>2. Fits(<<o>>)
    BY <1>2, <1>3, <2>1 DEF Fits
  <2>3. QueueBounded'
    <3>1. IsFiniteSet(1..(asked - 1))
      BY <1>1, FS_Interval
    <3>2. IsFiniteSet(open)
      BY <1>1, <3>1, FS_Subset
    <3>3. Cardinality(open') = Cardinality(open) + 1 /\ Cardinality(open) \in Nat
      BY <1>3, <1>7, <3>2, FS_AddElement, FS_CardinalityType
    <3> QED  BY <1>1, <1>7, <3>3, QuestionsConstants DEF QueueBounded
  <2>4. QuestionInv'
    BY <1>1, <1>3, <1>4, <1>7, <2>1, <2>2, <2>3, Appended
  <2>5. AnswersTrue'
    BY <1>1, <1>2, <2>1, AppendedAnswers
  <2> QED  BY <1>1, <2>4, <2>5
<1> QED  BY <1>5, <1>6, <1>7 DEF Raise, Ask, o, c

\* The first to close a question takes it out of the queue.
LEMMA CloseKeeps ==
    ASSUME QuestionInv, AnswersTrue, NEW q \in open, NEW a \in Answers,
           NEW by \in {"nobody", "person"}, a = "other" => by = "person", Close(q, a, by)
    PROVE  QuestionInv' /\ AnswersTrue' /\ asked' = asked
<1> DEFINE c == Closed(q, a, by)
<1>1. /\ UNCHANGED <<asked, ended, reply, log, troubles, crashes>>
      /\ open' = open \ {q} /\ writes' = Append(writes, c)
      /\ open \subseteq 1..(asked - 1) /\ writes \in Seq(Record) /\ asked \in Nat \ {0}
      /\ reply \in Seq({"none", "error"} \cup Answers) /\ Len(reply) = asked - 1
      /\ ended \in BOOLEAN
  BY DEF Close, QuestionInv, QuestionTypes
<1>2. q \in 1..(asked - 1) /\ q \in Nat \ {0} /\ q < asked
  BY <1>1
<1>3. /\ c \in Record /\ IsQuestion(c) /\ c.id = q /\ c.t = "closed" /\ c.answer = a /\ c.by = by
  BY <1>2, Records DEF Closed
<1> HIDE DEF c
<1>4. writes' = writes \o <<c>> /\ <<c>> \in Seq(Record) /\ DOMAIN <<c>> = {1} /\ <<c>>[1] = c
  BY <1>1, <1>3, OneBehind
<1>5. Fits(<<c>>)
  BY <1>1, <1>2, <1>3, <1>4 DEF Fits
<1>6. QueueBounded'
  <2>1. IsFiniteSet(1..(asked - 1))
    BY <1>1, FS_Interval
  <2>2. IsFiniteSet(open)
    BY <1>1, <2>1, FS_Subset
  <2>3. Cardinality(open) \in Nat /\ Cardinality(open') = Cardinality(open) - 1
    BY <1>1, <2>2, FS_RemoveElement, FS_CardinalityType
  <2>4. Cardinality(open) <= MaxOpen /\ MaxOpen \in Nat
    BY QuestionsConstants DEF QuestionInv, QueueBounded
  <2>5. Cardinality(open') <= MaxOpen
    BY <2>3, <2>4
  <2> QED  BY <1>1, <2>5 DEF QuestionInv, QueueBounded
<1>7. QuestionInv'
  BY <1>1, <1>4, <1>5, <1>6, Appended
<1>8. AnswersTrue'
  BY <1>1, <1>3, <1>4, AppendedAnswers
<1> QED  BY <1>1, <1>7, <1>8

\* A record that is not a question's goes to the journal.
LEMMA OtherKeeps ==
    ASSUME QuestionInv, AnswersTrue, NEW r \in DecisionRecord \cup UsageRecord,
           writes' = Append(writes, r),
           UNCHANGED <<open, asked, ended, reply, log, troubles, crashes>>
    PROVE  QuestionInv' /\ AnswersTrue' /\ asked' = asked
<1>1. r \in Record /\ ~IsQuestion(r) /\ r.t # "closed"
  BY DEF Record, DecisionRecord, UsageRecord, IsQuestion
<1>2. writes' = writes \o <<r>> /\ <<r>> \in Seq(Record) /\ DOMAIN <<r>> = {1} /\ <<r>>[1] = r
  BY <1>1, OneBehind DEF QuestionInv, QuestionTypes
<1>3. /\ asked \in Nat \ {0} /\ open \subseteq 1..(asked - 1) /\ ended \in BOOLEAN
      /\ reply \in Seq({"none", "error"} \cup Answers) /\ Len(reply) = asked - 1
  BY DEF QuestionInv, QuestionTypes
<1>4. Fits(<<r>>)
  BY <1>1, <1>2, <1>3 DEF Fits
<1>5. QueueBounded'
  BY DEF QuestionInv, QueueBounded
<1>6. QuestionInv'
  BY <1>2, <1>3, <1>4, <1>5, Appended
<1>7. AnswersTrue'
  BY <1>1, <1>2, AppendedAnswers
<1> QED  BY <1>6, <1>7

\* The run ends, and each open question takes its default.
LEMMA EndKeeps ==
    ASSUME QuestionInv, AnswersTrue, End
    PROVE  QuestionInv' /\ AnswersTrue' /\ asked' = asked
<1> DEFINE s == Defaults(open)
<1>1. /\ ended' = TRUE /\ open' = {} /\ writes' = writes \o s
      /\ UNCHANGED <<asked, reply, log, troubles, crashes>>
      /\ open \subseteq 1..(asked - 1) /\ asked \in Nat \ {0}
      /\ reply \in Seq({"none", "error"} \cup Answers) /\ Len(reply) = asked - 1
  BY DEF End, QuestionInv, QuestionTypes
<1>2. /\ s \in Seq(QuestionRecord)
      /\ \A k \in DOMAIN s : s[k].id \in open /\ s[k] = Closed(s[k].id, "default", "nobody")
      /\ \A k, l \in DOMAIN s : k < l => s[k].id # s[l].id
  <2>1. IsFiniteSet(1..(asked - 1))
    BY <1>1, FS_Interval
  <2>2. IsFiniteSet(open)
    BY <1>1, <2>1, FS_Subset
  <2>3. open \in SUBSET (Nat \ {0})
    BY <1>1
  <2> QED  BY <2>2, <2>3, DefaultsClose
<1> HIDE DEF s
<1>3. \A k \in DOMAIN s : s[k].t = "closed" /\ s[k].answer = "default"
  BY <1>2 DEF Closed
<1>4. s \in Seq(Record)
  BY <1>2 DEF Record
<1>5. \A q \in open : q < asked
  BY <1>1
<1>6. Fits(s)
  <2>1. \A k \in DOMAIN s : s[k].id \in open \cup {asked} /\ s[k].id < asked'
    BY <1>1, <1>2, <1>5
  <2>2. \A k \in DOMAIN s : s[k].id \notin open' /\ s[k].t # "open"
    BY <1>1, <1>3
  <2>3. \A k, l \in DOMAIN s : k < l => OpenThenClosed(s[k], s[l])
    BY <1>2 DEF OpenThenClosed
  <2>4. asked' # asked + 1
    BY <1>1
  <2> QED  BY <1>4, <2>1, <2>2, <2>3, <2>4 DEF Fits
<1>7. QueueBounded'
  BY <1>1, FS_EmptySet, QuestionsConstants DEF QueueBounded
<1>8. QuestionInv'
  BY <1>1, <1>6, <1>7, Appended
<1>9. AnswersTrue'
  BY <1>1, <1>3, <1>4, AppendedAnswers
<1> QED  BY <1>1, <1>8, <1>9

\* The first of the records on their way, and those behind it.
LEMMA FirstAndRest ==
    ASSUME NEW S, NEW s \in Seq(S), s # <<>>
    PROVE  /\ Head(s) \in S /\ Tail(s) \in Seq(S) /\ 1 \in DOMAIN s /\ Head(s) = s[1]
           /\ \A i \in DOMAIN Tail(s) :
                i \in Nat /\ i > 0 /\ i + 1 \in DOMAIN s /\ Tail(s)[i] = s[i + 1]
           /\ \A j \in DOMAIN s : j = 1 \/
                \E i \in DOMAIN Tail(s) : j = i + 1 /\ Tail(s)[i] = s[j]
<1>1. PICK n \in Nat : n = Len(s) /\ DOMAIN s = 1..n
  OBVIOUS
<1>2. n >= 1
  BY <1>1
<1>3. /\ Head(s) \in S /\ Tail(s) \in Seq(S) /\ Head(s) = s[1]
      /\ Len(Tail(s)) = n - 1 /\ \A i \in 1..(n - 1) : Tail(s)[i] = s[i + 1]
  BY <1>1, <1>2, HeadTailProperties
<1>4. DOMAIN Tail(s) = 1..(n - 1)
  BY <1>3
<1>5. /\ 1 \in 1..n /\ \A i \in 1..(n - 1) : i \in Nat /\ i > 0 /\ i + 1 \in 1..n
      /\ \A j \in 1..n : j = 1 \/ (j - 1 \in 1..(n - 1) /\ j = (j - 1) + 1)
  BY <1>2
<1>6. \A j \in 1..n : j = 1 \/ \E i \in 1..(n - 1) : j = i + 1
  BY <1>5
<1>7. \A j \in 1..n : j = 1 \/ \E i \in 1..(n - 1) : j = i + 1 /\ Tail(s)[i] = s[j]
  BY <1>3, <1>6
<1> QED  BY <1>1, <1>3, <1>4, <1>5, <1>7

\* The questions' records still on their way are the ones that were, but the first.
LEMMA StillWaiting ==
    ASSUME QuestionInv, writes # <<>>, writes' = Tail(writes)
    PROVE  /\ writes' \in Seq(Record) /\ Head(writes) \in Record /\ 1 \in DOMAIN writes
           /\ Head(writes) = writes[1] /\ (IsQuestion(Head(writes)) => 1 \in Waiting)
           /\ \A j \in Waiting' :
                j \in Nat /\ j > 0 /\ j + 1 \in Waiting /\ writes'[j] = writes[j + 1]
           /\ \A j \in Waiting : j = 1 \/
                \E i \in Waiting' : j = i + 1 /\ writes'[i] = writes[j]
<1>1. writes \in Seq(Record)
  BY DEF QuestionInv, QuestionTypes
<1>2. /\ writes' \in Seq(Record) /\ Head(writes) \in Record /\ 1 \in DOMAIN writes
      /\ Head(writes) = writes[1]
      /\ \A i \in DOMAIN writes' :
           i \in Nat /\ i > 0 /\ i + 1 \in DOMAIN writes /\ writes'[i] = writes[i + 1]
      /\ \A j \in DOMAIN writes : j = 1 \/
           \E i \in DOMAIN writes' : j = i + 1 /\ writes'[i] = writes[j]
  BY <1>1, FirstAndRest
<1>3. \A j \in Waiting : j = 1 \/
        \E i \in Waiting' : j = i + 1 /\ writes'[i] = writes[j]
  <2> TAKE j \in Waiting
  <2>1. CASE j # 1
    <3>1. j \in DOMAIN writes /\ IsQuestion(writes[j])
      BY DEF Waiting
    <3>2. PICK i \in DOMAIN writes' : j = i + 1 /\ writes'[i] = writes[j]
      BY <1>2, <2>1, <3>1
    <3>3. i \in Waiting'
      BY <3>1, <3>2 DEF Waiting
    <3> QED  BY <3>2, <3>3
  <2> QED  BY <2>1
<1>4. \A j \in Waiting' :
        j \in Nat /\ j > 0 /\ j + 1 \in Waiting /\ writes'[j] = writes[j + 1]
  BY <1>2 DEF Waiting
<1>5. IsQuestion(Head(writes)) => 1 \in Waiting
  BY <1>2 DEF Waiting
<1> QED  BY <1>2, <1>3, <1>4, <1>5

\* What the first record settles.
LEMMA SettlesReply ==
    ASSUME NEW n \in Nat, NEW S, NEW f \in Seq(S), Len(f) = n, NEW q, q \in 1..n, NEW v \in S
    PROVE  /\ [f EXCEPT ![q] = v] \in Seq(S) /\ Len([f EXCEPT ![q] = v]) = n
           /\ DOMAIN [f EXCEPT ![q] = v] = DOMAIN f
           /\ [f EXCEPT ![q] = v][q] = v
           /\ \A p \in DOMAIN f : p # q => [f EXCEPT ![q] = v][p] = f[p]
OBVIOUS

\* A record is written, and the asker of the question it closes is answered.
LEMMA WriteKeeps ==
    ASSUME QuestionInv, AnswersTrue, Write
    PROVE  QuestionInv' /\ AnswersTrue' /\ asked' = asked
<1> DEFINE h == Head(writes)
<1>1. /\ writes # <<>> /\ writes' = Tail(writes) /\ reply' = ReplyAfter(h)
      /\ log' = IF IsQuestion(h) THEN Append(log, h) ELSE log
      /\ UNCHANGED <<open, asked, ended, troubles, crashes>>
  BY DEF Write
<1>2. /\ writes' \in Seq(Record) /\ h \in Record /\ 1 \in DOMAIN writes
      /\ h = writes[1] /\ (IsQuestion(h) => 1 \in Waiting)
      /\ \A j \in Waiting' :
           j \in Nat /\ j > 0 /\ j + 1 \in Waiting /\ writes'[j] = writes[j + 1]
      /\ \A j \in Waiting : j = 1 \/
           \E i \in Waiting' : j = i + 1 /\ writes'[i] = writes[j]
  BY <1>1, StillWaiting
<1> HIDE DEF h
<1>3. /\ asked \in Nat \ {0} /\ open \subseteq 1..(asked - 1) /\ ended \in BOOLEAN
      /\ reply \in Seq({"none", "error"} \cup Answers) /\ Len(reply) = asked - 1
      /\ log \in Seq(QuestionRecord) /\ troubles \in Nat /\ crashes \in Nat
      /\ QueueBounded
  BY DEF QuestionInv, QuestionTypes
<1>4. IsQuestion(h) =>
        /\ h \in QuestionRecord /\ h.id \in Nat \ {0} /\ h.id < asked /\ h.t \in {"open", "closed"}
        /\ h.t = "closed" => h.id \notin open /\ h.answer \in Answers
                               /\ h = Closed(h.id, h.answer, h.by)
  BY <1>2, Records DEF QuestionInv
<1>5. /\ log' \in Seq(QuestionRecord)
      /\ \A i \in DOMAIN log : i \in DOMAIN log' /\ log'[i] = log[i]
      /\ \A i \in DOMAIN log' : i \in DOMAIN log \/
           (IsQuestion(h) /\ log'[i] = h /\ \A j \in DOMAIN log : j < i /\ ~(i < j))
      /\ \A i, j \in DOMAIN log' : i < j => i \in DOMAIN log
      /\ IsQuestion(h) => \E i \in DOMAIN log' : log'[i] = h
  <2>1. CASE IsQuestion(h)
    <3>1. PICK n \in Nat : n = Len(log) /\ DOMAIN log = 1..n
      BY <1>3
    <3>2. /\ log' \in Seq(QuestionRecord) /\ DOMAIN log' = 1..(n + 1)
          /\ \A i \in 1..n : log'[i] = log[i]
          /\ log'[n + 1] = h
      BY <1>1, <1>3, <1>4, <2>1, <3>1
    <3>3. /\ \A i \in 1..n : i \in 1..(n + 1) /\ i < n + 1 /\ ~(n + 1 < i)
          /\ \A i \in 1..(n + 1) : i \in 1..n \/ i = n + 1
          /\ \A i, j \in 1..(n + 1) : i < j => i \in 1..n
          /\ n + 1 \in 1..(n + 1)
      OBVIOUS
    <3>4. \E i \in DOMAIN log' : log'[i] = h
      BY <3>2, <3>3
    <3>5. \A i \in 1..(n + 1) : i \in 1..n \/
            (IsQuestion(h) /\ log'[i] = h /\ \A j \in 1..n : j < i /\ ~(i < j))
      BY <2>1, <3>2, <3>3
    <3> QED  BY <3>1, <3>2, <3>3, <3>4, <3>5
  <2>2. CASE ~IsQuestion(h)
    BY <1>1, <1>3, <2>2
  <2> QED  BY <2>1, <2>2
<1>6. /\ reply' \in Seq({"none", "error"} \cup Answers) /\ Len(reply') = asked - 1
      /\ DOMAIN reply' = DOMAIN reply
      /\ \A q \in DOMAIN reply : reply'[q] = reply[q] \/
           (IsQuestion(h) /\ h.t = "closed" /\ q = h.id /\ reply'[q] = h.answer)
  <2>1. CASE h.t = "closed" /\ reply[h.id] = "none"
    <3>1. IsQuestion(h) /\ h.id \in 1..(asked - 1) /\ h.answer \in {"none", "error"} \cup Answers
      BY <1>3, <1>4, <2>1 DEF IsQuestion
    <3>2. asked - 1 \in Nat /\ reply' = [reply EXCEPT ![h.id] = h.answer]
      BY <1>1, <1>3, <2>1 DEF ReplyAfter
    <3> QED  BY <1>3, <2>1, <3>1, <3>2, SettlesReply
  <2>2. CASE ~(h.t = "closed" /\ reply[h.id] = "none")
    BY <1>1, <1>3, <2>2 DEF ReplyAfter
  <2> QED  BY <2>1, <2>2
<1>7. QuestionTypes' /\ QueueBounded'
  BY <1>1, <1>2, <1>3, <1>5, <1>6 DEF QuestionTypes, QueueBounded
<1>8. /\ \A j \in Waiting' : writes'[j].id < asked'
      /\ \A j \in Waiting' : writes'[j].t = "closed" => writes'[j].id \notin open'
  <2>1. \A j \in Waiting : writes[j].id < asked
    BY DEF QuestionInv
  <2>2. \A j \in Waiting : writes[j].t = "closed" => writes[j].id \notin open
    BY DEF QuestionInv
  <2>3. ASSUME NEW j \in Waiting'
        PROVE  writes'[j].id < asked' /\ (writes'[j].t = "closed" => writes'[j].id \notin open')
    <3>1. j + 1 \in Waiting /\ writes'[j] = writes[j + 1]
      BY <1>2
    <3> QED  BY <1>1, <2>1, <2>2, <3>1
  <2> QED  BY <2>3
<1>9. ASSUME troubles = 0 \/ crashes = 0 PROVE ClosedOnce'
  <2>1. ClosedOnce
    BY <1>9 DEF QuestionInv
  <2>2. \A i, j \in DOMAIN log' : i < j => OpenThenClosed(log'[i], log'[j])
    BY <1>2, <1>5, <2>1 DEF ClosedOnce
  <2>3. \A i, j \in Waiting' : i < j => OpenThenClosed(writes'[i], writes'[j])
    <3>1. \A i, j \in Waiting' : i < j => i + 1 < j + 1
      BY <1>2
    <3> QED  BY <1>2, <2>1, <3>1 DEF ClosedOnce
  <2>4. \A i \in DOMAIN log', j \in Waiting' : OpenThenClosed(log'[i], writes'[j])
    <3>1. \A j \in Waiting' : 1 < j + 1
      BY <1>2
    <3> QED  BY <1>2, <1>5, <2>1, <3>1 DEF ClosedOnce
  <2>5. \A i \in DOMAIN log' : log'[i].id < asked'
    BY <1>1, <1>4, <1>5, <2>1 DEF ClosedOnce
  <2>6. \A i \in DOMAIN log' : log'[i].t = "closed" => log'[i].id \notin open'
    BY <1>1, <1>4, <1>5, <2>1 DEF ClosedOnce
  <2> QED  BY <2>2, <2>3, <2>4, <2>5, <2>6 DEF ClosedOnce
<1>10. ASSUME troubles = 0 PROVE NoIdMissing'
  <2>1. NoIdMissing
    BY <1>10 DEF QuestionInv
  <2>2. /\ \A m \in Ids : m \in Ids'
        /\ IsQuestion(h) => h.id \in Ids'
    BY <1>5 DEF Ids
  <2>3. \A j \in Waiting, m \in Nat : (m \in Ids \/ \E k \in Waiting : k <= j /\ writes[k].id = m)
          => m \in Ids' \/ \E k \in Waiting' : k + 1 <= j /\ writes'[k].id = m
    <3> TAKE j \in Waiting, m \in Nat
    <3> HAVE m \in Ids \/ \E k \in Waiting : k <= j /\ writes[k].id = m
    <3>1. CASE m \in Ids
      BY <2>2, <3>1
    <3>2. CASE m \notin Ids
      <4>1. PICK k \in Waiting : k <= j /\ writes[k].id = m
        BY <3>2
      <4>2. CASE k = 1
        <5>1. IsQuestion(h)
          BY <1>2, <4>2 DEF Waiting
        <5> QED  BY <1>2, <2>2, <4>1, <4>2, <5>1
      <4>3. CASE k # 1
        BY <1>2, <4>1, <4>3
      <4> QED  BY <4>2, <4>3
    <3> QED  BY <3>1, <3>2
  <2>4. \A j \in Waiting' : \A m \in 1..writes'[j].id :
          m \in Ids' \/ \E k \in Waiting' : k <= j /\ writes'[k].id = m
    <3> TAKE j \in Waiting'
    <3> TAKE m \in 1..writes'[j].id
    <3>1. j + 1 \in Waiting /\ m \in 1..writes[j + 1].id /\ m \in Nat
      BY <1>2
    <3>2. m \in Ids' \/ \E k \in Waiting' : k + 1 <= j + 1 /\ writes'[k].id = m
      BY <2>1, <2>3, <3>1 DEF NoIdMissing
    <3>3. \A k \in Waiting' : k + 1 <= j + 1 => k <= j
      BY <1>2
    <3> QED  BY <3>2, <3>3
  <2>5. \A i \in DOMAIN log' : \A m \in 1..log'[i].id : m \in Ids'
    <3> TAKE i \in DOMAIN log'
    <3> TAKE m \in 1..log'[i].id
    <3>1. CASE i \in DOMAIN log
      BY <1>5, <2>1, <2>2, <3>1 DEF NoIdMissing
    <3>2. CASE i \notin DOMAIN log
      <4>1. IsQuestion(h) /\ m \in 1..h.id /\ 1 \in Waiting /\ h = writes[1] /\ m \in Nat
        BY <1>2, <1>5, <3>2
      <4>2. m \in Ids \/ \E k \in Waiting : k <= 1 /\ writes[k].id = m
        BY <2>1, <4>1 DEF NoIdMissing
      <4>3. m \in Ids' \/ \E k \in Waiting' : k + 1 <= 1 /\ writes'[k].id = m
        BY <2>3, <4>1, <4>2
      <4>4. \A k \in Waiting' : ~(k + 1 <= 1)
        BY <1>2
      <4> QED  BY <4>3, <4>4
    <3> QED  BY <3>1, <3>2
  <2>6. \A m \in 1..(asked' - 1) : m \in Ids' \/ \E k \in Waiting' : writes'[k].id = m
    <3> TAKE m \in 1..(asked' - 1)
    <3>1. m \in Ids \/ \E k \in Waiting : writes[k].id = m
      BY <1>1, <2>1 DEF NoIdMissing
    <3>2. CASE m \in Ids
      BY <2>2, <3>2
    <3>3. CASE m \notin Ids
      <4>1. PICK k \in Waiting : writes[k].id = m
        BY <3>1, <3>3
      <4>2. CASE k = 1
        <5>1. IsQuestion(h)
          BY <1>2, <4>2 DEF Waiting
        <5> QED  BY <1>2, <2>2, <4>1, <4>2, <5>1
      <4> QED  BY <1>2, <4>1, <4>2
    <3> QED  BY <3>2, <3>3
  <2> QED  BY <2>4, <2>5, <2>6 DEF NoIdMissing
<1>11. AnswersTrue'
  <2>1. \A j \in Waiting' :
          writes'[j].t = "closed" /\ writes'[j].answer = "other" => writes'[j].by = "person"
    BY <1>2 DEF AnswersTrue
  <2>2. ASSUME NEW q \in DOMAIN reply', reply'[q] = "other"
        PROVE  \E i \in DOMAIN log' : log'[i] = Closed(q, "other", "person")
    <3>1. CASE reply'[q] = reply[q]
      <4>1. PICK i \in DOMAIN log : log[i] = Closed(q, "other", "person")
        BY <1>6, <2>2, <3>1 DEF AnswersTrue
      <4> QED  BY <1>5, <4>1
    <3>2. CASE reply'[q] # reply[q]
      <4>1. IsQuestion(h) /\ h.t = "closed" /\ q = h.id /\ h.answer = "other"
        BY <1>6, <2>2, <3>2
      <4>2. h.by = "person"
        BY <1>2, <4>1 DEF AnswersTrue
      <4>3. h = Closed(q, "other", "person")
        BY <1>4, <4>1, <4>2
      <4> QED  BY <1>5, <4>1, <4>3
    <3> QED  BY <3>1, <3>2
  <2> QED  BY <2>1, <2>2 DEF AnswersTrue
<1> QED  BY <1>1, <1>7, <1>8, <1>9, <1>10, <1>11 DEF QuestionInv

\* An append fails, and its question's asker with it.
LEMMA WriteFailsKeeps ==
    ASSUME QuestionInv, AnswersTrue, WriteFails
    PROVE  QuestionInv' /\ AnswersTrue' /\ asked' = asked
<1> DEFINE h == Head(writes)
<1>1. /\ writes # <<>> /\ writes' = Tail(writes) /\ reply' = ReplyFailed(h)
      /\ troubles' = troubles + 1 /\ UNCHANGED <<open, asked, ended, log, crashes>>
  BY DEF WriteFails
<1>2. /\ writes' \in Seq(Record) /\ h \in Record /\ h = writes[1]
      /\ (IsQuestion(h) => 1 \in Waiting)
      /\ \A j \in Waiting' :
           j \in Nat /\ j > 0 /\ j + 1 \in Waiting /\ writes'[j] = writes[j + 1]
  BY <1>1, StillWaiting
<1> HIDE DEF h
<1>3. /\ asked \in Nat \ {0} /\ open \subseteq 1..(asked - 1) /\ ended \in BOOLEAN
      /\ reply \in Seq({"none", "error"} \cup Answers) /\ Len(reply) = asked - 1
      /\ log \in Seq(QuestionRecord) /\ troubles \in Nat /\ crashes \in Nat
      /\ QueueBounded
  BY DEF QuestionInv, QuestionTypes
<1>4. IsQuestion(h) => h.id \in Nat \ {0} /\ h.id < asked
  BY <1>2, Records DEF QuestionInv
<1>5. /\ reply' \in Seq({"none", "error"} \cup Answers) /\ Len(reply') = asked - 1
      /\ DOMAIN reply' = DOMAIN reply
      /\ \A q \in DOMAIN reply : reply'[q] = reply[q] \/ reply'[q] = "error"
  <2>1. CASE IsQuestion(h) /\ reply[h.id] = "none"
    <3>1. h.id \in 1..(asked - 1) /\ asked - 1 \in Nat
      BY <1>3, <1>4, <2>1
    <3>2. reply' = [reply EXCEPT ![h.id] = "error"]
      BY <1>1, <2>1 DEF ReplyFailed
    <3> QED  BY <1>3, <3>1, <3>2, SettlesReply
  <2>2. CASE ~(IsQuestion(h) /\ reply[h.id] = "none")
    BY <1>1, <1>3, <2>2 DEF ReplyFailed
  <2> QED  BY <2>1, <2>2
<1>6. QuestionTypes' /\ QueueBounded' /\ troubles' # 0
  BY <1>1, <1>2, <1>3, <1>5 DEF QuestionTypes, QueueBounded
<1>7. /\ \A j \in Waiting' : writes'[j].id < asked'
      /\ \A j \in Waiting' : writes'[j].t = "closed" => writes'[j].id \notin open'
  BY <1>1, <1>2 DEF QuestionInv
<1>8. ASSUME crashes = 0 PROVE ClosedOnce'
  <2>1. ClosedOnce
    BY <1>8 DEF QuestionInv
  <2>2. \A i, j \in Waiting' : i < j => OpenThenClosed(writes'[i], writes'[j])
    <3>1. \A i, j \in Waiting' : i < j => i + 1 < j + 1
      BY <1>2
    <3> QED  BY <1>2, <2>1, <3>1 DEF ClosedOnce
  <2> QED  BY <1>1, <1>2, <2>1, <2>2 DEF ClosedOnce
<1>9. AnswersTrue'
  <2>1. \A j \in Waiting' :
          writes'[j].t = "closed" /\ writes'[j].answer = "other" => writes'[j].by = "person"
    BY <1>2 DEF AnswersTrue
  <2>2. \A q \in DOMAIN reply' : reply'[q] = "other" => q \in DOMAIN reply /\ reply[q] = "other"
    BY <1>5
  <2> QED  BY <1>1, <2>1, <2>2 DEF AnswersTrue
<1> QED  BY <1>1, <1>6, <1>7, <1>8, <1>9 DEF QuestionInv

\* A resumed run counts on from the questions its journal has, none of which is left open.
LEMMA CrashKeeps ==
    ASSUME QuestionInv, AnswersTrue, Crash
    PROVE  QuestionInv' /\ AnswersTrue'
<1> DEFINE d == Defaults(FoldOpen)
           c == Cardinality(Ids)
<1>1. /\ crashes' = crashes + 1 /\ writes' = <<>> /\ open' = {} /\ ended' = FALSE
      /\ log' = log \o d /\ asked' = c + 1
      /\ reply' = [q \in 1..(asked' - 1) |-> "none"] /\ troubles' = troubles
  <2>1. /\ crashes' = crashes + 1 /\ writes' = <<>> /\ open' = {} /\ ended' = FALSE
        /\ log' = log \o d /\ asked' = ResumedId
        /\ reply' = [q \in 1..(ResumedId - 1) |-> "none"] /\ troubles' = troubles
    BY DEF Crash
  <2>2. ResumedId = c + 1
    BY DEF ResumedId
  <2> QED  BY <2>1, <2>2
<1>2. /\ log \in Seq(QuestionRecord) /\ troubles \in Nat /\ crashes \in Nat
      /\ asked \in Nat \ {0}
  BY DEF QuestionInv, QuestionTypes
<1>3. \A i \in DOMAIN log : log[i].id \in Nat \ {0} /\ log[i].t \in {"open", "closed"}
  BY <1>2, Records
<1>4. IsFiniteSet(Ids) /\ c \in Nat
  <2> DEFINE f == [i \in DOMAIN log |-> log[i].id]
  <2>1. f \in Surjection(DOMAIN log, Ids)
    BY DEF Surjection, Ids
  <2>2. IsFiniteSet(DOMAIN log)
    <3>1. Len(log) \in Nat /\ DOMAIN log = 1..Len(log)
      BY <1>2
    <3> QED  BY <3>1, FS_Interval
  <2>3. IsFiniteSet(Ids)
    BY <2>1, <2>2, FS_Surjection
  <2> QED  BY <2>3, FS_CardinalityType
<1>5. /\ d \in Seq(QuestionRecord)
      /\ \A k \in DOMAIN d : d[k].id \in FoldOpen /\ d[k] = Closed(d[k].id, "default", "nobody")
      /\ \A k, l \in DOMAIN d : k < l => d[k].id # d[l].id
  <2>1. FoldOpen \subseteq Ids /\ Ids \subseteq Nat \ {0}
    BY <1>3 DEF FoldOpen, Ids
  <2>2. IsFiniteSet(FoldOpen)
    BY <1>4, <2>1, FS_Subset
  <2>3. FoldOpen \in SUBSET (Nat \ {0})
    BY <2>1
  <2> QED  BY <2>2, <2>3, DefaultsClose
<1> DEFINE n == Len(log)
<1>6. /\ log' \in Seq(QuestionRecord) /\ n \in Nat
      /\ \A i \in DOMAIN log : i \in DOMAIN log' /\ log'[i] = log[i] /\ i <= n
      /\ \A i \in DOMAIN log' : i \in DOMAIN log \/
           \E k \in DOMAIN d : i = n + k /\ log'[i] = d[k]
  BY <1>1, <1>2, <1>5, Behind
<1>7. \A k \in DOMAIN d : k \in Nat /\ k >= 1
  BY <1>5
<1>8. \A i \in DOMAIN log : i \in Nat
  BY <1>2
<1> HIDE DEF d, c, n
<1>9. \A k \in DOMAIN d : d[k].t = "closed" /\ d[k].id \in FoldOpen /\ d[k].id \in Ids
  BY <1>5 DEF Closed, FoldOpen
<1>10. QuestionTypes'
  <2>1. asked' = c + 1
    BY <1>1
  <2>2. asked' \in Nat \ {0} /\ asked' - 1 = c
    BY <1>4, <2>1
  <2>3. open' \subseteq 1..(asked' - 1) /\ ended' \in BOOLEAN
    BY <1>1
  <2>4. reply' \in Seq({"none", "error"} \cup Answers) /\ Len(reply') = asked' - 1
    BY <1>1, <1>4, <2>2
  <2>5. writes' \in Seq(Record)
    BY <1>1
  <2>6. troubles' \in Nat /\ crashes' \in Nat
    BY <1>1, <1>2
  <2> QED  BY <1>6, <2>2, <2>3, <2>4, <2>5, <2>6 DEF QuestionTypes
<1>11. QueueBounded'
  BY <1>1, FS_EmptySet, QuestionsConstants DEF QueueBounded
<1>12. Waiting' = {}
  BY <1>1 DEF Waiting
<1>13. ASSUME troubles = 0 PROVE ClosedOnce' /\ NoIdMissing'
  <2>1. ClosedOnce /\ NoIdMissing
    BY <1>13 DEF QuestionInv
  <2>2. Ids = 1..c
    <3>1. asked - 1 \in Nat /\ Ids \in SUBSET (1..(asked - 1))
      <4>1. \A i \in DOMAIN log : log[i].id \in 1..(asked - 1)
        BY <1>2, <1>3, <2>1 DEF ClosedOnce
      <4> QED  BY <1>2, <4>1 DEF Ids
    <3>2. \A s \in Ids : 1..s \subseteq Ids
      BY <2>1 DEF NoIdMissing, Ids
    <3> QED  BY <3>1, <3>2, NoneLeftOut DEF c
  <2>3. \A i \in DOMAIN log' : log'[i].id \in Ids
    BY <1>6, <1>9 DEF Ids
  <2>4. Ids' = Ids
    <3>1. \A q \in Ids : q \in Ids'
      BY <1>6 DEF Ids
    <3>2. \A q \in Ids' : q \in Ids
      BY <2>3 DEF Ids
    <3> QED  BY <3>1, <3>2
  <2>5. ASSUME NEW i \in DOMAIN log, NEW q \in FoldOpen, log[i].id = q
        PROVE  log[i].t = "open"
    <3>1. PICK j \in DOMAIN log : log[j] = Opened(q) /\ \A l \in j + 1..Len(log) : log[l].id # q
      BY DEF FoldOpen
    <3>2. log[j].t = "open" /\ log[j].id = q
      BY <3>1 DEF Opened
    <3>3. ~(i < j)
      BY <2>1, <2>5, <3>2 DEF ClosedOnce, OpenThenClosed
    <3>4. ~(j < i)
      <4>1. i \in Nat /\ i <= n /\ j \in Nat /\ n \in Nat
        BY <1>6, <1>8
      <4>2. j < i => i \in j + 1..n
        BY <4>1
      <4> QED  BY <2>5, <3>1, <4>2 DEF n
    <3>5. i = j
      BY <1>8, <3>3, <3>4
    <3> QED  BY <3>2, <3>5
  <2>6. \A i, j \in DOMAIN log' : i < j => OpenThenClosed(log'[i], log'[j])
    <3> TAKE i, j \in DOMAIN log'
    <3> HAVE i < j
    <3>1. CASE i \in DOMAIN log /\ j \in DOMAIN log
      BY <1>6, <2>1, <3>1 DEF ClosedOnce
    <3>2. CASE i \in DOMAIN log /\ j \notin DOMAIN log
      BY <1>6, <1>9, <2>5, <3>2 DEF OpenThenClosed
    <3>3. CASE i \notin DOMAIN log /\ j \in DOMAIN log
      <4>1. PICK k \in DOMAIN d : i = n + k
        BY <1>6, <3>3
      <4>2. ~(i < j)
        BY <1>6, <1>7, <1>8, <3>3, <4>1
      <4> QED  BY <4>2
    <3>4. CASE i \notin DOMAIN log /\ j \notin DOMAIN log
      <4>1. PICK k \in DOMAIN d : i = n + k /\ log'[i] = d[k]
        BY <1>6, <3>4
      <4>2. PICK l \in DOMAIN d : j = n + l /\ log'[j] = d[l]
        BY <1>6, <3>4
      <4>3. k < l
        BY <1>6, <1>7, <4>1, <4>2
      <4> QED  BY <1>5, <4>1, <4>2, <4>3 DEF OpenThenClosed
    <3> QED  BY <3>1, <3>2, <3>3, <3>4
  <2>7. \A i \in DOMAIN log' : log'[i].id < asked' /\ log'[i].id \notin open'
    <3>1. \A q \in Ids : q < asked'
      BY <1>1, <1>4, <2>2
    <3> QED  BY <1>1, <2>3, <3>1
  <2>8. ClosedOnce'
    BY <1>12, <2>6, <2>7 DEF ClosedOnce
  <2>9. NoIdMissing'
    <3>1. \A i \in DOMAIN log' : \A m \in 1..log'[i].id : m \in Ids'
      <4>1. \A q \in Ids : \A m \in 1..q : m \in Ids
        BY <2>1 DEF NoIdMissing, Ids
      <4> QED  BY <2>3, <2>4, <4>1
    <3>2. \A m \in 1..(asked' - 1) : m \in Ids'
      <4>1. asked' - 1 = c
        BY <1>1, <1>4
      <4> QED  BY <2>2, <2>4, <4>1
    <3> QED  BY <1>12, <3>1, <3>2 DEF NoIdMissing
  <2> QED  BY <2>8, <2>9
<1>14. AnswersTrue'
  <2>1. \A q \in DOMAIN reply' : reply'[q] # "other"
    BY <1>1
  <2> QED  BY <1>12, <2>1 DEF AnswersTrue
<1>15. troubles' = 0 \/ crashes' = 0 => troubles = 0
  BY <1>1, <1>2
<1> QED  BY <1>1, <1>10, <1>11, <1>12, <1>13, <1>14, <1>15 DEF QuestionInv

\* The queue's own steps put nothing but questions' records behind the others.
LEMMA Questioned ==
    ASSUME QuestionInv, AnswersTrue,
           \/ Raise(asked) \/ End
           \/ \E q \in open : Timeout(q) \/ \E a \in Answers : Answer(q, a)
    PROVE  /\ QuestionInv' /\ AnswersTrue' /\ asked' \in {asked, asked + 1}
           /\ UNCHANGED <<log, crashes>>
           /\ \E s \in Seq(QuestionRecord) : writes' = writes \o s
<1>1. asked \in Nat \ {0} /\ open \subseteq 1..(asked - 1)
  BY DEF QuestionInv, QuestionTypes
<1>2. \A q \in open : q \in Nat \ {0}
  BY <1>1
<1>3. "default" \in Answers
  BY DEF Answers
<1>4. CASE Raise(asked)
  <2>1. /\ Opened(asked) \in QuestionRecord
        /\ \A by \in {"nobody", "person", "cap"} :
             Closed(asked, "default", by) \in QuestionRecord
    BY <1>1, <1>3, Records
  <2>2. writes \in Seq(Record)
    BY DEF QuestionInv, QuestionTypes
  <2> DEFINE o == Opened(asked)
             c == Closed(asked, "default", "nobody")
             d == Closed(asked, "default", "cap")
  <2>3. o \in QuestionRecord /\ c \in QuestionRecord /\ d \in QuestionRecord
    BY <2>1
  <2>4. \/ writes' = Append(writes, d) \/ writes' = writes \o <<o, c>>
        \/ writes' = Append(writes, o)
    BY <1>4 DEF Raise, Ask
  <2> HIDE DEF o, c, d
  <2>5. <<o>> \in Seq(QuestionRecord) /\ <<d>> \in Seq(QuestionRecord)
        /\ <<o, c>> \in Seq(QuestionRecord)
    BY <2>3
  <2>6. Append(writes, o) = writes \o <<o>> /\ Append(writes, d) = writes \o <<d>>
    BY <2>2
  <2>7. \E s \in Seq(QuestionRecord) : writes' = writes \o s
    BY <2>4, <2>5, <2>6
  <2>8. UNCHANGED <<log, crashes>>
    BY <1>4 DEF Raise
  <2> QED  BY <1>4, <2>7, <2>8, RaiseKeeps
<1>5. CASE End
  <2>1. Defaults(open) \in Seq(QuestionRecord)
    <3>1. IsFiniteSet(1..(asked - 1))
      BY <1>1, FS_Interval
    <3>2. IsFiniteSet(open)
      BY <1>1, <3>1, FS_Subset
    <3> QED  BY <1>2, <3>2, DefaultsClose
  <2>2. UNCHANGED <<log, crashes>> /\ writes' = writes \o Defaults(open)
    BY <1>5 DEF End
  <2> QED  BY <1>5, <2>1, <2>2, EndKeeps
<1>6. ASSUME NEW q \in open, NEW a \in Answers, NEW by \in {"nobody", "person"},
             a = "other" => by = "person", Close(q, a, by)
      PROVE  /\ QuestionInv' /\ AnswersTrue' /\ asked' \in {asked, asked + 1}
             /\ UNCHANGED <<log, crashes>>
             /\ \E s \in Seq(QuestionRecord) : writes' = writes \o s
  <2>1. QuestionInv' /\ AnswersTrue' /\ asked' = asked
    BY <1>6, CloseKeeps
  <2>2. UNCHANGED <<log, crashes>> /\ writes' = Append(writes, Closed(q, a, by))
    BY <1>6 DEF Close
  <2>3. Closed(q, a, by) \in QuestionRecord /\ writes \in Seq(Record)
    BY <1>2, Records DEF QuestionInv, QuestionTypes
  <2> DEFINE c == Closed(q, a, by)
  <2>4. c \in QuestionRecord /\ writes' = Append(writes, c)
    BY <2>2, <2>3
  <2> HIDE DEF c
  <2>5. writes' = writes \o <<c>> /\ <<c>> \in Seq(QuestionRecord)
    BY <2>3, <2>4
  <2> QED  BY <2>1, <2>2, <2>5
<1>7. ASSUME NEW q \in open, Timeout(q) \/ \E a \in Answers : Answer(q, a)
      PROVE  \E a \in Answers, by \in {"nobody", "person"} :
               (a = "other" => by = "person") /\ Close(q, a, by)
  BY <1>3, <1>7 DEF Timeout, Answer
<1> QED  BY <1>4, <1>5, <1>6, <1>7

(***************************************************************************)
(* The steps of the budgets                                                *)
(***************************************************************************)
\* The dollars of one more member run, and of one less.
LEMMA Dollars ==
    /\ \A a, b, c \in Nat : a <= b => c * a <= c * b
    /\ \A a, c \in Nat : c * (a + 1) = c * a + c /\ c * a \in Nat
OBVIOUS

\* The starts that run, and their number.
Running == {t \in Tasks : st[t] \in {"running", "settling"}}

LEMMA RunningAreFew ==
    ASSUME BudgetTypes
    PROVE  /\ IsFiniteSet(Running) /\ Cardinality(Running) \in Nat
           /\ IsFiniteSet(Holding(Tasks)) /\ Cardinality(Holding(Tasks)) \in Nat
           /\ Cardinality(Running) <= Cardinality(Holding(Tasks))
           /\ Holding(Tasks) \subseteq Tasks
<1>1. Running \subseteq Holding(Tasks) /\ Holding(Tasks) \subseteq Tasks
  BY DEF Running, Holding, InSlot
<1>2. IsFiniteSet(Tasks)
  BY RunBudgetConstants
<1>3. IsFiniteSet(Holding(Tasks))
  BY <1>1, <1>2, FS_Subset
<1> QED  BY <1>1, <1>3, FS_Subset, FS_CardinalityType

\* Nothing more is spent, and no other member run starts.
LEMMA NoMoreRunning ==
    ASSUME BudgetTypes, OvershootBounded,
           spent'["run"] = spent["run"], limit'["run"] = limit["run"], crashes' = crashes,
           \A t \in Tasks : st'[t] \in {"running", "settling"} => st[t] \in {"running", "settling"}
    PROVE  OvershootBounded'
<1>1. Running' \subseteq Running
  BY DEF Running
<1>2. IsFiniteSet(Running) /\ Cardinality(Running) \in Nat
  BY RunningAreFew
<1>3. Cardinality(Running') <= Cardinality(Running) /\ Cardinality(Running') \in Nat
  BY <1>1, <1>2, FS_Subset, FS_CardinalityType
<1> DEFINE r == Cardinality(Running)
           s == Cardinality(Running')
<1>4. MaxCost \in Nat /\ SlotCount \in Nat /\ spent["run"] \in Nat /\ limit["run"] \in Nat
  BY RunBudgetConstants DEF BudgetTypes, Scopes
<1>5. /\ MaxCost * s <= MaxCost * r
      /\ MaxCost * s \in Nat /\ MaxCost * r \in Nat /\ MaxCost * SlotCount \in Nat
  BY <1>2, <1>3, <1>4, Dollars
<1>6. limit["run"] # 0 /\ crashes = 0 =>
        spent["run"] + MaxCost * r < limit["run"] + MaxCost * SlotCount
  BY DEF OvershootBounded, Running
<1> DEFINE x == MaxCost * s
           y == MaxCost * r
           z == MaxCost * SlotCount
<1>7. x \in Nat /\ y \in Nat /\ z \in Nat /\ x <= y
  BY <1>5
<1>8. limit["run"] # 0 /\ crashes = 0 => spent["run"] + y < limit["run"] + z
  BY <1>6
<1> HIDE DEF x, y, z
<1>9. limit'["run"] # 0 /\ crashes' = 0 => spent'["run"] + x < limit'["run"] + z
  BY <1>4, <1>7, <1>8
<1> QED  BY <1>9 DEF OvershootBounded, Running, x, z

\* The journal keeps what it has of a person's answers.
LEMMA StillByPerson ==
    ASSUME ExtendedByPerson, extensions' = extensions,
           \A i \in DOMAIN log : i \in DOMAIN log' /\ log'[i] = log[i]
    PROVE  ExtendedByPerson'
BY DEF ExtendedByPerson

\* No other usage is on its way, and those that are keep their slots.
LEMMA StillSettling ==
    ASSUME Usages, writes \in Seq(Record), NEW s \in Seq(Record), writes' = writes \o s,
           \A k \in DOMAIN s : s[k].t # "usage",
           \A t \in Tasks : st[t] = "settling" => st'[t] = "settling"
    PROVE  Usages'
<1>1. /\ \A i \in DOMAIN writes : i \in DOMAIN writes' /\ writes'[i] = writes[i]
      /\ \A i \in DOMAIN writes' : i \in DOMAIN writes \/
           \E k \in DOMAIN s : writes'[i] = s[k]
  BY Behind
<1>2. \A i \in DOMAIN writes' : writes'[i].t = "usage" =>
        i \in DOMAIN writes /\ writes'[i] = writes[i]
  BY <1>1
<1>3. \A i \in DOMAIN writes : writes[i].t = "usage" => writes[i].task \in Tasks
  <2>1. \A r \in Record : r.t = "usage" => r.task \in Tasks
    BY DEF Record, QuestionRecord, OpenRecord, ClosedRecord, DecisionRecord, UsageRecord
  <2> QED  BY <2>1
<1> QED  BY <1>2, <1>3, SMTT(30) DEF Usages

\* Fewer are, once the first is written.
LEMMA SettlingBehind ==
    ASSUME Usages, writes \in Seq(Record), writes # <<>>, writes' = Tail(writes),
           \A t \in Tasks : st[t] = "settling"
             /\ ~(Head(writes).t = "usage" /\ Head(writes).task = t) => st'[t] = "settling"
    PROVE  Usages'
<1>1. /\ Head(writes) = writes[1] /\ 1 \in DOMAIN writes
      /\ \A i \in DOMAIN writes' :
           i \in Nat /\ i > 0 /\ i + 1 \in DOMAIN writes /\ writes'[i] = writes[i + 1]
  BY FirstAndRest
<1>2. \A i \in DOMAIN writes : writes[i].t = "usage" => writes[i].task \in Tasks
  <2>1. \A r \in Record : r.t = "usage" => r.task \in Tasks
    BY DEF Record, QuestionRecord, OpenRecord, ClosedRecord, DecisionRecord, UsageRecord
  <2> QED  BY <2>1
<1>3. ASSUME NEW i \in DOMAIN writes', writes'[i].t = "usage"
      PROVE  st'[writes'[i].task] = "settling"
  <2>1. i + 1 \in DOMAIN writes /\ writes'[i] = writes[i + 1] /\ i + 1 # 1
    BY <1>1
  <2>2. writes[i + 1].task \in Tasks /\ st[writes[i + 1].task] = "settling"
    BY <1>2, <1>3, <2>1 DEF Usages
  <2>3. ~(Head(writes).t = "usage" /\ Head(writes).task = writes[i + 1].task)
    BY <1>1, <1>3, <2>1 DEF Usages
  <2> QED  BY <2>1, <2>2, <2>3
<1>4. ASSUME NEW i \in DOMAIN writes', NEW j \in DOMAIN writes', i # j,
             writes'[i].t = "usage", writes'[j].t = "usage"
      PROVE  writes'[i].task # writes'[j].task
  <2>1. i + 1 \in DOMAIN writes /\ j + 1 \in DOMAIN writes /\ i + 1 # j + 1
    BY <1>1, <1>4
  <2> QED  BY <1>1, <1>4, <2>1 DEF Usages
<1> QED  BY <1>3, <1>4 DEF Usages

\* A released slot goes to a start that waits, if any: no more hold one than did.
LEMMA ReleaseSlots ==
    ASSUME BudgetTypes, Slots, NEW f \in [Tasks -> States], NEW H \in SUBSET Holding(Tasks),
           \A t \in Tasks : f[t] \in InSlot => t \in Holding(Tasks) /\ t \notin H,
           \A t \in Tasks : st[t] = "queued" => f[t] = "queued",
           Release(f, H)
    PROVE  /\ Slots' /\ st' \in [Tasks -> States] /\ at' \in [Tasks -> Scopes]
           /\ queue' \in Seq(Tasks)
           /\ \A t \in Tasks :
                \/ st'[t] = f[t] /\ at'[t] = at[t]
                \/ st[t] = "queued" /\ st'[t] = "second" /\ at'[t] = t
<1> DEFINE h == Cardinality(H)
           W == Woken(H)
<1>1. /\ IsFiniteSet(Holding(Tasks)) /\ Cardinality(Holding(Tasks)) \in Nat
      /\ Holding(Tasks) \subseteq Tasks
  BY RunningAreFew
<1>2. IsFiniteSet(H) /\ h \in Nat /\ h <= Cardinality(Holding(Tasks))
  BY <1>1, FS_Subset, FS_CardinalityType
<1>3. PICK n \in Nat : n = Len(queue) /\ DOMAIN queue = 1..n
  BY DEF BudgetTypes
<1>4. /\ queue \in Seq(Tasks) /\ (\A i \in 1..n : queue[i] \in Tasks)
      /\ st \in [Tasks -> States] /\ at \in [Tasks -> Scopes]
  BY <1>3 DEF BudgetTypes
<1>5. /\ st' = [t \in Tasks |-> IF t \in W THEN "second" ELSE f[t]]
      /\ queue' = SubSeq(queue, h + 1, n)
      /\ at' = [t \in Tasks |-> IF t \in W THEN t ELSE at[t]]
  BY <1>3 DEF Release, Released
<1>6. W = {queue[i] : i \in {j \in 1..n : j <= h}}
  BY <1>3 DEF Woken
<1> HIDE DEF h, W
<1>7. /\ W \subseteq Tasks /\ \A t \in W : st[t] = "queued"
  BY <1>3, <1>4, <1>6 DEF Slots
<1>8. "second" \in States /\ \A t \in Tasks : t \in Scopes
  BY DEF States, Starting, Scopes
<1>9. st' \in [Tasks -> States] /\ at' \in [Tasks -> Scopes]
  BY <1>4, <1>5, <1>8
<1>10. \A t \in Tasks :
        \/ st'[t] = f[t] /\ at'[t] = at[t]
        \/ st[t] = "queued" /\ st'[t] = "second" /\ at'[t] = t
  BY <1>5, <1>7
<1>11. /\ queue' \in Seq(Tasks)
       /\ \A i \in DOMAIN queue' : i \in Nat /\ h + i \in 1..n /\ h + i > h /\ queue'[i] = queue[h + i]
  <2>1. \A i \in (h + 1)..n : i \in 1..n
    BY <1>2
  <2>2. h + 1 \in Int /\ n \in Int /\ \A i \in (h + 1)..n : queue[i] \in Tasks
    BY <1>2, <1>4, <2>1
  <2>3. /\ queue' \in Seq(Tasks)
        /\ Len(queue') = IF h + 1 <= n THEN n - (h + 1) + 1 ELSE 0
        /\ \A i \in 1..(n - (h + 1) + 1) : queue'[i] = queue[(h + 1) + i - 1]
    BY <1>5, <2>2, SubSeqProperties
  <2>4. DOMAIN queue' = 1..(IF h + 1 <= n THEN n - (h + 1) + 1 ELSE 0)
    BY <2>3
  <2>5. \A i \in 1..(IF h + 1 <= n THEN n - (h + 1) + 1 ELSE 0) :
          /\ i \in Nat /\ h + i \in 1..n /\ h + i > h /\ (h + 1) + i - 1 = h + i
          /\ i \in 1..(n - (h + 1) + 1)
    BY <1>2
  <2>6. ASSUME NEW i \in DOMAIN queue'
        PROVE  i \in Nat /\ h + i \in 1..n /\ h + i > h /\ queue'[i] = queue[h + i]
    <3>1. /\ i \in Nat /\ h + i \in 1..n /\ h + i > h /\ (h + 1) + i - 1 = h + i
          /\ i \in 1..(n - (h + 1) + 1)
      BY <2>4, <2>5
    <3>2. queue'[i] = queue[(h + 1) + i - 1]
      BY <2>3, <3>1
    <3> QED  BY <3>1, <3>2
  <2> QED  BY <2>3, <2>6
<1>12. \A i \in DOMAIN queue' : st'[queue'[i]] = "queued"
  <2> TAKE i \in DOMAIN queue'
  <2>1. /\ i \in Nat /\ h + i \in 1..n /\ h + i > h /\ queue'[i] = queue[h + i]
    BY <1>11
  <2>2. queue[h + i] \notin W
    <3>1. SUFFICES ASSUME NEW j \in 1..n, j <= h, queue[j] = queue[h + i] PROVE FALSE
      BY <1>6
    <3>2. j # h + i
      BY <1>2, <2>1, <3>1
    <3> QED  BY <1>3, <2>1, <3>1, <3>2 DEF Slots
  <2>3. queue[h + i] \in Tasks /\ st[queue[h + i]] = "queued"
    BY <1>3, <1>4, <2>1 DEF Slots
  <2> QED  BY <1>5, <2>1, <2>2, <2>3
<1>13. \A i, j \in DOMAIN queue' : i # j => queue'[i] # queue'[j]
  <2> TAKE i, j \in DOMAIN queue'
  <2> HAVE i # j
  <2>1. h + i # h + j
    BY <1>2, <1>11
  <2> QED  BY <1>3, <1>11, <2>1 DEF Slots
<1>14. Cardinality(Holding(Tasks)') <= SlotCount
  <2> DEFINE O == Holding(Tasks)
             N == Holding(Tasks)'
             D == {j \in 1..n : j <= h}
             g == [j \in D |-> queue[j]]
  <2>1. IsFiniteSet(W) /\ Cardinality(W) \in Nat /\ Cardinality(W) <= h
    <3>1. IsFiniteSet(1..h) /\ Cardinality(1..h) = h
      <4>1. IsFiniteSet(1..h) /\ Cardinality(1..h) = IF 1 > h THEN 0 ELSE h - 1 + 1
        BY <1>2, FS_Interval
      <4> QED  BY <1>2, <4>1
    <3>2. D \subseteq 1..h
      BY <1>2
    <3>3. IsFiniteSet(D) /\ Cardinality(D) <= h /\ Cardinality(D) \in Nat
      BY <3>1, <3>2, FS_Subset, FS_CardinalityType
    <3>4. g \in Surjection(D, W)
      BY <1>6 DEF Surjection
    <3>5. IsFiniteSet(W) /\ Cardinality(W) <= Cardinality(D)
      BY <3>3, <3>4, FS_Surjection
    <3>6. Cardinality(W) \in Nat
      BY <3>5, FS_CardinalityType
    <3> QED  BY <1>2, <3>3, <3>5, <3>6
  <2>2. N \subseteq (O \ H) \cup W
    <3> SUFFICES ASSUME NEW t \in N, t \notin W PROVE t \in O \ H
      OBVIOUS
    <3>1. t \in Tasks /\ st'[t] \in InSlot
      BY DEF Holding
    <3>2. f[t] \in InSlot
      BY <1>5, <3>1
    <3> QED  BY <3>1, <3>2
  <2>3. O \cap H = H
    OBVIOUS
  <2>4. IsFiniteSet(O \ H) /\ Cardinality(O \ H) = Cardinality(O) - h
    BY <1>1, <2>3, FS_Difference DEF h
  <2>5. /\ IsFiniteSet((O \ H) \cup W)
        /\ Cardinality((O \ H) \cup W) =
             Cardinality(O \ H) + Cardinality(W) - Cardinality((O \ H) \cap W)
    BY <2>1, <2>4, FS_Union
  <2>6. IsFiniteSet((O \ H) \cap W)
    BY <2>1, FS_Subset
  <2>7. Cardinality((O \ H) \cap W) \in Nat
    BY <2>6, FS_CardinalityType
  <2>8. IsFiniteSet(N) /\ Cardinality(N) <= Cardinality((O \ H) \cup W)
    BY <2>2, <2>5, FS_Subset
  <2>9. Cardinality(N) \in Nat
    BY <2>8, FS_CardinalityType
  <2> DEFINE co == Cardinality(O)
             cw == Cardinality(W)
             ci == Cardinality((O \ H) \cap W)
             cn == Cardinality(N)
             cd == Cardinality(O \ H)
  <2>10. /\ co \in Nat /\ cw \in Nat /\ ci \in Nat /\ cn \in Nat /\ cd = co - h
         /\ cw <= h /\ cn <= cd + cw - ci /\ co <= SlotCount
    BY <1>1, <2>1, <2>4, <2>5, <2>7, <2>8, <2>9 DEF Slots
  <2> HIDE DEF co, cw, ci, cn, cd
  <2>11. cn <= SlotCount
    BY <1>2, <2>10, RunBudgetConstants
  <2> QED  BY <2>11 DEF cn
<1> QED  BY <1>9, <1>10, <1>11, <1>12, <1>13, <1>14 DEF Slots

\* No start joins the ones that wait for a slot, nor the ones that hold one.
LEMMA SameSlots ==
    ASSUME BudgetTypes, Slots, queue' = queue,
           \A t \in Tasks : st[t] = "queued" => st'[t] = "queued",
           \A t \in Tasks : st'[t] \in InSlot => st[t] \in InSlot
    PROVE  Slots'
<1>1. Holding(Tasks)' \subseteq Holding(Tasks)
  BY DEF Holding
<1>2. IsFiniteSet(Holding(Tasks)) /\ Cardinality(Holding(Tasks)) \in Nat
  BY RunningAreFew
<1>3. IsFiniteSet(Holding(Tasks)') /\ Cardinality(Holding(Tasks)') <= Cardinality(Holding(Tasks))
  BY <1>1, <1>2, FS_Subset
<1>4. Cardinality(Holding(Tasks)') \in Nat
  BY <1>3, FS_CardinalityType
<1>5. Cardinality(Holding(Tasks)') <= SlotCount
  BY <1>2, <1>3, <1>4, RunBudgetConstants DEF Slots
<1>6. \A i \in DOMAIN queue : queue[i] \in Tasks
  BY DEF BudgetTypes
<1> QED  BY <1>5, <1>6 DEF Slots

\* Steps that leave the questions alone.
LEMMA SameQueue ==
    ASSUME QuestionInv, AnswersTrue, UNCHANGED queueVars
    PROVE  /\ QuestionInv' /\ AnswersTrue' /\ asked' = asked /\ crashes' = crashes
           /\ writes' = writes /\ log' = log
<1>1. UNCHANGED <<open, asked, ended, reply, writes, log, troubles, crashes>>
  BY DEF queueVars
<1>2. QuestionTypes' /\ QueueBounded'
  BY <1>1 DEF QuestionInv, QuestionTypes, QueueBounded
<1>3. ClosedOnce' = ClosedOnce /\ NoIdMissing' = NoIdMissing /\ Waiting' = Waiting
  BY <1>1 DEF ClosedOnce, NoIdMissing, Waiting, Ids
<1>4. QuestionInv'
  BY <1>1, <1>2, <1>3 DEF QuestionInv
<1>5. AnswersTrue'
  BY <1>1, <1>3 DEF AnswersTrue
<1> QED  BY <1>1, <1>4, <1>5

\* What the starts' steps that leave the questions and the dollars alone keep.
LEMMA StartKeeps ==
    ASSUME IInv,
           UNCHANGED <<queueVars, first, limit, stopped, pending, spent, unpriced, runs, extensions>>,
           \A t \in Tasks : st[t] = "settling" => st'[t] = "settling",
           st' \in [Tasks -> States], at' \in [Tasks -> Scopes], queue' \in Seq(Tasks)
    PROVE  QuestionInv' /\ AnswersTrue' /\ BudgetTypes' /\ AskedOf' /\ Usages' /\ ExtendedByPerson'
<1>1. /\ QuestionInv' /\ AnswersTrue' /\ asked' = asked /\ crashes' = crashes
      /\ writes' = writes /\ log' = log
  BY SameQueue DEF IInv
<1>2. BudgetTypes'
  BY DEF IInv, BudgetTypes
<1>3. AskedOf'
  BY <1>1 DEF IInv, AskedOf
<1>4. Usages'
  <2>1. writes \in Seq(Record)
    BY DEF IInv, QuestionInv, QuestionTypes
  <2>2. <<>> \in Seq(Record) /\ DOMAIN <<>> = {} /\ writes' = writes \o <<>>
    BY <1>1, <2>1
  <2> QED  BY <2>1, <2>2, StillSettling DEF IInv
<1>5. ExtendedByPerson'
  BY <1>1, StillByPerson DEF IInv
<1> QED  BY <1>1, <1>2, <1>3, <1>4, <1>5

\* A start begins.
LEMMA BeginKeeps ==
    ASSUME IInv, NEW t \in Tasks, Begin(t)
    PROVE  IInv'
<1>1. /\ st[t] = "idle" /\ st' = [st EXCEPT ![t] = "first"] /\ at' = [at EXCEPT ![t] = t]
      /\ queue' = queue
      /\ UNCHANGED <<queueVars, first, limit, stopped, pending, spent, unpriced, runs, extensions>>
  BY DEF Begin
<1>2. /\ st \in [Tasks -> States] /\ at \in [Tasks -> Scopes] /\ queue \in Seq(Tasks)
      /\ t \in Scopes /\ "first" \in States
  BY DEF IInv, BudgetTypes, Scopes, States, Starting
<1>3. /\ st' \in [Tasks -> States] /\ at' \in [Tasks -> Scopes] /\ queue' \in Seq(Tasks)
      /\ \A u \in Tasks : u # t => st'[u] = st[u] /\ at'[u] = at[u]
      /\ st'[t] = "first" /\ at'[t] = t
  BY <1>1, <1>2
<1>4. QuestionInv' /\ AnswersTrue' /\ BudgetTypes' /\ AskedOf' /\ Usages' /\ ExtendedByPerson'
  BY <1>1, <1>3, StartKeeps
<1>5. Checked'
  BY <1>1, <1>3, RunBudgetConstants DEF IInv, Checked
<1>6. Slots'
  BY <1>1, <1>3, SameSlots DEF IInv, InSlot
<1>7. OvershootBounded'
  BY <1>1, <1>3, NoMoreRunning DEF IInv, queueVars
<1> QED  BY <1>4, <1>5, <1>6, <1>7 DEF IInv

\* A start whose task or run is stopped does not run, and leaves its slot to another.
LEMMA RefuseKeeps ==
    ASSUME IInv, NEW t \in Tasks, Refuse(t)
    PROVE  IInv'
<1> DEFINE f == [u \in Tasks |->
                   IF u = t \/ (at[t] = "run" /\ st[u] = "idle") THEN "abandoned" ELSE st[u]]
           H == Holding({t})
<1>1. /\ st[t] \in {"first", "second"} /\ Release(f, H)
      /\ UNCHANGED <<queueVars, first, limit, stopped, pending, spent, unpriced, runs, extensions>>
  BY DEF Refuse
<1>2. st \in [Tasks -> States] /\ "abandoned" \in States /\ "abandoned" \notin InSlot
  BY DEF IInv, BudgetTypes, States, InSlot
<1>3. f \in [Tasks -> States] /\ H \in SUBSET Holding(Tasks)
  BY <1>2 DEF Holding
<1>4. /\ \A u \in Tasks : f[u] \in InSlot => u \in Holding(Tasks) /\ u \notin H
      /\ \A u \in Tasks : st[u] = "queued" => f[u] = "queued"
  BY <1>1, <1>2 DEF Holding
<1>5. \A u \in Tasks : f[u] = st[u] \/ (f[u] = "abandoned" /\ st[u] \in {"first", "second", "idle"})
  BY <1>1
<1> HIDE DEF f, H
<1>6. /\ Slots' /\ st' \in [Tasks -> States] /\ at' \in [Tasks -> Scopes]
      /\ queue' \in Seq(Tasks)
      /\ \A u \in Tasks :
           \/ st'[u] = f[u] /\ at'[u] = at[u]
           \/ st[u] = "queued" /\ st'[u] = "second" /\ at'[u] = u
  BY <1>1, <1>3, <1>4, ReleaseSlots DEF IInv
<1>7. QuestionInv' /\ AnswersTrue' /\ BudgetTypes' /\ AskedOf' /\ Usages' /\ ExtendedByPerson'
  BY <1>1, <1>5, <1>6, StartKeeps
<1>8. Checked'
  BY <1>1, <1>5, <1>6, RunBudgetConstants DEF IInv, Checked
<1>9. OvershootBounded'
  BY <1>1, <1>5, <1>6, NoMoreRunning DEF IInv, queueVars
<1> QED  BY <1>6, <1>7, <1>8, <1>9 DEF IInv

\* A scope out of budget asks.
LEMMA AskKeeps ==
    ASSUME IInv, NEW t \in Tasks, AskBudget(t)
    PROVE  IInv'
<1> DEFINE s == at[t]
           p == [q |-> asked, unpriced |-> Unpriced(s), said |-> FALSE]
<1>1. /\ Free(t) /\ Over(s) /\ Raise(asked) /\ pending' = [pending EXCEPT ![s] = p]
      /\ UNCHANGED <<first, limit, stopped, spent, unpriced, st, at, queue, runs, extensions>>
  BY DEF AskBudget
<1>2. /\ QuestionInv' /\ AnswersTrue' /\ asked' \in {asked, asked + 1}
      /\ UNCHANGED <<log, crashes>>
      /\ \E r \in Seq(QuestionRecord) : writes' = writes \o r
  BY <1>1, Questioned DEF IInv
<1>3. asked' = asked + 1 /\ asked \in Nat \ {0}
  BY <1>1 DEF Raise, IInv, QuestionInv, QuestionTypes
<1>4. s \in Scopes /\ limit[s] # 0 /\ (s = t \/ s = "run")
  BY <1>1 DEF IInv, BudgetTypes, Checked, Over
<1>5. p \in [q : Nat, unpriced : BOOLEAN, said : BOOLEAN] /\ p.q = asked /\ p.said = FALSE
  BY <1>3 DEF Unpriced
<1>6. pending \in [Scopes -> [q : Nat, unpriced : BOOLEAN, said : BOOLEAN]]
  BY DEF IInv, BudgetTypes
<1> HIDE DEF p
<1>7. /\ pending' \in [Scopes -> [q : Nat, unpriced : BOOLEAN, said : BOOLEAN]]
      /\ pending'[s] = p /\ \A u \in Scopes : u # s => pending'[u] = pending[u]
  BY <1>1, <1>4, <1>5, <1>6
<1> HIDE DEF s
<1>8. BudgetTypes'
  BY <1>1, <1>7 DEF IInv, BudgetTypes
<1>9. Checked'
  <2> SUFFICES ASSUME NEW u \in Tasks, st[u] \in {"first", "second"}, at[u] = "run"
               PROVE  ~stopped[u] /\ pending'[u] = NoQuestion
    BY <1>1 DEF IInv, Checked
  <2>1. ~stopped[u] /\ pending[u] = NoQuestion /\ u \in Scopes
    BY DEF IInv, Checked, Scopes
  <2>2. u # s
    BY <1>4, RunBudgetConstants DEF s
  <2> QED  BY <1>7, <2>1, <2>2
<1>10. AskedOf'
  <2> SUFFICES ASSUME NEW u \in Scopes, pending'[u] # NoQuestion
               PROVE  pending'[u].q \in 1..(asked' - 1) /\ (~pending'[u].said => limit[u] # 0)
    BY <1>1 DEF AskedOf
  <2>1. CASE u = s
    BY <1>3, <1>4, <1>5, <1>7, <2>1
  <2>2. CASE u # s
    <3>1. pending[u].q \in 1..(asked - 1) /\ (~pending[u].said => limit[u] # 0)
      BY <1>7, <2>2 DEF IInv, AskedOf
    <3>2. pending[u].q \in 1..(asked' - 1)
      BY <1>3, <3>1
    <3> QED  BY <1>7, <2>2, <3>1, <3>2
  <2> QED  BY <2>1, <2>2
<1>11. Slots'
  BY <1>1, SameSlots DEF IInv
<1>12. Usages'
  <2>1. PICK r \in Seq(QuestionRecord) : writes' = writes \o r
    BY <1>2
  <2>2. r \in Seq(Record) /\ \A k \in DOMAIN r : r[k].t # "usage"
    <3>1. \A x \in QuestionRecord : x \in Record /\ x.t # "usage"
      BY Records
    <3> QED  BY <3>1
  <2>3. writes \in Seq(Record)
    BY DEF IInv, QuestionInv, QuestionTypes
  <2> QED  BY <1>1, <2>1, <2>2, <2>3, StillSettling DEF IInv
<1>13. OvershootBounded'
  BY <1>1, <1>2, NoMoreRunning DEF IInv
<1>14. ExtendedByPerson'
  BY <1>1, <1>2, StillByPerson DEF IInv
<1> QED  BY <1>2, <1>8, <1>9, <1>10, <1>11, <1>12, <1>13, <1>14 DEF IInv

\* A start is let on: to its run's budget, to a slot or to wait for one, and to run.
LEMMA AdmitKeeps ==
    ASSUME IInv, NEW t \in Tasks, Admit(t)
    PROVE  IInv'
<1>1. /\ st[t] \in {"first", "second"} /\ ~stopped[at[t]] /\ pending[at[t]] = NoQuestion
      /\ ~Over(at[t])
      /\ UNCHANGED <<queueVars, first, limit, stopped, pending, spent, unpriced, runs, extensions>>
  BY DEF Admit, Free
<1>2. /\ st \in [Tasks -> States] /\ at \in [Tasks -> Scopes] /\ queue \in Seq(Tasks)
      /\ t \in Scopes /\ "run" \in Scopes /\ t # "run" /\ at[t] \in {t, "run"}
      /\ States = {"first", "queued", "second", "running", "settling", "idle", "abandoned"}
  BY RunBudgetConstants DEF IInv, BudgetTypes, Checked, Scopes, States, Starting, InSlot
<1>3. /\ crashes' = crashes /\ spent' = spent /\ limit' = limit /\ stopped' = stopped
      /\ pending' = pending
  BY <1>1 DEF queueVars
<1>4. CASE at[t] # "run" /\ at' = [at EXCEPT ![t] = "run"] /\ UNCHANGED <<st, queue>>
  <2>1. /\ at' \in [Tasks -> Scopes] /\ at'[t] = "run" /\ at[t] = t
        /\ \A u \in Tasks : u # t => at'[u] = at[u]
    BY <1>2, <1>4
  <2>2. QuestionInv' /\ AnswersTrue' /\ BudgetTypes' /\ AskedOf' /\ Usages' /\ ExtendedByPerson'
    BY <1>1, <1>2, <1>4, <2>1, StartKeeps
  <2>3. Checked'
    BY <1>1, <1>3, <1>4, <2>1 DEF IInv, Checked
  <2>4. Slots'
    BY <1>4, SameSlots DEF IInv
  <2>5. OvershootBounded'
    BY <1>3, <1>4, NoMoreRunning DEF IInv
  <2> QED  BY <2>2, <2>3, <2>4, <2>5 DEF IInv
<1>5. CASE /\ at[t] = "run" /\ st[t] = "first" /\ SlotFree
           /\ st' = [st EXCEPT ![t] = "second"] /\ at' = [at EXCEPT ![t] = t]
           /\ UNCHANGED queue
  <2>1. /\ st' \in [Tasks -> States] /\ at' \in [Tasks -> Scopes]
        /\ st'[t] = "second" /\ at'[t] = t
        /\ \A u \in Tasks : u # t => st'[u] = st[u] /\ at'[u] = at[u]
    BY <1>2, <1>5
  <2>2. QuestionInv' /\ AnswersTrue' /\ BudgetTypes' /\ AskedOf' /\ Usages' /\ ExtendedByPerson'
    BY <1>1, <1>2, <1>5, <2>1, StartKeeps
  <2>3. Checked'
    BY <1>2, <1>3, <2>1 DEF IInv, Checked
  <2>4. Slots'
    <3>1. /\ IsFiniteSet(Holding(Tasks)) /\ Cardinality(Holding(Tasks)) \in Nat
      BY RunningAreFew DEF IInv
    <3>2. Holding(Tasks)' = Holding(Tasks) \cup {t} /\ t \notin Holding(Tasks)
      BY <1>5, <2>1 DEF Holding, InSlot
    <3>3. Cardinality(Holding(Tasks)') = Cardinality(Holding(Tasks)) + 1
      BY <3>1, <3>2, FS_AddElement
    <3>4. Cardinality(Holding(Tasks)') <= SlotCount
      BY <1>5, <3>1, <3>3, RunBudgetConstants DEF SlotFree
    <3>5. \A i \in DOMAIN queue : queue[i] \in Tasks /\ st[queue[i]] = "queued"
      BY <1>2 DEF IInv, Slots
    <3>6. \A i \in DOMAIN queue : st'[queue[i]] = "queued"
      BY <1>5, <2>1, <3>5
    <3> QED  BY <1>5, <3>4, <3>6 DEF IInv, Slots
  <2>5. OvershootBounded'
    BY <1>3, <2>1, NoMoreRunning DEF IInv
  <2> QED  BY <2>2, <2>3, <2>4, <2>5 DEF IInv
<1>6. CASE /\ at[t] = "run" /\ st[t] = "first"
           /\ st' = [st EXCEPT ![t] = "queued"] /\ queue' = Append(queue, t)
           /\ UNCHANGED at
  <2>1. /\ st' \in [Tasks -> States] /\ st'[t] = "queued"
        /\ \A u \in Tasks : u # t => st'[u] = st[u]
    BY <1>2, <1>6
  <2>2. PICK n \in Nat : n = Len(queue) /\ DOMAIN queue = 1..n
    BY <1>2
  <2>3. /\ queue' \in Seq(Tasks) /\ DOMAIN queue' = 1..(n + 1) /\ queue'[n + 1] = t
        /\ \A i \in 1..n : queue'[i] = queue[i]
    BY <1>2, <1>6, <2>2
  <2>4. /\ \A i \in 1..(n + 1) : i \in 1..n \/ i = n + 1
        /\ \A i \in 1..n : queue[i] \in Tasks /\ queue[i] # t /\ st[queue[i]] = "queued"
    BY <1>2, <1>6, <2>2, SMTT(30) DEF IInv, Slots
  <2>5. QuestionInv' /\ AnswersTrue' /\ BudgetTypes' /\ AskedOf' /\ Usages' /\ ExtendedByPerson'
    BY <1>1, <1>2, <1>6, <2>1, <2>3, StartKeeps
  <2>6. Checked'
    BY <1>3, <1>6, <2>1 DEF IInv, Checked
  <2>7. Slots'
    <3>1. Holding(Tasks)' = Holding(Tasks)
      BY <1>6, <2>1 DEF Holding, InSlot
    <3>2. \A i \in 1..(n + 1) : st'[queue'[i]] = "queued"
      BY <2>1, <2>3, <2>4
    <3>3. \A i, j \in 1..(n + 1) : i # j => queue'[i] # queue'[j]
      <4>1. \A i, j \in 1..n : i # j => queue[i] # queue[j]
        BY <2>2 DEF IInv, Slots
      <4> QED  BY <2>3, <2>4, <4>1
    <3> QED  BY <2>3, <3>1, <3>2, <3>3 DEF IInv, Slots
  <2>8. OvershootBounded'
    BY <1>3, <2>1, NoMoreRunning DEF IInv
  <2> QED  BY <2>5, <2>6, <2>7, <2>8 DEF IInv
<1>7. CASE /\ at[t] = "run" /\ st[t] = "second" /\ st' = [st EXCEPT ![t] = "running"]
           /\ UNCHANGED <<at, queue>>
  <2>1. /\ st' \in [Tasks -> States] /\ st'[t] = "running"
        /\ \A u \in Tasks : u # t => st'[u] = st[u]
    BY <1>2, <1>7
  <2>2. QuestionInv' /\ AnswersTrue' /\ BudgetTypes' /\ AskedOf' /\ Usages' /\ ExtendedByPerson'
    BY <1>1, <1>2, <1>7, <2>1, StartKeeps
  <2>3. Checked'
    BY <1>3, <1>7, <2>1 DEF IInv, Checked
  <2>4. Slots'
    BY <1>7, <2>1, SameSlots DEF IInv, InSlot
  <2>5. OvershootBounded'
    <3> DEFINE r == Cardinality(Running')
               x == MaxCost * r
               z == MaxCost * SlotCount
    <3>1. BudgetTypes'
      BY <2>2
    <3>2. IsFiniteSet(Holding(Tasks)') /\ Running' \subseteq Holding(Tasks)'
      <4>1. Holding(Tasks)' \subseteq Tasks
        BY DEF Holding
      <4>2. IsFiniteSet(Holding(Tasks)')
        BY <4>1, RunBudgetConstants, FS_Subset
      <4> QED  BY <4>2 DEF Running, Holding, InSlot
    <3>3. IsFiniteSet(Running') /\ r <= Cardinality(Holding(Tasks)')
      BY <3>2, FS_Subset
    <3>4. r \in Nat /\ Cardinality(Holding(Tasks)') \in Nat
      BY <3>2, <3>3, FS_CardinalityType
    <3>5. r <= SlotCount
      BY <2>4, <3>3, <3>4, RunBudgetConstants DEF Slots
    <3>6. x \in Nat /\ z \in Nat /\ x <= z
      BY <3>4, <3>5, Dollars, RunBudgetConstants
    <3> HIDE DEF x, z
    <3>7. spent["run"] \in Nat /\ limit["run"] \in Nat
      BY <1>2 DEF IInv, BudgetTypes
    <3>8. limit["run"] # 0 => spent["run"] < limit["run"]
      BY <1>1, <1>7, <3>7 DEF Over
    <3>9. limit'["run"] # 0 => spent'["run"] + x < limit'["run"] + z
      BY <1>3, <3>6, <3>7, <3>8
    <3> QED  BY <3>9 DEF OvershootBounded, Running, x, z
  <2> QED  BY <2>2, <2>3, <2>4, <2>5 DEF IInv
<1> QED  BY <1>4, <1>5, <1>6, <1>7 DEF Admit

\* A member run ends, and its usage is on its way.
LEMMA SettleKeeps ==
    ASSUME IInv, NEW t \in Tasks, Settle(t)
    PROVE  IInv'
<1>1. PICK cost \in 0..MaxCost :
        /\ st[t] = "running" /\ st' = [st EXCEPT ![t] = "settling"]
        /\ writes' = Append(writes, [t |-> "usage", task |-> t, cost |-> cost])
        /\ UNCHANGED <<open, asked, ended, reply, log, troubles, crashes>>
        /\ UNCHANGED <<first, limit, stopped, pending, spent, unpriced, at, queue, runs, extensions>>
  BY DEF Settle
<1> DEFINE r == [t |-> "usage", task |-> t, cost |-> cost]
<1>2. r \in UsageRecord /\ r.t = "usage" /\ r.task = t /\ r \in Record
  BY DEF UsageRecord, Record
<1>3. writes' = Append(writes, r)
  BY <1>1
<1> HIDE DEF r
<1>4. st \in [Tasks -> States] /\ "settling" \in States /\ writes \in Seq(Record)
  BY DEF IInv, BudgetTypes, QuestionInv, QuestionTypes, States, InSlot
<1>5. /\ st' \in [Tasks -> States] /\ st'[t] = "settling"
      /\ \A u \in Tasks : u # t => st'[u] = st[u]
  BY <1>1, <1>4
<1>6. QuestionInv' /\ AnswersTrue' /\ asked' = asked
  BY <1>1, <1>2, <1>3, OtherKeeps DEF IInv
<1>7. BudgetTypes' /\ Checked' /\ AskedOf'
  BY <1>1, <1>5 DEF IInv, BudgetTypes, Checked, AskedOf
<1>8. Slots'
  BY <1>1, <1>5, SameSlots DEF IInv, InSlot
<1>9. Usages'
  <2>1. PICK n \in Nat : n = Len(writes) /\ DOMAIN writes = 1..n
    BY <1>4
  <2>2. /\ DOMAIN writes' = 1..(n + 1) /\ writes'[n + 1] = r
        /\ \A i \in 1..n : writes'[i] = writes[i]
    BY <1>2, <1>3, <1>4, <2>1
  <2>3. \A i \in 1..(n + 1) : i \in 1..n \/ i = n + 1
    OBVIOUS
  <2>4. \A i \in 1..n : writes[i].t = "usage" =>
          writes[i].task \in Tasks /\ st[writes[i].task] = "settling" /\ writes[i].task # t
    <3>1. \A x \in Record : x.t = "usage" => x.task \in Tasks
      BY DEF Record, QuestionRecord, OpenRecord, ClosedRecord, DecisionRecord, UsageRecord
    <3> QED  BY <1>1, <1>4, <2>1, <3>1 DEF IInv, Usages
  <2>5. \A i \in 1..(n + 1) : writes'[i].t = "usage" => st'[writes'[i].task] = "settling"
    BY <1>2, <1>5, <2>2, <2>3, <2>4
  <2>6. \A i, j \in 1..(n + 1) : writes'[i].t = "usage" /\ writes'[j].t = "usage" /\ i # j =>
          writes'[i].task # writes'[j].task
    <3>1. \A i, j \in 1..n : writes[i].t = "usage" /\ writes[j].t = "usage" /\ i # j =>
            writes[i].task # writes[j].task
      BY <2>1 DEF IInv, Usages
    <3> QED  BY <1>2, <2>2, <2>3, <2>4, <3>1
  <2> QED  BY <2>2, <2>5, <2>6 DEF Usages
<1>10. OvershootBounded'
  BY <1>1, <1>5, NoMoreRunning DEF IInv
<1>11. ExtendedByPerson'
  BY <1>1, StillByPerson DEF IInv
<1> QED  BY <1>6, <1>7, <1>8, <1>9, <1>10, <1>11 DEF IInv

\* A budget is extended by the person that answered so, and of none that is not limited.
LEMMA DecideKeeps ==
    ASSUME IInv, NEW s \in Scopes, Decide(s)
    PROVE  IInv'
<1> DEFINE r == [t |-> "budget", scope |-> s]
           Question == [q : Nat, unpriced : BOOLEAN, said : BOOLEAN]
<1>1. /\ pending[s] # NoQuestion /\ ~pending[s].said
      /\ writes' = Append(writes, r) /\ pending' = [pending EXCEPT ![s].said = TRUE]
      /\ UNCHANGED <<open, asked, ended, reply, log, troubles, crashes>>
      /\ UNCHANGED <<first, spent, unpriced, st, at, queue, runs>>
      /\ \/ /\ Extends(s)
            /\ limit' = [limit EXCEPT ![s] = Extended(s)]
            /\ extensions' = [extensions EXCEPT ![s] = @ \cup {pending[s].q}]
            /\ stopped' = stopped
         \/ /\ stopped' = [stopped EXCEPT ![s] = TRUE]
            /\ limit' = limit /\ extensions' = extensions
  BY DEF Decide, Answered
<1>2. r \in DecisionRecord /\ r.t = "budget" /\ r \in Record
  BY DEF DecisionRecord, Record
<1> HIDE DEF r
<1>3. /\ limit \in [Scopes -> Nat] /\ first \in [Scopes -> Nat] /\ pending \in [Scopes -> Question]
      /\ stopped \in [Scopes -> BOOLEAN] /\ extensions \in [Scopes -> SUBSET Nat]
      /\ writes \in Seq(Record) /\ pending[s].q \in 1..(asked - 1) /\ limit[s] # 0
  BY <1>1 DEF IInv, BudgetTypes, AskedOf, QuestionInv, QuestionTypes
<1>4. /\ pending' \in [Scopes -> Question]
      /\ pending'[s].q = pending[s].q /\ pending'[s].said = TRUE
      /\ \A u \in Scopes : u # s => pending'[u] = pending[u]
  BY <1>1, <1>3
<1>5. QuestionInv' /\ AnswersTrue' /\ asked' = asked
  BY <1>1, <1>2, OtherKeeps DEF IInv
<1>6. Extended(s) \in Nat /\ (Extended(s) # 0 => limit[s] <= Extended(s))
  BY <1>3 DEF Extended
<1>7. /\ limit' \in [Scopes -> Nat] /\ (limit'[s] # 0 => limit[s] <= limit'[s])
      /\ \A u \in Scopes : u # s => limit'[u] = limit[u]
  BY <1>1, <1>3, <1>6
<1>8. /\ stopped' \in [Scopes -> BOOLEAN]
      /\ \A u \in Scopes : u # s => stopped'[u] = stopped[u]
  BY <1>1, <1>3
<1>9. extensions' \in [Scopes -> SUBSET Nat]
  <2>1. pending[s].q \in Nat
    BY <1>3
  <2>2. extensions[s] \cup {pending[s].q} \in SUBSET Nat
    BY <1>3, <2>1
  <2> QED  BY <1>1, <1>3, <2>2
<1>10. BudgetTypes'
  BY <1>1, <1>4, <1>7, <1>8, <1>9 DEF IInv, BudgetTypes
<1>11. Checked'
  <2> SUFFICES ASSUME NEW u \in Tasks, st[u] \in {"first", "second"}, at[u] = "run"
               PROVE  ~stopped'[u] /\ pending'[u] = NoQuestion
    BY <1>1 DEF IInv, Checked
  <2>1. ~stopped[u] /\ pending[u] = NoQuestion /\ u \in Scopes
    BY DEF IInv, Checked, Scopes
  <2>2. u # s
    BY <1>1, <2>1
  <2> QED  BY <1>4, <1>8, <2>1, <2>2
<1>12. AskedOf'
  <2> SUFFICES ASSUME NEW u \in Scopes, pending'[u] # NoQuestion
               PROVE  pending'[u].q \in 1..(asked - 1) /\ (~pending'[u].said => limit'[u] # 0)
    BY <1>5 DEF AskedOf
  <2>1. CASE u = s
    BY <1>3, <1>4, <2>1
  <2>2. CASE u # s
    BY <1>4, <1>7, <2>2 DEF IInv, AskedOf
  <2> QED  BY <2>1, <2>2
<1>13. Slots'
  BY <1>1, SameSlots DEF IInv
<1>14. Usages'
  <2>1. writes' = writes \o <<r>> /\ <<r>> \in Seq(Record) /\ DOMAIN <<r>> = {1} /\ <<r>>[1] = r
    BY <1>1, <1>2, <1>3, OneBehind
  <2> QED  BY <1>1, <1>2, <1>3, <2>1, StillSettling DEF IInv
<1>15. OvershootBounded'
  <2>1. CASE limit'["run"] = limit["run"]
    BY <1>1, <2>1, NoMoreRunning DEF IInv
  <2>2. CASE limit'["run"] # limit["run"]
    <3>1. s = "run" /\ "run" \in Scopes
      BY <1>7, <2>2 DEF Scopes
    <3> DEFINE y == MaxCost * Cardinality(Running)
               z == MaxCost * SlotCount
    <3>2. /\ y \in Nat /\ z \in Nat /\ spent["run"] \in Nat
          /\ limit["run"] \in Nat /\ limit'["run"] \in Nat
      <4>1. Cardinality(Running) \in Nat
        BY RunningAreFew DEF IInv
      <4> QED  BY <1>3, <1>7, <3>1, <4>1, Dollars, RunBudgetConstants DEF IInv, BudgetTypes
    <3>3. limit["run"] # 0 /\ crashes = 0 => spent["run"] + y < limit["run"] + z
      BY DEF IInv, OvershootBounded, Running
    <3>4. Running' = Running
      BY <1>1 DEF Running
    <3> HIDE DEF y, z
    <3>5. limit'["run"] # 0 /\ crashes = 0 => spent["run"] + y < limit'["run"] + z
      BY <1>3, <1>7, <3>1, <3>2, <3>3
    <3> QED  BY <1>1, <3>4, <3>5 DEF OvershootBounded, Running, y, z
  <2> QED  BY <2>1, <2>2
<1>16. ExtendedByPerson'
  <2>1. CASE extensions' = extensions
    BY <1>1, <2>1, StillByPerson DEF IInv
  <2>2. CASE extensions' # extensions
    <3>1. Extends(s) /\ extensions' = [extensions EXCEPT ![s] = @ \cup {pending[s].q}]
      BY <1>1, <2>2
    <3>2. pending[s].q \in DOMAIN reply /\ reply[pending[s].q] = "other"
      BY <1>3, <3>1 DEF Extends, IInv, QuestionInv, QuestionTypes
    <3>3. \E i \in DOMAIN log : log[i] = Closed(pending[s].q, "other", "person")
      BY <3>2 DEF IInv, AnswersTrue
    <3>4. \A u \in Scopes : \A q \in extensions'[u] : q \in extensions[u] \/ (q = pending[s].q)
      BY <1>3, <3>1
    <3> QED  BY <1>1, <3>3, <3>4 DEF IInv, ExtendedByPerson
  <2> QED  BY <2>1, <2>2
<1> QED
  BY <1>5, <1>10, <1>11, <1>12, <1>13, <1>14, <1>15, <1>16 DEF IInv

\* A record is written: a decision lets its scope's starts on, a usage ends its member run.
LEMMA BudgetWriteKeeps ==
    ASSUME IInv, BudgetWrite
    PROVE  IInv'
<1> DEFINE h == Head(writes)
           Question == [q : Nat, unpriced : BOOLEAN, said : BOOLEAN]
<1>1. /\ Write /\ UNCHANGED <<first, limit, stopped, extensions>>
      /\ \/ /\ IsQuestion(h)
            /\ UNCHANGED <<pending, spent, unpriced, st, at, queue, runs>>
         \/ /\ h.t = "budget" /\ pending' = [pending EXCEPT ![h.scope] = NoQuestion]
            /\ UNCHANGED <<spent, unpriced, st, at, queue, runs>>
         \/ /\ h.t = "usage"
            /\ spent' = Charged(spent, h.task, h.cost)
            /\ unpriced' = Charged(unpriced, h.task, IF h.cost = 0 THEN 1 ELSE 0)
            /\ runs' = runs + 1
            /\ Release([st EXCEPT ![h.task] = "idle"], {h.task})
            /\ UNCHANGED pending
  BY DEF BudgetWrite
<1>2. /\ writes # <<>> /\ writes' = Tail(writes) /\ crashes' = crashes
      /\ log' = IF IsQuestion(h) THEN Append(log, h) ELSE log
  BY <1>1 DEF Write
<1>3. QuestionInv' /\ AnswersTrue' /\ asked' = asked
  BY <1>1, WriteKeeps DEF IInv
<1>4. writes \in Seq(Record) /\ log \in Seq(QuestionRecord)
  BY DEF IInv, QuestionInv, QuestionTypes
<1>5. h \in Record /\ h = writes[1] /\ 1 \in DOMAIN writes
  BY <1>2, <1>4, FirstAndRest
<1>6. /\ h.t = "budget" => h.scope \in Scopes
      /\ h.t = "usage" => h.task \in Tasks /\ h.cost \in Nat /\ h.cost <= MaxCost
  BY <1>5, RunBudgetConstants
  DEF Record, QuestionRecord, OpenRecord, ClosedRecord, DecisionRecord, UsageRecord
<1> HIDE DEF h
<1>7. ExtendedByPerson'
  <2>1. \A i \in DOMAIN log : i \in DOMAIN log' /\ log'[i] = log[i]
    <3>1. CASE IsQuestion(h)
      <4>1. h \in QuestionRecord
        BY <1>5, <3>1, Records
      <4> QED  BY <1>2, <1>4, <3>1, <4>1
    <3> QED  BY <1>2, <3>1
  <2> QED  BY <1>1, <2>1, StillByPerson DEF IInv
<1>8. CASE IsQuestion(h) /\ UNCHANGED <<pending, spent, unpriced, st, at, queue, runs>>
  <2>1. BudgetTypes' /\ Checked' /\ AskedOf'
    BY <1>1, <1>3, <1>8 DEF IInv, BudgetTypes, Checked, AskedOf
  <2>2. Slots'
    BY <1>8, SameSlots DEF IInv
  <2>3. Usages'
    BY <1>2, <1>4, <1>8, SettlingBehind DEF IInv
  <2>4. OvershootBounded'
    BY <1>1, <1>2, <1>8, NoMoreRunning DEF IInv
  <2> QED  BY <1>3, <1>7, <2>1, <2>2, <2>3, <2>4 DEF IInv
<1>9. CASE /\ h.t = "budget" /\ pending' = [pending EXCEPT ![h.scope] = NoQuestion]
           /\ UNCHANGED <<spent, unpriced, st, at, queue, runs>>
  <2>1. /\ pending' \in [Scopes -> Question]
        /\ \A u \in Scopes : pending'[u] = pending[u] \/ pending'[u] = NoQuestion
    <3>1. NoQuestion \in Question /\ pending \in [Scopes -> Question] /\ h.scope \in Scopes
      BY <1>6, <1>9 DEF NoQuestion, IInv, BudgetTypes
    <3> QED  BY <1>9, <3>1
  <2>2. BudgetTypes'
    BY <1>1, <1>9, <2>1 DEF IInv, BudgetTypes
  <2>3. Checked'
    BY <1>1, <1>9, <2>1 DEF IInv, Checked, Scopes
  <2>4. AskedOf'
    BY <1>1, <1>3, <2>1 DEF IInv, AskedOf
  <2>5. Slots'
    BY <1>9, SameSlots DEF IInv
  <2>6. Usages'
    BY <1>2, <1>4, <1>9, SettlingBehind DEF IInv
  <2>7. OvershootBounded'
    BY <1>1, <1>2, <1>9, NoMoreRunning DEF IInv
  <2> QED  BY <1>3, <1>7, <2>2, <2>3, <2>4, <2>5, <2>6, <2>7 DEF IInv
<1>10. CASE /\ h.t = "usage"
            /\ spent' = Charged(spent, h.task, h.cost)
            /\ unpriced' = Charged(unpriced, h.task, IF h.cost = 0 THEN 1 ELSE 0)
            /\ runs' = runs + 1
            /\ Release([st EXCEPT ![h.task] = "idle"], {h.task})
            /\ UNCHANGED pending
  <2> DEFINE t == h.task
             f == [st EXCEPT ![t] = "idle"]
  <2>1. /\ t \in Tasks /\ st[t] = "settling" /\ h.cost \in Nat /\ h.cost <= MaxCost
        /\ st \in [Tasks -> States] /\ "idle" \in States
        /\ spent \in [Scopes -> Nat] /\ unpriced \in [Scopes -> Nat] /\ runs \in Nat
    BY <1>5, <1>6, <1>10 DEF IInv, Usages, BudgetTypes, States
  <2> HIDE DEF t
  <2>2. /\ f \in [Tasks -> States] /\ f[t] = "idle"
        /\ \A u \in Tasks : u # t => f[u] = st[u]
    BY <2>1
  <2>3. Release(f, {t})
    BY <1>10 DEF t
  <2> HIDE DEF f
  <2>4. /\ Slots' /\ st' \in [Tasks -> States] /\ at' \in [Tasks -> Scopes]
        /\ queue' \in Seq(Tasks)
        /\ \A u \in Tasks :
             \/ st'[u] = f[u] /\ at'[u] = at[u]
             \/ st[u] = "queued" /\ st'[u] = "second" /\ at'[u] = u
    <3>1. {t} \in SUBSET Holding(Tasks)
      BY <2>1 DEF Holding, InSlot
    <3>2. \A u \in Tasks : f[u] \in InSlot => u \in Holding(Tasks) /\ u \notin {t}
      BY <2>2 DEF Holding, InSlot
    <3>3. \A u \in Tasks : st[u] = "queued" => f[u] = "queued"
      BY <2>1, <2>2
    <3> QED  BY <2>2, <2>3, <3>1, <3>2, <3>3, ReleaseSlots DEF IInv
  <2>5. BudgetTypes'
    <3>1. /\ spent' = [s \in Scopes |-> IF s \in {t, "run"} THEN spent[s] + h.cost ELSE spent[s]]
          /\ unpriced' = [s \in Scopes |-> IF s \in {t, "run"}
                            THEN unpriced[s] + (IF h.cost = 0 THEN 1 ELSE 0) ELSE unpriced[s]]
      BY <1>10 DEF Charged, t
    <3>2. spent' \in [Scopes -> Nat]
      BY <2>1, <3>1
    <3>3. unpriced' \in [Scopes -> Nat]
      BY <2>1, <3>1
    <3>4. runs' \in Nat
      BY <1>10, <2>1
    <3> QED  BY <1>1, <1>10, <2>4, <3>2, <3>3, <3>4 DEF IInv, BudgetTypes
  <2>6. Checked'
    <3>1. \A u \in Tasks : st'[u] \in {"first", "second"} /\ at'[u] = "run" =>
            st[u] \in {"first", "second"} /\ at[u] = "run"
      BY <2>2, <2>4, RunBudgetConstants
    <3>2. \A u \in Tasks : at'[u] \in {u, "run"}
      BY <2>4 DEF IInv, Checked
    <3> QED  BY <1>1, <1>10, <3>1, <3>2 DEF IInv, Checked
  <2>7. AskedOf'
    BY <1>1, <1>3, <1>10 DEF IInv, AskedOf
  <2>8. Usages'
    <3>1. \A u \in Tasks : st[u] = "settling" /\ u # t => st'[u] = "settling"
      BY <2>2, <2>4
    <3> QED  BY <1>2, <1>4, <1>10, <3>1, SettlingBehind DEF IInv, h, t
  <2>9. OvershootBounded'
    <3>1. Running' = Running \ {t} /\ t \in Running
      <4>1. \A u \in Tasks : u # t =>
              (st'[u] \in {"running", "settling"} <=> st[u] \in {"running", "settling"})
        BY <2>2, <2>4
      <4>2. st'[t] \notin {"running", "settling"}
        BY <2>1, <2>2, <2>4
      <4> QED  BY <2>1, <4>1, <4>2 DEF Running
    <3>2. IsFiniteSet(Running) /\ Cardinality(Running) \in Nat
      BY RunningAreFew DEF IInv
    <3>3. Cardinality(Running') = Cardinality(Running) - 1
      BY <3>1, <3>2, FS_RemoveElement
    <3>4. IsFiniteSet(Running') /\ Cardinality(Running') \in Nat
      <4>1. IsFiniteSet(Running')
        BY <3>1, <3>2, FS_Subset
      <4> QED  BY <4>1, FS_CardinalityType
    <3> DEFINE a == Cardinality(Running')
               x == MaxCost * a
               y == MaxCost * (a + 1)
               z == MaxCost * SlotCount
    <3>5. a \in Nat /\ Cardinality(Running) = a + 1
      BY <3>2, <3>3, <3>4
    <3> HIDE DEF a
    <3>6. x \in Nat /\ z \in Nat /\ y = x + MaxCost /\ MaxCost \in Nat
      BY <3>5, Dollars, RunBudgetConstants
    <3>7. limit["run"] # 0 /\ crashes = 0 => spent["run"] + y < limit["run"] + z
      BY <3>5 DEF IInv, OvershootBounded, Running
    <3> HIDE DEF x, y, z
    <3>8. spent'["run"] = spent["run"] + h.cost /\ spent["run"] \in Nat /\ limit["run"] \in Nat
      BY <1>10, <2>1 DEF Charged, Scopes, IInv, BudgetTypes
    <3>9. limit["run"] # 0 /\ crashes = 0 => spent'["run"] + x < limit["run"] + z
      BY <2>1, <3>6, <3>7, <3>8
    <3> QED  BY <1>1, <1>2, <3>9 DEF OvershootBounded, Running, a, x, z
  <2> QED  BY <1>3, <1>7, <2>4, <2>5, <2>6, <2>7, <2>8, <2>9 DEF IInv
<1> QED  BY <1>1, <1>8, <1>9, <1>10

\* A write fails, and with it the starts that wait for it.
LEMMA BudgetWriteFailsKeeps ==
    ASSUME IInv, BudgetWriteFails
    PROVE  IInv'
<1> DEFINE h == Head(writes)
           Question == [q : Nat, unpriced : BOOLEAN, said : BOOLEAN]
           F == IF h.t = "budget" THEN {t \in Tasks : st[t] \in {"first", "second"} /\ at[t] = h.scope}
                ELSE IF h.t = "usage" THEN {h.task} ELSE {}
           f == [t \in Tasks |-> IF t \in F THEN "idle" ELSE st[t]]
           H == Holding(F)
<1>1. /\ WriteFails /\ UNCHANGED <<first, limit, stopped, spent, unpriced, extensions>>
      /\ pending' = IF h.t = "budget" THEN [pending EXCEPT ![h.scope] = NoQuestion] ELSE pending
      /\ runs' = runs + Cardinality(F) /\ Release(f, H)
  BY DEF BudgetWriteFails
<1>2. writes # <<>> /\ writes' = Tail(writes) /\ crashes' = crashes /\ log' = log
  BY <1>1 DEF WriteFails
<1>3. QuestionInv' /\ AnswersTrue' /\ asked' = asked
  BY <1>1, WriteFailsKeeps DEF IInv
<1>4. writes \in Seq(Record)
  BY DEF IInv, QuestionInv, QuestionTypes
<1>5. h \in Record /\ h = writes[1] /\ 1 \in DOMAIN writes
  BY <1>2, <1>4, FirstAndRest
<1>6. /\ h.t = "budget" => h.scope \in Scopes
      /\ h.t = "usage" => h.task \in Tasks /\ st[h.task] = "settling"
  <2>1. h.t = "usage" => st[h.task] = "settling"
    BY <1>5 DEF IInv, Usages
  <2> QED
    BY <1>5, <2>1 DEF Record, QuestionRecord, OpenRecord, ClosedRecord, DecisionRecord, UsageRecord
<1> HIDE DEF h
<1>7. /\ F \subseteq Tasks
      /\ \A t \in F : st[t] \in {"first", "second", "settling"}
      /\ \A t \in F : st[t] = "settling" => h.t = "usage" /\ h.task = t
  BY <1>6
<1> HIDE DEF F
<1>8. st \in [Tasks -> States] /\ "idle" \in States /\ "idle" \notin InSlot /\ runs \in Nat
  BY DEF IInv, BudgetTypes, States, InSlot
<1>9. f \in [Tasks -> States] /\ H \in SUBSET Holding(Tasks)
  BY <1>7, <1>8 DEF Holding
<1>10. /\ \A t \in Tasks : f[t] \in InSlot => t \in Holding(Tasks) /\ t \notin H
       /\ \A t \in Tasks : st[t] = "queued" => f[t] = "queued"
       /\ \A t \in Tasks : f[t] = st[t] \/ (f[t] = "idle" /\ t \in F)
  BY <1>7, <1>8 DEF Holding
<1> HIDE DEF f, H
<1>11. /\ Slots' /\ st' \in [Tasks -> States] /\ at' \in [Tasks -> Scopes]
       /\ queue' \in Seq(Tasks)
       /\ \A t \in Tasks :
            \/ st'[t] = f[t] /\ at'[t] = at[t]
            \/ st[t] = "queued" /\ st'[t] = "second" /\ at'[t] = t
  BY <1>1, <1>9, <1>10, ReleaseSlots DEF IInv
<1>12. /\ pending' \in [Scopes -> Question]
       /\ \A u \in Scopes : pending'[u] = pending[u] \/ pending'[u] = NoQuestion
  <2>1. NoQuestion \in Question /\ pending \in [Scopes -> Question]
    BY DEF NoQuestion, IInv, BudgetTypes
  <2> QED  BY <1>1, <1>6, <2>1
<1>13. BudgetTypes'
  <2>1. IsFiniteSet(F)
    BY <1>7, RunBudgetConstants, FS_Subset
  <2>2. Cardinality(F) \in Nat
    BY <2>1, FS_CardinalityType
  <2>3. runs' \in Nat
    BY <1>1, <1>8, <2>2
  <2> QED  BY <1>1, <1>11, <1>12, <2>3 DEF IInv, BudgetTypes
<1>14. Checked'
  <2>1. \A u \in Tasks : st'[u] \in {"first", "second"} /\ at'[u] = "run" =>
          st[u] \in {"first", "second"} /\ at[u] = "run"
    BY <1>10, <1>11, RunBudgetConstants
  <2>2. \A u \in Tasks : at'[u] \in {u, "run"}
    BY <1>11 DEF IInv, Checked
  <2> QED  BY <1>1, <1>12, <2>1, <2>2 DEF IInv, Checked, Scopes
<1>15. AskedOf'
  BY <1>1, <1>3, <1>12 DEF IInv, AskedOf
<1>16. Usages'
  <2>1. \A t \in Tasks : st[t] = "settling" /\ ~(h.t = "usage" /\ h.task = t) => st'[t] = "settling"
    BY <1>7, <1>10, <1>11
  <2> QED  BY <1>2, <1>4, <2>1, SettlingBehind DEF IInv, h
<1>17. OvershootBounded'
  <2>1. \A t \in Tasks : st'[t] \in {"running", "settling"} => st[t] \in {"running", "settling"}
    BY <1>10, <1>11
  <2> QED  BY <1>1, <1>2, <2>1, NoMoreRunning DEF IInv
<1>18. ExtendedByPerson'
  BY <1>1, <1>2, StillByPerson DEF IInv
<1> QED
  BY <1>3, <1>11, <1>13, <1>14, <1>15, <1>16, <1>17, <1>18 DEF IInv

\* The rest of the run, which asks, answers and ends.
LEMMA ElsewhereKeeps ==
    ASSUME IInv, Elsewhere,
           End \/ \E q \in open : Timeout(q) \/ \E a \in Answers : Answer(q, a)
    PROVE  IInv'
<1>1. UNCHANGED <<first, limit, stopped, pending, spent, unpriced, st, at, queue, runs, extensions>>
  BY DEF Elsewhere, budgetVars
<1>2. /\ QuestionInv' /\ AnswersTrue' /\ asked' \in {asked, asked + 1}
      /\ UNCHANGED <<log, crashes>>
      /\ \E s \in Seq(QuestionRecord) : writes' = writes \o s
  BY Questioned DEF IInv
<1>3. BudgetTypes' /\ Checked'
  BY <1>1 DEF IInv, BudgetTypes, Checked
<1>4. AskedOf'
  <2> DEFINE a == asked
             b == asked'
  <2>0. a \in Nat \ {0} /\ b \in {a, a + 1}
    BY <1>2 DEF IInv, QuestionInv, QuestionTypes
  <2> HIDE DEF a, b
  <2>1. \A m \in 1..(a - 1) : m \in 1..(b - 1)
    BY <2>0
  <2>2. \A m \in 1..(asked - 1) : m \in 1..(asked' - 1)
    BY <2>1 DEF a, b
  <2> QED  BY <1>1, <2>2 DEF IInv, AskedOf
<1>5. Slots'
  BY <1>1, SameSlots DEF IInv
<1>6. Usages'
  <2>1. PICK r \in Seq(QuestionRecord) : writes' = writes \o r
    BY <1>2
  <2>2. r \in Seq(Record) /\ \A k \in DOMAIN r : r[k].t # "usage"
    <3>1. \A x \in QuestionRecord : x \in Record /\ x.t # "usage"
      BY Records
    <3> QED  BY <3>1
  <2>3. writes \in Seq(Record)
    BY DEF IInv, QuestionInv, QuestionTypes
  <2> QED  BY <1>1, <2>1, <2>2, <2>3, StillSettling DEF IInv
<1>7. OvershootBounded'
  BY <1>1, <1>2, NoMoreRunning DEF IInv
<1>8. ExtendedByPerson'
  BY <1>1, <1>2, StillByPerson DEF IInv
<1> QED  BY <1>2, <1>3, <1>4, <1>5, <1>6, <1>7, <1>8 DEF IInv

\* A resumed run starts over with its first budgets, and no start under way.
LEMMA ResumeKeeps ==
    ASSUME IInv, Resume
    PROVE  IInv'
<1>1. /\ Crash /\ limit' = first /\ stopped' = [s \in Scopes |-> FALSE]
      /\ pending' = [s \in Scopes |-> NoQuestion]
      /\ st' = [t \in Tasks |-> "idle"] /\ at' = [t \in Tasks |-> t] /\ queue' = <<>>
      /\ extensions' = [s \in Scopes |-> {}]
      /\ UNCHANGED <<first, spent, unpriced, runs>>
  BY DEF Resume
<1>2. writes' = <<>> /\ crashes' = crashes + 1 /\ crashes \in Nat
  BY <1>1 DEF Crash, IInv, QuestionInv, QuestionTypes
<1>3. QuestionInv' /\ AnswersTrue'
  BY <1>1, CrashKeeps DEF IInv
<1>4. BudgetTypes'
  <2>1. NoQuestion \in [q : Nat, unpriced : BOOLEAN, said : BOOLEAN]
    BY DEF NoQuestion
  <2>2. pending' \in [Scopes -> [q : Nat, unpriced : BOOLEAN, said : BOOLEAN]]
    BY <1>1, <2>1
  <2>3. "idle" \in States /\ \A t \in Tasks : t \in Scopes
    BY DEF States, Scopes
  <2>4. st' \in [Tasks -> States] /\ at' \in [Tasks -> Scopes] /\ queue' \in Seq(Tasks)
    BY <1>1, <2>3
  <2> QED  BY <1>1, <2>2, <2>4 DEF IInv, BudgetTypes
<1>5. Checked' /\ AskedOf'
  BY <1>1 DEF Checked, AskedOf
<1>6. Slots'
  <2>1. Holding(Tasks)' = {}
    BY <1>1 DEF Holding, InSlot
  <2> QED  BY <1>1, <2>1, FS_EmptySet, RunBudgetConstants DEF Slots
<1>7. Usages' /\ OvershootBounded' /\ ExtendedByPerson'
  BY <1>1, <1>2 DEF Usages, OvershootBounded, ExtendedByPerson
<1> QED  BY <1>3, <1>4, <1>5, <1>6, <1>7 DEF IInv

\* A run begins so.
LEMMA InitInv == Init => IInv
<1> SUFFICES ASSUME Init PROVE IInv
  OBVIOUS
<1>1. /\ open = {} /\ asked = 1 /\ ended = FALSE /\ reply = <<>>
      /\ writes = <<>> /\ log = <<>> /\ troubles = 0 /\ crashes = 0
  BY DEF Init, QueueInit
<1>2. /\ first \in [Scopes -> Nat] /\ limit = first
      /\ stopped = [s \in Scopes |-> FALSE] /\ pending = [s \in Scopes |-> NoQuestion]
      /\ spent = [s \in Scopes |-> 0] /\ unpriced = [s \in Scopes |-> 0]
      /\ st = [t \in Tasks |-> "idle"] /\ at = [t \in Tasks |-> t] /\ queue = <<>>
      /\ runs = 0 /\ extensions = [s \in Scopes |-> {}]
  BY RunBudgetConstants DEF Init
<1>3. QuestionInv
  <2>1. QuestionTypes
    <3>1. asked \in Nat \ {0} /\ asked - 1 = 0 /\ Len(<<>>) = 0
      BY <1>1
    <3>2. /\ <<>> \in Seq({"none", "error"} \cup Answers) /\ <<>> \in Seq(Record)
          /\ <<>> \in Seq(QuestionRecord)
      OBVIOUS
    <3>3. open \subseteq 1..(asked - 1)
      BY <1>1
    <3> QED  BY <1>1, <3>1, <3>2, <3>3 DEF QuestionTypes
  <2>2. QueueBounded
    BY <1>1, FS_EmptySet, QuestionsConstants DEF QueueBounded
  <2>3. Waiting = {} /\ DOMAIN log = {} /\ 1..(asked - 1) = {}
    BY <1>1 DEF Waiting
  <2>4. ClosedOnce /\ NoIdMissing
    BY <2>3 DEF ClosedOnce, NoIdMissing
  <2> QED  BY <2>1, <2>2, <2>3, <2>4 DEF QuestionInv
<1>4. AnswersTrue
  BY <1>1 DEF AnswersTrue, Waiting
<1>5. BudgetTypes
  <2>1. NoQuestion \in [q : Nat, unpriced : BOOLEAN, said : BOOLEAN]
    BY DEF NoQuestion
  <2>2. pending \in [Scopes -> [q : Nat, unpriced : BOOLEAN, said : BOOLEAN]]
    BY <1>2, <2>1
  <2>3. "idle" \in States /\ \A t \in Tasks : t \in Scopes
    BY DEF States, Scopes
  <2>4. st \in [Tasks -> States] /\ at \in [Tasks -> Scopes] /\ queue \in Seq(Tasks)
    BY <1>2, <2>3
  <2> QED  BY <1>2, <2>2, <2>4 DEF BudgetTypes
<1>6. Checked /\ AskedOf
  BY <1>2 DEF Checked, AskedOf
<1>7. Holding(Tasks) = {} /\ Running = {}
  BY <1>2 DEF Holding, InSlot, Running
<1>8. Slots
  BY <1>2, <1>7, FS_EmptySet, RunBudgetConstants DEF Slots
<1>9. Usages /\ ExtendedByPerson
  BY <1>1, <1>2 DEF Usages, ExtendedByPerson
<1>10. OvershootBounded
  <2> DEFINE z == MaxCost * SlotCount
  <2>1. z \in Nat /\ MaxCost * 0 = 0
    BY Dollars, RunBudgetConstants
  <2> HIDE DEF z
  <2>2. spent["run"] = 0 /\ limit["run"] \in Nat
    BY <1>2 DEF Scopes
  <2>3. Cardinality(Running) = 0
    BY <1>7, FS_EmptySet
  <2>4. limit["run"] # 0 => spent["run"] + MaxCost * Cardinality(Running) < limit["run"] + z
    BY <2>1, <2>2, <2>3
  <2> QED  BY <2>4 DEF OvershootBounded, Running, z
<1> QED  BY <1>3, <1>4, <1>5, <1>6, <1>8, <1>9, <1>10 DEF IInv

\* Every step keeps it.
LEMMA NextInv == IInv /\ [Next]_vars => IInv'
<1> SUFFICES ASSUME IInv, [Next]_vars PROVE IInv'
  OBVIOUS
<1>1. ASSUME NEW t \in Tasks, Begin(t) \/ Progress(t) PROVE IInv'
  BY <1>1, BeginKeeps, RefuseKeeps, AskKeeps, AdmitKeeps, SettleKeeps DEF Progress
<1>2. ASSUME NEW s \in Scopes, Decide(s) PROVE IInv'
  BY <1>2, DecideKeeps
<1>3. CASE BudgetWrite
  BY <1>3, BudgetWriteKeeps
<1>4. CASE BudgetWriteFails
  BY <1>4, BudgetWriteFailsKeeps
<1>5. CASE TimeOut \/ (End /\ Elsewhere) \/ \E q \in open, a \in Answers : Answer(q, a) /\ Elsewhere
  BY <1>5, ElsewhereKeeps DEF TimeOut
<1>6. CASE Resume
  BY <1>6, ResumeKeeps
<1>7. CASE UNCHANGED vars
  <2>1. UNCHANGED queueVars /\ UNCHANGED budgetVars
    BY <1>7 DEF vars
  <2>2. /\ QuestionInv' /\ AnswersTrue' /\ asked' = asked /\ crashes' = crashes
        /\ writes' = writes /\ log' = log
    BY <2>1, SameQueue DEF IInv
  <2>3. UNCHANGED <<first, limit, stopped, pending, spent, unpriced, st, at, queue, runs, extensions>>
    BY <2>1 DEF budgetVars
  <2>4. BudgetTypes' /\ Checked' /\ AskedOf' /\ Usages'
    BY <2>2, <2>3 DEF IInv, BudgetTypes, Checked, AskedOf, Usages
  <2>5. Slots'
    BY <2>3, SameSlots DEF IInv
  <2>6. OvershootBounded'
    BY <2>2, <2>3, NoMoreRunning DEF IInv
  <2>7. ExtendedByPerson'
    BY <2>2, <2>3, StillByPerson DEF IInv
  <2> QED  BY <2>2, <2>4, <2>5, <2>6, <2>7 DEF IInv
<1> QED  BY <1>1, <1>2, <1>3, <1>4, <1>5, <1>6, <1>7 DEF Next

\* The invariant of every run.
THEOREM Inductive == Spec => []IInv
BY InitInv, NextInv, PTL DEF Spec

(***************************************************************************)
(* What it says                                                            *)
(***************************************************************************)
\* Whatever the tasks, budgets and slots, and whatever write fails and whenever the lead
\* dies: never more member runs than slots, a run that goes over its budget by no more than
\* a member run to each slot, a budget extended by a person's answer only, and a question
\* closed once (budget.ts, BudgetGuard; worktrees.ts, Slots; index.ts, ask).
THEOREM BudgetIsSafe == Spec => []BudgetSafe
<1>1. IInv => BudgetSafe
  <2> SUFFICES ASSUME IInv PROVE BudgetSafe
    OBVIOUS
  <2>1. TypeOK
    BY DEF IInv, QuestionInv, QuestionTypes, BudgetTypes, Slots, TypeOK, States
  <2>2. QuestionClosedOnce
    <3> SUFFICES ASSUME troubles = 0 \/ crashes = 0,
                        NEW q \in Ids, NEW i \in Closings(q), NEW j \in DOMAIN log, log[j].id = q
                 PROVE  j <= i
      BY DEF QuestionClosedOnce
    <3>1. i \in DOMAIN log /\ log[i].id = q /\ log[i].t = "closed"
      BY DEF Closings
    <3>2. ~(i < j)
      BY <3>1 DEF IInv, QuestionInv, ClosedOnce, OpenThenClosed
    <3>3. i \in Nat /\ j \in Nat
      BY <3>1 DEF IInv, QuestionInv, QuestionTypes
    <3> QED  BY <3>2, <3>3
  <2> QED  BY <2>1, <2>2 DEF IInv, QuestionInv, BudgetSafe
<1> QED  BY <1>1, Inductive, PTL

\* No member run starts for a task that is stopped, or once the run is, however long its
\* start waited for an answer or for a slot (budget.ts, check; worktrees.ts, runMember).
THEOREM StoppedStartsNothing == Spec => NoRunPastStop
<1> DEFINE A == \A t \in Tasks : st'[t] = "running" /\ st[t] # "running" => ~stopped[t] /\ ~stopped["run"]
<1>1. IInv /\ [Next]_vars => A \/ UNCHANGED vars
  <2> SUFFICES ASSUME IInv, Next, NEW t \in Tasks, st'[t] = "running", st[t] # "running"
               PROVE  ~stopped[t] /\ ~stopped["run"]
    OBVIOUS
  <2>1. st \in [Tasks -> States] /\ at \in [Tasks -> Scopes]
    BY DEF IInv, BudgetTypes
  <2>2. ASSUME NEW f \in [Tasks -> States], NEW H, Release(f, H) PROVE f[t] = "running"
    BY <2>2 DEF Release, Released
  <2>3. ASSUME NEW u \in Tasks, Admit(u) PROVE u = t /\ Free(t) /\ at[t] = "run"
    BY <2>1, <2>3 DEF Admit
  <2>4. CASE \E u \in Tasks : Admit(u)
    BY <2>3, <2>4 DEF Free, IInv, Checked
  <2>5. ASSUME NEW u \in Tasks, Refuse(u) PROVE FALSE
    <3> DEFINE f == [v \in Tasks |->
                       IF v = u \/ (at[u] = "run" /\ st[v] = "idle") THEN "abandoned" ELSE st[v]]
    <3>1. f \in [Tasks -> States]
      BY <2>1 DEF States
    <3>2. f[t] = "running"
      BY <2>2, <2>5, <3>1 DEF Refuse
    <3> QED  BY <3>2
  <2>6. ASSUME NEW u \in Tasks, Begin(u) \/ AskBudget(u) \/ Settle(u) PROVE FALSE
    BY <2>1, <2>6 DEF Begin, AskBudget, Settle
  <2>7. CASE BudgetWrite
    <3>1. CASE UNCHANGED st
      BY <3>1
    <3>2. CASE Release([st EXCEPT ![Head(writes).task] = "idle"], {Head(writes).task})
      <4> DEFINE f == [st EXCEPT ![Head(writes).task] = "idle"]
      <4>1. f \in [Tasks -> States]
        BY <2>1 DEF States
      <4>2. f[t] = "running"
        BY <2>2, <3>2, <4>1
      <4> QED  BY <2>1, <4>2
    <3> QED  BY <2>7, <3>1, <3>2 DEF BudgetWrite
  <2>8. CASE BudgetWriteFails
    <3>1. PICK F, H : Release([u \in Tasks |-> IF u \in F THEN "idle" ELSE st[u]], H)
      BY <2>8 DEF BudgetWriteFails
    <3> DEFINE f == [u \in Tasks |-> IF u \in F THEN "idle" ELSE st[u]]
    <3>2. f \in [Tasks -> States]
      BY <2>1 DEF States
    <3>3. f[t] = "running"
      BY <2>2, <3>1, <3>2
    <3> QED  BY <3>3
  <2>9. CASE Resume \/ Elsewhere \/ \E s \in Scopes : Decide(s)
    BY <2>9 DEF Resume, Elsewhere, budgetVars, Decide
  <2> QED
    BY <2>4, <2>5, <2>6, <2>7, <2>8, <2>9 DEF Next, Progress, TimeOut
<1>2. Spec => [][A]_vars
  <2>1. IInv /\ [Next]_vars => [A]_vars
    BY <1>1
  <2> QED  BY <2>1, Inductive, PTL DEF Spec
<1> QED  BY <1>2 DEF NoRunPastStop
=============================================================================
