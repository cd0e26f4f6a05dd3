------------------------- MODULE TrainClientsProofs -------------------------
(***************************************************************************)
(* Theorems about TrainClients, for any clients, branches, blockers,       *)
(* breakages and failures: what a train calls landed is in its target, in  *)
(* the order of the blockers; only other people's pushes break the target; *)
(* and an entry ejected over a check is to blame for it.                   *)
(***************************************************************************)
EXTENDS TrainClients, FiniteSetTheorems, SequenceTheorems, WellFoundedInduction, TLAPS

(***************************************************************************)
(* The inductive invariant                                                 *)
(***************************************************************************)
Tips == (SUBSET Pieces) \cup {NoTip}
Types == Told \cup {"superseded", "enqueued"}
Record == [by : Handlers, type : Types, id : Ids, tip : Tips]
Places == {"idle", "return", "sync", "contained", "baseline", "fetch", "land", "verify", "push",
           "landed"}
Loop == [pc : Places, tip : Tips, todo : Seq(Ids), batch : Seq(Ids), halves : Seq(Seq(Ids))]
Entry == [v : 0..MaxVersion, repairs : Nat, out : Outcomes]
Stages == {"enqueue", "enqueuing", "follow", "repair", "repairing", "withdraw", "done", "stopped",
           "dead"}
Landing == [pc : Stages, i : Nat, at : Nat, upto : Nat, cut : BOOLEAN]

TrainTypes ==
    /\ target \subseteq Pieces /\ ref \in [Branches -> 0..MaxVersion]
    /\ hist \in [Ids -> SUBSET Pieces] /\ state \in [Ids -> States]
    /\ queue \in Seq(Ids) /\ pushed \in Tips
    /\ log \in [Clients -> Seq(Ids \X Told)] /\ calls \in [Clients -> Ids \cup {NoCall}]
    /\ svc \in Loop /\ writes \in Seq(Record) /\ casc \in [Handlers -> Seq(Ids)]

LandingOk(c) ==
    /\ cl[c].pc \in {"enqueuing", "repair", "repairing"} => cl[c].i \in DOMAIN Worktrees[c]
    /\ cl[c].pc = "enqueue" => cl[c].i # 0
    /\ cl[c].upto <= Len(log[c])

ClientTypes ==
    /\ ver \in [Branches -> 1..MaxVersion] /\ ent \in [Branches -> Entry]
    /\ cl \in [Clients -> Landing]
    /\ \A b \in Branches : ent[b].out = "open" => ent[b].v # 0
    /\ \A c \in Clients : LandingOk(c)
    /\ \A c \in Clients : \A k \in DOMAIN log[c] : Owner[log[c][k][1][1]] = c

\* The train knows an entry, a branch.
Known(i) == state[i] # "none"
KnownBranch(b) == \E v \in 1..MaxVersion : Known(<<b, v>>)

Asks(w) == w.type \in {"enqueued", "superseded"}

QueueIs == Elems(queue) = {i \in Ids : state[i] = "queued"}

\* A record being written says what is so; its client waits for what it answers.
RecordOk(w) ==
    /\ w.type = "superseded" => calls[Owner[w.id[1]]] # NoCall
    /\ w.type = "enqueued" => calls[Owner[w.id[1]]] = w.id
    /\ w.type # "enqueued" => Known(w.id)
    /\ w.type \in {"landed", "found"} => w.id \in target
    /\ w.type = "landed" => ~Fails(w.tip)
    /\ w.type = "check" => ~Fails(w.tip) /\ Fails(Merged(w.tip, {w.id}))

\* A client's call has one record of its own in the queue.
SameAsker(w, x) == Asks(w) /\ Asks(x) /\ Owner[w.id[1]] = Owner[x.id[1]]

Written ==
    /\ \A w \in Elems(writes) : RecordOk(w)
    /\ \A j, k \in DOMAIN writes : SameAsker(writes[j], writes[k]) => j = k

\* A commit the train knows is one its run has made, whose history is its own branch's and
\* what was in the target.
Own(b) == {<<b, v>> : v \in 1..MaxVersion}

Made(i) == i[2] <= ver[i[1]]

Histories ==
    /\ \A i \in Ids : /\ Known(i) => Made(i)
                      /\ Made(i) => i \in hist[i]
                      /\ hist[i] \subseteq Own(i[1]) \cup target
    /\ \A c \in Clients : calls[c] # NoCall => Made(calls[c]) /\ Owner[calls[c][1]] = c

\* The blockers of what the train knows it knows as well: a client enqueues them first.
Enqueuing(c, j) ==
    \/ cl[c].pc \in {"enqueue", "enqueuing"} /\ j < cl[c].i
    \/ cl[c].pc \in {"follow", "repair", "repairing"}

\* The commit a client enqueues.
Wanted(c) == <<Current(c), ver[Current(c)]>>

BlockersOf(c) ==
    /\ calls[c] # NoCall => \A b \in BlockedBy[calls[c][1]] : KnownBranch(b)
    /\ \A j \in DOMAIN Worktrees[c] : Enqueuing(c, j) => KnownBranch(Worktrees[c][j])
    /\ cl[c].pc = "enqueuing" =>
         calls[c] = Wanted(c) \/ Known(Wanted(c))

BlockersKnown ==
    /\ \A i \in Ids : Known(i) => \A b \in BlockedBy[i[1]] : KnownBranch(b)
    /\ \A c \in Clients : BlockersOf(c)

\* What is merged is known, and waits on nothing that is not in the target.
HasLanded(b) == \E v \in 1..MaxVersion : <<b, v>> \in target
Free(i) == Known(i) /\ \A b \in BlockedBy[i[1]] : HasLanded(b)

InPass == {"contained", "baseline", "fetch", "land", "verify", "push", "landed"}
Merging == {"fetch", "land", "verify", "push", "landed"}

\* Where the loop may be: what it merges onto is the target's and passes the checks, and so
\* does what it pushes.
Sound(s) ==
    /\ s \in Loop
    /\ \A i \in Elems(s.batch) \cup Elems(s.todo) : Free(i)
    /\ \A h \in Elems(s.halves) : \A i \in Elems(h) : Free(i)
    /\ s.pc \in InPass => s.tip \subseteq target
    /\ s.pc = "landed" => Elems(s.batch) \subseteq target
    /\ s.pc \in Merging => ~Fails(s.tip)
    /\ s.pc = "push" => ~Fails(Merged(s.tip, Elems(s.batch)))

PushedPasses == pushed # NoTip => ~Fails(pushed)

IInv ==
    /\ TrainTypes /\ ClientTypes /\ QueueIs /\ Written /\ Histories /\ BlockersKnown
    /\ Sound(svc) /\ PushedPasses /\ LandedIsInTarget /\ BlockersLandFirst

(***************************************************************************)
(* Sequences                                                               *)
(***************************************************************************)
\* Nothing is in the empty sequence.
LEMMA Empty ==
    /\ Elems(<<>>) = {}
    /\ \A S : <<>> \in Seq(S)
<1>1. Elems(<<>>) = {}
  BY EmptySeq DEF Elems
<1>2. \A S : <<>> \in Seq(S)
  BY EmptySeq
<1> QED  BY <1>1, <1>2

\* The elements of a sequence that is longer, or shorter.
LEMMA ElemsOf ==
    ASSUME NEW S, NEW s \in Seq(S)
    PROVE  /\ Elems(s) \subseteq S /\ Len(s) \in Nat /\ DOMAIN s = 1..Len(s)
           /\ Elems(<<>>) = {}
           /\ \A x \in S : /\ Append(s, x) \in Seq(S) /\ Elems(Append(s, x)) = Elems(s) \cup {x}
                           /\ DOMAIN Append(s, x) = DOMAIN s \cup {Len(s) + 1}
                           /\ Append(s, x)[Len(s) + 1] = x
                           /\ \A i \in DOMAIN s : Append(s, x)[i] = s[i]
           /\ s # <<>> => Head(s) \in Elems(s) /\ Tail(s) \in Seq(S) /\ Elems(Tail(s)) \subseteq Elems(s)
<1>1. PICK n \in Nat : n = Len(s) /\ DOMAIN s = 1..n
  OBVIOUS
<1>2. Elems(s) \subseteq S
  BY DEF Elems
<1>3. ASSUME NEW x \in S
      PROVE  /\ Append(s, x) \in Seq(S) /\ Elems(Append(s, x)) = Elems(s) \cup {x}
             /\ DOMAIN Append(s, x) = DOMAIN s \cup {Len(s) + 1}
             /\ Append(s, x)[Len(s) + 1] = x
             /\ \A i \in DOMAIN s : Append(s, x)[i] = s[i]
  <2>1. DOMAIN Append(s, x) = 1..(n + 1) /\ Append(s, x) \in Seq(S)
    BY <1>1
  <2>2. 1..(n + 1) = 1..n \cup {n + 1}
    OBVIOUS
  <2>3. Append(s, x)[n + 1] = x /\ \A i \in 1..n : Append(s, x)[i] = s[i]
    BY <1>1
  <2> QED  BY <1>1, <2>1, <2>2, <2>3 DEF Elems
<1>4. ASSUME s # <<>>
      PROVE  Head(s) \in Elems(s) /\ Tail(s) \in Seq(S) /\ Elems(Tail(s)) \subseteq Elems(s)
  <2>1. n # 0
    BY <1>1, <1>4, EmptySeq
  <2>2. 1 \in 1..n /\ Head(s) = s[1]
    BY <1>1, <1>4, <2>1
  <2>3. Tail(s) \in Seq(S) /\ DOMAIN Tail(s) = 1..(n - 1)
    BY <1>1, <1>4
  <2>4. \A i \in 1..(n - 1) : i + 1 \in 1..n /\ Tail(s)[i] = s[i + 1]
    BY <1>1, <1>4
  <2> QED  BY <1>1, <2>2, <2>3, <2>4 DEF Elems
<1>5. Elems(<<>>) = {}
  BY EmptySeq DEF Elems
<1> QED  BY <1>1, <1>2, <1>3, <1>4, <1>5

\* In an order of finitely many, there is one with any number of others before it.
LEMMA RankOnto ==
    ASSUME NEW I, IsFiniteSet(I), NEW R,
           \A i \in I : <<i, i>> \notin R,
           \A i, j, k \in I : <<i, j>> \in R /\ <<j, k>> \in R => <<i, k>> \in R,
           \A i, j \in I : i = j \/ <<i, j>> \in R \/ <<j, i>> \in R
    PROVE  \A k \in 1..Cardinality(I) : \E i \in I : Cardinality({j \in I : <<j, i>> \in R}) = k - 1
<1> DEFINE Below(i) == {j \in I : <<j, i>> \in R}
           n == Cardinality(I)
           f == [i \in I |-> Cardinality(Below(i))]
<1>1. n \in Nat
  BY FS_CardinalityType
<1>2. ASSUME NEW i \in I
      PROVE  /\ IsFiniteSet(Below(i)) /\ Cardinality(Below(i)) \in 0..(n - 1)
             /\ IsFiniteSet(Below(i) \cup {i})
             /\ Cardinality(Below(i) \cup {i}) = Cardinality(Below(i)) + 1
  <2>1. Below(i) \in SUBSET I /\ Below(i) \cup {i} \in SUBSET I /\ i \notin Below(i)
    OBVIOUS
  <2> HIDE DEF Below, n
  <2>2. IsFiniteSet(Below(i)) /\ IsFiniteSet(Below(i) \cup {i})
    BY <2>1, FS_Subset
  <2>3. Cardinality(Below(i) \cup {i}) = Cardinality(Below(i)) + 1
    BY <2>1, <2>2, FS_AddElement
  <2>4. Cardinality(Below(i) \cup {i}) <= n
    BY <2>1, FS_Subset DEF n
  <2>5. Cardinality(Below(i)) \in Nat
    BY <2>2, FS_CardinalityType
  <2> QED  BY <1>1, <2>2, <2>3, <2>4, <2>5
<1>3. ASSUME NEW i \in I, NEW k \in I, <<i, k>> \in R
      PROVE  Cardinality(Below(i)) < Cardinality(Below(k))
  <2>1. Below(i) \cup {i} \in SUBSET Below(k)
    BY <1>3
  <2> HIDE DEF Below
  <2>2. Cardinality(Below(i) \cup {i}) <= Cardinality(Below(k))
    BY <1>2, <2>1, FS_Subset
  <2>3. /\ Cardinality(Below(i)) \in 0..(n - 1) /\ Cardinality(Below(k)) \in 0..(n - 1)
        /\ Cardinality(Below(i) \cup {i}) = Cardinality(Below(i)) + 1
    BY <1>2
  <2> HIDE DEF n
  <2> QED  BY <1>1, <2>2, <2>3
<1>4. f \in Injection(I, 0..(n - 1))
  <2>1. f \in [I -> 0..(n - 1)]
    BY <1>2
  <2>2. ASSUME NEW i \in I, NEW k \in I, f[i] = f[k] PROVE i = k
    <3>1. /\ Cardinality(Below(i)) \in 0..(n - 1) /\ Cardinality(Below(k)) \in 0..(n - 1)
          /\ Cardinality(Below(i)) = Cardinality(Below(k))
      BY <1>2, <2>2
    <3>2. <<i, k>> \notin R /\ <<k, i>> \notin R
      <4> HIDE DEF Below, n
      <4> QED  BY <1>1, <1>3, <3>1
    <3> QED  BY <3>2
  <2> HIDE DEF f
  <2> QED  BY <2>1, <2>2 DEF Injection, IsInjective
<1>5. IsFiniteSet(0..(n - 1)) /\ Cardinality(0..(n - 1)) = n
  <2> HIDE DEF n
  <2>1. 0 \in Int /\ n - 1 \in Int /\ (0 > n - 1 => n = 0) /\ (n - 1) - 0 + 1 = n
    BY <1>1
  <2> QED  BY <2>1, FS_Interval
<1>6. f \in Surjection(I, 0..(n - 1))
  <2> HIDE DEF f
  <2> QED  BY <1>4, <1>5, FS_Injection DEF n
<1>7. ASSUME NEW k \in 1..n PROVE \E i \in I : Cardinality(Below(i)) = k - 1
  <2>1. k - 1 \in 0..(n - 1)
    BY <1>1
  <2>2. PICK i \in I : f[i] = k - 1
    <3> HIDE DEF f, n
    <3> QED  BY <1>6, <2>1 DEF Surjection
  <2> QED  BY <2>2
<1> QED  BY <1>7

\* A filter keeps of a sequence what it is given to keep.
LEMMA OnlyIs ==
    ASSUME NEW T, NEW s \in Seq(T), NEW S
    PROVE  Only(s, S) \in Seq(T) /\ Elems(Only(s, S)) = Elems(s) \cap S
<1> DEFINE I == {i \in DOMAIN s : s[i] \in S}
           n == Cardinality(I)
           R == {p \in I \X I : p[1] < p[2]}
           Place(k) == CHOOSE i \in I : Cardinality({j \in I : j < i}) = k - 1
<1>1. I \in SUBSET (1..Len(s)) /\ Len(s) \in Nat
  OBVIOUS
<1>2. IsFiniteSet(I) /\ n \in Nat
  <2>1. IsFiniteSet(1..Len(s))
    BY <1>1, FS_Interval
  <2>2. IsFiniteSet(I)
    BY <1>1, <2>1, FS_Subset
  <2> QED  BY <2>2, FS_CardinalityType
<1>3. \A i \in I : {j \in I : <<j, i>> \in R} = {j \in I : j < i}
  OBVIOUS
<1>4. \A i \in I : i \in Nat /\ i \in DOMAIN s /\ s[i] \in S /\ s[i] \in T
  OBVIOUS
<1>5. \A k \in 1..n : \E i \in I : Cardinality({j \in I : j < i}) = k - 1
  <2>1. \A i, j \in I : <<i, j>> \in R <=> i < j
    OBVIOUS
  <2> HIDE DEF I, R
  <2>2. \A i \in I : <<i, i>> \notin R
    BY <1>4, <2>1
  <2>3. \A i, j, k \in I : <<i, j>> \in R /\ <<j, k>> \in R => <<i, k>> \in R
    BY <1>4, <2>1
  <2>4. \A i, j \in I : i = j \/ <<i, j>> \in R \/ <<j, i>> \in R
    <3> SUFFICES ASSUME NEW i \in I, NEW j \in I PROVE i = j \/ i < j \/ j < i
      BY <2>1
    <3>1. i \in Nat /\ j \in Nat
      BY <1>4
    <3> QED  BY <3>1
  <2>5. \A k \in 1..Cardinality(I) : \E i \in I : Cardinality({j \in I : <<j, i>> \in R}) = k - 1
    BY <1>2, <2>2, <2>3, <2>4, RankOnto
  <2> QED  BY <1>3, <2>5
<1>6. \A k \in 1..n : Place(k) \in I /\ Cardinality({j \in I : j < Place(k)}) = k - 1
  BY <1>5
<1>7. Only(s, S) = [k \in 1..n |-> s[Place(k)]]
  BY DEF Only
<1>8. \A i \in I : \E k \in 1..n : Place(k) = i
  <2> SUFFICES ASSUME NEW i \in I PROVE \E k \in 1..n : Place(k) = i
    OBVIOUS
  <2> DEFINE B(x) == {j \in I : j < x}
  <2>1. \A x \in I : IsFiniteSet(B(x)) /\ Cardinality(B(x)) \in Nat /\ Cardinality(B(x)) + 1 <= n
    <3> SUFFICES ASSUME NEW x \in I
                 PROVE  IsFiniteSet(B(x)) /\ Cardinality(B(x)) \in Nat /\ Cardinality(B(x)) + 1 <= n
      OBVIOUS
    <3>1. B(x) \in SUBSET I /\ B(x) \cup {x} \in SUBSET I /\ x \notin B(x)
      BY <1>4
    <3> HIDE DEF B, I
    <3>2. IsFiniteSet(B(x)) /\ Cardinality(B(x)) \in Nat
      BY <1>2, <3>1, FS_Subset, FS_CardinalityType
    <3>3. Cardinality(B(x) \cup {x}) = Cardinality(B(x)) + 1 /\ Cardinality(B(x) \cup {x}) <= n
      BY <1>2, <3>1, <3>2, FS_AddElement, FS_Subset
    <3> QED  BY <3>2, <3>3
  <2> DEFINE k == Cardinality(B(i)) + 1
  <2>2. k \in 1..n /\ Cardinality(B(i)) = k - 1
    <3>1. Cardinality(B(i)) \in Nat /\ Cardinality(B(i)) + 1 <= n
      BY <2>1
    <3> HIDE DEF B, n
    <3> QED  BY <1>2, <3>1
  <2>3. Place(k) \in I /\ Cardinality(B(Place(k))) = Cardinality(B(i))
    BY <1>6, <2>2
  <2>4. Place(k) = i
    <3> DEFINE a == Place(k)
    <3>1. a \in I /\ Cardinality(B(a)) = Cardinality(B(i)) /\ a \in Nat /\ i \in Nat
      BY <1>4, <2>3
    <3> HIDE DEF a
    <3>2. \A x, y \in I : x < y => Cardinality(B(x)) < Cardinality(B(y))
      <4> SUFFICES ASSUME NEW x \in I, NEW y \in I, x < y
                   PROVE  Cardinality(B(x)) < Cardinality(B(y))
        OBVIOUS
      <4>1. B(x) \cup {x} \in SUBSET B(y) /\ x \notin B(x)
        BY <1>4
      <4>2. IsFiniteSet(B(x)) /\ IsFiniteSet(B(y)) /\ Cardinality(B(x)) \in Nat /\ Cardinality(B(y)) \in Nat
        BY <2>1
      <4> HIDE DEF B
      <4>3. Cardinality(B(x) \cup {x}) = Cardinality(B(x)) + 1
        BY <4>1, <4>2, FS_AddElement
      <4>4. Cardinality(B(x) \cup {x}) <= Cardinality(B(y))
        BY <4>1, <4>2, FS_Subset
      <4> QED  BY <4>2, <4>3, <4>4
    <3>3. Cardinality(B(i)) \in Nat /\ Cardinality(B(a)) \in Nat
      BY <2>1, <3>1
    <3>4. ~(a < i) /\ ~(i < a)
      <4> HIDE DEF B
      <4> QED  BY <3>1, <3>2, <3>3
    <3>5. a = i
      BY <3>1, <3>4
    <3> QED  BY <3>5 DEF a
  <2> QED  BY <2>2, <2>4
<1> HIDE DEF Place, n
<1>9. Only(s, S) \in Seq(T)
  <2>1. \A k \in 1..n : s[Place(k)] \in T
    BY <1>4, <1>6
  <2> QED  BY <1>2, <1>7, <2>1
<1>10. DOMAIN Only(s, S) = 1..n
  BY <1>7
<1>11. Elems(Only(s, S)) = Elems(s) \cap S
  <2>1. Elems(Only(s, S)) = {s[Place(k)] : k \in 1..n}
    BY <1>7, <1>10 DEF Elems
  <2>2. {s[Place(k)] : k \in 1..n} = {s[i] : i \in I}
    <3> HIDE DEF I
    <3> QED  BY <1>6, <1>8
  <2> QED  BY <2>1, <2>2 DEF Elems
<1> QED  BY <1>9, <1>11

\* What is left without some of its elements.
LEMMA WithoutIs ==
    ASSUME NEW T, NEW s \in Seq(T), NEW S
    PROVE  Without(s, S) \in Seq(T) /\ Elems(Without(s, S)) = Elems(s) \ S
BY OnlyIs DEF Without

\* A stretch of a sequence.
LEMMA SubSeqIs ==
    ASSUME NEW S, NEW s \in Seq(S), NEW m \in Nat \ {0}, NEW n \in Nat, n <= Len(s)
    PROVE  SubSeq(s, m, n) \in Seq(S) /\ Elems(SubSeq(s, m, n)) \subseteq Elems(s)
<1> DEFINE t == SubSeq(s, m, n)
<1>1. PICK l \in Nat : l = Len(s) /\ DOMAIN s = 1..l
  OBVIOUS
<1>2. \A i \in m..n : i \in 1..l
  BY <1>1
<1>3. \A i \in m..n : s[i] \in S
  BY <1>1, <1>2
<1>4. /\ t \in Seq(S) /\ Len(t) = IF m <= n THEN n - m + 1 ELSE 0
      /\ \A i \in 1..(n - m + 1) : t[i] = s[m + i - 1]
  BY <1>3, SubSeqProperties
<1> HIDE DEF t
<1>5. PICK k \in Nat : k = Len(t) /\ DOMAIN t = 1..k
  BY <1>4
<1>6. \A i \in 1..k : i \in 1..(n - m + 1) /\ m + i - 1 \in m..n
  BY <1>4, <1>5
<1>7. \A i \in DOMAIN t : \E j \in DOMAIN s : t[i] = s[j]
  BY <1>1, <1>2, <1>4, <1>5, <1>6
<1> QED  BY <1>4, <1>7 DEF Elems, t

\* One sequence after another.
LEMMA ConcatIs ==
    ASSUME NEW S, NEW s \in Seq(S), NEW t \in Seq(S)
    PROVE  s \o t \in Seq(S) /\ Elems(s \o t) \subseteq Elems(s) \cup Elems(t)
<1>1. PICK m \in Nat : m = Len(s) /\ DOMAIN s = 1..m
  OBVIOUS
<1>2. PICK n \in Nat : n = Len(t) /\ DOMAIN t = 1..n
  OBVIOUS
<1>3. s \o t \in Seq(S) /\ Len(s \o t) = m + n
  BY <1>1, <1>2
<1>4. \A i \in 1..(m + n) : (s \o t)[i] = IF i <= m THEN s[i] ELSE t[i - m]
  BY <1>1, <1>2
<1>5. DOMAIN (s \o t) = 1..(m + n)
  BY <1>3
<1>6. \A i \in 1..(m + n) : (i <= m /\ i \in 1..m) \/ (~(i <= m) /\ i - m \in 1..n)
  BY <1>1, <1>2
<1>7. \A i \in 1..(m + n) : (s \o t)[i] \in Elems(s) \cup Elems(t)
  BY <1>1, <1>2, <1>4, <1>6 DEF Elems
<1> QED  BY <1>3, <1>5, <1>7 DEF Elems

\* The rest of a sequence is one shorter, and each of its places was the next one's.
LEMMA TailIs ==
    ASSUME NEW S, NEW s \in Seq(S), s # <<>>
    PROVE  \E n \in Nat : /\ n + 1 = Len(s) /\ DOMAIN s = 1..(n + 1)
                          /\ Len(Tail(s)) = n /\ DOMAIN Tail(s) = 1..n
                          /\ Head(s) = s[1] /\ \A i \in 1..n : Tail(s)[i] = s[i + 1]
<1>1. PICK l \in Nat : l = Len(s) /\ DOMAIN s = 1..l
  OBVIOUS
<1>2. l # 0
  BY <1>1, EmptySeq
<1>3. l - 1 \in Nat /\ (l - 1) + 1 = l
  BY <1>1, <1>2
<1>4. Tail(s) \in Seq(S) /\ Len(Tail(s)) = l - 1 /\ DOMAIN Tail(s) = 1..(l - 1)
  BY <1>1, <1>2
<1>5. Head(s) = s[1]
  OBVIOUS
<1>6. \A i \in 1..(l - 1) : Tail(s)[i] = s[i + 1]
  BY <1>1, <1>2
<1> QED  BY <1>1, <1>3, <1>4, <1>5, <1>6

\* The least number of a kind.
LEMMA Least ==
    ASSUME NEW P, P \subseteq Nat, NEW x \in P
    PROVE  \E m \in P : \A k \in P : m <= k
<1>1. IsWellFoundedOn(OpToRel(<, Nat), Nat)
  BY NatLessThanWellFounded
<1>2. PICK m \in P : \A k \in P : ~(<<k, m>> \in OpToRel(<, Nat))
  BY <1>1, WFMin
<1>3. ASSUME NEW k \in P PROVE m <= k
  <2>1. ~(k < m)
    BY <1>2 DEF OpToRel
  <2> QED  BY <2>1
<1> QED  BY <1>3

\* ready() answers with the queue's entries whose blockers have landed: every turn of the
\* round-robin is somebody's.
LEMMA ReadyIs ==
    ASSUME queue \in Seq(Ids)
    PROVE  Ready \in Seq(Ids) /\ Elems(Ready) \subseteq Elems(ReadyIds)
<1> DEFINE r == ReadyIds
           N == Len(r)
           C(i) == Owner[r[i][1]]
           turn(i) == Cardinality({j \in 1..i : C(j) = C(i)})
           first(i) == CHOOSE j \in 1..N : C(j) = C(i) /\ \A k \in 1..(j - 1) : C(k) # C(i)
           before(i, j) == turn(i) < turn(j) \/ (turn(i) = turn(j) /\ first(i) < first(j))
           place(i) == 1 + Cardinality({j \in 1..N : before(j, i)})
           at(n) == CHOOSE i \in 1..N : place(i) = n
           R == {p \in (1..N) \X (1..N) : before(p[1], p[2])}
<1>1. r \in Seq(Ids)
  BY OnlyIs DEF ReadyIds
<1>2. PICK l \in Nat : l = N /\ DOMAIN r = 1..l
  BY <1>1
<1>3. IsFiniteSet(1..N) /\ Cardinality(1..N) = N
  <2>1. IsFiniteSet(1..l) /\ Cardinality(1..l) = l
    <3>1. 1 \in Int /\ l \in Int /\ (1 > l => l = 0) /\ l - 1 + 1 = l
      OBVIOUS
    <3> QED  BY <3>1, FS_Interval
  <2> QED  BY <1>2, <2>1
<1>4. ASSUME NEW i \in 1..N
      PROVE  /\ first(i) \in 1..N /\ C(first(i)) = C(i)
             /\ \A k \in 1..(first(i) - 1) : C(k) # C(i)
  <2> DEFINE P == {j \in 1..N : C(j) = C(i)}
  <2>1. P \subseteq Nat /\ i \in P
    OBVIOUS
  <2>2. PICK m \in P : \A k \in P : m <= k
    <3> HIDE DEF P
    <3> QED  BY <2>1, Least
  <2>3. m \in 1..N /\ C(m) = C(i)
    OBVIOUS
  <2>4. \A k \in 1..(m - 1) : C(k) # C(i)
    <3> SUFFICES ASSUME NEW k \in 1..(m - 1), C(k) = C(i) PROVE FALSE
      OBVIOUS
    <3>1. k \in 1..N /\ ~(m <= k)
      <4> HIDE DEF C
      <4> QED  BY <1>2, <2>3
    <3> QED  BY <2>2, <3>1
  <2> HIDE DEF C
  <2> QED  BY <2>3, <2>4
<1>5. ASSUME NEW i \in 1..N PROVE turn(i) \in Nat
  <2>1. {j \in 1..i : C(j) = C(i)} \in SUBSET (1..i) /\ IsFiniteSet(1..i)
    BY FS_Interval
  <2>2. IsFiniteSet({j \in 1..i : C(j) = C(i)})
    BY <2>1, FS_Subset
  <2> QED  BY <2>2, FS_CardinalityType
<1>6. ASSUME NEW i \in 1..N, NEW j \in 1..N, C(i) = C(j), i < j PROVE turn(i) < turn(j)
  <2> DEFINE A == {k \in 1..i : C(k) = C(i)}
             B == {k \in 1..j : C(k) = C(j)}
  <2>1. A \cup {j} \in SUBSET B /\ j \notin A /\ A \in SUBSET (1..i) /\ B \in SUBSET (1..j)
    <3> HIDE DEF C
    <3> QED  BY <1>6
  <2>2. IsFiniteSet(1..i) /\ IsFiniteSet(1..j)
    BY FS_Interval
  <2> HIDE DEF A, B
  <2>3. IsFiniteSet(A) /\ IsFiniteSet(B)
    BY <2>1, <2>2, FS_Subset
  <2>4. Cardinality(A \cup {j}) = Cardinality(A) + 1 /\ Cardinality(A \cup {j}) <= Cardinality(B)
    BY <2>1, <2>3, FS_AddElement, FS_Subset
  <2>5. Cardinality(A) \in Nat /\ Cardinality(B) \in Nat
    BY <2>3, FS_CardinalityType
  <2>6. Cardinality(A) < Cardinality(B)
    BY <2>4, <2>5
  <2> QED  BY <2>6 DEF A, B
<1>7. \A i, j \in 1..N : <<i, j>> \in R <=> before(i, j)
  <2> HIDE DEF before, N
  <2> QED  OBVIOUS
<1> HIDE DEF turn, first
<1>14. \A i \in 1..N : turn(i) \in Nat /\ first(i) \in Nat /\ i \in Nat
  <2> HIDE DEF N, C
  <2> QED  BY <1>2, <1>4, <1>5
<1>8. \A i \in 1..N : <<i, i>> \notin R
  BY <1>4, <1>5, <1>7
<1>9. \A i, j, k \in 1..N : <<i, j>> \in R /\ <<j, k>> \in R => <<i, k>> \in R
  <2> SUFFICES ASSUME NEW i \in 1..N, NEW j \in 1..N, NEW k \in 1..N, before(i, j), before(j, k)
               PROVE  before(i, k)
    BY <1>7
  <2>1. /\ turn(i) \in Nat /\ turn(j) \in Nat /\ turn(k) \in Nat
        /\ first(i) \in Nat /\ first(j) \in Nat /\ first(k) \in Nat
    BY <1>14
  <2> QED  BY <2>1
<1>10. \A i, j \in 1..N : i = j \/ <<i, j>> \in R \/ <<j, i>> \in R
  <2> SUFFICES ASSUME NEW i \in 1..N, NEW j \in 1..N, i # j, ~before(i, j), ~before(j, i)
               PROVE  FALSE
    BY <1>7
  <2>1. /\ turn(i) \in Nat /\ turn(j) \in Nat /\ first(i) \in Nat /\ first(j) \in Nat
        /\ i \in Nat /\ j \in Nat
    BY <1>14
  <2>2. turn(i) = turn(j) /\ first(i) = first(j)
    BY <2>1
  <2>3. C(i) = C(j)
    <3> HIDE DEF C
    <3> QED  BY <1>4, <2>2
  <2>4. i < j \/ j < i
    BY <2>1
  <2>5. turn(i) < turn(j) \/ turn(j) < turn(i)
    <3> HIDE DEF C
    <3> QED  BY <1>6, <2>3, <2>4
  <2> QED  BY <2>1, <2>2, <2>5
<1>11. \A n \in 1..N : \E i \in 1..N : Cardinality({j \in 1..N : <<j, i>> \in R}) = n - 1
  <2> DEFINE I == 1..N
  <2>1. IsFiniteSet(I) /\ Cardinality(I) = N
    BY <1>3
  <2>2. /\ \A i \in I : <<i, i>> \notin R
        /\ \A i, j, k \in I : <<i, j>> \in R /\ <<j, k>> \in R => <<i, k>> \in R
        /\ \A i, j \in I : i = j \/ <<i, j>> \in R \/ <<j, i>> \in R
    <3> HIDE DEF R, N
    <3> QED  BY <1>8, <1>9, <1>10
  <2> HIDE DEF R, I
  <2>3. \A n \in 1..Cardinality(I) : \E i \in I : Cardinality({j \in I : <<j, i>> \in R}) = n - 1
    BY <2>1, <2>2, RankOnto
  <2> HIDE DEF N
  <2> QED  BY <2>1, <2>3 DEF I
<1>12. ASSUME NEW n \in 1..N PROVE \E i \in 1..N : place(i) = n
  <2>1. PICK i \in 1..N : Cardinality({j \in 1..N : <<j, i>> \in R}) = n - 1
    BY <1>11
  <2>2. {j \in 1..N : <<j, i>> \in R} = {j \in 1..N : before(j, i)}
    BY <1>7
  <2>3. Cardinality({j \in 1..N : before(j, i)}) = n - 1
    BY <2>1, <2>2
  <2>4. 1 + (n - 1) = n
    BY <1>2
  <2> QED  BY <2>3, <2>4
<1>13. \A n \in 1..N : at(n) \in 1..N
  <2> HIDE DEF place
  <2> QED  BY <1>12
<1>15. Ready = [n \in 1..N |-> r[at(n)]]
  BY DEF Ready, turn, first
<1> HIDE DEF at, r, N
<1>16. \A n \in 1..N : r[at(n)] \in Ids /\ r[at(n)] \in Elems(r)
  BY <1>1, <1>2, <1>13 DEF Elems
<1>17. Ready \in Seq(Ids)
  BY <1>2, <1>15, <1>16
<1>18. Elems(Ready) \subseteq Elems(r)
  BY <1>15, <1>16 DEF Elems
<1> QED  BY <1>17, <1>18 DEF r

\* What run() takes is ready.
LEMMA TakeIs ==
    ASSUME queue \in Seq(Ids)
    PROVE  Take \in Seq(Ids) /\ Elems(Take) \subseteq Elems(ReadyIds)
<1>1. Ready \in Seq(Ids) /\ Elems(Ready) \subseteq Elems(ReadyIds)
  BY ReadyIs
<1>2. PICK l \in Nat : l = Len(Ready)
  BY <1>1
<1>3. PICK n \in Nat : n = (IF Len(Ready) < BatchSize THEN Len(Ready) ELSE BatchSize)
  BY <1>2, TrainConstants
<1>4. n <= Len(Ready)
  BY <1>2, <1>3, TrainConstants
<1>5. SubSeq(Ready, 1, n) \in Seq(Ids) /\ Elems(SubSeq(Ready, 1, n)) \subseteq Elems(Ready)
  BY <1>1, <1>4, SubSeqIs
<1> QED  BY <1>1, <1>3, <1>5 DEF Take

\* speculate() leaves entries out of what it is given and adds none.
LEMMA CleanOfIs ==
    ASSUME NEW tip, NEW ids \in Seq(Ids)
    PROVE  CleanOf(tip, ids) \in Seq(Ids) /\ Elems(CleanOf(tip, ids)) \subseteq Elems(ids)
<1> DEFINE next(prev, n) ==
               IF Conflicts(prev.content, ids[n]) THEN prev
               ELSE [ok |-> Append(prev.ok, ids[n]), content |-> prev.content \cup hist[ids[n]]]
           Follows(f, m) ==
               \A n \in 0..m : f[n] = IF n = 0 THEN [ok |-> <<>>, content |-> tip]
                                      ELSE next(f[n - 1], n)
           Steps(f) == [n \in 0..Len(ids) |-> IF n = 0 THEN [ok |-> <<>>, content |-> tip]
                                              ELSE next(f[n - 1], n)]
           step == CHOOSE f : f = Steps(f)
<1>1. PICK N \in Nat : N = Len(ids) /\ DOMAIN ids = 1..N
  OBVIOUS
<1>2. \A m \in 0..N : \E f : f = [n \in 0..m |-> f[n]] /\ Follows(f, m)
  <2> DEFINE Bad == {m \in 0..N : ~\E f : f = [n \in 0..m |-> f[n]] /\ Follows(f, m)}
  <2> SUFFICES ASSUME Bad # {} PROVE FALSE
    OBVIOUS
  <2>1. Bad \subseteq Nat
    OBVIOUS
  <2>2. PICK m \in Bad : \A k \in Bad : m <= k
    <3>1. PICK x : x \in Bad
      OBVIOUS
    <3> HIDE DEF Bad
    <3> QED  BY <2>1, <3>1, Least
  <2>3. m \in 0..N /\ ~\E f : f = [n \in 0..m |-> f[n]] /\ Follows(f, m)
    OBVIOUS
  <2>4. CASE m = 0
    <3> DEFINE f == [n \in 0..m |-> [ok |-> <<>>, content |-> tip]]
    <3>1. f = [n \in 0..m |-> f[n]] /\ Follows(f, m)
      BY <2>4
    <3> QED  BY <2>3, <3>1
  <2>5. CASE m # 0
    <3>1. m - 1 \in 0..N /\ m \in Nat /\ ~(m <= m - 1)
      BY <2>3, <2>5
    <3>2. m - 1 \notin Bad
      BY <2>2, <3>1
    <3>3. PICK g : g = [n \in 0..(m - 1) |-> g[n]] /\ Follows(g, m - 1)
      BY <3>1, <3>2
    <3> DEFINE f == [n \in 0..m |-> IF n = m THEN next(g[m - 1], m) ELSE g[n]]
    <3> HIDE DEF next
    <3>4. f = [n \in 0..m |-> f[n]]
      OBVIOUS
    <3>5. Follows(f, m)
      <4> SUFFICES ASSUME NEW n \in 0..m
                   PROVE  f[n] = IF n = 0 THEN [ok |-> <<>>, content |-> tip] ELSE next(f[n - 1], n)
        OBVIOUS
      <4>1. CASE n = m
        <5>1. m - 1 \in 0..m /\ m - 1 # m
          BY <3>1
        <5>2. f[n - 1] = g[m - 1] /\ f[n] = next(g[m - 1], m)
          BY <4>1, <5>1
        <5> QED  BY <2>5, <4>1, <5>2
      <4>2. CASE n # m
        <5>1. n \in 0..(m - 1) /\ (n # 0 => n - 1 \in 0..m /\ n - 1 # m)
          BY <3>1, <4>2
        <5>2. f[n] = g[n] /\ (n # 0 => f[n - 1] = g[n - 1])
          BY <4>2, <5>1
        <5> QED  BY <3>3, <5>1, <5>2
      <4> QED  BY <4>1, <4>2
    <3> QED  BY <2>3, <3>4, <3>5
  <2> QED  BY <2>4, <2>5
<1>3. PICK g : g = [n \in 0..N |-> g[n]] /\ Follows(g, N)
  <2>1. N \in 0..N
    OBVIOUS
  <2> QED  BY <1>2, <2>1
<1>4. g = Steps(g)
  <2> HIDE DEF next
  <2> QED  BY <1>1, <1>3
<1>5. step = Steps(step)
  <2> HIDE DEF Steps
  <2> QED  BY <1>4
<1>6. CleanOf(tip, ids) = step[Len(ids)].ok
  BY DEF CleanOf
<1>7. \A n \in 0..N : step[n].ok \in Seq(Ids) /\ Elems(step[n].ok) \subseteq Elems(ids)
  <2> DEFINE Bad == {m \in 0..N : ~(step[m].ok \in Seq(Ids) /\ Elems(step[m].ok) \subseteq Elems(ids))}
  <2> SUFFICES ASSUME Bad # {} PROVE FALSE
    OBVIOUS
  <2> HIDE DEF step
  <2>1. Bad \subseteq Nat
    OBVIOUS
  <2>2. PICK m \in Bad : \A k \in Bad : m <= k
    <3>1. PICK x : x \in Bad
      OBVIOUS
    <3> HIDE DEF Bad
    <3> QED  BY <2>1, <3>1, Least
  <2>3. m \in 0..N /\ ~(step[m].ok \in Seq(Ids) /\ Elems(step[m].ok) \subseteq Elems(ids))
    OBVIOUS
  <2>4. step[m] = IF m = 0 THEN [ok |-> <<>>, content |-> tip] ELSE next(step[m - 1], m)
    <3> HIDE DEF next
    <3> QED  BY <1>1, <1>5, <2>3
  <2>5. m # 0
    <3>1. <<>> \in Seq(Ids) /\ Elems(<<>>) = {}
      BY EmptySeq, ElemsOf
    <3> QED  BY <2>3, <2>4, <3>1
  <2>6. m - 1 \in 0..N /\ m \in 1..N /\ ~(m <= m - 1)
    BY <2>3, <2>5
  <2>7. step[m - 1].ok \in Seq(Ids) /\ Elems(step[m - 1].ok) \subseteq Elems(ids)
    BY <2>2, <2>6
  <2>8. ids[m] \in Ids /\ ids[m] \in Elems(ids)
    BY <1>1, <2>6 DEF Elems
  <2>9. /\ Append(step[m - 1].ok, ids[m]) \in Seq(Ids)
        /\ Elems(Append(step[m - 1].ok, ids[m])) \subseteq Elems(ids)
    BY <2>7, <2>8, ElemsOf
  <2> QED  BY <2>3, <2>4, <2>5, <2>7, <2>9
<1>8. Len(ids) \in 0..N
  BY <1>1
<1> HIDE DEF step
<1> QED  BY <1>6, <1>7, <1>8

(***************************************************************************)
(* What grows                                                              *)
(***************************************************************************)
\* A piece has no empty name, so a call in flight is told from none, and the target from
\* a tip that is none.
LEMMA Names ==
    /\ \A i \in Ids : i # NoCall /\ i \in Pieces /\ i[1] \in Branches /\ i[2] \in 1..MaxVersion
                      /\ i = <<i[1], i[2]>> /\ Owner[i[1]] \in Clients
    /\ \A t \in SUBSET Pieces : t # NoTip
    /\ Train \in Handlers /\ Clients \subseteq Handlers
<1>1. NoCall \notin Pieces
  BY TrainConstants DEF NoCall
<1> QED  BY <1>1, TrainConstants DEF NoCall, NoTip, Pieces, Ids, Handlers

\* A step that takes nothing from the target, the train's knowledge and the histories of
\* what it knows.
Onward ==
    /\ target \subseteq target'
    /\ \A i \in Ids : Known(i) => Known(i)' /\ hist'[i] = hist[i]

\* The contents of merged trees are theirs for good, and pieces.
LEMMA MergedStays ==
    ASSUME IInv, Onward, NEW S, S \subseteq Ids, \A i \in S : Known(i), NEW tip
    PROVE  Merged(tip, S)' = Merged(tip, S)
<1>1. \A i \in S : hist'[i] = hist[i]
  BY DEF Onward
<1>2. {hist'[i] : i \in S} = {hist[i] : i \in S}
  BY <1>1
<1> QED  BY <1>2 DEF Merged

\* What is free to be merged, known or landed stays so.
LEMMA FactsStay ==
    ASSUME Onward
    PROVE  /\ \A b \in Branches : (KnownBranch(b) => KnownBranch(b)') /\ (HasLanded(b) => HasLanded(b)')
           /\ \A i \in Ids : Free(i) => Free(i)'
<1>1. ASSUME NEW b \in Branches
      PROVE  (KnownBranch(b) => KnownBranch(b)') /\ (HasLanded(b) => HasLanded(b)')
  <2>1. \A v \in 1..MaxVersion : <<b, v>> \in Ids
    BY DEF Ids
  <2> QED  BY <2>1 DEF Onward, KnownBranch, HasLanded
<1>2. ASSUME NEW i \in Ids, Free(i) PROVE Free(i)'
  <2>1. BlockedBy[i[1]] \subseteq Branches
    BY Names, TrainConstants
  <2> QED  BY <1>1, <1>2, <2>1 DEF Free, Onward
<1> QED  BY <1>1, <1>2

\* A record that says what is so goes on saying it, while its client's call waits.
LEMMA RecordStays ==
    ASSUME IInv, Onward, NEW w \in Record, RecordOk(w),
           Asks(w) => calls'[Owner[w.id[1]]] = calls[Owner[w.id[1]]]
    PROVE  RecordOk(w)'
<1>1. w.id \in Ids
  BY DEF Record
<1>2. w.type # "enqueued" => Known(w.id) /\ Known(w.id)'
  BY <1>1 DEF RecordOk, Onward
<1>3. w.type = "check" => Merged(w.tip, {w.id})' = Merged(w.tip, {w.id})
  BY <1>1, <1>2, MergedStays
<1>4. w.type = "check" => Fails(Merged(w.tip, {w.id})')
  BY <1>3 DEF RecordOk
<1> QED  BY <1>1, <1>2, <1>4 DEF RecordOk, Asks, Onward

\* A place of the loop that is sound stays so.
LEMMA SoundStays ==
    ASSUME IInv, Onward, NEW s, Sound(s)
    PROVE  Sound(s)'
<1>1. s.batch \in Seq(Ids) /\ s.todo \in Seq(Ids) /\ s.halves \in Seq(Seq(Ids)) /\ s \in Loop
  BY DEF Sound, Loop
<1>2. Elems(s.batch) \subseteq Ids /\ Elems(s.todo) \subseteq Ids /\ Elems(s.halves) \subseteq Seq(Ids)
  BY <1>1, ElemsOf
<1>3. \A h \in Elems(s.halves) : Elems(h) \subseteq Ids
  BY <1>2, ElemsOf
<1>4. \A i \in Elems(s.batch) \cup Elems(s.todo) : Free(i)'
  BY <1>2, FactsStay DEF Sound
<1>5. \A h \in Elems(s.halves) : \A i \in Elems(h) : Free(i)'
  BY <1>3, FactsStay DEF Sound
<1>6. \A i \in Elems(s.batch) : Known(i)
  BY DEF Sound, Free
<1>7. Merged(s.tip, Elems(s.batch))' = Merged(s.tip, Elems(s.batch))
  BY <1>2, <1>6, MergedStays
<1>8. s.pc = "push" => ~Fails(Merged(s.tip, Elems(s.batch))')
  BY <1>7 DEF Sound
<1>9. s.pc \in InPass => s.tip \subseteq target'
  BY DEF Sound, Onward
<1>10. s.pc = "landed" => Elems(s.batch) \subseteq target'
  BY DEF Sound, Onward
<1> QED  BY <1>1, <1>4, <1>5, <1>8, <1>9, <1>10 DEF Sound

\* The records submitted before stay as they are behind a new one that is no client's call.
LEMMA Submitted ==
    ASSUME IInv, Onward, calls' = calls,
           \/ writes' = writes
           \/ \E r \in Record : writes' = Append(writes, r) /\ RecordOk(r) /\ ~Asks(r)
    PROVE  writes' \in Seq(Record) /\ Written'
<1>1. writes \in Seq(Record) /\ Elems(writes) \subseteq Record
  BY ElemsOf DEF IInv, TrainTypes
<1>2. \A w \in Elems(writes) : RecordOk(w)'
  BY <1>1, RecordStays DEF IInv, Written
<1>3. CASE writes' = writes
  <2>1. \A w \in Elems(writes') : RecordOk(w)'
    BY <1>2, <1>3
  <2> QED  BY <1>1, <1>3, <2>1 DEF IInv, Written
<1>4. CASE writes' # writes
  <2>1. PICK r \in Record : writes' = Append(writes, r) /\ RecordOk(r) /\ ~Asks(r)
    BY <1>4
  <2>2. RecordOk(r)'
    BY <2>1, RecordStays
  <2>3. /\ writes' \in Seq(Record) /\ Elems(writes') = Elems(writes) \cup {r}
        /\ DOMAIN writes' = DOMAIN writes \cup {Len(writes) + 1}
        /\ writes'[Len(writes) + 1] = r
        /\ \A i \in DOMAIN writes : writes'[i] = writes[i]
    BY <1>1, <2>1, ElemsOf
  <2>4. \A w \in Elems(writes') : RecordOk(w)'
    BY <1>2, <2>2, <2>3
  <2>5. ASSUME NEW j \in DOMAIN writes', NEW k \in DOMAIN writes', SameAsker(writes'[j], writes'[k])
        PROVE  j = k
    <3>1. Asks(writes'[j]) /\ Asks(writes'[k])
      BY <2>5 DEF SameAsker
    <3>2. j \in DOMAIN writes /\ k \in DOMAIN writes
      BY <2>1, <2>3, <3>1
    <3> QED  BY <2>3, <2>5, <3>2 DEF IInv, Written
  <2> QED  BY <2>3, <2>4, <2>5 DEF Written
<1> QED  BY <1>3, <1>4

\* A step of the loop that leads to a sound place and records what is so keeps everything.
LEMMA LoopKeeps ==
    ASSUME IInv, ServiceOnly \/ LoopOnly, ClientSame, Sound(svc'),
           \/ writes' = writes
           \/ \E r \in Record : writes' = Append(writes, r) /\ RecordOk(r) /\ ~Asks(r)
    PROVE  IInv'
<1>1. /\ UNCHANGED <<target, ref, hist, state, queue, pushed, log, casc, calls>>
      /\ UNCHANGED <<ver, ent, cl>>
  BY DEF ServiceOnly, LoopOnly, ClientSame
<1>2. Onward
  BY <1>1 DEF Onward, Known
<1>3. writes' \in Seq(Record) /\ Written'
  BY <1>1, <1>2, Submitted
<1>4. Sound(svc)'
  <2>1. PICK s : s = svc'
    OBVIOUS
  <2>2. Sound(s)'
    BY <1>2, <2>1, SoundStays
  <2> QED  BY <2>1, <2>2 DEF Sound
<1>5. svc' \in Loop
  BY DEF Sound
<1>6. TrainTypes'
  BY <1>1, <1>3, <1>5 DEF IInv, TrainTypes
<1>7. ClientTypes'
  BY <1>1 DEF IInv, ClientTypes, LandingOk
<1>8. QueueIs' /\ PushedPasses' /\ LandedIsInTarget' /\ BlockersLandFirst'
  BY <1>1 DEF IInv, QueueIs, PushedPasses, LandedIsInTarget, BlockersLandFirst
<1>9. Histories'
  BY <1>1 DEF IInv, Histories, Known, Made
<1>10. BlockersKnown'
  BY <1>1 DEF IInv, BlockersKnown, BlockersOf, Known, KnownBranch, Enqueuing, Wanted, Current
<1> QED  BY <1>3, <1>4, <1>6, <1>7, <1>8, <1>9, <1>10 DEF IInv

(***************************************************************************)
(* The loop                                                                *)
(***************************************************************************)
\* A ready entry's blockers are in the target: the train knows them, and the newest it
\* knows has landed.
LEMMA ReadyAreFree ==
    ASSUME IInv, NEW i \in Elems(ReadyIds)
    PROVE  Free(i)
<1>1. i \in Elems(queue) /\ i \in Ids /\ \A b \in BlockedBy[i[1]] : LatestLanded(b)
  <2>1. Elems(ReadyIds) = Elems(queue) \cap {j \in Ids : \A b \in BlockedBy[j[1]] : LatestLanded(b)}
    BY OnlyIs DEF ReadyIds, IInv, TrainTypes
  <2> QED  BY <2>1
<1>2. Known(i)
  BY <1>1 DEF IInv, QueueIs, Known
<1>3. ASSUME NEW b \in BlockedBy[i[1]] PROVE HasLanded(b)
  <2>1. b \in Branches
    BY <1>1, Names, TrainConstants
  <2> DEFINE known == {v \in 1..MaxVersion : state[<<b, v>>] # "none"}
             left == {MaxVersion - v : v \in known}
  <2>2. PICK u \in known : TRUE
    BY <1>1, <1>2 DEF IInv, BlockersKnown, KnownBranch, Known
  <2>3. MaxVersion \in Nat
    BY TrainConstants
  <2>4. left \subseteq Nat /\ MaxVersion - u \in left
    <3>1. \A v \in known : MaxVersion - v \in Nat
      BY <2>3
    <3> HIDE DEF known
    <3> QED  BY <2>2, <3>1
  <2>5. PICK m \in left : \A k \in left : m <= k
    <3> HIDE DEF left
    <3> QED  BY <2>4, Least
  <2>6. PICK v \in known : m = MaxVersion - v
    OBVIOUS
  <2>7. \A w \in known : w <= v
    <3> SUFFICES ASSUME NEW w \in known PROVE w <= v
      OBVIOUS
    <3>1. MaxVersion - v <= MaxVersion - w /\ v \in Nat /\ w \in Nat
      BY <2>5, <2>6
    <3> QED  BY <2>3, <3>1
  <2>8. state[<<b, v>>] = "landed"
    BY <1>1, <2>6, <2>7 DEF LatestLanded
  <2>9. <<b, v>> \in Ids
    BY <2>1 DEF Ids
  <2> QED  BY <2>8, <2>9 DEF HasLanded, IInv, LandedIsInTarget
<1> QED  BY <1>2, <1>3 DEF Free

\* A pass or landing that is over is a sound place, and so is the idle loop.
LEMMA Over ==
    ASSUME IInv
    PROVE  Sound(Done) /\ Sound(Idle)
<1>1. svc \in Loop /\ \A h \in Elems(svc.halves) : \A i \in Elems(h) : Free(i)
  BY DEF IInv, Sound
<1>2. <<>> \in Seq(Ids) /\ <<>> \in Seq(Seq(Ids)) /\ Elems(<<>>) = {} /\ NoTip \in Tips
  BY Empty DEF Tips
<1>3. Sound(Done)
  BY <1>1, <1>2 DEF Sound, Loop, Done, Places, InPass, Merging
<1>4. Sound(Idle)
  BY <1>2 DEF Sound, Loop, Idle, Places, InPass, Merging
<1> QED  BY <1>3, <1>4

\* What the loop has in hand.
LEMMA InHand ==
    ASSUME IInv
    PROVE  /\ svc \in Loop /\ Sound(svc)
           /\ svc.batch \in Seq(Ids) /\ svc.todo \in Seq(Ids) /\ svc.halves \in Seq(Seq(Ids))
           /\ svc.tip \in Tips /\ svc.halves \in Seq(Seq(Ids))
           /\ Elems(svc.batch) \subseteq Ids /\ Elems(svc.todo) \subseteq Ids
           /\ \A i \in Elems(svc.batch) \cup Elems(svc.todo) : Free(i) /\ Known(i)
<1>1. svc \in Loop /\ Sound(svc)
  BY DEF IInv, Sound
<1>2. svc.batch \in Seq(Ids) /\ svc.todo \in Seq(Ids) /\ svc.halves \in Seq(Seq(Ids)) /\ svc.tip \in Tips
  BY <1>1 DEF Loop
<1>3. Elems(svc.batch) \subseteq Ids /\ Elems(svc.todo) \subseteq Ids
  BY <1>2, ElemsOf
<1>4. \A i \in Elems(svc.batch) \cup Elems(svc.todo) : Free(i) /\ Known(i)
  BY <1>1 DEF Sound, Free
<1> QED  BY <1>1, <1>2, <1>3, <1>4

\* run() takes a batch of the ready entries.
LEMMA TakeBatchKeeps ==
    ASSUME IInv, TakeBatch, ClientSame
    PROVE  IInv'
<1>1. Take \in Seq(Ids) /\ \A i \in Elems(Take) : Free(i)
  BY TakeIs, ReadyAreFree DEF IInv, TrainTypes
<1>2. /\ svc' = [Idle EXCEPT !.pc = "sync", !.batch = Take] /\ writes' = writes /\ ServiceOnly
  BY DEF TakeBatch
<1>3. Sound(Idle) /\ Elems(<<>>) = {}
  BY Over, Empty
<1>4. Sound(svc')
  BY <1>1, <1>2, <1>3 DEF Sound, Loop, Idle, Places, InPass, Merging
<1> QED  BY <1>2, <1>4, LoopKeeps

\* The tip a pass is about is the target as it is fetched.
LEMMA SyncTipKeeps ==
    ASSUME IInv, SyncTip, ClientSame
    PROVE  IInv'
<1>1. /\ svc' = [svc EXCEPT !.pc = "contained", !.tip = target] /\ writes' = writes /\ ServiceOnly
  BY DEF SyncTip
<1>2. target \in Tips
  BY DEF IInv, TrainTypes, Tips
<1>3. Sound(svc')
  BY <1>1, <1>2, InHand DEF Sound, Loop, Places, InPass, Merging
<1> QED  BY <1>1, <1>3, LoopKeeps

\* Entries found in the target already are recorded as landed.
LEMMA ContainedKeeps ==
    ASSUME IInv, Contained, ClientSame
    PROVE  IInv'
<1> DEFINE in == Only(svc.batch, svc.tip)
<1>1. /\ in \in Seq(Ids) /\ Elems(in) = Elems(svc.batch) \cap svc.tip
      /\ svc.pc = "contained" /\ svc.tip \subseteq target /\ ServiceOnly
  BY InHand, OnlyIs DEF Contained, At, Sound, InPass
<1>2. CASE in # <<>>
  <2> DEFINE r == Rec(Train, "found", Head(in), svc.tip)
             left == Without(svc.batch, {Head(in)})
  <2>1. writes' = Append(writes, r) /\ svc' = [svc EXCEPT !.batch = left]
    BY <1>2 DEF Contained, Submit
  <2>2. Head(in) \in Elems(svc.batch) /\ Head(in) \in target /\ Head(in) \in Ids
    BY <1>1, <1>2, ElemsOf, InHand
  <2>3. r \in Record
    BY <2>2, InHand, Names DEF Rec, Record, Types, Told
  <2>4. RecordOk(r) /\ ~Asks(r)
    BY <2>2, InHand DEF Rec, RecordOk, Asks
  <2>5. left \in Seq(Ids) /\ Elems(left) \subseteq Elems(svc.batch)
    BY InHand, WithoutIs
  <2> HIDE DEF r, left
  <2>6. Sound(svc')
    BY <1>1, <2>1, <2>5, InHand DEF Sound, Loop, InPass, Merging
  <2> QED  BY <1>1, <2>1, <2>3, <2>4, <2>6, LoopKeeps
<1>3. CASE in = <<>>
  <2>1. writes' = writes
    BY <1>3 DEF Contained
  <2>2. CASE svc.batch = <<>>
    <3>1. svc' = Done
      BY <1>3, <2>2 DEF Contained
    <3> QED  BY <1>1, <2>1, <3>1, Over, LoopKeeps
  <2>3. CASE svc.batch # <<>>
    <3>1. svc' = [svc EXCEPT !.pc = "baseline"]
      BY <1>3, <2>3 DEF Contained
    <3>2. Sound(svc')
      BY <1>1, <3>1, InHand DEF Sound, Loop, Places, InPass, Merging
    <3> QED  BY <1>1, <2>1, <3>2, LoopKeeps
  <2> QED  BY <2>2, <2>3
<1> QED  BY <1>2, <1>3

\* What the train pushed itself passed; every other tip is verified.
LEMMA BaselineKeeps ==
    ASSUME IInv, Baseline, ClientSame
    PROVE  IInv'
<1>1. svc.pc = "baseline" /\ svc.tip \subseteq target /\ writes' = writes /\ ServiceOnly
  BY InHand DEF Baseline, At, Sound, InPass
<1>2. CASE TipPasses
  <2>1. svc' = [svc EXCEPT !.pc = "fetch", !.todo = svc.batch, !.batch = <<>>]
    BY <1>2 DEF Baseline
  <2>2. svc.tip # NoTip
    BY <1>1, Names DEF IInv, TrainTypes
  <2>3. ~Fails(svc.tip)
    BY <1>2, <2>2 DEF TipPasses, IInv, PushedPasses
  <2>4. <<>> \in Seq(Ids) /\ Elems(<<>>) = {}
    BY Empty
  <2>5. Sound(svc')
    BY <1>1, <2>1, <2>3, <2>4, InHand DEF Sound, Loop, Places, InPass, Merging
  <2> QED  BY <1>1, <2>5, LoopKeeps
<1>3. CASE ~TipPasses
  <2>1. svc' = Done
    BY <1>3 DEF Baseline
  <2> QED  BY <1>1, <2>1, Over, LoopKeeps
<1> QED  BY <1>2, <1>3

\* Each entry is fetched, or ejected as moved.
LEMMA FetchEntryKeeps ==
    ASSUME IInv, FetchEntry, ClientSame
    PROVE  IInv'
<1>1. svc.pc = "fetch" /\ ServiceOnly
  BY DEF FetchEntry, At
<1>2. CASE svc.todo = <<>>
  <2>1. svc' = [svc EXCEPT !.pc = "land"] /\ writes' = writes
    BY <1>2 DEF FetchEntry
  <2>2. Sound(svc')
    BY <1>1, <2>1, InHand DEF Sound, Loop, Places, InPass, Merging
  <2> QED  BY <1>1, <2>1, <2>2, LoopKeeps
<1>3. CASE svc.todo # <<>>
  <2> DEFINE e == Head(svc.todo)
             r == Rec(Train, "moved", e, svc.tip)
  <2>1. /\ e \in Elems(svc.todo) /\ e \in Ids
        /\ Tail(svc.todo) \in Seq(Ids) /\ Elems(Tail(svc.todo)) \subseteq Elems(svc.todo)
    BY <1>3, ElemsOf, InHand
  <2>2. Append(svc.batch, e) \in Seq(Ids) /\ Elems(Append(svc.batch, e)) = Elems(svc.batch) \cup {e}
    BY <2>1, ElemsOf, InHand
  <2>3. CASE ref[e[1]] = e[2]
    <3>1. /\ svc' = [svc EXCEPT !.todo = Tail(svc.todo), !.batch = Append(svc.batch, e)]
          /\ writes' = writes
      BY <1>3, <2>3 DEF FetchEntry
    <3> HIDE DEF e
    <3>2. Sound(svc')
      BY <1>1, <2>1, <2>2, <3>1, InHand DEF Sound, Loop, InPass, Merging
    <3> QED  BY <1>1, <3>1, <3>2, LoopKeeps
  <2>4. CASE ref[e[1]] # e[2]
    <3>1. svc' = [svc EXCEPT !.todo = Tail(svc.todo)] /\ writes' = Append(writes, r)
      BY <1>3, <2>4 DEF FetchEntry, Submit
    <3>2. r \in Record
      BY <2>1, InHand, Names DEF Rec, Record, Types, Told, Ejects
    <3>3. RecordOk(r) /\ ~Asks(r)
      BY <2>1, InHand DEF Rec, RecordOk, Asks
    <3> HIDE DEF r, e
    <3>4. Sound(svc')
      BY <1>1, <2>1, <3>1, InHand DEF Sound, Loop, InPass, Merging
    <3> QED  BY <1>1, <3>1, <3>2, <3>3, <3>4, LoopKeeps
  <2> QED  BY <2>3, <2>4
<1> QED  BY <1>2, <1>3

\* What merges cleanly is verified, the rest is to be ejected.
LEMMA SpeculateKeeps ==
    ASSUME IInv, Speculate, ClientSame
    PROVE  IInv'
<1> DEFINE clean == CleanOf(svc.tip, svc.batch)
           rest == Without(svc.batch, Elems(clean))
<1>1. svc.pc = "land" /\ writes' = writes /\ ServiceOnly
  BY DEF Speculate, At
<1>2. CASE svc.batch = <<>>
  <2>1. svc' = Done
    BY <1>2 DEF Speculate
  <2> QED  BY <1>1, <2>1, Over, LoopKeeps
<1>3. CASE svc.batch # <<>>
  <2>1. svc' = [svc EXCEPT !.pc = "verify", !.batch = clean, !.todo = rest]
    BY <1>3 DEF Speculate
  <2>2. clean \in Seq(Ids) /\ Elems(clean) \subseteq Elems(svc.batch)
    BY CleanOfIs, InHand
  <2>3. rest \in Seq(Ids) /\ Elems(rest) \subseteq Elems(svc.batch)
    BY WithoutIs, InHand
  <2> HIDE DEF clean, rest
  <2>4. Sound(svc')
    BY <1>1, <2>1, <2>2, <2>3, InHand DEF Sound, Loop, Places, InPass, Merging
  <2> QED  BY <1>1, <2>4, LoopKeeps
<1> QED  BY <1>2, <1>3

\* Conflicting entries are ejected, one after the other.
LEMMA EjectConflictedKeeps ==
    ASSUME IInv, EjectConflicted, ClientSame
    PROVE  IInv'
<1> DEFINE e == Head(svc.todo)
           r == Rec(Train, "conflict", e, svc.tip)
<1>1. /\ svc.pc = "verify" /\ svc.todo # <<>> /\ ServiceOnly
      /\ svc' = [svc EXCEPT !.todo = Tail(svc.todo)] /\ writes' = Append(writes, r)
  BY DEF EjectConflicted, At, Submit
<1>2. /\ e \in Elems(svc.todo) /\ e \in Ids
      /\ Tail(svc.todo) \in Seq(Ids) /\ Elems(Tail(svc.todo)) \subseteq Elems(svc.todo)
  BY <1>1, ElemsOf, InHand
<1>3. r \in Record
  BY <1>2, InHand, Names DEF Rec, Record, Types, Told, Ejects
<1>4. RecordOk(r) /\ ~Asks(r)
  BY <1>2, InHand DEF Rec, RecordOk, Asks
<1> HIDE DEF r, e
<1>5. Sound(svc')
  BY <1>1, <1>2, InHand DEF Sound, Loop, InPass, Merging
<1> QED  BY <1>1, <1>3, <1>4, <1>5, LoopKeeps

\* The batch passes, or its only entry is to blame, or its halves are tried.
LEMMA VerifyKeeps ==
    ASSUME IInv, Verify, ClientSame
    PROVE  IInv'
<1>1. svc.pc = "verify" /\ svc.todo = <<>> /\ ServiceOnly
  BY DEF Verify, At
<1>2. PICK n \in Nat : n = Len(svc.batch) /\ DOMAIN svc.batch = 1..n
  BY InHand
<1>3. CASE n = 0
  <2>1. svc' = Done /\ writes' = writes
    BY <1>2, <1>3 DEF Verify
  <2> QED  BY <1>1, <2>1, Over, LoopKeeps
<1>4. CASE n # 0 /\ ~Fails(Commit)
  <2>1. svc' = [svc EXCEPT !.pc = "push"] /\ writes' = writes
    BY <1>2, <1>4 DEF Verify
  <2>2. ~Fails(Merged(svc.tip, Elems(svc.batch)))
    BY <1>4 DEF Commit
  <2>3. Sound(svc')
    BY <1>1, <2>1, <2>2, InHand DEF Sound, Loop, Places, InPass, Merging
  <2> QED  BY <1>1, <2>1, <2>3, LoopKeeps
<1>5. CASE n = 1 /\ Fails(Commit)
  <2> DEFINE r == Rec(Train, "check", svc.batch[1], svc.tip)
  <2>1. writes' = Append(writes, r) /\ svc' = Done
    BY <1>2, <1>5 DEF Verify, Submit
  <2>2. Elems(svc.batch) = {svc.batch[1]}
    <3>1. 1..n = {1}
      BY <1>5
    <3> QED  BY <1>2, <3>1 DEF Elems
  <2>3. Fails(Merged(svc.tip, {svc.batch[1]})) /\ ~Fails(svc.tip)
    BY <1>1, <1>5, <2>2, InHand DEF Commit, Sound, Merging
  <2>4. r \in Record
    BY <2>2, InHand, Names DEF Rec, Record, Types, Told, Ejects
  <2>5. RecordOk(r) /\ ~Asks(r)
    BY <2>2, <2>3, InHand DEF Rec, RecordOk, Asks
  <2> HIDE DEF r
  <2> QED  BY <1>1, <2>1, <2>4, <2>5, Over, LoopKeeps
<1>6. CASE n # 0 /\ n # 1 /\ Fails(Commit)
  <2>1. PICK m \in Nat : m = Half(n) /\ m <= n /\ m + 1 \in Nat \ {0}
    BY <1>6 DEF Half
  <2> DEFINE one == SubSeq(svc.batch, 1, m)
             two == SubSeq(svc.batch, m + 1, n)
             owed == <<two>> \o svc.halves
  <2>2. /\ svc' = [svc EXCEPT !.pc = "land", !.batch = one, !.halves = owed]
        /\ writes' = writes
    BY <1>2, <1>6, <2>1 DEF Verify
  <2>3. /\ one \in Seq(Ids) /\ Elems(one) \subseteq Elems(svc.batch)
        /\ two \in Seq(Ids) /\ Elems(two) \subseteq Elems(svc.batch)
    <3>1. svc.batch \in Seq(Ids)
      BY InHand
    <3>2. m <= Len(svc.batch) /\ n <= Len(svc.batch) /\ 1 \in Nat \ {0}
      BY <1>2, <2>1
    <3>3. one \in Seq(Ids) /\ Elems(one) \subseteq Elems(svc.batch)
      BY <3>1, <3>2, SubSeqIs
    <3>4. two \in Seq(Ids) /\ Elems(two) \subseteq Elems(svc.batch)
      BY <2>1, <3>1, <3>2, SubSeqIs
    <3> QED  BY <3>3, <3>4
  <2> HIDE DEF one, two
  <2>4. <<two>> \in Seq(Seq(Ids)) /\ Elems(<<two>>) = {two}
    <3>1. <<two>> \in Seq(Seq(Ids)) /\ DOMAIN <<two>> = {1} /\ <<two>>[1] = two
      BY <2>3
    <3> QED  BY <3>1 DEF Elems
  <2>5. owed \in Seq(Seq(Ids)) /\ Elems(owed) \subseteq {two} \cup Elems(svc.halves)
    BY <2>4, InHand, ConcatIs
  <2> HIDE DEF owed
  <2>6. Sound(svc')
    BY <1>1, <2>2, <2>3, <2>5, InHand DEF Sound, Loop, Places, InPass, Merging
  <2> QED  BY <1>1, <2>2, <2>6, LoopKeeps
<1> QED  BY <1>3, <1>4, <1>5, <1>6

\* Each entry of a pushed batch is recorded as landed.
LEMMA RecordLandedKeeps ==
    ASSUME IInv, RecordLanded, ClientSame
    PROVE  IInv'
<1>1. svc.pc = "landed" /\ ServiceOnly
  BY DEF RecordLanded, At
<1>2. CASE svc.batch = <<>>
  <2>1. svc' = Done /\ writes' = writes
    BY <1>2 DEF RecordLanded
  <2> QED  BY <1>1, <2>1, Over, LoopKeeps
<1>3. CASE svc.batch # <<>>
  <2> DEFINE e == Head(svc.batch)
             r == Rec(Train, "landed", e, svc.tip)
  <2>1. svc' = [svc EXCEPT !.batch = Tail(svc.batch)] /\ writes' = Append(writes, r)
    BY <1>3 DEF RecordLanded, Submit
  <2>2. /\ e \in Elems(svc.batch) /\ e \in Ids /\ e \in target
        /\ Tail(svc.batch) \in Seq(Ids) /\ Elems(Tail(svc.batch)) \subseteq Elems(svc.batch)
    BY <1>1, <1>3, ElemsOf, InHand DEF Sound
  <2>3. r \in Record
    BY <2>2, InHand, Names DEF Rec, Record, Types, Told
  <2>4. RecordOk(r) /\ ~Asks(r)
    BY <1>1, <2>2, InHand DEF Rec, RecordOk, Asks, Sound, Merging
  <2> HIDE DEF r, e
  <2>5. Sound(svc')
    BY <1>1, <2>1, <2>2, InHand DEF Sound, Loop, InPass, Merging
  <2> QED  BY <1>1, <2>1, <2>3, <2>4, <2>5, LoopKeeps
<1> QED  BY <1>2, <1>3

\* The second half of a bisection gets a pass of its own.
LEMMA ReturnKeeps ==
    ASSUME IInv, Return, ClientSame
    PROVE  IInv'
<1>1. writes' = writes /\ ServiceOnly
  BY DEF Return
<1>2. CASE svc.halves = <<>>
  <2>1. svc' = Idle
    BY <1>2 DEF Return
  <2> QED  BY <1>1, <2>1, Over, LoopKeeps
<1>3. CASE svc.halves # <<>>
  <2> DEFINE h == Head(svc.halves)
             kept == Only(h, {i \in Ids : state[i] = "queued"})
             owed == Tail(svc.halves)
  <2>1. svc' = [Idle EXCEPT !.pc = "sync", !.halves = owed, !.batch = kept]
    BY <1>3 DEF Return
  <2>2. h \in Elems(svc.halves) /\ owed \in Seq(Seq(Ids)) /\ Elems(owed) \subseteq Elems(svc.halves)
    BY <1>3, ElemsOf, InHand
  <2>3. h \in Seq(Ids)
    BY <2>2, ElemsOf, InHand
  <2>4. kept \in Seq(Ids) /\ Elems(kept) \subseteq Elems(h)
    BY <2>3, OnlyIs
  <2>5. <<>> \in Seq(Ids) /\ Elems(<<>>) = {} /\ NoTip \in Tips
    BY Empty DEF Tips
  <2> HIDE DEF h, kept, owed
  <2>6. Sound(svc')
    BY <2>1, <2>2, <2>4, <2>5, InHand DEF Sound, Loop, Idle, Places, InPass, Merging
  <2> QED  BY <1>1, <2>6, LoopKeeps
<1> QED  BY <1>2, <1>3

(***************************************************************************)
(* The target                                                              *)
(***************************************************************************)
\* The target may gain pieces, if work of its branches comes after its blockers.
LEMMA TargetGrows ==
    ASSUME IInv, ClientSame, target \subseteq target', target' \subseteq Pieces,
           UNCHANGED <<ref, hist, state, queue, pushed, log, writes, casc, calls>>,
           \A i \in Ids : i \in target' /\ i \notin target => \A b \in BlockedBy[i[1]] : HasLanded(b),
           Sound(svc)'
    PROVE  IInv'
<1>1. Onward
  BY DEF Onward, Known
<1>2. UNCHANGED <<ver, ent, cl>>
  BY DEF ClientSame
<1>3. writes' \in Seq(Record) /\ Written'
  BY <1>1, Submitted
<1>4. svc' \in Loop /\ Sound(svc)'
  BY DEF Sound, Loop
<1>5. TrainTypes'
  BY <1>3, <1>4 DEF IInv, TrainTypes
<1>6. ClientTypes'
  BY <1>2 DEF IInv, ClientTypes, LandingOk
<1>7. QueueIs' /\ PushedPasses' /\ LandedIsInTarget'
  BY DEF IInv, QueueIs, PushedPasses, LandedIsInTarget
<1>8. Histories'
  BY <1>2 DEF IInv, Histories, Known, Made
<1>9. BlockersKnown'
  BY <1>2 DEF IInv, BlockersKnown, BlockersOf, Known, KnownBranch, Enqueuing, Wanted, Current
<1>10. BlockersLandFirst'
  <2> SUFFICES ASSUME NEW i \in Ids, i \in target', NEW b \in BlockedBy[i[1]]
               PROVE  \E v \in 1..MaxVersion : <<b, v>> \in target'
    BY DEF BlockersLandFirst
  <2>1. \E v \in 1..MaxVersion : <<b, v>> \in target
    BY DEF IInv, BlockersLandFirst, HasLanded
  <2> QED  BY <2>1
<1> QED  BY <1>3, <1>4, <1>5, <1>6, <1>7, <1>8, <1>9, <1>10 DEF IInv

\* What is pushed holds its tip and its batch, and of other work only what it is free of.
LEMMA CommitIs ==
    ASSUME IInv, svc.pc = "push"
    PROVE  /\ svc.tip \subseteq target /\ svc.tip \subseteq Commit /\ Commit \subseteq Pieces
           /\ ~Fails(Commit) /\ Elems(svc.batch) \subseteq Commit
           /\ \A i \in Ids : i \in Commit /\ i \notin target => \A b \in BlockedBy[i[1]] : HasLanded(b)
<1>1. svc.tip \subseteq target /\ target \subseteq Pieces /\ ~Fails(Commit)
  BY InHand DEF IInv, TrainTypes, Sound, InPass, Commit
<1>2. \A j \in Elems(svc.batch) : /\ j \in Ids /\ j \in hist[j] /\ hist[j] \subseteq Pieces
                                  /\ hist[j] \subseteq Own(j[1]) \cup target
                                  /\ \A b \in BlockedBy[j[1]] : HasLanded(b)
  <2> SUFFICES ASSUME NEW j \in Elems(svc.batch)
               PROVE  /\ j \in Ids /\ j \in hist[j] /\ hist[j] \subseteq Pieces
                      /\ hist[j] \subseteq Own(j[1]) \cup target
                      /\ \A b \in BlockedBy[j[1]] : HasLanded(b)
    OBVIOUS
  <2>1. j \in Ids /\ Free(j)
    BY InHand
  <2>2. j \in hist[j] /\ hist[j] \subseteq Own(j[1]) \cup target
    BY <2>1 DEF IInv, Histories, Free
  <2>3. hist[j] \subseteq Pieces
    BY <2>1 DEF IInv, TrainTypes
  <2> QED  BY <2>1, <2>2, <2>3 DEF Free
<1>3. Commit = svc.tip \cup UNION {hist[j] : j \in Elems(svc.batch)}
  BY DEF Commit, Merged
<1>4. svc.tip \subseteq Commit /\ Commit \subseteq Pieces /\ Elems(svc.batch) \subseteq Commit
  BY <1>1, <1>2, <1>3
<1>5. ASSUME NEW i \in Ids, i \in Commit, i \notin target, NEW b \in BlockedBy[i[1]]
      PROVE  HasLanded(b)
  <2>1. PICK j \in Elems(svc.batch) : i \in hist[j]
    BY <1>1, <1>3, <1>5
  <2>2. i[1] = j[1]
    BY <1>2, <1>5, <2>1 DEF Own
  <2> QED  BY <1>2, <1>5, <2>2
<1> QED  BY <1>1, <1>4, <1>5

\* A push lands the whole batch on the tip it was verified on, or nothing.
LEMMA PushKeeps ==
    ASSUME IInv, Push, ClientSame
    PROVE  IInv'
<1>1. /\ svc.pc = "push" /\ UNCHANGED <<ref, hist, state, queue, pushed, log, writes, casc, calls>>
  BY DEF Push, At
<1>2. CASE target = svc.tip
  <2> DEFINE s == [svc EXCEPT !.pc = "landed", !.tip = Commit]
  <2>1. target' = Commit /\ svc' = s
    BY <1>2 DEF Push
  <2>2. target \subseteq target' /\ target' \subseteq Pieces /\ Elems(svc.batch) \subseteq target'
    BY <1>1, <1>2, <2>1, CommitIs
  <2>3. Onward
    BY <1>1, <2>2 DEF Onward, Known
  <2>4. /\ svc \in Loop /\ svc.batch \in Seq(Ids) /\ svc.todo \in Seq(Ids)
        /\ Elems(svc.batch) \subseteq Ids /\ Elems(svc.todo) \subseteq Ids
        /\ Sound(svc)
    BY InHand
  <2>5. PICK t : t = svc
    OBVIOUS
  <2>6. Sound(t)'
    BY <2>3, <2>4, <2>5, SoundStays
  <2>7. PICK c : c = Commit /\ c \subseteq Pieces /\ ~Fails(c) /\ target' = c
    BY <1>1, <2>1, CommitIs
  <2>8. PICK u : u = [t EXCEPT !.pc = "landed", !.tip = c] /\ u = svc'
    BY <2>1, <2>5, <2>7
  <2>9. Sound(u)'
    <3>1. /\ u.pc = "landed" /\ u.tip = c /\ u.todo = t.todo /\ u.batch = t.batch
          /\ u.halves = t.halves
      BY <2>4, <2>5, <2>8 DEF Loop
    <3>2. u \in Loop
      BY <2>4, <2>5, <2>7, <2>8 DEF Loop, Places, Tips
    <3> HIDE <2>8
    <3>3. /\ (\A i \in Elems(u.batch) \cup Elems(u.todo) : Free(i))'
          /\ (\A h \in Elems(u.halves) : \A i \in Elems(h) : Free(i))'
      BY <2>6, <3>1 DEF Sound
    <3>4. u.tip \subseteq target' /\ Elems(u.batch) \subseteq target' /\ ~Fails(u.tip)
      BY <2>2, <2>5, <2>7, <3>1
    <3> QED  BY <3>1, <3>2, <3>3, <3>4 DEF Sound
  <2>10. Sound(svc)'
    BY <2>8, <2>9 DEF Sound
  <2>11. \A i \in Ids : i \in target' /\ i \notin target => \A b \in BlockedBy[i[1]] : HasLanded(b)
    BY <1>1, <2>1, CommitIs
  <2> QED  BY <1>1, <2>2, <2>10, <2>11, TargetGrows
<1>3. CASE target # svc.tip
  <2>1. target' = target /\ svc' = Done
    BY <1>3 DEF Push
  <2>2. Onward
    BY <1>1, <2>1 DEF Onward, Known
  <2>3. PICK s : s = svc'
    OBVIOUS
  <2>4. Sound(s)'
    BY <2>1, <2>2, <2>3, Over, SoundStays
  <2>5. Sound(svc)'
    BY <2>3, <2>4 DEF Sound
  <2>6. target' \subseteq Pieces
    BY <2>1 DEF IInv, TrainTypes
  <2> QED  BY <1>1, <2>1, <2>5, <2>6, TargetGrows
<1> QED  BY <1>2, <1>3

\* The push was taken and the service does not know.
LEMMA PushAnswerLostKeeps ==
    ASSUME IInv, PushAnswerLost, ClientSame
    PROVE  IInv'
<1>1. /\ svc.pc = "push" /\ target = svc.tip /\ target' = Commit /\ svc' = Done
      /\ UNCHANGED <<ref, hist, state, queue, pushed, log, writes, casc, calls>>
  BY DEF PushAnswerLost, At
<1>2. /\ target \subseteq target' /\ target' \subseteq Pieces
      /\ \A i \in Ids : i \in target' /\ i \notin target => \A b \in BlockedBy[i[1]] : HasLanded(b)
  BY <1>1, CommitIs
<1>3. Onward
  BY <1>1, <1>2 DEF Onward, Known
<1>4. PICK s : s = svc'
  OBVIOUS
<1>5. Sound(s)'
  BY <1>1, <1>3, <1>4, Over, SoundStays
<1>6. Sound(svc)'
  BY <1>4, <1>5 DEF Sound
<1> QED  BY <1>1, <1>2, <1>6, TargetGrows

\* Somebody else's push has no work of the train's branches.
LEMMA OutsidePushKeeps ==
    ASSUME IInv, NEW o \in Outside, OutsidePush(o), ClientSame
    PROVE  IInv'
<1>1. /\ target' = target \cup {o} /\ svc' = svc
      /\ UNCHANGED <<ref, hist, state, queue, pushed, log, writes, casc, calls>>
  BY DEF OutsidePush
<1>2. target \subseteq target' /\ target' \subseteq Pieces /\ o \notin Ids
  BY <1>1, TrainConstants DEF IInv, TrainTypes, Pieces
<1>3. Onward
  BY <1>1, <1>2 DEF Onward, Known
<1>4. PICK s : s = svc'
  OBVIOUS
<1>5. Sound(s)'
  BY <1>1, <1>3, <1>4, InHand, SoundStays
<1>6. Sound(svc)'
  BY <1>4, <1>5 DEF Sound
<1> QED  BY <1>1, <1>2, <1>6, TargetGrows

\* A pass that throws leaves the queue as it is.
LEMMA PassFailsKeeps ==
    ASSUME IInv, PassFails, ClientSame
    PROVE  IInv'
<1>1. /\ target' = target /\ svc' = Idle
      /\ UNCHANGED <<ref, hist, state, queue, pushed, log, writes, casc, calls>>
  BY DEF PassFails
<1>2. target' \subseteq Pieces
  BY <1>1 DEF IInv, TrainTypes
<1>3. Onward
  BY <1>1 DEF Onward, Known
<1>4. PICK s : s = svc'
  OBVIOUS
<1>5. Sound(s)'
  BY <1>1, <1>3, <1>4, Over, SoundStays
<1>6. Sound(svc)'
  BY <1>4, <1>5 DEF Sound
<1> QED  BY <1>1, <1>2, <1>6, TargetGrows

\* A git error taken for an answer costs an entry its place in the batch and breaks nothing.
LEMMA GitErrsKeeps ==
    ASSUME IInv, GitErrs, ClientSame
    PROVE  IInv'
<1>1. LoopOnly
  BY DEF GitErrs, FetchErrs, MergeErrs
<1>2. CASE FetchErrs
  <2> DEFINE e == Head(svc.todo)
             r == Rec(Train, "moved", e, svc.tip)
  <2>1. /\ e \in Elems(svc.todo) /\ e \in Ids
        /\ Tail(svc.todo) \in Seq(Ids) /\ Elems(Tail(svc.todo)) \subseteq Elems(svc.todo)
    BY <1>2, ElemsOf, InHand DEF FetchErrs
  <2>2. svc' = [svc EXCEPT !.todo = Tail(svc.todo)] /\ writes' = Append(writes, r)
    BY <1>2 DEF FetchErrs, Submit
  <2>3. r \in Record
    BY <2>1, InHand, Names DEF Rec, Record, Types, Told, Ejects
  <2>4. RecordOk(r) /\ ~Asks(r)
    BY <2>1, InHand DEF Rec, RecordOk, Asks
  <2> HIDE DEF r, e
  <2>5. Sound(svc')
    BY <2>1, <2>2, InHand DEF Sound, Loop, InPass, Merging
  <2> QED  BY <1>1, <2>2, <2>3, <2>4, <2>5, LoopKeeps
<1>3. CASE MergeErrs
  <2>1. PICK e \in Elems(svc.batch) :
          svc' = [svc EXCEPT !.pc = "verify",
                             !.batch = CleanOf(svc.tip, Without(svc.batch, {e})),
                             !.todo = Without(svc.batch,
                                        Elems(CleanOf(svc.tip, Without(svc.batch, {e}))))]
    BY <1>3 DEF MergeErrs
  <2> DEFINE others == Without(svc.batch, {e})
             clean == CleanOf(svc.tip, others)
             rest == Without(svc.batch, Elems(clean))
  <2>2. others \in Seq(Ids) /\ Elems(others) \subseteq Elems(svc.batch)
    BY WithoutIs, InHand
  <2>3. clean \in Seq(Ids) /\ Elems(clean) \subseteq Elems(svc.batch)
    <3> HIDE DEF others
    <3> QED  BY <2>2, CleanOfIs
  <2>4. rest \in Seq(Ids) /\ Elems(rest) \subseteq Elems(svc.batch)
    BY WithoutIs, InHand
  <2>5. svc.pc = "land" /\ writes' = writes
    BY <1>3 DEF MergeErrs, At
  <2>6. svc' = [svc EXCEPT !.pc = "verify", !.batch = clean, !.todo = rest]
    BY <2>1
  <2> HIDE DEF others, clean, rest
  <2>7. Sound(svc')
    BY <2>3, <2>4, <2>5, <2>6, InHand DEF Sound, Loop, Places, InPass, Merging
  <2> QED  BY <1>1, <2>5, <2>7, LoopKeeps
<1> QED  BY <1>2, <1>3 DEF GitErrs

(***************************************************************************)
(* The journal                                                             *)
(***************************************************************************)
\* An append that resolves is folded, and what it says of its entry stays told.
LEMMA JournalWriteKeeps ==
    ASSUME IInv, JournalWrite, ClientSame
    PROVE  IInv'
<1> DEFINE r == Head(writes)
           c == Owner[r.id[1]]
           rest == Tail(writes)
           next == Rec(c, "enqueued", calls[c], NoTip)
<1>1. /\ writes # <<>> /\ UNCHANGED <<target, ref, hist, svc, troubles>>
      /\ state' = [state EXCEPT ![r.id] = After(r.type)]
      /\ queue' = IF r.type = "enqueued" THEN Append(queue, r.id) ELSE Without(queue, {r.id})
      /\ pushed' = PushedBy(r)
      /\ log' = IF r.type \in Told THEN [log EXCEPT ![c] = Append(log[c], <<r.id, r.type>>)] ELSE log
      /\ casc' = IF r.type \in Ejects \cup {"withdrawn"}
                   THEN [casc EXCEPT ![r.by] = Without(Dependents(r.id), {r.id}) \o casc[r.by]]
                   ELSE casc
      /\ calls' = IF r.type = "enqueued" THEN [calls EXCEPT ![c] = NoCall] ELSE calls
      /\ writes' = IF r.type = "superseded" THEN Append(rest, next) ELSE rest
  BY DEF JournalWrite
<1>2. UNCHANGED <<ver, ent, cl>>
  BY DEF ClientSame
<1>3. /\ writes \in Seq(Record) /\ r \in Elems(writes) /\ r \in Record
      /\ rest \in Seq(Record) /\ Elems(rest) \subseteq Elems(writes)
  BY <1>1, ElemsOf DEF IInv, TrainTypes
<1>4. /\ r.id \in Ids /\ r.type \in Types /\ r.by \in Handlers /\ r.tip \in Tips /\ c \in Clients
      /\ RecordOk(r)
  BY <1>3, Names DEF Record, IInv, Written
<1>5. PICK n \in Nat : /\ n + 1 = Len(writes) /\ DOMAIN writes = 1..(n + 1) /\ DOMAIN rest = 1..n
                       /\ Len(rest) = n
                       /\ r = writes[1] /\ \A i \in 1..n : rest[i] = writes[i + 1]
  BY <1>1, <1>3, TailIs
<1> HIDE DEF r, rest, next
<1>6. /\ After(r.type) \in States /\ After(r.type) # "none"
      /\ (After(r.type) = "queued" <=> r.type = "enqueued")
      /\ (After(r.type) = "landed" <=> r.type \in {"landed", "found"})
  BY <1>4 DEF After, Types, Told, Ejects, States
<1>7. state' \in [Ids -> States] /\ \A i \in Ids : state'[i] = IF i = r.id THEN After(r.type) ELSE state[i]
  BY <1>1, <1>4, <1>6 DEF IInv, TrainTypes
<1>8. Onward
  BY <1>1, <1>6, <1>7 DEF Onward, Known
<1>9. \A k \in DOMAIN rest : Asks(r) /\ Asks(rest[k]) => Owner[rest[k].id[1]] # c
  <2> SUFFICES ASSUME NEW k \in 1..n, Asks(r), Asks(rest[k]), Owner[rest[k].id[1]] = c PROVE FALSE
    BY <1>5
  <2>1. k + 1 \in 1..(n + 1) /\ 1 \in 1..(n + 1) /\ k + 1 # 1 /\ rest[k] = writes[k + 1]
    BY <1>5
  <2>2. SameAsker(writes[1], writes[k + 1])
    BY <1>5, <2>1 DEF SameAsker
  <2> QED  BY <1>5, <2>1, <2>2 DEF IInv, Written
<1>10. \A w \in Elems(rest) : RecordOk(w)'
  <2> SUFFICES ASSUME NEW w \in Elems(rest) PROVE RecordOk(w)'
    OBVIOUS
  <2>1. w \in Record /\ RecordOk(w)
    BY <1>3, ElemsOf DEF IInv, Written
  <2>2. w.id \in Ids /\ Owner[w.id[1]] \in Clients
    BY <2>1, Names DEF Record
  <2>3. Asks(w) => calls'[Owner[w.id[1]]] = calls[Owner[w.id[1]]]
    <3>1. CASE r.type = "enqueued"
      <4>1. Asks(w) => Owner[w.id[1]] # c
        BY <1>9, <3>1 DEF Elems, Asks
      <4> QED  BY <1>1, <2>2, <3>1, <4>1 DEF IInv, TrainTypes
    <3>2. CASE r.type # "enqueued"
      BY <1>1, <3>2
    <3> QED  BY <3>1, <3>2
  <2> QED  BY <1>8, <2>1, <2>3, RecordStays
<1>11. \A j, k \in DOMAIN rest : SameAsker(rest[j], rest[k]) => j = k
  <2> SUFFICES ASSUME NEW j \in 1..n, NEW k \in 1..n, SameAsker(rest[j], rest[k]) PROVE j = k
    BY <1>5
  <2>1. j + 1 \in 1..(n + 1) /\ k + 1 \in 1..(n + 1)
    BY <1>5
  <2>2. SameAsker(writes[j + 1], writes[k + 1])
    BY <1>5
  <2>3. j + 1 = k + 1
    BY <1>5, <2>1, <2>2 DEF IInv, Written
  <2> QED  BY <2>3
<1>12. writes' \in Seq(Record) /\ Written'
  <2>1. CASE r.type # "superseded"
    <3>1. writes' = rest
      BY <1>1, <2>1
    <3>2. \A w \in Elems(writes') : RecordOk(w)'
      BY <1>10, <3>1
    <3>3. \A j, k \in DOMAIN writes' : SameAsker(writes'[j], writes'[k]) => j = k
      BY <1>11, <3>1
    <3>4. writes' \in Seq(Record)
      BY <1>3, <3>1
    <3> QED  BY <3>2, <3>3, <3>4 DEF Written
  <2>2. CASE r.type = "superseded"
    <3>1. writes' = Append(rest, next) /\ calls' = calls
      BY <1>1, <2>2
    <3>2. calls[c] # NoCall /\ calls[c] \in Ids /\ Owner[calls[c][1]] = c
      BY <1>4, <2>2 DEF RecordOk, IInv, Histories, TrainTypes
    <3>3. PICK x \in Record : x = next /\ x.type = "enqueued" /\ x.id = calls[c]
      <4>1. next = [by |-> c, type |-> "enqueued", id |-> calls[c], tip |-> NoTip]
        BY DEF next, Rec
      <4>2. c \in Handlers /\ "enqueued" \in Types /\ NoTip \in Tips
        BY <1>4, Names DEF Types, Tips
      <4>3. next \in Record
        BY <3>2, <4>1, <4>2 DEF Record
      <4> QED  BY <4>1, <4>3
    <3>4. RecordOk(x)'
      BY <3>1, <3>2, <3>3 DEF RecordOk
    <3>5. /\ writes' \in Seq(Record) /\ Elems(writes') = Elems(rest) \cup {x}
          /\ DOMAIN writes' = DOMAIN rest \cup {n + 1}
          /\ writes'[n + 1] = x /\ \A i \in DOMAIN rest : writes'[i] = rest[i]
      BY <1>3, <1>5, <3>1, <3>3, ElemsOf
    <3>6. \A w \in Elems(writes') : RecordOk(w)'
      BY <1>10, <3>4, <3>5
    <3>7. \A k \in DOMAIN rest : ~SameAsker(rest[k], x) /\ ~SameAsker(x, rest[k])
      BY <1>9, <2>2, <3>2, <3>3 DEF SameAsker, Asks
    <3>8. \A j, k \in DOMAIN writes' : SameAsker(writes'[j], writes'[k]) => j = k
      BY <1>11, <3>5, <3>7
    <3> QED  BY <3>5, <3>6, <3>8 DEF Written
  <2> QED  BY <2>1, <2>2
<1>13. Sound(svc)'
  <2>1. PICK s : s = svc /\ svc' = s
    BY <1>1
  <2>2. Sound(s)'
    BY <1>8, <2>1, SoundStays DEF IInv
  <2> QED  BY <2>1, <2>2 DEF Sound
<1>14. queue' \in Seq(Ids) /\ QueueIs'
  <2>1. queue \in Seq(Ids) /\ Elems(queue) = {i \in Ids : state[i] = "queued"}
    BY DEF IInv, TrainTypes, QueueIs
  <2>2. CASE r.type = "enqueued"
    <3>1. queue' \in Seq(Ids) /\ Elems(queue') = Elems(queue) \cup {r.id}
      BY <1>1, <1>4, <2>1, <2>2, ElemsOf
    <3>2. Elems(queue') = {i \in Ids : state'[i] = "queued"}
      BY <1>4, <1>6, <1>7, <2>1, <2>2, <3>1
    <3> QED  BY <3>1, <3>2 DEF QueueIs
  <2>3. CASE r.type # "enqueued"
    <3>1. queue' \in Seq(Ids) /\ Elems(queue') = Elems(queue) \ {r.id}
      BY <1>1, <2>1, <2>3, WithoutIs
    <3>2. Elems(queue') = {i \in Ids : state'[i] = "queued"}
      BY <1>4, <1>6, <1>7, <2>1, <2>3, <3>1
    <3> QED  BY <3>1, <3>2 DEF QueueIs
  <2> QED  BY <2>2, <2>3
<1>15. log' \in [Clients -> Seq(Ids \X Told)]
       /\ \A d \in Clients : /\ Len(log[d]) <= Len(log'[d])
                             /\ \A k \in DOMAIN log'[d] : Owner[log'[d][k][1][1]] = d
  <2>1. /\ log \in [Clients -> Seq(Ids \X Told)]
        /\ \A d \in Clients : \A k \in DOMAIN log[d] : Owner[log[d][k][1][1]] = d
    BY DEF IInv, TrainTypes, ClientTypes
  <2>2. CASE r.type \in Told
    <3> DEFINE x == <<r.id, r.type>>
               new == Append(log[c], x)
    <3>1. x \in Ids \X Told /\ x[1] = r.id
      BY <1>4, <2>2
    <3> HIDE DEF x
    <3>2. PICK l \in Nat : l = Len(log[c]) /\ DOMAIN log[c] = 1..l
      BY <1>4, <2>1
    <3>3. /\ new \in Seq(Ids \X Told) /\ DOMAIN new = DOMAIN log[c] \cup {l + 1}
          /\ new[l + 1] = x /\ \A k \in DOMAIN log[c] : new[k] = log[c][k]
      BY <1>4, <2>1, <3>1, <3>2, ElemsOf, SMTT(30)
    <3>4. Len(new) = l + 1 /\ l <= l + 1
      BY <1>4, <2>1, <3>1, <3>2
    <3>5. log' = [log EXCEPT ![c] = new]
      BY <1>1, <2>2 DEF x
    <3> HIDE DEF new
    <3>6. log' \in [Clients -> Seq(Ids \X Told)]
      BY <2>1, <3>3, <3>5
    <3>7. \A d \in Clients : log'[d] = IF d = c THEN new ELSE log[d]
      BY <2>1, <3>5
    <3>8. \A k \in DOMAIN new : Owner[new[k][1][1]] = c
      BY <1>4, <2>1, <3>1, <3>3
    <3>9. \A d \in Clients : Len(log[d]) \in Nat /\ Len(log[d]) <= Len(log[d])
      BY <2>1
    <3> QED  BY <2>1, <3>2, <3>4, <3>6, <3>7, <3>8, <3>9
  <2>3. CASE r.type \notin Told
    <3>1. log' = log
      BY <1>1, <2>3
    <3>2. \A d \in Clients : Len(log[d]) \in Nat /\ Len(log[d]) <= Len(log[d])
      BY <2>1
    <3> QED  BY <2>1, <3>1, <3>2
  <2> QED  BY <2>2, <2>3
<1>16. casc' \in [Handlers -> Seq(Ids)]
  <2>1. Dependents(r.id) \in Seq(Ids)
    BY OnlyIs DEF Dependents, IInv, TrainTypes
  <2>2. Without(Dependents(r.id), {r.id}) \in Seq(Ids)
    BY <2>1, WithoutIs
  <2>3. casc \in [Handlers -> Seq(Ids)] /\ casc[r.by] \in Seq(Ids)
    BY <1>4 DEF IInv, TrainTypes
  <2>4. Without(Dependents(r.id), {r.id}) \o casc[r.by] \in Seq(Ids)
    BY <2>2, <2>3, ConcatIs
  <2> QED  BY <1>1, <2>3, <2>4
<1>17. /\ calls' \in [Clients -> Ids \cup {NoCall}]
       /\ \A d \in Clients : calls'[d] # NoCall => calls'[d] = calls[d]
       /\ \A d \in Clients : calls'[d] # calls[d] => d = c /\ r.type = "enqueued" /\ calls[d] = r.id
  BY <1>1, <1>4 DEF IInv, TrainTypes, RecordOk
<1>18. pushed' \in Tips /\ PushedPasses'
  BY <1>1, <1>4 DEF PushedBy, IInv, TrainTypes, PushedPasses, RecordOk
<1>19. TrainTypes'
  BY <1>1, <1>7, <1>12, <1>14, <1>15, <1>16, <1>17, <1>18 DEF IInv, TrainTypes
<1>20. ClientTypes'
  <2>1. \A d \in Clients : cl'[d].upto <= Len(log'[d])
    <3> SUFFICES ASSUME NEW d \in Clients PROVE cl[d].upto <= Len(log'[d])
      BY <1>2
    <3>1. cl[d].upto \in Nat /\ cl[d].upto <= Len(log[d]) /\ Len(log[d]) <= Len(log'[d])
      BY <1>15 DEF IInv, ClientTypes, LandingOk, Landing
    <3>2. Len(log[d]) \in Nat /\ Len(log'[d]) \in Nat
      BY <1>15 DEF IInv, TrainTypes
    <3> QED  BY <3>1, <3>2
  <2> QED  BY <1>2, <1>15, <2>1 DEF IInv, ClientTypes, LandingOk
<1>21. \A i \in Ids : Known(i)' => Known(i) \/ (i = r.id /\ r.type = "enqueued" /\ calls[c] = i)
  BY <1>4, <1>7 DEF Known, RecordOk
<1>22. Histories'
  <2>1. \A i \in Ids : Known(i)' => Made(i)
    BY <1>4, <1>21, Names DEF IInv, Histories
  <2> QED  BY <1>1, <1>2, <1>17, <2>1 DEF IInv, Histories, Made
<1>23. BlockersKnown'
  <2>1. \A b \in Branches : KnownBranch(b) => KnownBranch(b)'
    BY <1>8, FactsStay
  <2>2. \A i \in Ids : BlockedBy[i[1]] \subseteq Branches
    BY Names, TrainConstants
  <2>3. \A i \in Ids : Known(i)' => \A b \in BlockedBy[i[1]] : KnownBranch(b)'
    <3> SUFFICES ASSUME NEW i \in Ids, Known(i)', NEW b \in BlockedBy[i[1]] PROVE KnownBranch(b)'
      OBVIOUS
    <3>1. CASE Known(i)
      BY <2>1, <2>2, <3>1 DEF IInv, BlockersKnown, BlockersOf
    <3>2. CASE ~Known(i)
      <4>1. calls[c] = i /\ calls[c] # NoCall
        BY <1>21, <3>2, Names
      <4> QED  BY <1>4, <2>1, <2>2, <4>1 DEF IInv, BlockersKnown, BlockersOf
    <3> QED  BY <3>1, <3>2
  <2>4. ASSUME NEW d \in Clients
        PROVE  BlockersOf(d)'
    <3>1. calls'[d] # NoCall => \A b \in BlockedBy[calls'[d][1]] : KnownBranch(b)'
      <4> SUFFICES ASSUME calls'[d] # NoCall, NEW b \in BlockedBy[calls'[d][1]] PROVE KnownBranch(b)'
        OBVIOUS
      <4>1. calls[d] = calls'[d] /\ calls[d] \in Ids
        BY <1>17
      <4> QED  BY <2>1, <2>2, <4>1 DEF IInv, BlockersKnown, BlockersOf
    <3>2. \A j \in DOMAIN Worktrees[d] : Enqueuing(d, j)' => KnownBranch(Worktrees[d][j])'
      <4> SUFFICES ASSUME NEW j \in DOMAIN Worktrees[d], Enqueuing(d, j)'
                   PROVE  KnownBranch(Worktrees[d][j])'
        OBVIOUS
      <4>1. Enqueuing(d, j)
        BY <1>2 DEF Enqueuing
      <4>2. Worktrees[d][j] \in Branches
        BY ClientConstants
      <4> QED  BY <2>1, <4>1, <4>2 DEF IInv, BlockersKnown, BlockersOf
    <3>3. ASSUME cl'[d].pc = "enqueuing"
          PROVE  calls'[d] = Wanted(d)' \/ Known(Wanted(d))'
      <4>1. PICK i : i = Wanted(d) /\ i = Wanted(d)'
        BY <1>2 DEF Wanted, Current
      <4>2. calls[d] = i \/ Known(i)
        BY <1>2, <3>3, <4>1 DEF IInv, BlockersKnown, BlockersOf
      <4>3. i \in Ids
        <5>1. cl[d].i \in DOMAIN Worktrees[d]
          BY <1>2, <3>3 DEF IInv, ClientTypes, LandingOk
        <5>2. Current(d) \in Branches
          BY <5>1, ClientConstants DEF Current
        <5> QED  BY <4>1, <5>2 DEF Wanted, Ids, IInv, ClientTypes
      <4>4. calls'[d] = i \/ Known(i)'
        <5>1. CASE Known(i)
          BY <1>8, <4>3, <5>1 DEF Onward
        <5>2. CASE calls[d] = i /\ calls'[d] = calls[d]
          BY <5>2
        <5>3. CASE calls[d] = i /\ calls'[d] # calls[d]
          BY <1>6, <1>7, <1>17, <4>3, <5>3 DEF Known
        <5> QED  BY <4>2, <5>1, <5>2, <5>3
      <4> QED  BY <4>1, <4>4 DEF Known
    <3> QED  BY <3>1, <3>2, <3>3 DEF BlockersOf
  <2> QED  BY <2>3, <2>4 DEF BlockersKnown
<1>24. LandedIsInTarget' /\ BlockersLandFirst'
  <2>1. \A i \in Ids : state'[i] = "landed" => i \in target
    BY <1>4, <1>6, <1>7 DEF RecordOk, IInv, LandedIsInTarget
  <2> QED  BY <1>1, <2>1 DEF IInv, LandedIsInTarget, BlockersLandFirst
<1> QED  BY <1>12, <1>13, <1>14, <1>18, <1>19, <1>20, <1>22, <1>23, <1>24 DEF IInv

\* A dependent still queued is ejected with its blocker.
LEMMA CascadeKeeps ==
    ASSUME IInv, NEW h \in Handlers, Cascade(h), ClientSame
    PROVE  IInv'
<1> DEFINE e == Head(casc[h])
           r == Rec(h, "blocked", e, NoTip)
<1>1. /\ casc[h] # <<>> /\ casc' = [casc EXCEPT ![h] = Tail(casc[h])]
      /\ UNCHANGED <<target, ref, hist, state, queue, pushed, log, svc, calls>>
      /\ UNCHANGED <<ver, ent, cl>>
  BY DEF Cascade, ClientSame
<1>2. Onward
  BY <1>1 DEF Onward, Known
<1>3. casc[h] \in Seq(Ids) /\ casc \in [Handlers -> Seq(Ids)]
  BY DEF IInv, TrainTypes
<1>4. e \in Ids /\ Tail(casc[h]) \in Seq(Ids)
  BY <1>1, <1>3, ElemsOf
<1>5. writes' \in Seq(Record) /\ Written'
  <2>1. CASE state[e] = "queued"
    <3>1. writes' = Append(writes, r)
      BY <2>1 DEF Cascade, Submit
    <3>2. r \in Record
      BY <1>4 DEF Rec, Record, Types, Told, Ejects, Tips
    <3>3. RecordOk(r) /\ ~Asks(r)
      BY <1>4, <2>1 DEF Rec, RecordOk, Asks, Known
    <3> HIDE DEF r, e
    <3> QED  BY <1>1, <1>2, <3>1, <3>2, <3>3, Submitted
  <2>2. CASE state[e] # "queued"
    <3>1. writes' = writes
      BY <2>2 DEF Cascade
    <3> QED  BY <1>1, <1>2, <3>1, Submitted
  <2> QED  BY <2>1, <2>2
<1> HIDE DEF e, r
<1>6. casc' \in [Handlers -> Seq(Ids)]
  BY <1>1, <1>3, <1>4
<1>7. TrainTypes'
  BY <1>1, <1>5, <1>6 DEF IInv, TrainTypes
<1>8. ClientTypes'
  BY <1>1 DEF IInv, ClientTypes, LandingOk
<1>9. QueueIs' /\ PushedPasses' /\ LandedIsInTarget' /\ BlockersLandFirst'
  BY <1>1 DEF IInv, QueueIs, PushedPasses, LandedIsInTarget, BlockersLandFirst
<1>10. Histories'
  BY <1>1 DEF IInv, Histories, Known, Made
<1>11. BlockersKnown'
  BY <1>1 DEF IInv, BlockersKnown, BlockersOf, Known, KnownBranch, Enqueuing, Wanted, Current
<1>12. Sound(svc)'
  <2>1. PICK s : s = svc /\ svc' = s
    BY <1>1
  <2>2. Sound(s)'
    BY <1>2, <2>1, SoundStays DEF IInv
  <2> QED  BY <2>1, <2>2 DEF Sound
<1> QED  BY <1>5, <1>7, <1>8, <1>9, <1>10, <1>11, <1>12 DEF IInv

(***************************************************************************)
(* The clients                                                             *)
(***************************************************************************)
\* A client's worktrees are of its own branches, blockers first.
LEMMA WorktreesAre ==
    ASSUME NEW c \in Clients
    PROVE  /\ Worktrees[c] \in Seq(Branches) /\ Len(Worktrees[c]) \in Nat
           /\ DOMAIN Worktrees[c] = 1..Len(Worktrees[c])
           /\ \A j \in DOMAIN Worktrees[c] :
                /\ Worktrees[c][j] \in Branches /\ Owner[Worktrees[c][j]] = c
                /\ \A b \in BlockedBy[Worktrees[c][j]] :
                     \E k \in DOMAIN Worktrees[c] : k < j /\ Worktrees[c][k] = b
           /\ \A b \in Branches : Owner[b] = c => \E j \in DOMAIN Worktrees[c] : Worktrees[c][j] = b
<1>1. /\ Worktrees[c] \in Seq(Branches)
      /\ Elems(Worktrees[c]) = {b \in Branches : Owner[b] = c}
      /\ \A i, j \in DOMAIN Worktrees[c] : Worktrees[c][i] \in BlockedBy[Worktrees[c][j]] => i < j
  BY ClientConstants
<1>2. \A b \in Branches : Owner[b] = c => \E j \in DOMAIN Worktrees[c] : Worktrees[c][j] = b
  BY <1>1 DEF Elems
<1>3. \A j \in DOMAIN Worktrees[c] : Worktrees[c][j] \in Branches /\ Owner[Worktrees[c][j]] = c
  BY <1>1 DEF Elems
<1>4. ASSUME NEW j \in DOMAIN Worktrees[c], NEW b \in BlockedBy[Worktrees[c][j]]
      PROVE  \E k \in DOMAIN Worktrees[c] : k < j /\ Worktrees[c][k] = b
  <2>1. b \in Branches /\ Owner[b] = c
    BY <1>3, TrainConstants
  <2>2. PICK k \in DOMAIN Worktrees[c] : Worktrees[c][k] = b
    BY <1>2, <2>1
  <2> QED  BY <1>1, <2>2
<1> QED  BY <1>1, <1>2, <1>3, <1>4

\* A client lists the branches a branch waits for before it.
LEMMA BlockersFirst ==
    ASSUME NEW c \in Clients, NEW j \in DOMAIN Worktrees[c], NEW b \in BlockedBy[Worktrees[c][j]]
    PROVE  \E k \in DOMAIN Worktrees[c] : k < j /\ Worktrees[c][k] = b
BY WorktreesAre

\* One client's step leaves the others' and the train's own as they are.
LEMMA ClientKeeps ==
    ASSUME IInv, Onward, NEW c \in Clients,
           UNCHANGED <<target, state, queue, pushed, log, svc, casc>>,
           ref' \in [Branches -> 0..MaxVersion], hist' \in [Ids -> SUBSET Pieces],
           calls' \in [Clients -> Ids \cup {NoCall}], writes' \in Seq(Record), Written',
           Histories', ver' \in [Branches -> 1..MaxVersion], ent' \in [Branches -> Entry],
           \A b \in Branches : ent'[b].out = "open" => ent'[b].v # 0,
           cl' \in [Clients -> Landing],
           \A d \in Clients : d # c => /\ cl'[d] = cl[d] /\ calls'[d] = calls[d]
                                       /\ \A b \in Mine(d) : ver'[b] = ver[b],
           LandingOk(c)', BlockersOf(c)'
    PROVE  IInv'
<1>1. TrainTypes'
  BY DEF IInv, TrainTypes
<1>2. ClientTypes'
  <2>1. \A d \in Clients : LandingOk(d)'
    <3> SUFFICES ASSUME NEW d \in Clients, d # c PROVE LandingOk(d)'
      OBVIOUS
    <3>1. LandingOk(d)
      BY DEF IInv, ClientTypes
    <3> QED  BY <3>1 DEF LandingOk
  <2> QED  BY <2>1 DEF IInv, ClientTypes
<1>3. QueueIs' /\ PushedPasses' /\ LandedIsInTarget' /\ BlockersLandFirst'
  BY DEF IInv, QueueIs, PushedPasses, LandedIsInTarget, BlockersLandFirst
<1>4. BlockersKnown'
  <2>1. \A d \in Clients : BlockersOf(d)'
    <3> SUFFICES ASSUME NEW d \in Clients, d # c PROVE BlockersOf(d)'
      OBVIOUS
    <3>1. BlockersOf(d) /\ LandingOk(d)
      BY DEF IInv, BlockersKnown, ClientTypes
    <3>2. cl[d].pc = "enqueuing" => Wanted(d)' = Wanted(d)
      <4>1. cl[d].pc = "enqueuing" => Worktrees[d][cl[d].i] \in Mine(d)
        BY <3>1, WorktreesAre DEF LandingOk, Mine
      <4> QED  BY <4>1 DEF Wanted, Current
    <3> QED  BY <3>1, <3>2 DEF BlockersOf, Known, KnownBranch, Enqueuing
  <2> QED  BY <2>1 DEF IInv, BlockersKnown, Known, KnownBranch
<1>5. Sound(svc)'
  <2>1. PICK s : s = svc /\ svc' = s
    OBVIOUS
  <2>2. Sound(s)'
    BY <2>1, SoundStays DEF IInv
  <2> QED  BY <2>1, <2>2 DEF Sound
<1> QED  BY <1>1, <1>2, <1>3, <1>4, <1>5 DEF IInv

\* A landing that is over, cut or goes on following knows no less of its blockers.
LEMMA GoesOn ==
    ASSUME IInv, NEW c \in Clients, UNCHANGED <<state, log, ver>>,
           \/ cl'[c].pc \in {cl[c].pc, "withdraw", "done", "stopped", "dead"}
           \/ cl[c].pc \in {"repair", "repairing", "follow"} /\ cl'[c].pc \in {"follow", "repairing"},
           \/ cl'[c].i = cl[c].i
           \/ cl'[c].pc \notin {"enqueue", "enqueuing", "repair", "repairing"},
           cl'[c].pc = "repairing" => cl[c].pc \in {"repair", "repairing"},
           cl'[c].upto <= Len(log[c]),
           calls'[c] \in {calls[c], NoCall}, cl'[c].pc = "enqueuing" => calls'[c] = calls[c]
    PROVE  LandingOk(c)' /\ BlockersOf(c)'
<1>1. LandingOk(c) /\ BlockersOf(c)
  BY DEF IInv, BlockersKnown, ClientTypes
<1>2. LandingOk(c)'
  BY <1>1 DEF LandingOk
<1>3. \A j \in DOMAIN Worktrees[c] : Enqueuing(c, j)' => Enqueuing(c, j)
  BY DEF Enqueuing
<1>4. cl'[c].pc = "enqueuing" => cl[c].pc = "enqueuing" /\ Wanted(c)' = Wanted(c)
  BY DEF Wanted, Current
<1>5. \A b : KnownBranch(b)' = KnownBranch(b)
  BY DEF KnownBranch, Known
<1>6. calls'[c] # NoCall => \A b \in BlockedBy[calls'[c][1]] : KnownBranch(b)'
  BY <1>1, <1>5 DEF BlockersOf
<1>7. \A j \in DOMAIN Worktrees[c] : Enqueuing(c, j)' => KnownBranch(Worktrees[c][j])'
  BY <1>1, <1>3, <1>5 DEF BlockersOf
<1>8. cl'[c].pc = "enqueuing" => calls'[c] = Wanted(c)' \/ Known(Wanted(c))'
  BY <1>1, <1>4 DEF BlockersOf, Known
<1>9. BlockersOf(c)'
  BY <1>6, <1>7, <1>8 DEF BlockersOf, Known
<1> QED  BY <1>2, <1>9

\* A step of a client that touches neither the train nor its branches.
LEMMA OwnStepKeeps ==
    ASSUME IInv, NEW c \in Clients,
           UNCHANGED <<target, ref, hist, state, queue, pushed, log, svc, writes, casc, calls, ver>>,
           ent' \in [Branches -> Entry],
           \A b \in Branches : ent'[b].out = "open" => ent'[b].v # 0,
           cl' \in [Clients -> Landing], \A d \in Clients : d # c => cl'[d] = cl[d],
           LandingOk(c)', BlockersOf(c)'
    PROVE  IInv'
<1>1. Onward
  BY DEF Onward, Known
<1>2. writes' \in Seq(Record) /\ Written'
  BY <1>1, Submitted
<1>3. Histories'
  BY DEF IInv, Histories, Known, Made
<1>4. /\ ref' \in [Branches -> 0..MaxVersion] /\ hist' \in [Ids -> SUBSET Pieces]
      /\ calls' \in [Clients -> Ids \cup {NoCall}] /\ ver' \in [Branches -> 1..MaxVersion]
  BY DEF IInv, TrainTypes, ClientTypes
<1> QED  BY <1>1, <1>2, <1>3, <1>4, ClientKeeps

\* The records of a client's call: one, and only when the train knows the commit not.
LEMMA Asked ==
    ASSUME IInv, Onward, NEW c \in Clients, NEW id \in Ids, Owner[id[1]] = c,
           calls[c] = NoCall, HandleEnqueue(c, id)
    PROVE  /\ writes' \in Seq(Record) /\ Written' /\ calls' \in [Clients -> Ids \cup {NoCall}]
           /\ \A d \in Clients : d # c => calls'[d] = calls[d]
           /\ state[id] # "none" => calls' = calls
           /\ state[id] = "none" => calls'[c] = id
<1>1. writes \in Seq(Record) /\ calls \in [Clients -> Ids \cup {NoCall}] /\ queue \in Seq(Ids)
  BY DEF IInv, TrainTypes
<1>2. CASE state[id] # "none"
  <2>1. calls' = calls /\ writes' = writes
    BY <1>2 DEF HandleEnqueue
  <2> QED  BY <1>1, <1>2, <2>1, Submitted
<1>3. CASE state[id] = "none"
  <2> DEFINE older == {i \in Elems(queue) : i[1] = id[1]}
  <2>1. /\ calls' = [calls EXCEPT ![c] = id]
        /\ writes' = Append(writes, IF older = {} THEN Rec(c, "enqueued", id, NoTip)
                                   ELSE Rec(c, "superseded", CHOOSE i \in older : TRUE, NoTip))
    BY <1>3 DEF HandleEnqueue, Submit
  <2>2. /\ calls' \in [Clients -> Ids \cup {NoCall}] /\ calls'[c] = id /\ id # NoCall
        /\ \A d \in Clients : d # c => calls'[d] = calls[d]
    BY <1>1, <2>1, Names
  <2>3. PICK r \in Record : /\ writes' = Append(writes, r) /\ Owner[r.id[1]] = c /\ Asks(r)
                            /\ RecordOk(r)'
    <3>1. CASE older = {}
      <4>1. PICK r : r = Rec(c, "enqueued", id, NoTip) /\ writes' = Append(writes, r)
        BY <2>1, <3>1
      <4>2. r \in Record /\ r.id = id /\ r.type = "enqueued"
        BY <4>1, Names DEF Rec, Record, Types, Tips
      <4>3. RecordOk(r)' /\ Asks(r)
        BY <2>2, <4>2 DEF RecordOk, Asks
      <4> QED  BY <4>1, <4>2, <4>3
    <3>2. CASE older # {}
      <4>1. PICK i : i = (CHOOSE x \in older : TRUE) /\ i \in older
        BY <3>2
      <4>2. PICK r : r = Rec(c, "superseded", i, NoTip) /\ writes' = Append(writes, r)
        BY <2>1, <3>2, <4>1
      <4>3. i \in Ids /\ i[1] = id[1] /\ Known(i)
        BY <1>1, <4>1, ElemsOf DEF IInv, QueueIs, Known
      <4>4. Known(i)'
        BY <4>3 DEF Onward
      <4>5. r \in Record /\ r.id = i /\ r.type = "superseded"
        BY <4>2, <4>3, Names DEF Rec, Record, Types, Tips
      <4>6. RecordOk(r)' /\ Asks(r)
        BY <2>2, <4>3, <4>4, <4>5 DEF RecordOk, Asks
      <4> QED  BY <4>2, <4>3, <4>5, <4>6
    <3> QED  BY <3>1, <3>2
  <2>4. \A w \in Elems(writes) : w \in Record /\ RecordOk(w) /\ (Asks(w) => Owner[w.id[1]] # c)
    <3> SUFFICES ASSUME NEW w \in Elems(writes)
                 PROVE  w \in Record /\ RecordOk(w) /\ (Asks(w) => Owner[w.id[1]] # c)
      OBVIOUS
    <3>1. w \in Record /\ RecordOk(w)
      BY <1>1, ElemsOf DEF IInv, Written
    <3>2. w.id \in Ids /\ w.id # NoCall
      BY <3>1, Names DEF Record
    <3> QED  BY <3>1, <3>2 DEF Asks, RecordOk
  <2>5. \A w \in Elems(writes) : RecordOk(w)'
    <3> SUFFICES ASSUME NEW w \in Elems(writes) PROVE RecordOk(w)'
      OBVIOUS
    <3>1. w \in Record /\ RecordOk(w) /\ (Asks(w) => Owner[w.id[1]] # c)
      BY <2>4
    <3>2. Owner[w.id[1]] \in Clients
      BY <3>1, Names DEF Record
    <3>3. Asks(w) => calls'[Owner[w.id[1]]] = calls[Owner[w.id[1]]]
      BY <2>2, <3>1, <3>2
    <3> QED  BY <3>1, <3>3, RecordStays
  <2>6. /\ writes' \in Seq(Record) /\ Elems(writes') = Elems(writes) \cup {r}
        /\ DOMAIN writes' = DOMAIN writes \cup {Len(writes) + 1}
        /\ writes'[Len(writes) + 1] = r /\ \A i \in DOMAIN writes : writes'[i] = writes[i]
    BY <1>1, <2>3, ElemsOf
  <2>7. \A w \in Elems(writes') : RecordOk(w)'
    BY <2>3, <2>5, <2>6
  <2>8. \A k \in DOMAIN writes : ~SameAsker(writes[k], r) /\ ~SameAsker(r, writes[k])
    BY <2>3, <2>4 DEF SameAsker, Elems
  <2>9. \A j, k \in DOMAIN writes' : SameAsker(writes'[j], writes'[k]) => j = k
    BY <2>6, <2>8 DEF IInv, Written
  <2> QED  BY <1>3, <2>2, <2>6, <2>7, <2>9 DEF Written
<1> QED  BY <1>2, <1>3

\* A branch is pushed and enqueued, its blockers having been before it.
LEMMA EnqueueKeeps ==
    ASSUME IInv, NEW c \in Clients, Enqueue(c)
    PROVE  IInv'
<1>1. PICK b : b = Current(c)
  OBVIOUS
<1>2. PICK id : id = <<b, ver[b]>>
  OBVIOUS
<1>3. /\ cl[c].pc = "enqueue" /\ cl[c].i <= Len(Worktrees[c]) /\ calls[c] = NoCall
      /\ ref' = [ref EXCEPT ![b] = ver[b]] /\ HandleEnqueue(c, id)
      /\ UNCHANGED <<target, hist, state, queue, pushed, log, svc, casc, ver>>
  BY <1>1, <1>2 DEF Enqueue
<1>4. /\ cl \in [Clients -> Landing] /\ cl[c] \in Landing /\ cl[c].i \in Nat /\ cl[c].i # 0
      /\ LandingOk(c) /\ BlockersOf(c) /\ ver \in [Branches -> 1..MaxVersion]
      /\ ent \in [Branches -> Entry]
      /\ \A x \in Branches : ent[x].out = "open" => ent[x].v # 0
  BY <1>3 DEF IInv, ClientTypes, LandingOk, Landing, BlockersKnown
<1>5. PICK n \in Nat : n = Len(Worktrees[c]) /\ DOMAIN Worktrees[c] = 1..n
  BY WorktreesAre
<1>6. cl[c].i \in DOMAIN Worktrees[c]
  BY <1>3, <1>4, <1>5
<1>7. b \in Branches /\ Owner[b] = c /\ b = Worktrees[c][cl[c].i]
  BY <1>1, <1>6, WorktreesAre DEF Current
<1>8. id \in Ids /\ id[1] = b /\ id[2] = ver[b] /\ ver[b] \in 1..MaxVersion /\ ver[b] # 0
  BY <1>2, <1>4, <1>7 DEF Ids
<1>9. Onward
  BY <1>3 DEF Onward, Known
<1>10. /\ writes' \in Seq(Record) /\ Written' /\ calls' \in [Clients -> Ids \cup {NoCall}]
       /\ \A d \in Clients : d # c => calls'[d] = calls[d]
       /\ state[id] # "none" => calls' = calls
       /\ state[id] = "none" => calls'[c] = id
  BY <1>3, <1>7, <1>8, <1>9, Asked
<1>11. ref' \in [Branches -> 0..MaxVersion]
  BY <1>3, <1>7, <1>8 DEF IInv, TrainTypes
<1>12. Histories'
  <2>1. \A d \in Clients : calls'[d] # NoCall => Made(calls'[d]) /\ Owner[calls'[d][1]] = d
    <3> SUFFICES ASSUME NEW d \in Clients, calls'[d] # NoCall
                 PROVE  Made(calls'[d]) /\ Owner[calls'[d][1]] = d
      OBVIOUS
    <3>1. CASE calls'[d] = calls[d]
      BY <3>1 DEF IInv, Histories
    <3>2. CASE calls'[d] # calls[d]
      <4>1. d = c /\ calls'[d] = id
        BY <1>10, <3>2
      <4>2. ver[b] <= ver[b]
        BY <1>8
      <4> QED  BY <1>7, <1>8, <4>1, <4>2 DEF Made
    <3> QED  BY <3>1, <3>2
  <2> QED  BY <1>3, <2>1 DEF IInv, Histories, Known, Made
<1>13. \A x \in BlockedBy[b] : KnownBranch(x)
  <2> SUFFICES ASSUME NEW x \in BlockedBy[b] PROVE KnownBranch(x)
    OBVIOUS
  <2>1. PICK k \in DOMAIN Worktrees[c] : k < cl[c].i /\ Worktrees[c][k] = x
    <3>1. \A j \in DOMAIN Worktrees[c] : \A y \in BlockedBy[Worktrees[c][j]] :
             \E k \in DOMAIN Worktrees[c] : k < j /\ Worktrees[c][k] = y
      BY BlockersFirst
    <3> QED  BY <1>6, <1>7, <3>1
  <2>2. Enqueuing(c, k)
    BY <1>3, <2>1 DEF Enqueuing
  <2> QED  BY <1>4, <2>1, <2>2 DEF BlockersOf
<1>14. hist' \in [Ids -> SUBSET Pieces] /\ ver' \in [Branches -> 1..MaxVersion]
  BY <1>3, <1>4 DEF IInv, TrainTypes
<1>15. CASE state[id] = "none"
  <2>1. cl' = [cl EXCEPT ![c].pc = "enqueuing"] /\ ent' = ent
    BY <1>1, <1>2, <1>15 DEF Enqueue
  <2>2. /\ cl' \in [Clients -> Landing] /\ \A d \in Clients : d # c => cl'[d] = cl[d]
        /\ cl'[c].pc = "enqueuing" /\ cl'[c].i = cl[c].i /\ cl'[c].upto = cl[c].upto
    BY <1>4, <2>1 DEF Landing, Stages
  <2>3. LandingOk(c)'
    BY <1>3, <1>4, <1>6, <2>2 DEF LandingOk
  <2>4. calls'[c] = Wanted(c)'
    BY <1>1, <1>2, <1>3, <1>10, <1>15, <2>2 DEF Wanted, Current
  <2>5. \A j \in DOMAIN Worktrees[c] : Enqueuing(c, j)' => KnownBranch(Worktrees[c][j])'
    BY <1>3, <1>4, <2>2 DEF Enqueuing, BlockersOf, KnownBranch, Known
  <2>6. \A x \in BlockedBy[calls'[c][1]] : KnownBranch(x)'
    BY <1>3, <1>8, <1>10, <1>13, <1>15 DEF KnownBranch, Known
  <2>7. BlockersOf(c)'
    BY <2>4, <2>5, <2>6 DEF BlockersOf
  <2> QED  BY <1>3, <1>4, <1>9, <1>10, <1>11, <1>12, <1>14, <2>1, <2>2, <2>3, <2>7, ClientKeeps
<1>16. CASE state[id] # "none"
  <2> DEFINE out == IF state[id] = "queued" THEN "open"
                    ELSE IF state[id] = "landed" THEN "landed" ELSE "ejected"
             e == [v |-> ver[b], repairs |-> 0, out |-> out]
  <2>1. cl' = [cl EXCEPT ![c].i = cl[c].i + 1] /\ ent' = [ent EXCEPT ![b] = e]
    BY <1>1, <1>2, <1>16 DEF Enqueue
  <2>2. out \in Outcomes
    BY DEF Outcomes
  <2> HIDE DEF out
  <2>3. e \in Entry /\ e.v # 0
    BY <1>8, <2>2 DEF Entry
  <2> HIDE DEF e
  <2>4. /\ ent' \in [Branches -> Entry]
        /\ \A x \in Branches : ent'[x].out = "open" => ent'[x].v # 0
    BY <1>4, <1>7, <2>1, <2>3
  <2>5. /\ cl' \in [Clients -> Landing] /\ \A d \in Clients : d # c => cl'[d] = cl[d]
        /\ cl'[c].pc = "enqueue" /\ cl'[c].i = cl[c].i + 1 /\ cl'[c].upto = cl[c].upto
    <3>1. PICK j \in Nat : j = cl[c].i + 1
      BY <1>4
    <3>2. cl' = [cl EXCEPT ![c].i = j]
      BY <2>1, <3>1
    <3>3. /\ cl' \in [Clients -> Landing] /\ \A d \in Clients : d # c => cl'[d] = cl[d]
          /\ cl'[c] = [cl[c] EXCEPT !.i = j]
      BY <1>4, <3>2 DEF Landing
    <3> QED  BY <1>3, <1>4, <3>1, <3>3 DEF Landing
  <2>6. LandingOk(c)'
    BY <1>3, <1>4, <2>5 DEF LandingOk
  <2>7. KnownBranch(b)
    BY <1>2, <1>8, <1>16 DEF KnownBranch, Known
  <2>8. \A j \in DOMAIN Worktrees[c] : j < cl[c].i + 1 => j < cl[c].i \/ j = cl[c].i
    BY <1>4, <1>5
  <2>9. \A j \in DOMAIN Worktrees[c] : Enqueuing(c, j)' => KnownBranch(Worktrees[c][j])'
    <3> SUFFICES ASSUME NEW j \in DOMAIN Worktrees[c], Enqueuing(c, j)'
                 PROVE  KnownBranch(Worktrees[c][j])
      BY <1>3 DEF KnownBranch, Known
    <3>1. Enqueuing(c, j) \/ j = cl[c].i
      BY <1>3, <2>5, <2>8 DEF Enqueuing
    <3> QED  BY <1>4, <1>7, <2>7, <3>1 DEF BlockersOf
  <2>10. BlockersOf(c)'
    BY <1>3, <1>10, <1>16, <2>5, <2>9 DEF BlockersOf
  <2> QED  BY <1>3, <1>9, <1>10, <1>11, <1>12, <1>14, <2>4, <2>5, <2>6, <2>10, ClientKeeps
<1> QED  BY <1>15, <1>16

\* Where a landing is.
LEMMA LandingIs ==
    ASSUME IInv, NEW c \in Clients
    PROVE  /\ cl \in [Clients -> Landing] /\ cl[c] \in Landing /\ LandingOk(c) /\ BlockersOf(c)
           /\ cl[c].i \in Nat /\ cl[c].at \in Nat /\ cl[c].upto \in Nat
           /\ ver \in [Branches -> 1..MaxVersion] /\ ent \in [Branches -> Entry]
           /\ \A b \in Branches : /\ ent[b].out = "open" => ent[b].v # 0
                                  /\ ver[b] \in Nat /\ ver[b] # 0 /\ ver[b] \in 0..MaxVersion
           /\ log[c] \in Seq(Ids \X Told) /\ Len(log[c]) \in Nat
<1>1. cl \in [Clients -> Landing] /\ LandingOk(c) /\ BlockersOf(c)
  BY DEF IInv, ClientTypes, BlockersKnown
<1>2. cl[c] \in Landing
  BY <1>1
<1>3. cl[c].i \in Nat /\ cl[c].at \in Nat /\ cl[c].upto \in Nat
  BY <1>2 DEF Landing
<1>4. /\ ver \in [Branches -> 1..MaxVersion] /\ ent \in [Branches -> Entry]
      /\ \A b \in Branches : ent[b].out = "open" => ent[b].v # 0
  BY DEF IInv, ClientTypes
<1>5. \A b \in Branches : ver[b] \in Nat /\ ver[b] # 0 /\ ver[b] \in 0..MaxVersion
  BY <1>4, TrainConstants
<1>6. log[c] \in Seq(Ids \X Told)
  BY DEF IInv, TrainTypes
<1> QED  BY <1>1, <1>2, <1>3, <1>4, <1>5, <1>6

\* The branch a client is at is its own.
LEMMA CurrentIs ==
    ASSUME IInv, NEW c \in Clients, cl[c].pc \in {"enqueuing", "repair", "repairing"}
    PROVE  /\ Current(c) \in Branches /\ Owner[Current(c)] = c
           /\ cl[c].i \in DOMAIN Worktrees[c] /\ Current(c) = Worktrees[c][cl[c].i]
           /\ Wanted(c) \in Ids /\ Wanted(c) # NoCall
           /\ Wanted(c)[1] = Current(c) /\ Wanted(c)[2] = ver[Current(c)]
<1>1. cl[c].i \in DOMAIN Worktrees[c]
  BY LandingIs DEF LandingOk
<1>2. Current(c) = Worktrees[c][cl[c].i]
  BY DEF Current
<1>3. Current(c) \in Branches /\ Owner[Current(c)] = c
  BY <1>1, <1>2, WorktreesAre
<1>4. Wanted(c) \in Ids
  BY <1>3, LandingIs DEF Wanted, Ids
<1> QED  BY <1>1, <1>2, <1>3, <1>4, Names DEF Wanted

\* An entry that ends is not open.
LEMMA SettleIs ==
    ASSUME IInv, NEW b \in Branches, NEW out \in Outcomes \ {"open"}
    PROVE  /\ Settle(b, out) \in [Branches -> Entry]
           /\ \A x \in Branches : Settle(b, out)[x].out = "open" => Settle(b, out)[x].v # 0
<1>1. /\ ent \in [Branches -> Entry] /\ \A x \in Branches : ent[x].out = "open" => ent[x].v # 0
  BY DEF IInv, ClientTypes
<1>2. ent[b] \in Entry /\ [ent[b] EXCEPT !.out = out] \in Entry
  BY <1>1 DEF Entry
<1>3. [ent[b] EXCEPT !.out = out].out = out
  BY <1>2 DEF Entry
<1> QED  BY <1>1, <1>2, <1>3 DEF Settle

\* A client that follows its entries has enqueued them all, and goes on doing so.
LEMMA FollowsOn ==
    ASSUME IInv, NEW c \in Clients, UNCHANGED <<state, log, ver, calls>>,
           cl[c].pc \in {"follow", "repair", "repairing"}, cl'[c].pc \in {"follow", "repair"},
           cl'[c].upto = cl[c].upto,
           cl'[c].pc = "repair" => cl'[c].i \in DOMAIN Worktrees[c]
    PROVE  LandingOk(c)' /\ BlockersOf(c)'
<1>1. LandingOk(c) /\ BlockersOf(c)
  BY LandingIs
<1>2. LandingOk(c)'
  BY <1>1 DEF LandingOk
<1>3. \A j \in DOMAIN Worktrees[c] : KnownBranch(Worktrees[c][j])
  BY <1>1 DEF BlockersOf, Enqueuing
<1>4. \A b : KnownBranch(b)' = KnownBranch(b)
  BY DEF KnownBranch, Known
<1> QED  BY <1>1, <1>2, <1>3, <1>4 DEF BlockersOf

\* The train's answer to an enqueue: it knows the commit, since it wrote its record.
LEMMA EnqueuedKeeps ==
    ASSUME IInv, NEW c \in Clients, Enqueued(c)
    PROVE  IInv'
<1>1. PICK b : b = Current(c)
  OBVIOUS
<1>2. PICK e : e = [NoEntry EXCEPT !.v = ver[b], !.out = "open"]
  OBVIOUS
<1>3. /\ cl[c].pc = "enqueuing" /\ calls[c] = NoCall
      /\ ent' = [ent EXCEPT ![b] = e]
      /\ cl' = [cl EXCEPT ![c].pc = "enqueue", ![c].i = cl[c].i + 1]
      /\ UNCHANGED <<trainVars, ver>>
  BY <1>1, <1>2 DEF Enqueued
<1>4. UNCHANGED <<target, ref, hist, state, queue, pushed, log, svc, writes, casc, calls, ver>>
  BY <1>3 DEF trainVars
<1>5. b \in Branches /\ b = Worktrees[c][cl[c].i] /\ cl[c].i \in DOMAIN Worktrees[c]
  BY <1>1, <1>3, CurrentIs
<1>6. Known(Wanted(c)) /\ Wanted(c) = <<b, ver[b]>>
  BY <1>1, <1>3, CurrentIs, LandingIs DEF BlockersOf, Wanted
<1>7. KnownBranch(b)
  BY <1>5, <1>6, LandingIs DEF KnownBranch
<1>8. e = [v |-> ver[b], repairs |-> 0, out |-> "open"]
  BY <1>2 DEF NoEntry
<1>9. e \in Entry /\ e.v # 0
  BY <1>5, <1>8, LandingIs DEF Entry, Outcomes
<1>10. ent' \in [Branches -> Entry] /\ \A x \in Branches : ent'[x].out = "open" => ent'[x].v # 0
  BY <1>3, <1>5, <1>9, LandingIs
<1>11. /\ cl' \in [Clients -> Landing] /\ \A d \in Clients : d # c => cl'[d] = cl[d]
       /\ cl'[c].pc = "enqueue" /\ cl'[c].i = cl[c].i + 1 /\ cl'[c].upto = cl[c].upto
  <2>1. PICK j \in Nat : j = cl[c].i + 1
    BY LandingIs
  <2>2. cl' = [cl EXCEPT ![c] = [cl[c] EXCEPT !.pc = "enqueue", !.i = j]]
    BY <1>3, <2>1
  <2>3. [cl[c] EXCEPT !.pc = "enqueue", !.i = j] \in Landing
    BY <2>1, LandingIs DEF Landing, Stages
  <2>4. /\ cl' \in [Clients -> Landing] /\ \A d \in Clients : d # c => cl'[d] = cl[d]
        /\ cl'[c] = [cl[c] EXCEPT !.pc = "enqueue", !.i = j]
    BY <2>2, <2>3, LandingIs
  <2> QED  BY <2>1, <2>4, LandingIs DEF Landing
<1>12. LandingOk(c)'
  <2>1. cl[c].i + 1 # 0
    BY LandingIs
  <2> QED  BY <1>4, <1>11, <2>1, LandingIs DEF LandingOk
<1>13. \A j \in DOMAIN Worktrees[c] : j < cl[c].i + 1 => j < cl[c].i \/ j = cl[c].i
  <2>1. \A j \in DOMAIN Worktrees[c] : j \in Nat
    BY WorktreesAre
  <2> QED  BY <2>1, LandingIs
<1>14. \A j \in DOMAIN Worktrees[c] : Enqueuing(c, j)' => KnownBranch(Worktrees[c][j])'
  <2> SUFFICES ASSUME NEW j \in DOMAIN Worktrees[c], Enqueuing(c, j)'
               PROVE  KnownBranch(Worktrees[c][j])
    BY <1>4 DEF KnownBranch, Known
  <2>1. Enqueuing(c, j) \/ j = cl[c].i
    BY <1>3, <1>11, <1>13 DEF Enqueuing
  <2> QED  BY <1>5, <1>7, <2>1, LandingIs DEF BlockersOf
<1>15. BlockersOf(c)'
  BY <1>3, <1>4, <1>11, <1>14 DEF BlockersOf
<1> QED  BY <1>4, <1>10, <1>11, <1>12, <1>15, OwnStepKeeps

\* A poll ends the landing, stops it or asks for the records that have come.
LEMMA PollKeeps ==
    ASSUME IInv, NEW c \in Clients, Poll(c)
    PROVE  IInv'
<1>1. UNCHANGED <<target, ref, hist, state, queue, pushed, log, svc, writes, casc, calls, ver>>
      /\ ent' = ent
  BY DEF Poll, trainVars
<1>2. ent' \in [Branches -> Entry] /\ \A x \in Branches : ent'[x].out = "open" => ent'[x].v # 0
  BY <1>1, LandingIs
<1>3. \/ cl' = [cl EXCEPT ![c] = [cl[c] EXCEPT !.pc = "done"]]
      \/ cl' = [cl EXCEPT ![c] = [cl[c] EXCEPT !.pc = "withdraw"]]
      \/ cl' = [cl EXCEPT ![c] = [cl[c] EXCEPT !.pc = "follow", !.upto = Len(log[c])]]
  BY DEF Poll
<1>4. /\ cl' \in [Clients -> Landing] /\ \A d \in Clients : d # c => cl'[d] = cl[d]
      /\ cl'[c].i = cl[c].i /\ cl'[c].pc \in {"done", "withdraw", "follow"}
      /\ cl'[c].upto <= Len(log[c])
  <2>1. PICK l \in Nat : l = Len(log[c]) /\ l <= l
    BY LandingIs
  <2>2. cl[c].upto <= l
    BY <2>1, LandingIs DEF LandingOk
  <2> DEFINE New(p, u) == [cl EXCEPT ![c] = [cl[c] EXCEPT !.pc = p, !.upto = u]]
  <2>3. \A p : New(p, cl[c].upto) = [cl EXCEPT ![c] = [cl[c] EXCEPT !.pc = p]]
    <3>1. \A p : [cl[c] EXCEPT !.pc = p, !.upto = cl[c].upto] = [cl[c] EXCEPT !.pc = p]
      BY LandingIs DEF Landing
    <3> QED  BY <3>1
  <2>4. ASSUME NEW p \in {"done", "withdraw", "follow"}, NEW u \in Nat, u <= l, cl' = New(p, u)
        PROVE  /\ cl' \in [Clients -> Landing] /\ \A d \in Clients : d # c => cl'[d] = cl[d]
               /\ cl'[c].i = cl[c].i /\ cl'[c].pc \in {"done", "withdraw", "follow"}
               /\ cl'[c].upto <= Len(log[c])
    <3> DEFINE x == [cl[c] EXCEPT !.pc = p, !.upto = u]
    <3>1. x \in Landing /\ x.i = cl[c].i /\ x.pc = p /\ x.upto = u
      BY LandingIs DEF Landing, Stages
    <3>2. cl' = [cl EXCEPT ![c] = x]
      BY <2>4
    <3> HIDE DEF x
    <3> QED  BY <2>1, <2>4, <3>1, <3>2, LandingIs
  <2>5. cl' = New("done", cl[c].upto) \/ cl' = New("withdraw", cl[c].upto) \/ cl' = New("follow", l)
    BY <1>3, <2>1, <2>3
  <2> HIDE DEF New
  <2> QED  BY <2>1, <2>2, <2>4, <2>5, LandingIs
<1>5. CASE cl[c].pc = "follow"
  <2>1. LandingOk(c)' /\ BlockersOf(c)'
    BY <1>1, <1>4, <1>5, GoesOn
  <2> QED  BY <1>1, <1>2, <1>4, <2>1, OwnStepKeeps
<1>6. CASE cl[c].pc = "enqueue" /\ cl[c].i > Len(Worktrees[c])
  <2>1. LandingOk(c)'
    BY <1>1, <1>4 DEF LandingOk
  <2>2. \A j \in DOMAIN Worktrees[c] : Enqueuing(c, j)
    <3>1. PICK n \in Nat : n = Len(Worktrees[c]) /\ DOMAIN Worktrees[c] = 1..n
      BY WorktreesAre
    <3>2. \A j \in 1..n : j < cl[c].i
      BY <1>6, <3>1, LandingIs
    <3> QED  BY <1>6, <3>1, <3>2 DEF Enqueuing
  <2>3. \A b : KnownBranch(b)' = KnownBranch(b)
    BY <1>1 DEF KnownBranch, Known
  <2>4. BlockersOf(c)'
    BY <1>1, <1>4, <2>2, <2>3, LandingIs DEF BlockersOf
  <2> QED  BY <1>1, <1>2, <1>4, <2>1, <2>4, OwnStepKeeps
<1> QED  BY <1>5, <1>6 DEF Poll

\* A record is acted on, or passed over.
LEMMA ObserveKeeps ==
    ASSUME IInv, NEW c \in Clients, Observe(c)
    PROVE  IInv'
<1> DEFINE rec == log[c][cl[c].at + 1]
           type == rec[2]
           seen == [cl EXCEPT ![c].at = cl[c].at + 1]
<1>1. PICK b : b = rec[1][1]
  OBVIOUS
<1>2. PICK n \in Nat : n = cl[c].at + 1
  BY LandingIs
<1>3. /\ cl[c].pc = "follow" /\ cl[c].at < cl[c].upto /\ UNCHANGED <<trainVars, ver>>
  BY DEF Observe
<1>4. UNCHANGED <<target, ref, hist, state, queue, pushed, log, svc, writes, casc, calls, ver>>
  BY <1>3 DEF trainVars
<1>5. rec \in Ids \X Told /\ b \in Branches /\ Owner[b] = c
  <2>1. PICK l \in Nat : l = Len(log[c]) /\ DOMAIN log[c] = 1..l
    BY LandingIs
  <2>2. cl[c].at + 1 \in 1..l
    BY <1>3, <2>1, LandingIs DEF LandingOk
  <2>3. rec \in Ids \X Told /\ Owner[rec[1][1]] = c
    BY <2>1, <2>2, LandingIs DEF IInv, ClientTypes
  <2> QED  BY <1>1, <2>3, Names
<1>6. \/ cl' = seen /\ \E out \in Outcomes \ {"open"} : ent' = Settle(b, out)
      \/ cl' = seen /\ ent' = ent
      \/ /\ ent' = [ent EXCEPT ![b].repairs = ent[b].repairs + 1]
         /\ cl' = [seen EXCEPT ![c].pc = "repair",
                               ![c].i = CHOOSE j \in DOMAIN Worktrees[c] : Worktrees[c][j] = b]
  <2> DEFINE mine == ent[b].v = rec[1][2]
  <2>1. CASE mine /\ type \in {"landed", "found"}
    <3>1. cl' = seen /\ ent' = Settle(b, "landed")
      BY <1>1, <2>1 DEF Observe
    <3> QED  BY <3>1 DEF Outcomes
  <2>2. CASE ~(mine /\ type \in {"landed", "found"}) /\ (mine /\ type \in Ejects /\ Repairable(b, type))
    BY <1>1, <2>2 DEF Observe
  <2>3. CASE /\ ~(mine /\ type \in {"landed", "found"})
             /\ ~(mine /\ type \in Ejects /\ Repairable(b, type))
             /\ (mine /\ type \in Ejects \cup {"withdrawn"})
    <3>1. cl' = seen /\ ent' = Settle(b, "ejected")
      BY <1>1, <2>3 DEF Observe
    <3> QED  BY <3>1 DEF Outcomes
  <2>4. CASE /\ ~(mine /\ type \in {"landed", "found"})
             /\ ~(mine /\ type \in Ejects /\ Repairable(b, type))
             /\ ~(mine /\ type \in Ejects \cup {"withdrawn"})
    <3>1. cl' = seen /\ ent' = ent
      BY <1>1, <2>4 DEF Observe
    <3> QED  BY <3>1
  <2> QED  BY <2>1, <2>2, <2>3, <2>4
<1> HIDE DEF rec, type
<1>7. ent' \in [Branches -> Entry] /\ \A x \in Branches : ent'[x].out = "open" => ent'[x].v # 0
  <2>1. CASE \E out \in Outcomes \ {"open"} : ent' = Settle(b, out)
    BY <1>5, <2>1, SettleIs
  <2>2. CASE ent' = ent
    BY <2>2, LandingIs
  <2>3. CASE ent' = [ent EXCEPT ![b].repairs = ent[b].repairs + 1]
    <3>1. PICK k \in Nat : k = ent[b].repairs + 1
      <4>1. ent[b].repairs \in Nat
        BY <1>5, LandingIs DEF Entry
      <4> QED  BY <4>1
    <3>2. /\ [ent[b] EXCEPT !.repairs = k] \in Entry /\ [ent[b] EXCEPT !.repairs = k].out = ent[b].out
          /\ [ent[b] EXCEPT !.repairs = k].v = ent[b].v
      BY <1>5, LandingIs DEF Entry
    <3>3. ent' = [ent EXCEPT ![b] = [ent[b] EXCEPT !.repairs = k]]
      BY <2>3, <3>1
    <3> QED  BY <1>5, <3>2, <3>3, LandingIs
  <2> QED  BY <1>6, <2>1, <2>2, <2>3
<1>8. [cl[c] EXCEPT !.at = n] \in Landing
  BY LandingIs DEF Landing
<1>9. CASE cl' = seen
  <2>1. cl' = [cl EXCEPT ![c] = [cl[c] EXCEPT !.at = n]]
    BY <1>2, <1>9
  <2>2. /\ cl' \in [Clients -> Landing] /\ \A d \in Clients : d # c => cl'[d] = cl[d]
        /\ cl'[c].pc = "follow" /\ cl'[c].upto = cl[c].upto
    BY <1>3, <1>8, <2>1, LandingIs DEF Landing
  <2>3. LandingOk(c)' /\ BlockersOf(c)'
    BY <1>3, <1>4, <2>2, FollowsOn
  <2> QED  BY <1>4, <1>7, <2>2, <2>3, OwnStepKeeps
<1>10. CASE cl' = [seen EXCEPT ![c].pc = "repair",
                               ![c].i = CHOOSE j \in DOMAIN Worktrees[c] : Worktrees[c][j] = b]
  <2>1. PICK i \in DOMAIN Worktrees[c] :
            i = (CHOOSE j \in DOMAIN Worktrees[c] : Worktrees[c][j] = b) /\ i \in Nat
    <3>1. \E j \in DOMAIN Worktrees[c] : Worktrees[c][j] = b
      BY <1>5, WorktreesAre
    <3>2. \A j \in DOMAIN Worktrees[c] : j \in Nat
      BY WorktreesAre
    <3> QED  BY <3>1, <3>2
  <2> DEFINE x == [cl[c] EXCEPT !.at = n, !.pc = "repair", !.i = i]
  <2>2. x \in Landing /\ x.pc = "repair" /\ x.upto = cl[c].upto /\ x.i = i
    BY <2>1, LandingIs DEF Landing, Stages
  <2>3. cl' = [cl EXCEPT ![c] = x]
    <3>1. seen = [cl EXCEPT ![c] = [cl[c] EXCEPT !.at = n]]
      BY <1>2
    <3>2. seen[c] = [cl[c] EXCEPT !.at = n]
      BY <3>1, LandingIs
    <3>3. cl' = [seen EXCEPT ![c] = [seen[c] EXCEPT !.pc = "repair", !.i = i]]
      <4>1. PICK s : s = seen /\ s \in [Clients -> Landing]
        BY <1>8, <3>1, LandingIs
      <4>2. cl' = [s EXCEPT ![c].pc = "repair", ![c].i = i]
        BY <1>10, <2>1, <4>1
      <4>3. cl' = [s EXCEPT ![c] = [s[c] EXCEPT !.pc = "repair", !.i = i]]
        BY <4>1, <4>2
      <4> QED  BY <4>1, <4>3
    <3>4. [[cl[c] EXCEPT !.at = n] EXCEPT !.pc = "repair", !.i = i] = x
      BY LandingIs DEF Landing
    <3>5. cl' = [seen EXCEPT ![c] = x]
      BY <3>2, <3>3, <3>4
    <3> QED  BY <3>1, <3>5, LandingIs
  <2> HIDE DEF x
  <2>4. /\ cl' \in [Clients -> Landing] /\ \A d \in Clients : d # c => cl'[d] = cl[d] /\ cl'[c] = x
    BY <2>2, <2>3, LandingIs
  <2>5. cl'[c] = x
    BY <2>3, LandingIs
  <2>6. LandingOk(c)' /\ BlockersOf(c)'
    BY <1>3, <1>4, <2>1, <2>2, <2>5, FollowsOn
  <2> QED  BY <1>4, <1>7, <2>4, <2>6, OwnStepKeeps
<1> QED  BY <1>6, <1>9, <1>10

\* A repair that ends, one way or the other, goes back to following.
LEMMA BackToFollow ==
    ASSUME IInv, NEW c \in Clients, cl[c].pc \in {"repair", "repairing"},
           cl' = [cl EXCEPT ![c].pc = "follow", ![c].i = 1], UNCHANGED <<trainVars, ver>>,
           ent' \in [Branches -> Entry],
           \A b \in Branches : ent'[b].out = "open" => ent'[b].v # 0
    PROVE  IInv'
<1>1. UNCHANGED <<target, ref, hist, state, queue, pushed, log, svc, writes, casc, calls, ver>>
  BY DEF trainVars
<1> DEFINE x == [cl[c] EXCEPT !.pc = "follow", !.i = 1]
<1>2. x \in Landing /\ x.pc = "follow" /\ x.upto = cl[c].upto /\ cl' = [cl EXCEPT ![c] = x]
  BY LandingIs DEF Landing, Stages
<1> HIDE DEF x
<1>3. cl' \in [Clients -> Landing] /\ cl'[c] = x /\ \A d \in Clients : d # c => cl'[d] = cl[d]
  BY <1>2, LandingIs
<1>4. LandingOk(c)' /\ BlockersOf(c)'
  BY <1>1, <1>2, <1>3, FollowsOn
<1> QED  BY <1>1, <1>3, <1>4, OwnStepKeeps

\* The new commit is followed from then on.
LEMMA RepairedKeeps ==
    ASSUME IInv, NEW c \in Clients, Repaired(c)
    PROVE  IInv'
<1>1. PICK b : b = Current(c)
  OBVIOUS
<1>2. /\ cl[c].pc = "repairing" /\ ent' = [ent EXCEPT ![b].v = ver[b]]
      /\ cl' = [cl EXCEPT ![c].pc = "follow", ![c].i = 1] /\ UNCHANGED <<trainVars, ver>>
  BY <1>1 DEF Repaired
<1>3. b \in Branches
  BY <1>1, <1>2, CurrentIs
<1>4. [ent[b] EXCEPT !.v = ver[b]] \in Entry /\ [ent[b] EXCEPT !.v = ver[b]].v # 0
  BY <1>3, LandingIs DEF Entry
<1>5. ent' \in [Branches -> Entry] /\ \A x \in Branches : ent'[x].out = "open" => ent'[x].v # 0
  <2>1. ent' = [ent EXCEPT ![b] = [ent[b] EXCEPT !.v = ver[b]]]
    BY <1>2
  <2> QED  BY <1>3, <1>4, <2>1, LandingIs
<1> QED  BY <1>2, <1>5, BackToFollow

\* A failed repair settles the entry.
LEMMA RepairFailsKeeps ==
    ASSUME IInv, NEW c \in Clients, RepairFails(c)
    PROVE  IInv'
<1>1. /\ cl[c].pc = "repair" /\ ent' = Settle(Current(c), "ejected")
      /\ cl' = [cl EXCEPT ![c].pc = "follow", ![c].i = 1] /\ UNCHANGED <<trainVars, ver>>
  BY DEF RepairFails
<1>2. Current(c) \in Branches /\ "ejected" \in Outcomes \ {"open"}
  BY <1>1, CurrentIs DEF Outcomes
<1>3. ent' \in [Branches -> Entry] /\ \A x \in Branches : ent'[x].out = "open" => ent'[x].v # 0
  BY <1>1, <1>2, SettleIs
<1> QED  BY <1>1, <1>3, BackToFollow

\* A repaired branch is pushed and enqueued at a commit the train knows nothing of yet.
LEMMA RepairKeeps ==
    ASSUME IInv, NEW c \in Clients, Repair(c)
    PROVE  IInv'
<1>1. PICK b : b = Current(c)
  OBVIOUS
<1>2. PICK v : v = ver[b] + 1
  OBVIOUS
<1>3. PICK id : id = <<b, v>>
  OBVIOUS
<1>4. PICK new : new = hist[<<b, ver[b]>>] \cup {id} \cup target
  OBVIOUS
<1>5. /\ cl[c].pc = "repair" /\ calls[c] = NoCall /\ v <= MaxVersion
      /\ ver' = [ver EXCEPT ![b] = v] /\ hist' = [hist EXCEPT ![id] = new]
      /\ ref' = [ref EXCEPT ![b] = v] /\ HandleEnqueue(c, id)
      /\ cl' = [cl EXCEPT ![c].pc = "repairing"]
      /\ UNCHANGED <<target, state, queue, pushed, log, svc, casc, ent>>
  BY <1>1, <1>2, <1>3, <1>4 DEF Repair
<1>6. /\ b \in Branches /\ Owner[b] = c /\ cl[c].i \in DOMAIN Worktrees[c]
      /\ b = Worktrees[c][cl[c].i]
  BY <1>1, <1>5, CurrentIs
<1>7. ver[b] \in Nat /\ ver[b] \in 1..MaxVersion /\ MaxVersion \in Nat
  BY <1>6, LandingIs, TrainConstants
<1>8. v \in 1..MaxVersion /\ v \in 0..MaxVersion /\ ver[b] < v
  BY <1>2, <1>5, <1>7
<1>9. id \in Ids /\ id[1] = b /\ id[2] = v /\ <<b, ver[b]>> \in Ids
  BY <1>3, <1>6, <1>7, <1>8 DEF Ids
<1>10. ~Made(id)
  BY <1>7, <1>8, <1>9 DEF Made
<1>11. \A i \in Ids : Made(i) => i # id
  BY <1>10
<1>12. hist \in [Ids -> SUBSET Pieces] /\ \A i \in Ids : i # id => hist'[i] = hist[i]
  BY <1>5 DEF IInv, TrainTypes
<1>13. Onward
  <2>1. \A i \in Ids : Known(i) => i # id
    BY <1>11 DEF IInv, Histories
  <2> QED  BY <1>5, <1>12, <2>1 DEF Onward, Known
<1>14. /\ writes' \in Seq(Record) /\ Written' /\ calls' \in [Clients -> Ids \cup {NoCall}]
       /\ \A d \in Clients : d # c => calls'[d] = calls[d]
       /\ state[id] # "none" => calls' = calls
       /\ state[id] = "none" => calls'[c] = id
  BY <1>5, <1>6, <1>9, <1>13, Asked
<1>15. ref' \in [Branches -> 0..MaxVersion] /\ ver' \in [Branches -> 1..MaxVersion]
  BY <1>5, <1>6, <1>8, LandingIs DEF IInv, TrainTypes
<1>16. /\ new \subseteq Pieces /\ id \in new /\ new \subseteq Own(b) \cup target
       /\ hist' \in [Ids -> SUBSET Pieces] /\ hist'[id] = new
  <2>1. hist[<<b, ver[b]>>] \subseteq Pieces /\ target \subseteq Pieces /\ id \in Pieces
    BY <1>9, <1>12, Names DEF IInv, TrainTypes
  <2>2. hist[<<b, ver[b]>>] \subseteq Own(b) \cup target
    BY <1>9 DEF IInv, Histories
  <2>3. id \in Own(b)
    BY <1>3, <1>8 DEF Own
  <2>4. new \subseteq Pieces /\ id \in new /\ new \subseteq Own(b) \cup target
    BY <1>4, <2>1, <2>2, <2>3
  <2> QED  BY <1>5, <1>9, <1>12, <2>4
<1>17. \A x \in Branches : ver'[x] = IF x = b THEN v ELSE ver[x]
  BY <1>5, <1>6, LandingIs
<1>18. \A i \in Ids : (Made(i) => Made(i)') /\ (Made(i)' => Made(i) \/ i = id)
  <2> SUFFICES ASSUME NEW i \in Ids PROVE (Made(i) => Made(i)') /\ (Made(i)' => Made(i) \/ i = id)
    OBVIOUS
  <2>1. i = <<i[1], i[2]>> /\ i[1] \in Branches /\ i[2] \in Nat
    BY Names, TrainConstants
  <2>2. CASE i[1] # b
    BY <1>17, <2>1, <2>2 DEF Made
  <2>3. CASE i[1] = b
    <3>1. Made(i) <=> i[2] <= ver[b]
      BY <2>3 DEF Made
    <3>2. Made(i)' <=> i[2] <= v
      BY <1>6, <1>17, <2>3 DEF Made
    <3>3. i[2] = v => i = id
      BY <1>3, <2>1, <2>3
    <3> QED  BY <1>2, <1>7, <2>1, <3>1, <3>2, <3>3
  <2> QED  BY <2>2, <2>3
<1>19. Histories'
  <2>1. ASSUME NEW i \in Ids
        PROVE  /\ Known(i)' => Made(i)'
               /\ Made(i)' => i \in hist'[i]
               /\ hist'[i] \subseteq Own(i[1]) \cup target'
    <3>1. /\ Known(i) => Made(i)
          /\ Made(i) => i \in hist[i]
          /\ hist[i] \subseteq Own(i[1]) \cup target
      BY DEF IInv, Histories
    <3>2. Known(i)' => Made(i)'
      BY <1>5, <1>18, <3>1 DEF Known
    <3> QED  BY <1>5, <1>9, <1>11, <1>12, <1>16, <1>18, <3>1, <3>2
  <2>2. ASSUME NEW d \in Clients, calls'[d] # NoCall
        PROVE  \E i \in Ids : i = calls'[d] /\ Made(i)' /\ Owner[i[1]] = d
    <3>1. CASE calls'[d] = calls[d]
      <4>1. PICK i \in Ids : i = calls[d]
        BY <2>2, <3>1 DEF IInv, TrainTypes
      <4>2. Made(i) /\ Owner[i[1]] = d
        BY <2>2, <3>1, <4>1 DEF IInv, Histories
      <4>3. Made(i)'
        BY <1>18, <4>2
      <4> QED  BY <3>1, <4>1, <4>2, <4>3
    <3>2. CASE calls'[d] # calls[d]
      <4>1. d = c /\ calls'[d] = id
        BY <1>14, <3>2
      <4>2. v <= v
        BY <1>8
      <4>3. Made(id)'
        BY <1>6, <1>9, <1>17, <4>2 DEF Made
      <4> QED  BY <1>6, <1>9, <4>1, <4>3
    <3> QED  BY <3>1, <3>2
  <2>3. \A d \in Clients : calls'[d] # NoCall =>
           calls'[d][2] <= ver'[calls'[d][1]] /\ Owner[calls'[d][1]] = d
    BY <2>2 DEF Made
  <2> QED  BY <2>1, <2>3 DEF Histories, Made
<1>20. /\ cl' \in [Clients -> Landing] /\ \A d \in Clients : d # c => cl'[d] = cl[d]
       /\ cl'[c].pc = "repairing" /\ cl'[c].i = cl[c].i /\ cl'[c].upto = cl[c].upto
  <2> DEFINE x == [cl[c] EXCEPT !.pc = "repairing"]
  <2>1. /\ x \in Landing /\ x.pc = "repairing" /\ x.i = cl[c].i /\ x.upto = cl[c].upto
        /\ cl' = [cl EXCEPT ![c] = x]
    BY <1>5, LandingIs DEF Landing, Stages
  <2> HIDE DEF x
  <2> QED  BY <2>1, LandingIs
<1>21. \A d \in Clients : d # c => /\ cl'[d] = cl[d] /\ calls'[d] = calls[d]
                                   /\ \A x \in Mine(d) : ver'[x] = ver[x]
  BY <1>6, <1>14, <1>17, <1>20 DEF Mine
<1>22. LandingOk(c)'
  BY <1>5, <1>6, <1>20, LandingIs DEF LandingOk
<1>23. \A j \in DOMAIN Worktrees[c] : KnownBranch(Worktrees[c][j])
  BY <1>5, LandingIs DEF BlockersOf, Enqueuing
<1>24. \A x : KnownBranch(x)' = KnownBranch(x)
  BY <1>5 DEF KnownBranch, Known
<1>25. BlockersOf(c)'
  <2>1. calls'[c] # NoCall => calls'[c] = id
    BY <1>5, <1>14
  <2>2. \A x \in BlockedBy[b] : KnownBranch(x)
    <3>1. \A j \in DOMAIN Worktrees[c] : \A y \in BlockedBy[Worktrees[c][j]] :
             \E k \in DOMAIN Worktrees[c] : k < j /\ Worktrees[c][k] = y
      BY WorktreesAre
    <3> QED  BY <1>6, <1>23, <3>1
  <2>3. calls'[c] # NoCall => \A x \in BlockedBy[calls'[c][1]] : KnownBranch(x)'
    BY <1>9, <1>24, <2>1, <2>2
  <2> QED  BY <1>20, <1>23, <1>24, <2>3 DEF BlockersOf
<1> QED  BY <1>5, <1>13, <1>14, <1>15, <1>16, <1>19, <1>20, <1>21, <1>22, <1>25, LandingIs, ClientKeeps

\* What a stopped landing leaves open is withdrawn while it is queued.
LEMMA WithdrawKeeps ==
    ASSUME IInv, NEW c \in Clients, Withdraw(c)
    PROVE  IInv'
<1>1. /\ cl[c].pc = "withdraw" /\ calls' = calls /\ ver' = ver
      /\ UNCHANGED <<target, ref, hist, state, queue, pushed, log, svc, casc>>
  BY DEF Withdraw, ClientOnly
<1>2. Onward
  BY <1>1 DEF Onward, Known
<1>3. CASE Unsettled(c) = {}
  <2>1. cl' = [cl EXCEPT ![c].pc = "stopped"] /\ writes' = writes /\ ent' = ent
    BY <1>3 DEF Withdraw
  <2> DEFINE x == [cl[c] EXCEPT !.pc = "stopped"]
  <2>2. /\ x \in Landing /\ x.pc = "stopped" /\ x.i = cl[c].i /\ x.upto = cl[c].upto
        /\ cl' = [cl EXCEPT ![c] = x]
    BY <2>1, LandingIs DEF Landing, Stages
  <2> HIDE DEF x
  <2>3. cl' \in [Clients -> Landing] /\ cl'[c] = x /\ \A d \in Clients : d # c => cl'[d] = cl[d]
    BY <2>2, LandingIs
  <2>4. LandingOk(c)' /\ BlockersOf(c)'
    BY <1>1, <2>2, <2>3, LandingIs, GoesOn DEF LandingOk
  <2>5. ent' \in [Branches -> Entry] /\ \A b \in Branches : ent'[b].out = "open" => ent'[b].v # 0
    BY <2>1, LandingIs
  <2> QED  BY <1>1, <2>1, <2>3, <2>4, <2>5, OwnStepKeeps
<1>4. CASE Unsettled(c) # {}
  <2>1. PICK b : b = (CHOOSE x \in Unsettled(c) : TRUE) /\ b \in Unsettled(c)
    BY <1>4
  <2>2. b \in Branches /\ ent[b].out = "open"
    BY <2>1 DEF Unsettled, Mine, Settled
  <2>3. PICK id : id = <<b, ent[b].v>>
    OBVIOUS
  <2>4. HandleWithdraw(c, id) /\ ent' = Settle(b, "withheld") /\ cl' = cl
    BY <1>4, <2>1, <2>3 DEF Withdraw
  <2>5. id \in Ids
    <3>1. ent[b] \in Entry /\ ent[b].v # 0
      BY <2>2, LandingIs
    <3>2. ent[b].v \in 1..MaxVersion
      BY <3>1, TrainConstants DEF Entry
    <3> QED  BY <2>2, <2>3, <3>2 DEF Ids
  <2>6. \/ writes' = writes
        \/ \E r \in Record : writes' = Append(writes, r) /\ RecordOk(r) /\ ~Asks(r)
    <3>1. CASE state[id] = "queued"
      <4>1. PICK r : r = Rec(c, "withdrawn", id, NoTip) /\ writes' = Append(writes, r)
        BY <2>4, <3>1 DEF HandleWithdraw, Submit
      <4>2. r \in Record /\ r.id = id /\ r.type = "withdrawn"
        BY <2>5, <4>1, Names DEF Rec, Record, Types, Told, Tips
      <4>3. RecordOk(r) /\ ~Asks(r)
        BY <3>1, <4>2 DEF RecordOk, Asks, Known
      <4> QED  BY <4>1, <4>2, <4>3
    <3>2. CASE state[id] # "queued"
      BY <2>4, <3>2 DEF HandleWithdraw
    <3> QED  BY <3>1, <3>2
  <2>7. writes' \in Seq(Record) /\ Written'
    BY <1>1, <1>2, <2>6, Submitted
  <2>8. /\ ent' \in [Branches -> Entry]
        /\ \A x \in Branches : ent'[x].out = "open" => ent'[x].v # 0
    BY <2>2, <2>4, SettleIs DEF Outcomes
  <2>9. Histories'
    BY <1>1 DEF IInv, Histories, Known, Made
  <2>10. LandingOk(c)' /\ BlockersOf(c)'
    BY <1>1, <2>4, LandingIs, GoesOn DEF LandingOk
  <2>11. /\ ref' \in [Branches -> 0..MaxVersion] /\ hist' \in [Ids -> SUBSET Pieces]
         /\ calls' \in [Clients -> Ids \cup {NoCall}] /\ ver' \in [Branches -> 1..MaxVersion]
         /\ cl' \in [Clients -> Landing]
    BY <1>1, <2>4 DEF IInv, TrainTypes, ClientTypes
  <2> QED  BY <1>1, <1>2, <2>4, <2>7, <2>8, <2>9, <2>10, <2>11, ClientKeeps
<1> QED  BY <1>3, <1>4

\* What a cut connection does to its client: the landing stops, or follows on.
LEMMA CutIs ==
    ASSUME IInv, NEW C, C \subseteq Clients, Cut(C)
    PROVE  /\ ent' \in [Branches -> Entry] /\ cl' \in [Clients -> Landing]
           /\ \A b \in Branches : ent'[b].out = "open" => ent'[b].v # 0
           /\ \A c \in Clients :
                /\ c \notin C => cl'[c] = cl[c]
                /\ cl'[c].i = cl[c].i /\ cl'[c].upto = cl[c].upto
                /\ \/ cl'[c].pc \in {cl[c].pc, "withdraw"} /\ cl'[c].pc # "repairing"
                   \/ cl[c].pc = "repairing" /\ cl'[c].pc = "follow"
                   \/ cl'[c] = cl[c]
                /\ c \in C => cl'[c].pc # "enqueuing"
<1> DEFINE lost == {Current(c) : c \in {d \in C : cl[d].pc = "repairing"}}
           to(p) == IF p \in {"enqueue", "enqueuing"} THEN "withdraw"
                    ELSE IF p = "repairing" THEN "follow" ELSE p
           on(c) == [cl[c] EXCEPT !.cut = TRUE, !.pc = to(cl[c].pc)]
<1>1. ent' = [b \in Branches |-> IF b \in lost THEN Settle(b, "ejected")[b] ELSE ent[b]]
  BY DEF Cut
<1>2. cl' = [c \in Clients |-> IF c \in C /\ Running(c) THEN on(c) ELSE cl[c]]
  <2>1. \A c \in Clients :
           [cl[c] EXCEPT !.cut = TRUE,
                         !.pc = IF cl[c].pc \in {"enqueue", "enqueuing"} THEN "withdraw"
                                ELSE IF cl[c].pc = "repairing" THEN "follow" ELSE cl[c].pc] = on(c)
    OBVIOUS
  <2> HIDE DEF on
  <2> QED  BY <2>1 DEF Cut
<1>3. ASSUME NEW b \in Branches
      PROVE  ent'[b] \in Entry /\ (ent'[b].out = "open" => ent'[b].v # 0)
  <2>1. "ejected" \in Outcomes \ {"open"}
    BY DEF Outcomes
  <2>2. /\ Settle(b, "ejected")[b] \in Entry
        /\ Settle(b, "ejected")[b].out = "open" => Settle(b, "ejected")[b].v # 0
    BY <2>1, SettleIs
  <2>3. ent[b] \in Entry /\ (ent[b].out = "open" => ent[b].v # 0)
    BY DEF IInv, ClientTypes
  <2>4. ent'[b] = IF b \in lost THEN Settle(b, "ejected")[b] ELSE ent[b]
    BY <1>1
  <2> QED  BY <2>2, <2>3, <2>4
<1>4. ent' \in [Branches -> Entry]
  BY <1>1, <1>3
<1>5. ASSUME NEW c \in Clients
      PROVE  /\ on(c) \in Landing /\ on(c).i = cl[c].i /\ on(c).upto = cl[c].upto
             /\ on(c).pc = to(cl[c].pc) /\ cl[c] \in Landing
  <2>1. cl[c] \in Landing
    BY LandingIs
  <2>2. to(cl[c].pc) \in Stages
    BY <2>1 DEF Landing, Stages
  <2> HIDE DEF to
  <2> QED  BY <2>1, <2>2 DEF Landing
<1>6. \A c \in Clients : cl'[c] = IF c \in C /\ Running(c) THEN on(c) ELSE cl[c]
  BY <1>2
<1> HIDE DEF on
<1>7. cl' \in [Clients -> Landing]
  BY <1>2, <1>5
<1>8. ASSUME NEW c \in Clients
      PROVE  /\ c \notin C => cl'[c] = cl[c]
             /\ cl'[c].i = cl[c].i /\ cl'[c].upto = cl[c].upto
             /\ \/ cl'[c].pc \in {cl[c].pc, "withdraw"} /\ cl'[c].pc # "repairing"
                \/ cl[c].pc = "repairing" /\ cl'[c].pc = "follow"
                \/ cl'[c] = cl[c]
             /\ c \in C => cl'[c].pc # "enqueuing"
  <2>1. CASE c \in C /\ Running(c)
    BY <1>5, <1>6, <2>1 DEF Running
  <2>2. CASE ~(c \in C /\ Running(c))
    BY <1>6, <2>2 DEF Running
  <2> QED  BY <2>1, <2>2
<1> QED  BY <1>3, <1>4, <1>7, <1>8

\* A landing whose connection was cut knows no less of its blockers.
LEMMA CutGoesOn ==
    ASSUME IInv, NEW C, C \subseteq Clients, Cut(C), UNCHANGED <<state, log, ver>>,
           NEW c \in Clients, calls'[c] \in {calls[c], NoCall},
           c \notin C => calls'[c] = calls[c]
    PROVE  LandingOk(c)' /\ BlockersOf(c)'
<1>1. /\ cl'[c].i = cl[c].i /\ cl'[c].upto = cl[c].upto
      /\ \/ cl'[c].pc \in {cl[c].pc, "withdraw"} /\ cl'[c].pc # "repairing"
         \/ cl[c].pc = "repairing" /\ cl'[c].pc = "follow"
         \/ cl'[c] = cl[c]
      /\ c \in C => cl'[c].pc # "enqueuing"
  BY CutIs
<1>2. \/ cl'[c].pc \in {cl[c].pc, "withdraw", "done", "stopped", "dead"}
      \/ cl[c].pc \in {"repair", "repairing", "follow"} /\ cl'[c].pc \in {"follow", "repairing"}
  BY <1>1
<1>3. cl'[c].pc = "repairing" => cl[c].pc \in {"repair", "repairing"}
  BY <1>1
<1>4. cl'[c].upto <= Len(log[c])
  BY <1>1, LandingIs DEF LandingOk
<1>5. cl'[c].pc = "enqueuing" => calls'[c] = calls[c]
  BY <1>1
<1> QED  BY <1>1, <1>2, <1>3, <1>4, <1>5, GoesOn

\* A cancel cuts its client's connection.
LEMMA CancelKeeps ==
    ASSUME IInv, NEW c \in Clients, Cancel(c)
    PROVE  IInv'
<1>1. /\ Cut({c}) /\ ver' = ver
      /\ UNCHANGED <<target, ref, hist, state, queue, pushed, log, svc, writes, casc, calls, ver>>
  BY DEF Cancel, TrainButTroubles
<1>2. LandingOk(c)' /\ BlockersOf(c)'
  BY <1>1, CutGoesOn
<1>3. /\ ent' \in [Branches -> Entry] /\ cl' \in [Clients -> Landing]
      /\ \A b \in Branches : ent'[b].out = "open" => ent'[b].v # 0
      /\ \A d \in Clients : d # c => cl'[d] = cl[d]
  BY <1>1, CutIs
<1> QED  BY <1>1, <1>2, <1>3, OwnStepKeeps

\* A host that dies leaves its call in flight to the service.
LEMMA DieKeeps ==
    ASSUME IInv, NEW c \in Clients, Die(c)
    PROVE  IInv'
<1>1. /\ cl' = [cl EXCEPT ![c].pc = "dead"] /\ ent' = ent
      /\ UNCHANGED <<target, ref, hist, state, queue, pushed, log, svc, writes, casc, calls, ver>>
  BY DEF Die, TrainButTroubles
<1> DEFINE x == [cl[c] EXCEPT !.pc = "dead"]
<1>2. /\ x \in Landing /\ x.pc = "dead" /\ x.i = cl[c].i /\ x.upto = cl[c].upto
      /\ cl' = [cl EXCEPT ![c] = x]
  BY <1>1, LandingIs DEF Landing, Stages
<1> HIDE DEF x
<1>3. cl' \in [Clients -> Landing] /\ cl'[c] = x /\ \A d \in Clients : d # c => cl'[d] = cl[d]
  BY <1>2, LandingIs
<1>4. LandingOk(c)' /\ BlockersOf(c)'
  BY <1>1, <1>2, <1>3, LandingIs, GoesOn DEF LandingOk
<1>5. ent' \in [Branches -> Entry] /\ \A b \in Branches : ent'[b].out = "open" => ent'[b].v # 0
  BY <1>1, LandingIs
<1> QED  BY <1>1, <1>3, <1>4, <1>5, OwnStepKeeps

\* A resumed run may have made new commits, of which the train knows nothing.
LEMMA LandAgainKeeps ==
    ASSUME IInv, NEW c \in Clients, LandAgain(c)
    PROVE  IInv'
<1>1. /\ cl[c].pc = "dead" /\ calls[c] = NoCall /\ cl' = [cl EXCEPT ![c] = Start]
      /\ ent' = [b \in Branches |-> IF b \in Mine(c) THEN NoEntry ELSE ent[b]]
      /\ UNCHANGED <<target, ref, state, queue, pushed, log, svc, writes, casc, calls, troubles>>
  BY DEF LandAgain
<1>2. PICK moved \in SUBSET {b \in Mine(c) : ver[b] < MaxVersion} :
         /\ ver' = [b \in Branches |-> IF b \in moved THEN ver[b] + 1 ELSE ver[b]]
         /\ hist' = [i \in Ids |-> IF i[1] \in moved /\ i[2] = ver[i[1]] + 1
                                     THEN hist[<<i[1], ver[i[1]]>>] \cup {i} ELSE hist[i]]
  BY DEF LandAgain
<1>3. \A b \in moved : b \in Branches /\ Owner[b] = c /\ ver[b] < MaxVersion
  BY DEF Mine
<1> DEFINE Fresh(i) == i[1] \in moved /\ i[2] = ver[i[1]] + 1
<1>4. \A b \in Branches : ver[b] \in 1..MaxVersion /\ ver[b] \in Nat /\ MaxVersion \in Nat
  BY LandingIs, TrainConstants DEF IInv, ClientTypes
<1>5. \A b \in Branches : ver'[b] = IF b \in moved THEN ver[b] + 1 ELSE ver[b]
  BY <1>2
<1>6. ver' \in [Branches -> 1..MaxVersion]
  <2>1. \A b \in Branches : ver'[b] \in 1..MaxVersion
    BY <1>3, <1>4, <1>5
  <2> QED  BY <1>2, <2>1
<1>7. \A i \in Ids : (Made(i) => Made(i)' /\ ~Fresh(i)) /\ (Made(i)' => Made(i) \/ Fresh(i))
  <2> SUFFICES ASSUME NEW i \in Ids
               PROVE  (Made(i) => Made(i)' /\ ~Fresh(i)) /\ (Made(i)' => Made(i) \/ Fresh(i))
    OBVIOUS
  <2>1. i[1] \in Branches /\ i[2] \in Nat
    BY Names, TrainConstants
  <2>2. Made(i) <=> i[2] <= ver[i[1]]
    BY DEF Made
  <2>3. Made(i)' <=> i[2] <= IF i[1] \in moved THEN ver[i[1]] + 1 ELSE ver[i[1]]
    BY <1>5, <2>1 DEF Made
  <2> QED  BY <1>4, <2>1, <2>2, <2>3
<1>8. ASSUME NEW i \in Ids
      PROVE  /\ hist'[i] \subseteq Pieces
             /\ Made(i)' => i \in hist'[i]
             /\ hist'[i] \subseteq Own(i[1]) \cup target
             /\ ~Fresh(i) => hist'[i] = hist[i]
  <2>1. /\ hist[i] \subseteq Pieces /\ (Made(i) => i \in hist[i]) /\ hist[i] \subseteq Own(i[1]) \cup target
        /\ hist'[i] = IF Fresh(i) THEN hist[<<i[1], ver[i[1]]>>] \cup {i} ELSE hist[i]
    BY <1>2 DEF IInv, TrainTypes, Histories
  <2>2. CASE ~Fresh(i)
    BY <1>7, <2>1, <2>2
  <2>3. CASE Fresh(i)
    <3>1. PICK j : j = <<i[1], ver[i[1]]>>
      OBVIOUS
    <3>2. j \in Ids /\ j[1] = i[1]
      BY <1>4, <3>1, Names DEF Ids
    <3>3. hist[j] \subseteq Pieces /\ hist[j] \subseteq Own(i[1]) \cup target
      BY <3>2 DEF IInv, TrainTypes, Histories
    <3>4. i \in Own(i[1]) /\ i \in Pieces
      BY Names DEF Own
    <3>5. hist'[i] = hist[j] \cup {i}
      BY <2>1, <2>3, <3>1
    <3> QED  BY <2>3, <3>3, <3>4, <3>5
  <2> QED  BY <2>2, <2>3
<1>9. Onward
  <2>1. \A i \in Ids : Known(i) => ~Fresh(i)
    BY <1>7 DEF IInv, Histories
  <2> HIDE DEF Fresh
  <2> QED  BY <1>1, <1>8, <2>1 DEF Onward, Known
<1>10. hist' \in [Ids -> SUBSET Pieces]
  BY <1>2, <1>8
<1> HIDE DEF Fresh
<1>11. Histories'
  <2>1. \A i \in Ids : Known(i)' => Made(i)'
    BY <1>1, <1>7 DEF IInv, Histories, Known
  <2>2. \A d \in Clients : calls'[d] # NoCall =>
           calls'[d][2] <= ver'[calls'[d][1]] /\ Owner[calls'[d][1]] = d
    <3> SUFFICES ASSUME NEW d \in Clients, calls[d] # NoCall
                 PROVE  calls[d][2] <= ver'[calls[d][1]] /\ Owner[calls[d][1]] = d
      BY <1>1
    <3>1. PICK i \in Ids : i = calls[d]
      BY DEF IInv, TrainTypes
    <3>2. Made(i) /\ Owner[i[1]] = d
      BY <3>1 DEF IInv, Histories
    <3>3. Made(i)'
      BY <1>7, <3>2
    <3> QED  BY <3>1, <3>2, <3>3 DEF Made
  <2> QED  BY <1>1, <1>8, <2>1, <2>2 DEF Histories, Made
<1>12. Start \in Landing /\ NoEntry \in Entry /\ NoEntry.out # "open"
  BY TrainConstants DEF Start, Landing, Stages, NoEntry, Entry, Outcomes
<1>13. /\ ent' \in [Branches -> Entry]
       /\ \A b \in Branches : ent'[b].out = "open" => ent'[b].v # 0
  BY <1>1, <1>12, LandingIs
<1>14. cl' \in [Clients -> Landing] /\ cl'[c] = Start /\ \A d \in Clients : d # c => cl'[d] = cl[d]
  BY <1>1, <1>12, LandingIs
<1>15. \A d \in Clients : d # c => /\ cl'[d] = cl[d] /\ calls'[d] = calls[d]
                                   /\ \A x \in Mine(d) : ver'[x] = ver[x]
  BY <1>1, <1>3, <1>5, <1>14 DEF Mine
<1>16. LandingOk(c)'
  <2>1. 0 <= Len(log[c])
    BY LandingIs
  <2> QED  BY <1>1, <1>14, <2>1 DEF LandingOk, Start
<1>17. BlockersOf(c)'
  <2>1. \A j \in DOMAIN Worktrees[c] : ~(j < 1)
    BY WorktreesAre
  <2> QED  BY <1>1, <1>14, <2>1 DEF BlockersOf, Start, Enqueuing
<1>18. writes' \in Seq(Record) /\ Written'
  BY <1>1, <1>9, Submitted
<1>19. /\ ref' \in [Branches -> 0..MaxVersion] /\ calls' \in [Clients -> Ids \cup {NoCall}]
  BY <1>1 DEF IInv, TrainTypes
<1> QED  BY <1>1, <1>6, <1>9, <1>10, <1>11, <1>13, <1>14, <1>15, <1>16, <1>17, <1>18, <1>19, ClientKeeps

\* A crash of the service leaves what its journal has, and the target.
LEMMA CrashKeeps ==
    ASSUME IInv, Crash
    PROVE  IInv'
<1>1. /\ svc' = Idle /\ writes' = <<>> /\ casc' = [h \in Handlers |-> <<>>]
      /\ calls' = [c \in Clients |-> NoCall]
      /\ UNCHANGED <<target, ref, hist, state, queue, pushed, log, ver>> /\ Cut(Clients)
  BY DEF Crash, ServiceCrash
<1>2. Onward
  BY <1>1 DEF Onward, Known
<1>3. svc' \in Loop /\ Sound(svc)'
  <2>1. PICK s : s = svc' /\ Sound(s)
    BY <1>1, Over
  <2>2. Sound(s)'
    BY <1>2, <2>1, SoundStays
  <2> QED  BY <2>1, <2>2 DEF Sound
<1>4. writes' \in Seq(Record) /\ Written'
  <2>1. writes' \in Seq(Record) /\ Elems(writes') = {} /\ DOMAIN writes' = {}
    BY <1>1, Empty
  <2> QED  BY <2>1 DEF Written
<1>5. casc' \in [Handlers -> Seq(Ids)]
  <2>1. <<>> \in Seq(Ids)
    BY Empty
  <2> QED  BY <1>1, <2>1
<1>6. TrainTypes'
  BY <1>1, <1>3, <1>4, <1>5 DEF IInv, TrainTypes
<1>7. \A c \in Clients : LandingOk(c)' /\ BlockersOf(c)'
  <2> SUFFICES ASSUME NEW c \in Clients PROVE LandingOk(c)' /\ BlockersOf(c)'
    OBVIOUS
  <2>1. calls'[c] = NoCall
    BY <1>1
  <2> QED  BY <1>1, <2>1, CutGoesOn
<1>8. ClientTypes'
  BY <1>1, <1>7, CutIs DEF IInv, ClientTypes
<1>9. BlockersKnown'
  BY <1>1, <1>7 DEF IInv, BlockersKnown, Known, KnownBranch
<1>10. Histories'
  BY <1>1 DEF IInv, Histories, Known, Made
<1>11. QueueIs' /\ PushedPasses' /\ LandedIsInTarget' /\ BlockersLandFirst'
  BY <1>1 DEF IInv, QueueIs, PushedPasses, LandedIsInTarget, BlockersLandFirst
<1> QED  BY <1>3, <1>4, <1>6, <1>8, <1>9, <1>10, <1>11 DEF IInv

(***************************************************************************)
(* Every behaviour                                                         *)
(***************************************************************************)
\* Before the first step nothing is known and nothing is in the target.
LEMMA Initial == Init => IInv
<1> SUFFICES ASSUME Init PROVE IInv
  OBVIOUS
<1>1. /\ target = {} /\ ref = [b \in Branches |-> 0]
      /\ hist = [i \in Ids |-> IF i[2] = 1 THEN {i} ELSE {}]
      /\ state = [i \in Ids |-> "none"] /\ queue = <<>> /\ pushed = NoTip
      /\ log = [c \in Clients |-> <<>>] /\ svc = Idle /\ writes = <<>>
      /\ casc = [h \in Handlers |-> <<>>] /\ calls = [c \in Clients |-> NoCall]
      /\ ver = [b \in Branches |-> 1] /\ ent = [b \in Branches |-> NoEntry]
      /\ cl = [c \in Clients |-> Start]
  BY DEF Init, TrainInit
<1>2. /\ 0 \in 0..MaxVersion /\ 1 \in 1..MaxVersion /\ MaxVersion \in Nat
      /\ \A i \in Ids : i[2] \in Nat /\ i[2] # 0 /\ {i} \subseteq Pieces /\ i \in Own(i[1])
  BY TrainConstants, Names DEF Own
<1>3. /\ <<>> \in Seq(Ids) /\ <<>> \in Seq(Seq(Ids)) /\ <<>> \in Seq(Record)
      /\ <<>> \in Seq(Ids \X Told) /\ Elems(<<>>) = {} /\ NoTip \in Tips
      /\ Len(<<>>) = 0 /\ DOMAIN <<>> = {}
  BY Empty DEF Tips
<1>4. Sound(svc)
  BY <1>1, <1>3 DEF Sound, Loop, Idle, Places, InPass, Merging
<1>5. svc \in Loop
  BY <1>4 DEF Sound
<1>6. hist \in [Ids -> SUBSET Pieces]
  BY <1>1, <1>2
<1>7. ref \in [Branches -> 0..MaxVersion] /\ state \in [Ids -> States]
  BY <1>1, <1>2 DEF States
<1>8. /\ log \in [Clients -> Seq(Ids \X Told)] /\ calls \in [Clients -> Ids \cup {NoCall}]
      /\ casc \in [Handlers -> Seq(Ids)]
  BY <1>1, <1>3
<1>9. TrainTypes
  BY <1>1, <1>3, <1>5, <1>6, <1>7, <1>8 DEF TrainTypes
<1>10. Start \in Landing /\ NoEntry \in Entry /\ NoEntry.out # "open"
  BY <1>2 DEF Start, Landing, Stages, NoEntry, Entry, Outcomes
<1>11. \A c \in Clients : LandingOk(c) /\ \A k \in DOMAIN log[c] : Owner[log[c][k][1][1]] = c
  BY <1>1, <1>3 DEF LandingOk, Start
<1>12. ClientTypes
  BY <1>1, <1>2, <1>10, <1>11 DEF ClientTypes
<1>13. QueueIs /\ PushedPasses /\ LandedIsInTarget /\ BlockersLandFirst
  BY <1>1, <1>3, Names DEF QueueIs, PushedPasses, LandedIsInTarget, BlockersLandFirst
<1>14. Written
  BY <1>1, <1>3 DEF Written
<1>15. Histories
  <2>1. \A i \in Ids : ~Known(i) /\ (Made(i) => i[2] = 1)
    <3>1. \A i \in Ids : ver[i[1]] = 1
      BY <1>1, Names
    <3> QED  BY <1>1, <1>2, <3>1 DEF Known, Made
  <2>2. \A i \in Ids : (i[2] = 1 => i \in hist[i]) /\ hist[i] \subseteq Own(i[1])
    BY <1>1, <1>2
  <2> QED  BY <1>1, <2>1, <2>2 DEF Histories
<1>16. BlockersKnown
  <2>1. \A c \in Clients : \A j \in DOMAIN Worktrees[c] : ~(j < 1)
    BY WorktreesAre
  <2>2. \A c \in Clients : BlockersOf(c)
    BY <1>1, <2>1 DEF BlockersOf, Start, Enqueuing
  <2> QED  BY <1>1, <2>2 DEF BlockersKnown, Known
<1> QED  BY <1>4, <1>9, <1>12, <1>13, <1>14, <1>15, <1>16 DEF IInv

\* Every step keeps the invariant.
LEMMA Steps == IInv /\ [Next]_vars => IInv'
<1> SUFFICES ASSUME IInv, [Next]_vars PROVE IInv'
  OBVIOUS
<1>1. CASE ServiceStep /\ ClientSame
  <2>1. TakeBatch => IInv'
    BY <1>1, TakeBatchKeeps
  <2>2. SyncTip => IInv'
    BY <1>1, SyncTipKeeps
  <2>3. Contained => IInv'
    BY <1>1, ContainedKeeps
  <2>4. Baseline => IInv'
    BY <1>1, BaselineKeeps
  <2>5. FetchEntry => IInv'
    BY <1>1, FetchEntryKeeps
  <2>6. Speculate => IInv'
    BY <1>1, SpeculateKeeps
  <2>7. EjectConflicted => IInv'
    BY <1>1, EjectConflictedKeeps
  <2>8. Verify => IInv'
    BY <1>1, VerifyKeeps
  <2>9. Push => IInv'
    BY <1>1, PushKeeps
  <2>10. RecordLanded => IInv'
    BY <1>1, RecordLandedKeeps
  <2>11. Return => IInv'
    BY <1>1, ReturnKeeps
  <2> QED
    BY <1>1, <2>1, <2>2, <2>3, <2>4, <2>5, <2>6, <2>7, <2>8, <2>9, <2>10, <2>11 DEF ServiceStep
<1>2. (JournalWrite /\ ClientSame) => IInv'
  BY JournalWriteKeeps
<1>3. ASSUME NEW h \in Handlers, Cascade(h), ClientSame PROVE IInv'
  BY <1>3, CascadeKeeps
<1>4. ((PassFails \/ GitErrs) /\ ClientSame) => IInv'
  BY PassFailsKeeps, GitErrsKeeps
<1>5. (PushAnswerLost /\ ClientSame) => IInv'
  BY PushAnswerLostKeeps
<1>6. ASSUME NEW o \in Outside, OutsidePush(o), ClientSame PROVE IInv'
  BY <1>6, OutsidePushKeeps
<1>7. Crash => IInv'
  BY CrashKeeps
<1>8. ASSUME NEW c \in Clients, ClientStep(c) \/ Cancel(c) \/ Die(c) \/ LandAgain(c) PROVE IInv'
  <2>1. Enqueue(c) => IInv'
    BY EnqueueKeeps
  <2>2. Enqueued(c) => IInv'
    BY EnqueuedKeeps
  <2>3. Poll(c) => IInv'
    BY PollKeeps
  <2>4. Observe(c) => IInv'
    BY ObserveKeeps
  <2>5. Repair(c) => IInv'
    BY RepairKeeps
  <2>6. Repaired(c) => IInv'
    BY RepairedKeeps
  <2>7. RepairFails(c) => IInv'
    BY RepairFailsKeeps
  <2>8. Withdraw(c) => IInv'
    BY WithdrawKeeps
  <2>9. Cancel(c) => IInv'
    BY CancelKeeps
  <2>10. Die(c) => IInv'
    BY DieKeeps
  <2>11. LandAgain(c) => IInv'
    BY LandAgainKeeps
  <2> QED
    BY <1>8, <2>1, <2>2, <2>3, <2>4, <2>5, <2>6, <2>7, <2>8, <2>9, <2>10, <2>11 DEF ClientStep
<1>9. CASE UNCHANGED vars
  <2>1. /\ UNCHANGED <<target, ref, hist, state, queue, pushed, log, svc, writes, casc, calls, troubles>>
        /\ UNCHANGED <<ver, ent, cl>>
    BY <1>9 DEF vars, trainVars
  <2>2. ServiceOnly /\ ClientSame /\ writes' = writes
    BY <2>1 DEF ServiceOnly, LoopOnly, ClientSame
  <2>3. Sound(svc')
    BY <2>1, InHand
  <2> QED  BY <2>2, <2>3, LoopKeeps
<1> QED  BY <1>1, <1>2, <1>3, <1>4, <1>5, <1>6, <1>7, <1>8, <1>9 DEF Next

\* The invariant holds of every behaviour, for any clients, branches and failures.
THEOREM Inductive == Spec => []IInv
<1>1. Init => IInv
  BY Initial
<1>2. IInv /\ [Next]_vars => IInv'
  BY Steps
<1> QED  BY <1>1, <1>2, PTL DEF Spec

\* The shape of the state, the queue's being what is marked queued.
LEMMA TypesFromInv == IInv => TypeOK
<1> SUFFICES ASSUME IInv PROVE TypeOK
  OBVIOUS
<1>1. TrainTypes /\ ClientTypes /\ QueueIs
  BY DEF IInv
<1>2. Tips = Piece \cup {NoTip}
  BY DEF Tips, Piece
<1>3. svc.tip \in Piece \cup {NoTip} /\ svc.todo \in Seq(Ids) /\ svc.batch \in Seq(Ids)
      /\ svc.halves \in Seq(Seq(Ids))
  BY <1>1, <1>2 DEF TrainTypes, Loop
<1>4. \A w \in Elems(writes) : w.by \in Handlers /\ w.id \in Ids
  <2>1. Elems(writes) \subseteq Record
    BY <1>1, ElemsOf DEF TrainTypes
  <2> QED  BY <2>1 DEF Record
<1>5. \A b \in Branches : ent[b].out \in Outcomes /\ ent[b].v \in 0..MaxVersion
  BY <1>1 DEF ClientTypes, Entry
<1>6. \A c \in Clients : log[c] \in Seq(Ids \X Told) /\ calls[c] \in Ids \cup {NoCall}
  BY <1>1 DEF TrainTypes
<1>7. \A h \in Handlers : casc[h] \in Seq(Ids)
  BY <1>1 DEF TrainTypes
<1> QED  BY <1>1, <1>2, <1>3, <1>4, <1>5, <1>6, <1>7 DEF TypeOK, TrainTypes, ClientTypes, QueueIs, Piece

\* Whatever its crashes, lost answers and the pushes of others, what the train records as
\* landed is in the target, which gets work in the order of its blockers (train-service.ts,
\* land and record: the push before the records, the blockers before what waits on them).
THEOREM TrainIsSafe == Spec => []TrainSafe
<1>1. IInv => TrainSafe
  BY TypesFromInv DEF IInv, TrainSafe
<1> QED  BY <1>1, Inductive, PTL

\* An entry ejected over a check fails it alone, on a tip that passes without it
\* (train-service.ts, pass and bisect).
THEOREM OnlyTheGuiltyAreBlamed == Spec => []BlamedAlone
<1>1. IInv => BlamedAlone
  BY DEF IInv, Written, RecordOk, BlamedAlone
<1> QED  BY <1>1, Inductive, PTL

\* A step takes nothing from the target, and only somebody else's breaks it.
LEMMA StepsKeepTarget ==
    ASSUME IInv, [Next]_vars
    PROVE  /\ target \subseteq target'
           /\ target' # target /\ Fails(target') => target' \ target \subseteq Outside
<1> DEFINE Kept == /\ target \subseteq target'
                   /\ target' # target /\ Fails(target') => target' \ target \subseteq Outside
<1>1. target' = target => Kept
  OBVIOUS
<1>2. svc.pc = "push" /\ target = svc.tip /\ target' = Commit => Kept
  BY CommitIs
<1> HIDE DEF Kept
<1>3. ServiceStep => Kept
  <2>1. Push => Kept
    BY <1>1, <1>2 DEF Push, At
  <2>2. TakeBatch \/ SyncTip \/ Contained \/ Baseline \/ FetchEntry => Kept
    BY <1>1 DEF TakeBatch, SyncTip, Contained, Baseline, FetchEntry, ServiceOnly, LoopOnly
  <2>3. Speculate \/ EjectConflicted \/ Verify \/ RecordLanded \/ Return => Kept
    BY <1>1 DEF Speculate, EjectConflicted, Verify, RecordLanded, Return, ServiceOnly,
       LoopOnly
  <2> QED  BY <2>1, <2>2, <2>3 DEF ServiceStep
<1>4. JournalWrite \/ PassFails \/ GitErrs \/ Crash => Kept
  BY <1>1 DEF JournalWrite, PassFails, GitErrs, FetchErrs, MergeErrs, LoopOnly,
     Crash, ServiceCrash
<1>5. PushAnswerLost => Kept
  BY <1>2 DEF PushAnswerLost, At
<1>6. ASSUME NEW h \in Handlers, Cascade(h) PROVE Kept
  BY <1>1, <1>6 DEF Cascade
<1>7. ASSUME NEW o \in Outside, OutsidePush(o) PROVE Kept
  BY <1>7 DEF Kept, OutsidePush
<1>8. ASSUME NEW c \in Clients, ClientStep(c) \/ Cancel(c) \/ Die(c) \/ LandAgain(c) PROVE Kept
  <2>1. Enqueue(c) \/ Enqueued(c) \/ Poll(c) \/ Observe(c) => Kept
    BY <1>1 DEF Enqueue, Enqueued, Poll, Observe, trainVars
  <2>2. Repair(c) \/ Repaired(c) \/ RepairFails(c) \/ Withdraw(c) => Kept
    BY <1>1 DEF Repair, Repaired, RepairFails, Withdraw, ClientOnly, trainVars
  <2>3. Cancel(c) \/ Die(c) \/ LandAgain(c) => Kept
    BY <1>1 DEF Cancel, Die, LandAgain, TrainButTroubles
  <2> QED  BY <1>8, <2>1, <2>2, <2>3 DEF ClientStep
<1>9. UNCHANGED vars => Kept
  BY <1>1 DEF vars, trainVars
<1>10. Kept
  BY <1>3, <1>4, <1>5, <1>6, <1>7, <1>8, <1>9 DEF Next
<1> QED  BY <1>10 DEF Kept

\* The target only gains commits, and the train's own pushes leave it passing
\* (train-service.ts, push: never a force, and only what was verified on the tip).
THEOREM TargetIsKept == Spec => TargetKept
<1>1. IInv /\ [Next]_vars => [ /\ target \subseteq target'
                               /\ target' # target /\ Fails(target') =>
                                    target' \ target \subseteq Outside ]_vars
  BY StepsKeepTarget
<1> QED  BY <1>1, Inductive, PTL DEF Spec, TargetKept
=============================================================================
