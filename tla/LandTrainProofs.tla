-------------------------- MODULE LandTrainProofs --------------------------
(***************************************************************************)
(* Theorems about LandTrain, for any number of entries, any blockers,      *)
(* breakages and conflicts, and any bounds: what a run's train lands was   *)
(* verified where it lands and comes after its blockers, its outcome is    *)
(* the truth, and it lands as RunLanding promises.                         *)
(***************************************************************************)
EXTENDS LandTrain, FiniteSetTheorems, SequenceTheorems, TLAPS

\* No element comes twice; no two sets of a sequence share an element.
OneEach(s) == \A i, j \in DOMAIN s : s[i] = s[j] => i = j

Apart(s) == \A i, j \in DOMAIN s : i # j => s[i] \cap s[j] = {}

(***************************************************************************)
(* Sequences                                                               *)
(***************************************************************************)
\* The empty sequence, and one of one element.
LEMMA Short ==
    /\ Elems(<<>>) = {} /\ OneEach(<<>>) /\ Apart(<<>>)
    /\ \A S : <<>> \in Seq(S)
    /\ \A S : \A x \in S : <<x>> \in Seq(S) /\ Elems(<<x>>) = {x} /\ Apart(<<x>>)
<1>1. Elems(<<>>) = {} /\ OneEach(<<>>) /\ Apart(<<>>)
  BY EmptySeq DEF Elems, OneEach, Apart
<1>2. \A S : <<>> \in Seq(S)
  BY EmptySeq
<1>3. ASSUME NEW S, NEW x \in S
      PROVE  <<x>> \in Seq(S) /\ Elems(<<x>>) = {x} /\ Apart(<<x>>)
  <2>1. <<x>> \in Seq(S) /\ DOMAIN <<x>> = {1} /\ <<x>>[1] = x
    OBVIOUS
  <2> QED  BY <2>1 DEF Elems, Apart
<1> QED  BY <1>1, <1>2, <1>3

\* The first of a sequence and its rest.
LEMMA RestIs ==
    ASSUME NEW S, NEW s \in Seq(S), s # <<>>
    PROVE  /\ Head(s) \in S /\ Tail(s) \in Seq(S) /\ Elems(s) = {Head(s)} \cup Elems(Tail(s))
           /\ OneEach(s) => OneEach(Tail(s)) /\ Head(s) \notin Elems(Tail(s))
           /\ Apart(s) => Apart(Tail(s)) /\ \A x \in Elems(Tail(s)) : x \cap Head(s) = {}
           /\ Len(s) = 1 <=> Tail(s) = <<>>
<1>1. PICK l \in Nat : l = Len(s) /\ DOMAIN s = 1..l
  OBVIOUS
<1>2. l # 0
  BY <1>1, EmptySeq
<1>3. l - 1 \in Nat /\ (l - 1) + 1 = l
  BY <1>1, <1>2
<1>4. Tail(s) \in Seq(S) /\ DOMAIN Tail(s) = 1..(l - 1)
  BY <1>1, <1>2
<1>5. Head(s) = s[1]
  OBVIOUS
<1>6. \A i \in 1..(l - 1) : Tail(s)[i] = s[i + 1]
  BY <1>1, <1>2
<1>7a. PICK n \in Nat : n = l - 1 /\ n + 1 = l
  BY <1>3
<1>7. PICK t : t = Tail(s)
  OBVIOUS
<1>8. /\ DOMAIN s = 1..(n + 1) /\ DOMAIN t = 1..n /\ \A i \in 1..n : t[i] = s[i + 1]
      /\ 1 \in 1..(n + 1) /\ \A i \in 1..n : i + 1 \in 1..(n + 1) /\ i + 1 # 1
      /\ \A i \in 1..(n + 1) : i = 1 \/ (i - 1 \in 1..n /\ (i - 1) + 1 = i)
      /\ \A i, j \in 1..n : i + 1 = j + 1 => i = j
  BY <1>1, <1>3, <1>4, <1>6, <1>7, <1>7a
<1>9. s[1] \in S
  BY <1>8
<1>10. Elems(s) = {s[1]} \cup Elems(t)
  <2>1. ASSUME NEW i \in 1..(n + 1) PROVE s[i] \in {s[1]} \cup Elems(t)
    <3>1. CASE i # 1
      <4>1. i - 1 \in 1..n /\ t[i - 1] = s[(i - 1) + 1] /\ (i - 1) + 1 = i
        BY <1>8, <3>1
      <4> QED  BY <1>8, <4>1 DEF Elems
    <3> QED  BY <3>1
  <2>2. ASSUME NEW i \in 1..n PROVE t[i] \in Elems(s)
    BY <1>8 DEF Elems
  <2>3. s[1] \in Elems(s)
    BY <1>8 DEF Elems
  <2> QED  BY <1>8, <2>1, <2>2, <2>3 DEF Elems
<1>11. OneEach(s) => OneEach(t) /\ s[1] \notin Elems(t)
  <2> SUFFICES ASSUME OneEach(s) PROVE OneEach(t) /\ s[1] \notin Elems(t)
    OBVIOUS
  <2>1. ASSUME NEW i \in 1..n, NEW j \in 1..n, t[i] = t[j] PROVE i = j
    <3>1. s[i + 1] = s[j + 1] /\ i + 1 \in DOMAIN s /\ j + 1 \in DOMAIN s
      BY <1>8, <2>1
    <3>2. i + 1 = j + 1
      BY <3>1 DEF OneEach
    <3> QED  BY <1>8, <3>2
  <2>2. ASSUME NEW i \in 1..n, t[i] = s[1] PROVE FALSE
    <3>1. s[i + 1] = s[1] /\ i + 1 \in DOMAIN s /\ 1 \in DOMAIN s
      BY <1>8, <2>2
    <3>2. i + 1 = 1
      BY <3>1 DEF OneEach
    <3> QED  BY <1>8, <3>2
  <2> QED  BY <1>8, <2>1, <2>2 DEF OneEach, Elems
<1>12. Apart(s) => Apart(t) /\ \A x \in Elems(t) : x \cap s[1] = {}
  <2> SUFFICES ASSUME Apart(s) PROVE Apart(t) /\ \A x \in Elems(t) : x \cap s[1] = {}
    OBVIOUS
  <2>1. ASSUME NEW i \in 1..n, NEW j \in 1..n, i # j PROVE t[i] \cap t[j] = {}
    <3>1. /\ t[i] = s[i + 1] /\ t[j] = s[j + 1] /\ i + 1 \in DOMAIN s /\ j + 1 \in DOMAIN s
          /\ i + 1 # j + 1
      BY <1>8, <2>1
    <3> QED  BY <3>1 DEF Apart
  <2>2. ASSUME NEW i \in 1..n PROVE t[i] \cap s[1] = {}
    <3>1. t[i] = s[i + 1] /\ i + 1 \in DOMAIN s /\ 1 \in DOMAIN s /\ i + 1 # 1
      BY <1>8
    <3> QED  BY <3>1 DEF Apart
  <2> QED  BY <1>8, <2>1, <2>2 DEF Apart, Elems
<1>13. Len(s) = 1 <=> t = <<>>
  <2>1. t \in Seq(S) /\ Len(t) = n
    BY <1>1, <1>4, <1>7, <1>7a
  <2>2. t = <<>> <=> n = 0
    BY <2>1, EmptySeq
  <2>3. l = 1 <=> n = 0
    BY <1>7a
  <2> QED  BY <1>1, <2>2, <2>3
<1> QED  BY <1>4, <1>5, <1>7, <1>9, <1>10, <1>11, <1>12, <1>13

\* One sequence after another.
LEMMA ConcatIs ==
    ASSUME NEW S, NEW s \in Seq(S), NEW t \in Seq(S)
    PROVE  /\ s \o t \in Seq(S) /\ Elems(s \o t) = Elems(s) \cup Elems(t)
           /\ OneEach(s) /\ OneEach(t) /\ Elems(s) \cap Elems(t) = {} => OneEach(s \o t)
           /\ /\ Apart(s) /\ Apart(t) /\ \A x \in Elems(s), y \in Elems(t) : x \cap y = {}
              => Apart(s \o t)
<1>1. PICK m \in Nat : m = Len(s) /\ DOMAIN s = 1..m
  OBVIOUS
<1>2. PICK n \in Nat : n = Len(t) /\ DOMAIN t = 1..n
  OBVIOUS
<1>3. s \o t \in Seq(S) /\ Len(s \o t) = m + n
  BY <1>1, <1>2
<1>4. \A i \in 1..(m + n) : (s \o t)[i] = IF i <= m THEN s[i] ELSE t[i - m]
  BY <1>1, <1>2
<1>5. DOMAIN (s \o t) = 1..(m + n)
  BY <1>3
<1>6. PICK u : u = s \o t
  OBVIOUS
<1>7. \A i \in 1..(m + n) : (i <= m /\ i \in 1..m) \/ (~(i <= m) /\ i - m \in 1..n)
  BY <1>1, <1>2
<1>8. /\ \A i \in 1..m : i \in DOMAIN u /\ u[i] = s[i]
      /\ \A i \in 1..n : i + m \in DOMAIN u /\ u[i + m] = t[i]
  <2>1. \A i \in 1..m : i \in 1..(m + n) /\ i <= m
    OBVIOUS
  <2>2. \A i \in 1..n : i + m \in 1..(m + n) /\ ~(i + m <= m) /\ (i + m) - m = i
    OBVIOUS
  <2> QED  BY <1>4, <1>5, <1>6, <2>1, <2>2
<1>9. Elems(u) = Elems(s) \cup Elems(t)
  <2>1. \A i \in 1..(m + n) : u[i] \in Elems(s) \cup Elems(t)
    BY <1>1, <1>2, <1>4, <1>6, <1>7 DEF Elems
  <2>2. \A i \in 1..m : s[i] \in Elems(u)
    BY <1>8 DEF Elems
  <2>3. \A i \in 1..n : t[i] \in Elems(u)
    BY <1>8 DEF Elems
  <2>4. Elems(u) \subseteq Elems(s) \cup Elems(t)
    BY <1>5, <1>6, <2>1 DEF Elems
  <2>5. Elems(s) \subseteq Elems(u) /\ Elems(t) \subseteq Elems(u)
    <3> DEFINE E == Elems(u)
    <3>1. (\A i \in 1..m : s[i] \in E) /\ (\A i \in 1..n : t[i] \in E)
      BY <2>2, <2>3
    <3> HIDE DEF E
    <3>2. Elems(s) \subseteq E /\ Elems(t) \subseteq E
      BY <1>1, <1>2, <3>1 DEF Elems
    <3> QED  BY <3>2 DEF E
  <2> QED  BY <2>4, <2>5
<1>10. ASSUME NEW i \in DOMAIN u, NEW j \in DOMAIN u, i # j
       PROVE  \/ /\ i \in DOMAIN s /\ j \in DOMAIN s /\ u[i] = s[i] /\ u[j] = s[j]
              \/ /\ i - m \in DOMAIN t /\ j - m \in DOMAIN t /\ i - m # j - m
                 /\ u[i] = t[i - m] /\ u[j] = t[j - m]
              \/ u[i] \in Elems(s) /\ u[j] \in Elems(t)
              \/ u[i] \in Elems(t) /\ u[j] \in Elems(s)
  <2>1. i \in 1..(m + n) /\ j \in 1..(m + n)
    BY <1>5, <1>6
  <2>2. \A k \in 1..m : s[k] \in Elems(s)
    BY <1>1 DEF Elems
  <2>3. \A k \in 1..n : t[k] \in Elems(t)
    BY <1>2 DEF Elems
  <2>4. (i <= m /\ i \in 1..m /\ u[i] = s[i]) \/ (~(i <= m) /\ i - m \in 1..n /\ u[i] = t[i - m])
    BY <1>4, <1>6, <1>7, <2>1
  <2>5. (j <= m /\ j \in 1..m /\ u[j] = s[j]) \/ (~(j <= m) /\ j - m \in 1..n /\ u[j] = t[j - m])
    BY <1>4, <1>6, <1>7, <2>1
  <2>6. i - m # j - m
    BY <1>10, <2>1
  <2> QED  BY <1>1, <1>2, <2>2, <2>3, <2>4, <2>5, <2>6
<1>11. OneEach(s) /\ OneEach(t) /\ Elems(s) \cap Elems(t) = {} => OneEach(u)
  <2> SUFFICES ASSUME OneEach(s), OneEach(t), Elems(s) \cap Elems(t) = {},
                      NEW i \in DOMAIN u, NEW j \in DOMAIN u, i # j, u[i] = u[j]
               PROVE  FALSE
    BY DEF OneEach
  <2> QED  BY <1>10 DEF OneEach
<1>12. /\ Apart(s) /\ Apart(t) /\ \A x \in Elems(s), y \in Elems(t) : x \cap y = {}
       => Apart(u)
  <2> SUFFICES ASSUME Apart(s), Apart(t), \A x \in Elems(s), y \in Elems(t) : x \cap y = {},
                      NEW i \in DOMAIN u, NEW j \in DOMAIN u, i # j
               PROVE  u[i] \cap u[j] = {}
    BY DEF Apart
  <2> QED  BY <1>10 DEF Apart
<1> QED  BY <1>3, <1>6, <1>9, <1>11, <1>12

\* Two sets in front.
LEMMA PairIs ==
    ASSUME NEW a \in SUBSET Entries, NEW b \in SUBSET Entries, a \cap b = {}
    PROVE  /\ <<a, b>> \in Seq(SUBSET Entries) /\ Elems(<<a, b>>) = {a, b}
           /\ Apart(<<a, b>>)
<1>1. /\ <<a, b>> \in Seq(SUBSET Entries) /\ DOMAIN <<a, b>> = {1, 2}
      /\ <<a, b>>[1] = a /\ <<a, b>>[2] = b
  OBVIOUS
<1> QED  BY <1>1 DEF Elems, Apart

(***************************************************************************)
(* The model's operators                                                   *)
(***************************************************************************)
\* In a finite set of numbers, there is one with any number of others below it, and only one.
LEMMA RankIs ==
    ASSUME NEW I \in SUBSET Nat, IsFiniteSet(I)
    PROVE  /\ Cardinality(I) \in Nat
           /\ \A i \in I : Cardinality({j \in I : j < i}) + 1 \in 1..Cardinality(I)
           /\ \A k \in 1..Cardinality(I) : \E i \in I : Cardinality({j \in I : j < i}) = k - 1
           /\ \A i, k \in I : Cardinality({j \in I : j < i}) = Cardinality({j \in I : j < k}) => i = k
<1> DEFINE Below(i) == {j \in I : j < i}
           n == Cardinality(I)
           f == [i \in I |-> Cardinality(Below(i))]
<1>1. n \in Nat
  BY FS_CardinalityType
<1>2. ASSUME NEW i \in I
      PROVE  /\ IsFiniteSet(Below(i)) /\ Cardinality(Below(i)) \in 0..(n - 1)
             /\ IsFiniteSet(Below(i) \cup {i})
             /\ Cardinality(Below(i) \cup {i}) = Cardinality(Below(i)) + 1
  <2>1. Below(i) \in SUBSET I /\ Below(i) \cup {i} \in SUBSET I /\ i \notin Below(i)
    <3>1. i \in Nat
      OBVIOUS
    <3> QED  BY <3>1
  <2> HIDE DEF Below, n
  <2>2. IsFiniteSet(Below(i)) /\ IsFiniteSet(Below(i) \cup {i})
    BY <2>1, FS_Subset
  <2>3. Cardinality(Below(i) \cup {i}) = Cardinality(Below(i)) + 1
    BY <2>1, <2>2, FS_AddElement
  <2>4. Cardinality(Below(i) \cup {i}) <= n
    BY <2>1, FS_Subset DEF n
  <2>5. Cardinality(Below(i)) \in Nat
    BY <2>2, FS_CardinalityType
  <2> QED  BY <1>1, <2>2, <2>3, <2>4, <2>5
<1>3. ASSUME NEW i \in I, NEW k \in I, i < k
      PROVE  Cardinality(Below(i)) < Cardinality(Below(k))
  <2>1. Below(i) \cup {i} \in SUBSET Below(k)
    <3>1. \A j \in I : j \in Nat
      OBVIOUS
    <3>2. \A j \in I : j < i => j < k
      BY <1>3, <3>1
    <3> QED  BY <1>3, <3>2
  <2> HIDE DEF Below
  <2>2. Cardinality(Below(i) \cup {i}) <= Cardinality(Below(k))
    BY <1>2, <2>1, FS_Subset
  <2>3. /\ Cardinality(Below(i)) \in 0..(n - 1) /\ Cardinality(Below(k)) \in 0..(n - 1)
        /\ Cardinality(Below(i) \cup {i}) = Cardinality(Below(i)) + 1
    BY <1>2
  <2> HIDE DEF n
  <2> QED  BY <1>1, <2>2, <2>3
<1>4. ASSUME NEW i \in I, NEW k \in I, Cardinality(Below(i)) = Cardinality(Below(k)) PROVE i = k
  <2>1. /\ Cardinality(Below(i)) \in 0..(n - 1) /\ Cardinality(Below(k)) \in 0..(n - 1)
        /\ i \in Nat /\ k \in Nat
    BY <1>2
  <2> HIDE DEF Below, n
  <2>2. ~(i < k) /\ ~(k < i)
    BY <1>1, <1>3, <1>4, <2>1
  <2> QED  BY <2>1, <2>2
<1>5. f \in Injection(I, 0..(n - 1))
  <2>1. f \in [I -> 0..(n - 1)]
    BY <1>2
  <2>2. \A i, k \in I : f[i] = f[k] => i = k
    BY <1>4
  <2> HIDE DEF f
  <2> QED  BY <2>1, <2>2 DEF Injection, IsInjective
<1>6. IsFiniteSet(0..(n - 1)) /\ Cardinality(0..(n - 1)) = n
  <2> HIDE DEF n
  <2>1. 0 \in Int /\ n - 1 \in Int /\ (0 > n - 1 => n = 0) /\ (n - 1) - 0 + 1 = n
    BY <1>1
  <2> QED  BY <2>1, FS_Interval
<1>7. f \in Surjection(I, 0..(n - 1))
  <2> HIDE DEF f
  <2> QED  BY <1>5, <1>6, FS_Injection DEF n
<1>8. ASSUME NEW k \in 1..n PROVE \E i \in I : Cardinality(Below(i)) = k - 1
  <2>1. k - 1 \in 0..(n - 1)
    BY <1>1
  <2>2. PICK i \in I : f[i] = k - 1
    <3> HIDE DEF f, n
    <3> QED  BY <1>7, <2>1 DEF Surjection
  <2> QED  BY <2>2
<1>9. ASSUME NEW i \in I PROVE Cardinality(Below(i)) + 1 \in 1..n
  <2>1. Cardinality(Below(i)) \in 0..(n - 1)
    BY <1>2
  <2> HIDE DEF Below, n
  <2> QED  BY <1>1, <2>1
<1> QED  BY <1>1, <1>4, <1>8, <1>9

\* A set of entries by priority holds each of them once.
LEMMA InOrderIs ==
    ASSUME NEW E \in SUBSET Entries
    PROVE  InOrder(E) \in Seq(E) /\ Elems(InOrder(E)) = E /\ OneEach(InOrder(E))
<1> DEFINE n == Cardinality(E)
           Rank(i) == Cardinality({j \in E : j < i})
           Place(k) == CHOOSE e \in E : Rank(e) = k - 1
<1>1. E \in SUBSET Nat /\ IsFiniteSet(E)
  <2>1. IsFiniteSet(1..N) /\ 1..N \subseteq Nat
    BY LandTrainConstants, FS_Interval
  <2>2. E \subseteq 1..N
    BY DEF Entries
  <2> HIDE DEF Entries
  <2> QED  BY <2>1, <2>2, FS_Subset
<1>2. /\ n \in Nat
      /\ \A i \in E : Rank(i) + 1 \in 1..n
      /\ \A k \in 1..n : \E i \in E : Rank(i) = k - 1
      /\ \A i, k \in E : Rank(i) = Rank(k) => i = k
  BY <1>1, RankIs
<1>3. \A i \in E : Rank(i) \in Int
  <2> SUFFICES ASSUME NEW i \in E PROVE Rank(i) \in Int
    OBVIOUS
  <2>1. {j \in E : j < i} \in SUBSET E
    OBVIOUS
  <2>2. IsFiniteSet({j \in E : j < i})
    BY <1>1, <2>1, FS_Subset
  <2> QED  BY <2>2, FS_CardinalityType
<1>4. \A k \in 1..n : Place(k) \in E /\ Rank(Place(k)) = k - 1
  BY <1>2
<1>5. InOrder(E) = [k \in 1..n |-> Place(k)]
  BY DEF InOrder
<1> HIDE DEF n, Rank
<1>6. \A i \in E : Place(Rank(i) + 1) = i /\ Rank(i) + 1 \in 1..n
  <2> SUFFICES ASSUME NEW i \in E PROVE Place(Rank(i) + 1) = i /\ Rank(i) + 1 \in 1..n
    OBVIOUS
  <2>1. Rank(i) + 1 \in 1..n /\ (Rank(i) + 1) - 1 = Rank(i)
    BY <1>2, <1>3
  <2>2. Place(Rank(i) + 1) \in E /\ Rank(Place(Rank(i) + 1)) = Rank(i)
    BY <1>4, <2>1
  <2> HIDE DEF Place
  <2> QED  BY <1>2, <2>1, <2>2
<1> HIDE DEF Place
<1>7. InOrder(E) \in Seq(E)
  BY <1>2, <1>4, <1>5
<1>8. DOMAIN InOrder(E) = 1..n
  BY <1>5
<1>9. Elems(InOrder(E)) = E
  <2>1. Elems(InOrder(E)) = {Place(k) : k \in 1..n}
    BY <1>5, <1>8 DEF Elems
  <2> QED  BY <1>4, <1>6, <2>1
<1>10. ASSUME NEW i \in 1..n, NEW j \in 1..n, Place(i) = Place(j) PROVE i = j
  <2>1. i - 1 = j - 1
    BY <1>4, <1>10
  <2> QED  BY <1>2, <2>1
<1>11. OneEach(InOrder(E))
  BY <1>5, <1>8, <1>10 DEF OneEach
<1> QED  BY <1>7, <1>9, <1>11

\* The beginning of an order of the entries holds entries.
LEMMA StartIs ==
    ASSUME NEW s \in [Entries -> Entries], NEW k \in 0..N
    PROVE  Elems(SubSeq(s, 1, k)) \subseteq Entries
<1>1. s \in Seq(Entries) /\ Len(s) = N
  BY LandTrainConstants DEF Entries
<1>2. PICK t : t = SubSeq(s, 1, k)
  OBVIOUS
<1>3. k \in Nat /\ \A i \in 1..k : i \in 1..N
  BY LandTrainConstants
<1>4. t \in Seq(Entries)
  BY <1>1, <1>2, <1>3 DEF Entries
<1> QED  BY <1>2, <1>4 DEF Elems

\* What is left out of a merge or not, only what was merged is in it.
LEMMA CleanIs ==
    ASSUME NEW tip, NEW s
    PROVE  Clean(tip, s) \subseteq Elems(s)
BY DEF Clean, Elems

\* An ejection takes along entries that have not ended, and leaves none that waits for it.
LEMMA EjectedWithIs ==
    ASSUME NEW E \in SUBSET Entries
    PROVE  LET Reached(S) == E \subseteq S
                             /\ \A e \in Entries : (st[e] \notin {"landed", "ejected"}
                                                    /\ w.blockedBy[e] \cap S # {}) => e \in S
           IN  /\ EjectedWith(E) \in SUBSET Entries /\ Reached(EjectedWith(E))
               /\ \A S \in SUBSET Entries : Reached(S) => EjectedWith(E) \subseteq S
<1> DEFINE Reached(S) == E \subseteq S
                         /\ \A e \in Entries : (st[e] \notin {"landed", "ejected"}
                                                /\ w.blockedBy[e] \cap S # {}) => e \in S
<1>1. EjectedWith(E) = {e \in Entries : \A S \in SUBSET Entries : Reached(S) => e \in S}
  BY DEF EjectedWith
<1>2. EjectedWith(E) \in SUBSET Entries
  BY <1>1
<1>3. \A S \in SUBSET Entries : Reached(S) => EjectedWith(E) \subseteq S
  <2> HIDE DEF Reached
  <2> QED  BY <1>1
<1>4. E \subseteq EjectedWith(E)
  BY <1>1
<1>5. ASSUME NEW e \in Entries, st[e] \notin {"landed", "ejected"},
             w.blockedBy[e] \cap EjectedWith(E) # {}
      PROVE  e \in EjectedWith(E)
  <2> SUFFICES ASSUME NEW S \in SUBSET Entries, Reached(S) PROVE e \in S
    <3> HIDE DEF Reached
    <3> QED  BY <1>1
  <2>1. EjectedWith(E) \subseteq S
    BY <1>3
  <2> QED  BY <1>5, <2>1
<1> QED  BY <1>2, <1>3, <1>4, <1>5

(***************************************************************************)
(* The inductive invariant                                                 *)
(***************************************************************************)
Own(e) == {<<e, v>> : v \in 1..MaxVersion}
Fixers == {"fix", "askRepair", "integrate", "repair"}
Early == {"baseline", "ask", "merge"}

Types ==
    /\ pc \in LivePoints \cup {"merge", "land", "ended", "stopped"}
    /\ w \in Works /\ target \in SUBSET Pieces /\ branch \in [Entries -> SUBSET Pieces]
    /\ ver \in [Entries -> 1..MaxVersion] /\ st \in [Entries -> EntryStates]
    /\ out \in [Entries -> Outcomes]
    /\ repairs \in [Entries -> Nat] /\ extra \in [Entries -> Nat]
    /\ batches \in Seq(SUBSET Entries) /\ merged \in SUBSET Entries
    /\ fixes \in Seq(Entries) /\ todo \in Seq(Entries)

\* A branch holds its entry's first commit, and of other entries only what the target has.
Branches ==
    \A e \in Entries : <<e, 1>> \in branch[e] /\ branch[e] \subseteq Own(e) \cup target

\* What is decided so far: the outcome and the target agree with the states of the entries.
Decided ==
    \A e \in Entries :
        /\ out[e] = IF st[e] \in {"landed", "ejected"} THEN st[e] ELSE "none"
        /\ <<e, 1>> \in target <=> st[e] = "landed"
        /\ st[e] = "landed" => branch[e] \subseteq target
        /\ st[e] \in {"landed", "repair", "resolve"} =>
              \A b \in w.blockedBy[e] : st[b] = "landed"

\* Before the first wave nothing is decided; from then on the target passes.
Verified ==
    IF pc \in Early
      THEN /\ target = w.base /\ \A e \in Entries : st[e] = "queued"
           /\ pc # "baseline" => Fails(w.base)
      ELSE ~Fails(target)

\* What is about to land or be tried is ready, passes, and nothing is in it twice.
Batched ==
    /\ pc # "advance" => merged = {}
    /\ pc \notin {"land", "advance"} => batches = <<>>
    /\ \A B \in Elems(batches) : B \subseteq Ready /\ B \cap merged = {}
    /\ Apart(batches) /\ merged \subseteq Ready
    /\ pc = "advance" => Passes(target, merged)

\* What awaits its agent step is what is under repair or to be resolved, once each.
Awaited ==
    /\ IF pc \in Fixers THEN todo # <<>> /\ fixes = <<>> ELSE todo = <<>>
    /\ Elems(fixes) \cup Elems(todo) = {e \in Entries : st[e] \in {"repair", "resolve"}}
    /\ OneEach(fixes) /\ OneEach(todo)
    /\ pc \in Early => fixes = <<>>

Going == Decided /\ Verified /\ Batched /\ Awaited

\* The train is on its way, or over; nothing happens after that.
Active == Types /\ Branches /\ ~Ended /\ Going

Final ==
    /\ Types /\ Branches /\ Ended
    /\ TargetVerified /\ BlockersLandFirst /\ OutcomeTrueElsewhere

IInv == Active \/ Final

(***************************************************************************)
(* Runs, branches and the target                                           *)
(***************************************************************************)
\* What a run says of its entries; the target it starts from has no entry's work.
LEMMA WorksAre ==
    ASSUME Types
    PROVE  /\ w.blockedBy \in [Entries -> SUBSET Entries]
           /\ w.base \subseteq {<<0, 1>>} /\ w.base \in SUBSET Pieces
           /\ \A e \in Entries : <<e, 1>> \notin w.base
<1>1. w \in Works
  BY DEF Types
<1>2. w.blockedBy \in [Entries -> SUBSET Entries] /\ w.base \subseteq {<<0, 1>>}
  BY <1>1, LandTrainConstants
<1>3. \A e \in Entries : e # 0
  BY LandTrainConstants DEF Entries
<1>4. \A e \in Entries : <<e, 1>> # <<0, 1>>
  BY <1>3
<1> QED  BY <1>2, <1>4 DEF Pieces

\* An entry's commits are its own.
LEMMA OwnIs ==
    /\ \A e \in Entries : <<e, 1>> \in Own(e) /\ Own(e) \subseteq Pieces
    /\ \A e, d \in Entries : <<e, 1>> \in Own(d) => e = d
    /\ \A e \in Entries, v \in 1..MaxVersion : <<e, v>> \in Own(e)
<1>1. 1 \in 1..MaxVersion
  BY LandTrainConstants
<1>2. \A e \in Entries : <<e, 1>> \in Own(e) /\ Own(e) \subseteq Pieces
  BY <1>1 DEF Own, Pieces
<1>3. \A e, d \in Entries : <<e, 1>> \in Own(d) => e = d
  BY DEF Own
<1>4. \A e \in Entries, v \in 1..MaxVersion : <<e, v>> \in Own(e)
  BY DEF Own
<1> QED  BY <1>2, <1>3, <1>4

\* Landing entries brings their work to the target, and no other entry's.
LEMMA CommitIs ==
    ASSUME Types, Branches, NEW E \in SUBSET Entries
    PROVE  /\ Commit(target, E) \in SUBSET Pieces /\ target \subseteq Commit(target, E)
           /\ \A e \in E : branch[e] \subseteq Commit(target, E)
           /\ \A e \in Entries : <<e, 1>> \in Commit(target, E) <=> (<<e, 1>> \in target \/ e \in E)
<1>1. target \in SUBSET Pieces /\ \A e \in E : branch[e] \in SUBSET Pieces
  BY DEF Types
<1>2. Commit(target, E) \in SUBSET Pieces /\ target \subseteq Commit(target, E)
  BY <1>1 DEF Commit
<1>3. \A e \in E : branch[e] \subseteq Commit(target, E)
  BY DEF Commit
<1>4. ASSUME NEW e \in Entries, <<e, 1>> \in Commit(target, E), <<e, 1>> \notin target
      PROVE  e \in E
  <2>1. PICK d \in E : <<e, 1>> \in branch[d]
    BY <1>4 DEF Commit
  <2>2. <<e, 1>> \in Own(d) /\ d \in Entries
    BY <1>4, <2>1 DEF Branches
  <2> QED  BY <2>1, <2>2, OwnIs
<1>5. \A e \in E : <<e, 1>> \in Commit(target, E)
  BY <1>3 DEF Branches
<1> QED  BY <1>2, <1>3, <1>4, <1>5

\* A step decides nothing of any entry, or gives S up; nothing undecided waits for Closed.
Undecided ==
    \A e \in Entries : st'[e] # st[e] => {st[e], st'[e]} \subseteq {"queued", "repair", "resolve"}

Closed(S) ==
    \A e \in Entries : (st[e] \notin {"landed", "ejected"} /\ w.blockedBy[e] \cap S # {}) => e \in S

GaveUp(S) ==
    /\ \A e \in S : st[e] \notin {"landed", "ejected"}
    /\ st' = [e \in Entries |-> IF e \in S THEN "ejected" ELSE st[e]]

(***************************************************************************)
(* The end                                                                 *)
(***************************************************************************)
\* Giving entries up, and withholding the others that are undecided, ends the train with
\* everything in order.
LEMMA GiveUpEnds ==
    ASSUME Active, NEW S \in SUBSET Entries, \A e \in S : st[e] \notin {"landed", "ejected"},
           pc' \in {"ended", "stopped"},
           st' = [e \in Entries |-> IF e \in S THEN "ejected" ELSE st[e]],
           out' = [e \in Entries |-> IF e \in S THEN "ejected" ELSE Withheld[e]],
           UNCHANGED <<w, target, branch, ver, repairs, extra, batches, merged, fixes, todo>>
    PROVE  Final'
<1>1. Types /\ Branches /\ Decided /\ Verified
  BY DEF Active, Going
<1>2. \A e \in Entries : Withheld[e] = IF st[e] \in {"landed", "ejected"} THEN out[e] ELSE "withheld"
  BY DEF Withheld
<1>3. st' \in [Entries -> EntryStates] /\ out' \in [Entries -> Outcomes]
  BY <1>1, <1>2 DEF Types, EntryStates, Outcomes
<1>4. Types' /\ Ended'
  BY <1>1, <1>3 DEF Types, Ended
<1>5. Branches'
  BY <1>1 DEF Branches
<1>6. TargetVerified'
  BY <1>1 DEF TargetVerified, Verified, Fails
<1>7. BlockersLandFirst'
  <2>1. \A e \in Entries : st'[e] = "landed" <=> st[e] = "landed"
    OBVIOUS
  <2>2. w.blockedBy \in [Entries -> SUBSET Entries]
    BY <1>1, WorksAre
  <2> QED  BY <1>1, <2>1, <2>2 DEF BlockersLandFirst, Decided
<1>8. OutcomeTrueElsewhere'
  <2> SUFFICES ASSUME NEW e \in Entries
               PROVE  out'[e] # "none" /\ (out'[e] \in {"landed", "unverified"} <=> <<e, 1>> \in target)
    BY DEF OutcomeTrueElsewhere
  <2>1. /\ out[e] = IF st[e] \in {"landed", "ejected"} THEN st[e] ELSE "none"
        /\ <<e, 1>> \in target <=> st[e] = "landed"
    BY <1>1 DEF Decided
  <2>2. CASE e \in S
    BY <2>1, <2>2
  <2>3. CASE e \notin S
    BY <1>2, <2>1, <2>3
  <2> QED  BY <2>2, <2>3
<1> QED  BY <1>4, <1>5, <1>6, <1>7, <1>8 DEF Final

\* Stopping gives nothing up.
LEMMA StopEnds ==
    ASSUME Active, Stop, w' = w
    PROVE  Final'
<1>1. st \in [Entries -> EntryStates]
  BY DEF Active, Types
<1>2. st' = [e \in Entries |-> IF e \in {} THEN "ejected" ELSE st[e]]
  BY <1>1 DEF Stop
<1>3. out' = [e \in Entries |-> IF e \in {} THEN "ejected" ELSE Withheld[e]]
  BY DEF Stop, Withheld
<1>4. /\ pc' \in {"ended", "stopped"}
      /\ UNCHANGED <<w, target, branch, ver, repairs, extra, batches, merged, fixes, todo>>
  BY DEF Stop
<1>5. {} \in SUBSET Entries /\ \A e \in {} : st[e] \notin {"landed", "ejected"}
  OBVIOUS
<1> QED  BY <1>2, <1>3, <1>4, <1>5, GiveUpEnds

\* What waits for its agent step in turn, once it has been taken: the rest.
LEMMA FixingIs ==
    ASSUME Active, pc \in Fixers
    PROVE  /\ Fixing \in Entries /\ st[Fixing] \in {"repair", "resolve"}
           /\ Tail(todo) \in Seq(Entries) /\ OneEach(Tail(todo))
           /\ Elems(Tail(todo)) = {e \in Entries : st[e] \in {"repair", "resolve"}} \ {Fixing}
           /\ fixes = <<>> /\ batches = <<>> /\ merged = {} /\ ~Fails(target)
           /\ Len(todo) = 1 => Tail(todo) = <<>>
           /\ Len(todo) # 1 => Tail(todo) # <<>>
<1>1. todo \in Seq(Entries) /\ todo # <<>> /\ fixes = <<>> /\ OneEach(todo)
  BY DEF Active, Types, Going, Awaited
<1>2. Elems(fixes) \cup Elems(todo) = {e \in Entries : st[e] \in {"repair", "resolve"}}
  BY DEF Active, Going, Awaited
<1>3. Elems(fixes) = {}
  BY <1>1, Short
<1>4. /\ Fixing \in Entries /\ Tail(todo) \in Seq(Entries) /\ OneEach(Tail(todo))
      /\ Elems(todo) = {Fixing} \cup Elems(Tail(todo)) /\ Fixing \notin Elems(Tail(todo))
  BY <1>1, RestIs DEF Fixing
<1>5. pc \notin Early /\ pc \notin {"land", "advance"}
  BY DEF Fixers, Early
<1>6. batches = <<>> /\ merged = {} /\ ~Fails(target)
  BY <1>5 DEF Active, Going, Batched, Verified
<1>7. Len(todo) = 1 <=> Tail(todo) = <<>>
  BY <1>1, RestIs
<1> QED  BY <1>1, <1>2, <1>3, <1>4, <1>6, <1>7

\* Of entries that have not ended, none is taken along that has; giving up what is under
\* repair or to be resolved takes along what is queued, and all that is queued nothing else.
LEMMA EjectedIs ==
    ASSUME Active
    PROVE  /\ \A E \in SUBSET Entries :
                  /\ E \subseteq EjectedWith(E) /\ EjectedWith(E) \in SUBSET Entries
                  /\ (\A e \in E : st[e] \notin {"landed", "ejected"}) =>
                        \A e \in EjectedWith(E) : st[e] \notin {"landed", "ejected"}
                  /\ \A e \in Entries : (st[e] \notin {"landed", "ejected"}
                                         /\ w.blockedBy[e] \cap EjectedWith(E) # {})
                                        => e \in EjectedWith(E)
           /\ \A f \in Entries : st[f] # "landed" =>
                  \A e \in EjectedWith({f}) : e = f \/ st[e] = "queued"
<1>1. ASSUME NEW E \in SUBSET Entries
      PROVE  /\ E \subseteq EjectedWith(E) /\ EjectedWith(E) \in SUBSET Entries
             /\ \A e \in Entries : (st[e] \notin {"landed", "ejected"}
                                    /\ w.blockedBy[e] \cap EjectedWith(E) # {})
                                   => e \in EjectedWith(E)
  BY EjectedWithIs
<1>2. ASSUME NEW E \in SUBSET Entries, \A e \in E : st[e] \notin {"landed", "ejected"}
      PROVE  \A e \in EjectedWith(E) : st[e] \notin {"landed", "ejected"}
  <2> DEFINE S == {e \in Entries : st[e] \notin {"landed", "ejected"}}
  <2>1. E \subseteq S /\ S \in SUBSET Entries
    BY <1>2
  <2>2. \A e \in Entries : (st[e] \notin {"landed", "ejected"}
                            /\ w.blockedBy[e] \cap S # {}) => e \in S
    OBVIOUS
  <2>3. EjectedWith(E) \subseteq S
    <3> HIDE DEF S
    <3> QED  BY <2>1, <2>2, EjectedWithIs
  <2> QED  BY <2>3
<1>3. ASSUME NEW f \in Entries, st[f] # "landed"
      PROVE  \A e \in EjectedWith({f}) : e = f \/ st[e] = "queued"
  <2> DEFINE S == {e \in Entries : e = f \/ st[e] = "queued"}
  <2>1. {f} \subseteq S /\ S \in SUBSET Entries /\ {f} \in SUBSET Entries
    OBVIOUS
  <2>2. ASSUME NEW e \in Entries, st[e] \notin {"landed", "ejected"}, w.blockedBy[e] \cap S # {}
        PROVE  e \in S
    <3>1. st[e] \in EntryStates
      BY DEF Active, Types
    <3>2. st[e] \in {"repair", "resolve"} => \A b \in w.blockedBy[e] : st[b] = "landed"
      BY DEF Active, Going, Decided
    <3>3. PICK b \in w.blockedBy[e] : b \in S
      BY <2>2
    <3>4. st[b] # "landed"
      BY <1>3, <3>3
    <3>5. st[e] = "queued"
      BY <2>2, <3>1, <3>2, <3>4 DEF EntryStates
    <3> QED  BY <3>5
  <2>3. EjectedWith({f}) \subseteq S
    <3> HIDE DEF S
    <3> QED  BY <2>1, <2>2, EjectedWithIs
  <2> QED  BY <2>3
<1> QED  BY <1>1, <1>2, <1>3

\* The last wave over, what is still queued is all that is undecided.
LEMMA OpenIs ==
    ASSUME Active, pc = "wave", fixes = <<>>
    PROVE  LET E == {e \in Entries : st[e] = "queued"}
           IN  /\ E = {e \in Entries : st[e] \notin {"landed", "ejected"}}
               /\ EjectedWith(E) = E
<1> DEFINE E == {e \in Entries : st[e] = "queued"}
<1>1. todo = <<>>
  BY DEF Active, Going, Awaited, Fixers
<1>2. {e \in Entries : st[e] \in {"repair", "resolve"}} = {}
  BY <1>1, Short DEF Active, Going, Awaited
<1>3. \A e \in Entries : st[e] \in EntryStates
  BY DEF Active, Types
<1>4. E = {e \in Entries : st[e] \notin {"landed", "ejected"}}
  BY <1>2, <1>3 DEF EntryStates
<1>5. E \subseteq EjectedWith(E) /\ \A e \in EjectedWith(E) : st[e] \notin {"landed", "ejected"}
  BY <1>4, EjectedIs
<1>6. EjectedWith(E) \in SUBSET Entries
  BY EjectedIs
<1> QED  BY <1>4, <1>5, <1>6

\* So does ejecting what waits on an entry that will never land ...
LEMMA WaveEnds ==
    ASSUME Active, Wave, pc' = "ended"
    PROVE  Final'
<1>1. /\ pc = "wave" /\ Ready = {} /\ fixes = <<>>
      /\ Eject({e \in Entries : st[e] = "queued"})
      /\ UNCHANGED <<w, target, branch, ver, repairs, extra, batches, merged, fixes, todo>>
  BY DEF Wave, Same
<1> DEFINE E == {e \in Entries : st[e] = "queued"}
<1>2. E = {e \in Entries : st[e] \notin {"landed", "ejected"}} /\ EjectedWith(E) = E
  BY <1>1, OpenIs
<1>3. Mark(E, "ejected")
  BY <1>1, <1>2 DEF Eject
<1>4. out' = [e \in Entries |-> IF e \in E THEN "ejected" ELSE Withheld[e]]
  BY <1>2, <1>3 DEF Mark, Withheld
<1>5. st' = [e \in Entries |-> IF e \in E THEN "ejected" ELSE st[e]]
  BY <1>3 DEF Mark
<1>6. E \in SUBSET Entries /\ \A e \in E : st[e] \notin {"landed", "ejected"}
  OBVIOUS
<1> HIDE DEF E
<1> QED  BY <1>1, <1>4, <1>5, <1>6, GiveUpEnds

\* ... and failing while an ejection is recorded.
LEMMA EjectFailsEnds ==
    ASSUME Active, EjectFails
    PROVE  /\ Final' /\ pc' = "stopped"
           /\ \E S \in SUBSET Entries : GaveUp(S)
           /\ UNCHANGED <<w, target>>
<1>1. PICK S \in SUBSET Entries :
          MarkedOnly(S, "ejected") /\ \A e \in S : st[e] \notin {"landed", "ejected"}
  <2>1. CASE /\ pc \in {"askRepair", "integrate", "repair"}
             /\ \E S \in SUBSET EjectedWith({Head(todo)}) :
                    Head(todo) \in S /\ MarkedOnly(S, "ejected")
    <3>1. PICK S \in SUBSET EjectedWith({Head(todo)}) : MarkedOnly(S, "ejected")
      BY <2>1
    <3>2. Head(todo) \in Entries /\ st[Head(todo)] \in {"repair", "resolve"}
      BY <2>1, FixingIs DEF Fixing, Fixers
    <3>3. \A e \in EjectedWith({Head(todo)}) : st[e] \notin {"landed", "ejected"}
      BY <3>2, EjectedIs
    <3>4. EjectedWith({Head(todo)}) \in SUBSET Entries
      BY <3>2, EjectedIs
    <3> QED  BY <3>1, <3>3, <3>4
  <2>2. CASE \E S \in SUBSET {e \in Entries : st[e] = "queued"} : MarkedOnly(S, "ejected")
    BY <2>2
  <2> QED  BY <2>1, <2>2 DEF EjectFails
<1>2. /\ st' = [e \in Entries |-> IF e \in S THEN "ejected" ELSE st[e]]
      /\ out' = [e \in Entries |-> IF e \in S THEN "ejected" ELSE Withheld[e]]
      /\ pc' = "stopped"
  BY <1>1 DEF MarkedOnly
<1>3. UNCHANGED <<w, target, branch, ver, repairs, extra, batches, merged, fixes, todo>>
  BY DEF EjectFails
<1>4. Final'
  BY <1>1, <1>2, <1>3, GiveUpEnds
<1> QED  BY <1>1, <1>2, <1>3, <1>4 DEF GaveUp

\* Merging everything unverified, all the way or until git or the journal fails.
LEMMA MergeEnds ==
    ASSUME Active, pc = "merge", NEW ok \in SUBSET Entries, NEW marked \in SUBSET ok,
           target' = Commit(target, ok),
           st' = [e \in Entries |-> IF e \in marked THEN "landed" ELSE st[e]],
           \/ /\ pc' = "ended"
              /\ out' = [e \in Entries |-> IF e \in ok THEN "unverified" ELSE "conflicted"]
              /\ merged' = merged
           \/ /\ pc' = "stopped"
              /\ out' = [e \in Entries |-> IF e \in marked THEN out[e] ELSE "withheld"]
              /\ merged' = ok,
           UNCHANGED <<w, branch, ver, repairs, extra, batches, fixes, todo>>
    PROVE  Final'
<1>1. Types /\ Branches /\ Fails(w.base) /\ target = w.base
  BY DEF Active, Going, Verified, Early
<1>2. /\ Commit(target, ok) \in SUBSET Pieces /\ target \subseteq Commit(target, ok)
      /\ \A e \in Entries : <<e, 1>> \in Commit(target, ok) <=> (<<e, 1>> \in target \/ e \in ok)
  BY <1>1, CommitIs
<1>3. \A e \in Entries : <<e, 1>> \in target' <=> e \in ok
  BY <1>1, <1>2, WorksAre
<1>4. st' \in [Entries -> EntryStates] /\ out' \in [Entries -> Outcomes]
  BY <1>1 DEF Types, EntryStates, Outcomes
<1>5. Types' /\ Ended'
  BY <1>1, <1>2, <1>4 DEF Types, Ended
<1>6. Branches'
  BY <1>1, <1>2 DEF Branches
<1>7. TargetVerified' /\ BlockersLandFirst'
  BY <1>1, <1>5 DEF TargetVerified, BlockersLandFirst, Fails
<1>8. OutcomeTrueElsewhere'
  BY <1>3 DEF OutcomeTrueElsewhere
<1> QED  BY <1>5, <1>6, <1>7, <1>8 DEF Final

\* The verified batch is fast-forwarded to; it ends there if recording it fails.
LEMMA AdvanceFailsEnds ==
    ASSUME Active, AdvanceFails
    PROVE  /\ Final' /\ pc' = "stopped" /\ w' = w /\ target' = Commit(target, merged)
           /\ merged \in SUBSET Ready /\ ~Fails(Commit(target, merged))
           /\ \E F \in SUBSET merged :
                  st' = [e \in Entries |-> IF e \in F THEN "landed" ELSE st[e]]
<1>1. /\ pc = "advance" /\ target' = Commit(target, merged)
      /\ UNCHANGED <<w, branch, ver, repairs, extra, batches, merged, fixes, todo>>
  BY DEF AdvanceFails
<1>2. PICK k \in 1..Cardinality(merged) : MarkedOnly(First(merged, k), "landed")
  BY DEF AdvanceFails
<1>3. PICK F \in SUBSET merged : F = First(merged, k)
  BY DEF First
<1>4. /\ st' = [e \in Entries |-> IF e \in F THEN "landed" ELSE st[e]]
      /\ out' = [e \in Entries |-> IF e \in F THEN "landed" ELSE Withheld[e]]
      /\ pc' = "stopped"
  BY <1>2, <1>3 DEF MarkedOnly
<1>5. Types /\ Branches /\ Decided /\ merged \in SUBSET Ready /\ Passes(target, merged)
  BY <1>1 DEF Active, Going, Batched
<1>6. merged \in SUBSET Entries /\ w.blockedBy \in [Entries -> SUBSET Entries]
  BY <1>5, WorksAre DEF Types
<1>7. /\ target' \in SUBSET Pieces /\ target \subseteq target'
      /\ \A e \in Entries : <<e, 1>> \in target' <=> (<<e, 1>> \in target \/ e \in merged)
  BY <1>1, <1>5, <1>6, CommitIs
<1>8. \A e \in Entries : Withheld[e] = IF st[e] \in {"landed", "ejected"} THEN out[e] ELSE "withheld"
  BY DEF Withheld
<1>9. st' \in [Entries -> EntryStates] /\ out' \in [Entries -> Outcomes]
  BY <1>4, <1>5, <1>8 DEF Types, EntryStates, Outcomes
<1>10. Types' /\ Ended'
  BY <1>1, <1>4, <1>5, <1>7, <1>9 DEF Types, Ended
<1>11. Branches'
  BY <1>1, <1>5, <1>7 DEF Branches
<1>12. ~Fails(Commit(target, merged))
  BY <1>5 DEF Passes
<1>13. TargetVerified'
  BY <1>1, <1>12 DEF TargetVerified, Fails
<1>14. BlockersLandFirst'
  <2>1. ASSUME NEW e \in Entries, st'[e] = "landed", NEW b \in w.blockedBy[e]
        PROVE  st'[b] = "landed" /\ branch[b] \subseteq target'
    <3>1. b \in Entries
      BY <1>6
    <3>2. st[b] = "landed"
      BY <1>4, <1>5, <2>1 DEF Decided, Ready
    <3> QED  BY <1>4, <1>5, <1>7, <3>1, <3>2 DEF Decided
  <2> QED  BY <1>1, <2>1 DEF BlockersLandFirst
<1>15. OutcomeTrueElsewhere'
  <2> SUFFICES ASSUME NEW e \in Entries \ merged
               PROVE  out'[e] # "none" /\ (out'[e] \in {"landed", "unverified"} <=> <<e, 1>> \in target')
    BY <1>1 DEF OutcomeTrueElsewhere
  <2>1. /\ out[e] = IF st[e] \in {"landed", "ejected"} THEN st[e] ELSE "none"
        /\ <<e, 1>> \in target <=> st[e] = "landed"
    BY <1>5 DEF Decided
  <2>2. out'[e] = Withheld[e]
    BY <1>3, <1>4
  <2>3. <<e, 1>> \in target' <=> <<e, 1>> \in target
    BY <1>7
  <2> QED  BY <1>8, <2>1, <2>2, <2>3
<1>16. Final'
  BY <1>10, <1>11, <1>13, <1>14, <1>15 DEF Final
<1> QED  BY <1>1, <1>4, <1>5, <1>12, <1>16

(***************************************************************************)
(* Waves and batches                                                       *)
(***************************************************************************)
\* Nothing the invariant speaks of changes, or a baseline that fails is asked about.
LEMMA EarlyStays ==
    ASSUME Active, Baseline \/ AnswerMerge \/ Abort
    PROVE  Active'
<1>1. UNCHANGED <<w, target, branch, ver, st, repairs, extra, batches, merged, fixes, todo, out>>
  BY DEF Baseline, AnswerMerge, Abort, Same
<1>2. Types' /\ ~Ended'
  BY <1>1 DEF Active, Types, Ended, Baseline, AnswerMerge, Abort, LivePoints
<1>3. Branches' /\ Decided'
  BY <1>1 DEF Active, Going, Branches, Decided
<1>4. CASE Abort
  <2>1. pc' = pc
    BY <1>4 DEF Abort
  <2>2. Verified' /\ Batched' /\ Awaited'
    BY <1>1, <2>1 DEF Active, Going, Verified, Batched, Awaited, Ready, Passes, Commit, Fails
  <2> QED  BY <1>2, <1>3, <2>2 DEF Active, Going
<1>5. CASE Baseline
  <2>1. pc = "baseline" /\ pc' = IF Fails(target) THEN "ask" ELSE "wave"
    BY <1>5 DEF Baseline
  <2>2. /\ target = w.base /\ (\A e \in Entries : st[e] = "queued")
        /\ batches = <<>> /\ merged = {} /\ fixes = <<>> /\ todo = <<>>
    BY <2>1 DEF Active, Going, Verified, Batched, Awaited, Early, Fixers
  <2>3. Verified' /\ Batched'
    BY <1>1, <2>1, <2>2, Short DEF Verified, Batched, Early, Fails
  <2>4. Awaited'
    BY <1>1, <2>1, <2>2 DEF Active, Going, Awaited, Early, Fixers
  <2> QED  BY <1>2, <1>3, <2>3, <2>4 DEF Active, Going
<1>6. CASE AnswerMerge
  <2>1. pc = "ask" /\ pc' = "merge"
    BY <1>6 DEF AnswerMerge
  <2>2. /\ target = w.base /\ (\A e \in Entries : st[e] = "queued") /\ Fails(w.base)
        /\ batches = <<>> /\ merged = {} /\ fixes = <<>> /\ todo = <<>>
    BY <2>1 DEF Active, Going, Verified, Batched, Awaited, Early, Fixers
  <2>3. Verified' /\ Batched'
    BY <1>1, <2>1, <2>2, Short DEF Verified, Batched, Early, Fails
  <2>4. Awaited'
    BY <1>1, <2>1, <2>2 DEF Active, Going, Awaited, Early, Fixers
  <2> QED  BY <1>2, <1>3, <2>3, <2>4 DEF Active, Going
<1> QED  BY <1>4, <1>5, <1>6

\* A wave takes what is ready, or hands over what it could not land.
LEMMA WaveGoesOn ==
    ASSUME Active, Wave, pc' # "ended"
    PROVE  Active' /\ UNCHANGED <<w, target, st, out>>
<1>1. pc = "wave" /\ UNCHANGED <<w, target, branch, ver, repairs, extra, merged, st, out>>
  BY DEF Wave, Same
<1>2. /\ batches = <<>> /\ merged = {} /\ todo = <<>> /\ ~Fails(target)
      /\ fixes \in Seq(Entries) /\ OneEach(fixes)
      /\ Elems(fixes) \cup Elems(todo) = {e \in Entries : st[e] \in {"repair", "resolve"}}
  BY <1>1 DEF Active, Types, Going, Verified, Batched, Awaited, Early, Fixers
<1>3. /\ pc' \in {"land", "fix"}
      /\ pc' = "land" => /\ batches' = <<First(Ready, BatchSize)>>
                         /\ UNCHANGED <<fixes, todo>>
      /\ pc' = "fix" => /\ fixes # <<>> /\ todo' = fixes /\ fixes' = <<>> /\ UNCHANGED batches
  BY DEF Wave
<1>4. First(Ready, BatchSize) \subseteq Ready /\ Ready \subseteq Entries
  BY DEF First, Ready
<1>5. PICK B \in SUBSET Entries : B = First(Ready, BatchSize)
  BY <1>4
<1>6. <<B>> \in Seq(SUBSET Entries) /\ Elems(<<B>>) = {B} /\ Apart(<<B>>)
  BY Short
<1>7. \A S : <<>> \in Seq(S)
  BY Short
<1>8. Types' /\ ~Ended'
  BY <1>1, <1>2, <1>3, <1>5, <1>6, <1>7 DEF Active, Types, Ended, LivePoints
<1>9. Branches' /\ Decided' /\ Ready' = Ready
  BY <1>1 DEF Active, Going, Branches, Decided, Ready
<1>10. Verified'
  BY <1>1, <1>2, <1>3 DEF Verified, Early, Fails
<1>11. Batched'
  <2>1. CASE pc' = "land"
    BY <1>1, <1>2, <1>3, <1>4, <1>5, <1>6, <1>9, <2>1 DEF Batched
  <2>2. CASE pc' = "fix"
    BY <1>1, <1>2, <1>3, <2>2, Short DEF Batched
  <2> QED  BY <1>3, <2>1, <2>2
<1>12. Awaited'
  <2>1. CASE pc' = "land"
    BY <1>1, <1>2, <1>3, <2>1, Short DEF Awaited, Fixers, Early
  <2>2. CASE pc' = "fix"
    BY <1>1, <1>2, <1>3, <2>2, Short DEF Awaited, Fixers, Early
  <2> QED  BY <1>3, <2>1, <2>2
<1> QED  BY <1>1, <1>8, <1>9, <1>10, <1>11, <1>12 DEF Active, Going

\* The batches are through.
LEMMA LandedGoesOn ==
    ASSUME Active, Landed
    PROVE  Active'
<1>1. /\ pc = "land" /\ batches = <<>> /\ pc' = "wave"
      /\ UNCHANGED <<w, target, branch, ver, st, repairs, extra, batches, merged, fixes, todo, out>>
  BY DEF Landed, Same
<1>2. Types' /\ ~Ended'
  BY <1>1 DEF Active, Types, Ended, LivePoints
<1>3. Branches' /\ Decided' /\ Verified'
  BY <1>1 DEF Active, Going, Branches, Decided, Verified, Early, Fails
<1>4. Batched'
  BY <1>1, Short DEF Active, Going, Batched
<1>5. Awaited'
  BY <1>1 DEF Active, Going, Awaited, Fixers, Early
<1> QED  BY <1>2, <1>3, <1>4, <1>5 DEF Active, Going

\* The batch lands: its entries are done, and the batches behind it are still ready.
LEMMA AdvanceGoesOn ==
    ASSUME Active, Advance
    PROVE  /\ Active' /\ w' = w /\ target' = Commit(target, merged)
           /\ merged \in SUBSET Ready /\ ~Fails(Commit(target, merged))
           /\ st' = [e \in Entries |-> IF e \in merged THEN "landed" ELSE st[e]]
<1>1. /\ pc = "advance" /\ pc' = "land" /\ target' = Commit(target, merged) /\ merged' = {}
      /\ st' = [e \in Entries |-> IF e \in merged THEN "landed" ELSE st[e]]
      /\ out' = [e \in Entries |-> IF e \in merged THEN "landed" ELSE out[e]]
      /\ UNCHANGED <<w, branch, ver, repairs, extra, batches, fixes, todo>>
  BY DEF Advance, Mark, Same
<1>2. /\ Types /\ Branches /\ Decided /\ merged \in SUBSET Ready /\ Passes(target, merged)
      /\ \A B \in Elems(batches) : B \subseteq Ready /\ B \cap merged = {}
      /\ Apart(batches)
  BY <1>1 DEF Active, Going, Batched
<1>3. merged \in SUBSET Entries /\ w.blockedBy \in [Entries -> SUBSET Entries]
  BY <1>2, WorksAre DEF Types
<1>4. /\ target' \in SUBSET Pieces /\ target \subseteq target'
      /\ \A e \in merged : branch[e] \subseteq target'
      /\ \A e \in Entries : <<e, 1>> \in target' <=> (<<e, 1>> \in target \/ e \in merged)
  BY <1>1, <1>2, <1>3, CommitIs
<1>5. st' \in [Entries -> EntryStates] /\ out' \in [Entries -> Outcomes]
  BY <1>1, <1>2 DEF Types, EntryStates, Outcomes
<1>6. Types' /\ ~Ended'
  BY <1>1, <1>2, <1>4, <1>5 DEF Types, Ended
<1>7. Branches'
  BY <1>1, <1>2, <1>4 DEF Branches
<1>8. ~Fails(Commit(target, merged))
  BY <1>2 DEF Passes
<1>9. Verified'
  BY <1>1, <1>8 DEF Verified, Early, Fails
<1>10. \A e \in merged : st[e] = "queued" /\ \A b \in w.blockedBy[e] : st[b] = "landed"
  BY <1>2 DEF Ready
<1>11. Decided'
  <2> SUFFICES ASSUME NEW e \in Entries
               PROVE  /\ out'[e] = IF st'[e] \in {"landed", "ejected"} THEN st'[e] ELSE "none"
                      /\ <<e, 1>> \in target' <=> st'[e] = "landed"
                      /\ st'[e] = "landed" => branch[e] \subseteq target'
                      /\ st'[e] \in {"landed", "repair", "resolve"} =>
                            \A b \in w.blockedBy[e] : st'[b] = "landed"
    BY <1>1 DEF Decided
  <2>1. /\ out[e] = IF st[e] \in {"landed", "ejected"} THEN st[e] ELSE "none"
        /\ <<e, 1>> \in target <=> st[e] = "landed"
        /\ st[e] = "landed" => branch[e] \subseteq target
        /\ st[e] \in {"landed", "repair", "resolve"} => \A b \in w.blockedBy[e] : st[b] = "landed"
    BY <1>2 DEF Decided
  <2>2. \A b \in w.blockedBy[e] : b \in Entries
    BY <1>3
  <2>3. CASE e \in merged
    BY <1>1, <1>4, <1>10, <2>2, <2>3
  <2>4. CASE e \notin merged
    BY <1>1, <1>4, <2>1, <2>2, <2>4
  <2> QED  BY <2>3, <2>4
<1>12. Batched'
  <2>1. ASSUME NEW B \in Elems(batches), NEW e \in B PROVE e \in Ready'
    <3>1. e \in Entries /\ st[e] = "queued" /\ e \notin merged
          /\ \A b \in w.blockedBy[e] : st[b] = "landed"
      BY <1>2, <2>1 DEF Ready
    <3>2. \A b \in w.blockedBy[e] : b \in Entries
      BY <1>3, <3>1
    <3>3. st'[e] = "queued" /\ \A b \in w.blockedBy[e] : st'[b] = "landed"
      BY <1>1, <3>1, <3>2
    <3> QED  BY <1>1, <3>1, <3>3 DEF Ready
  <2>2. \A B \in Elems(batches') : B \subseteq Ready' /\ B \cap merged' = {}
    BY <1>1, <2>1
  <2> QED  BY <1>1, <1>2, <2>2 DEF Batched
<1>13. Awaited'
  <2>1. {e \in Entries : st'[e] \in {"repair", "resolve"}} = {e \in Entries : st[e] \in {"repair", "resolve"}}
    BY <1>1, <1>10
  <2> QED  BY <1>1, <2>1 DEF Active, Going, Awaited, Fixers, Early
<1>14. Active'
  BY <1>6, <1>7, <1>9, <1>11, <1>12, <1>13 DEF Active, Going
<1> QED  BY <1>1, <1>2, <1>8, <1>14

\* What conflicts or fails alone in a batch is handed over, and the batches left are ready.
LEMMA SentIs ==
    ASSUME Active, pc = "land",
           NEW clash \in SUBSET Ready, NEW culprits \in SUBSET Ready, clash \cap culprits = {},
           st' = [e \in Entries |-> IF e \in clash THEN "resolve"
                                    ELSE IF e \in culprits THEN "repair" ELSE st[e]],
           fixes' = fixes \o InOrder(clash) \o InOrder(culprits),
           batches' \in Seq(SUBSET Entries), Apart(batches'),
           \A B \in Elems(batches') :
               B \subseteq Ready /\ B \cap merged' = {} /\ B \cap (clash \cup culprits) = {},
           \/ pc' = "land" /\ merged' = merged
           \/ /\ pc' = "advance" /\ merged' \in SUBSET Ready /\ Passes(target, merged')
              /\ merged' \cap (clash \cup culprits) = {},
           UNCHANGED <<w, target, branch, ver, repairs, extra, todo, out>>
    PROVE  Active'
<1>1. /\ Types /\ Branches /\ Decided /\ ~Fails(target) /\ merged = {} /\ todo = <<>>
      /\ fixes \in Seq(Entries) /\ OneEach(fixes)
      /\ Elems(fixes) \cup Elems(todo) = {e \in Entries : st[e] \in {"repair", "resolve"}}
  BY DEF Active, Types, Going, Verified, Batched, Awaited, Early, Fixers
<1>2. \A e \in Ready : e \in Entries /\ st[e] = "queued" /\ \A b \in w.blockedBy[e] : st[b] = "landed"
  BY DEF Ready
<1>3. clash \in SUBSET Entries /\ culprits \in SUBSET Entries /\ merged' \in SUBSET Entries
  BY <1>1, <1>2
<1>4. /\ InOrder(clash) \in Seq(clash) /\ Elems(InOrder(clash)) = clash /\ OneEach(InOrder(clash))
      /\ InOrder(culprits) \in Seq(culprits) /\ Elems(InOrder(culprits)) = culprits
      /\ OneEach(InOrder(culprits))
  BY <1>3, InOrderIs
<1>5. InOrder(clash) \in Seq(Entries) /\ InOrder(culprits) \in Seq(Entries)
  <2>1. \A S \in SUBSET Entries : Seq(S) \subseteq Seq(Entries)
    OBVIOUS
  <2> QED  BY <1>3, <1>4, <2>1
<1>6. Elems(fixes) = {e \in Entries : st[e] \in {"repair", "resolve"}}
  BY <1>1, Short
<1>7. Elems(fixes) \cap clash = {} /\ (Elems(fixes) \cup clash) \cap culprits = {}
  BY <1>2, <1>6
<1>8. PICK s : s = fixes \o InOrder(clash)
  OBVIOUS
<1>9. s \in Seq(Entries) /\ Elems(s) = Elems(fixes) \cup clash /\ OneEach(s)
  BY <1>1, <1>4, <1>5, <1>7, <1>8, ConcatIs
<1>10. /\ fixes' \in Seq(Entries) /\ Elems(fixes') = Elems(fixes) \cup clash \cup culprits
       /\ OneEach(fixes')
  <2>1. PICK c : c = InOrder(culprits)
    OBVIOUS
  <2>2. c \in Seq(Entries) /\ Elems(c) = culprits /\ OneEach(c) /\ fixes' = s \o c
    BY <1>4, <1>5, <1>8, <2>1
  <2>3. Elems(s) \cap Elems(c) = {}
    BY <1>7, <1>9, <2>2
  <2>4. s \o c \in Seq(Entries) /\ Elems(s \o c) = Elems(s) \cup Elems(c) /\ OneEach(s \o c)
    BY <1>9, <2>2, <2>3, ConcatIs
  <2> QED  BY <1>9, <2>2, <2>4
<1>11. st' \in [Entries -> EntryStates]
  BY <1>1 DEF Types, EntryStates
<1>12. Types' /\ ~Ended'
  BY <1>1, <1>3, <1>10, <1>11 DEF Types, Ended, LivePoints
<1>13. \A e \in Entries : st'[e] = "landed" <=> st[e] = "landed"
  BY <1>2
<1>14. Branches' /\ Verified'
  BY <1>1 DEF Branches, Verified, Early, Fails
<1>15. w.blockedBy \in [Entries -> SUBSET Entries]
  BY <1>1, WorksAre
<1>16. Decided'
  <2> SUFFICES ASSUME NEW e \in Entries
               PROVE  /\ out[e] = IF st'[e] \in {"landed", "ejected"} THEN st'[e] ELSE "none"
                      /\ <<e, 1>> \in target <=> st'[e] = "landed"
                      /\ st'[e] = "landed" => branch[e] \subseteq target
                      /\ st'[e] \in {"landed", "repair", "resolve"} =>
                            \A b \in w.blockedBy[e] : st'[b] = "landed"
    BY DEF Decided
  <2>1. /\ out[e] = IF st[e] \in {"landed", "ejected"} THEN st[e] ELSE "none"
        /\ <<e, 1>> \in target <=> st[e] = "landed"
        /\ st[e] = "landed" => branch[e] \subseteq target
        /\ st[e] \in {"landed", "repair", "resolve"} => \A b \in w.blockedBy[e] : st[b] = "landed"
    BY <1>1 DEF Decided
  <2>2. \A b \in w.blockedBy[e] : b \in Entries
    BY <1>15
  <2>3. CASE e \in clash \cup culprits
    <3>1. st[e] = "queued" /\ st'[e] \in {"repair", "resolve"}
      BY <1>2, <2>3
    <3>2. \A b \in w.blockedBy[e] : st'[b] = "landed"
      BY <1>2, <1>13, <2>2, <2>3
    <3> QED  BY <2>1, <3>1, <3>2
  <2>4. CASE e \notin clash \cup culprits
    <3>1. st'[e] = st[e]
      BY <2>4
    <3> QED  BY <1>13, <2>1, <2>2, <3>1
  <2> QED  BY <2>3, <2>4
<1>17. ASSUME NEW e \in Ready, e \notin clash \cup culprits PROVE e \in Ready'
  <2>1. e \in Entries /\ st'[e] = "queued"
    BY <1>2, <1>17
  <2>2. \A b \in w.blockedBy[e] : st'[b] = "landed"
    BY <1>2, <1>13, <1>15, <2>1
  <2> QED  BY <2>1, <2>2 DEF Ready
<1>18. Batched'
  <2>1. \A B \in Elems(batches') : B \subseteq Ready' /\ B \cap merged' = {}
    BY <1>17
  <2>2. merged' \subseteq Ready' /\ (pc' # "advance" => merged' = {})
    BY <1>1, <1>17
  <2>3. pc' \in {"land", "advance"}
    OBVIOUS
  <2>4. pc' = "advance" => Passes(target, merged)'
    BY DEF Passes, Commit, Fails
  <2> QED  BY <2>1, <2>2, <2>3, <2>4 DEF Batched
<1>19. Awaited'
  <2>1. {e \in Entries : st'[e] \in {"repair", "resolve"}}
          = {e \in Entries : st[e] \in {"repair", "resolve"}} \cup clash \cup culprits
    <3>1. \A e \in Entries : st'[e] \in {"repair", "resolve"}
            <=> (st[e] \in {"repair", "resolve"} \/ e \in clash \cup culprits)
      OBVIOUS
    <3> QED  BY <1>3, <3>1
  <2> QED  BY <1>1, <1>6, <1>10, <2>1, Short DEF Awaited, Fixers, Early
<1> QED  BY <1>12, <1>14, <1>16, <1>18, <1>19 DEF Active, Going

\* A batch lands, in halves when it fails together, or what fails of it is handed over.
LEMMA LandGoesOn ==
    ASSUME Active, Land
    PROVE  Active' /\ UNCHANGED <<w, target>> /\ Undecided
<1> DEFINE batch == Head(batches)
           ok == Clean(target, InOrder(batch))
           clash == batch \ ok
           half == First(ok, Half(Cardinality(ok)))
           Sent(culprits) ==
             /\ st' = [e \in Entries |-> IF e \in clash THEN "resolve"
                                         ELSE IF e \in culprits THEN "repair" ELSE st[e]]
             /\ fixes' = fixes \o InOrder(clash) \o InOrder(culprits)
<1>1. /\ pc = "land" /\ batches # <<>>
      /\ UNCHANGED <<w, target, branch, ver, repairs, extra, todo, out>>
  BY DEF Land, Same
<1>2. /\ batches \in Seq(SUBSET Entries) /\ Apart(batches) /\ merged = {}
      /\ \A B \in Elems(batches) : B \subseteq Ready
  BY <1>1 DEF Active, Types, Going, Batched
<1>3. /\ batch \in SUBSET Entries /\ Tail(batches) \in Seq(SUBSET Entries)
      /\ Elems(batches) = {batch} \cup Elems(Tail(batches)) /\ Apart(Tail(batches))
      /\ \A B \in Elems(Tail(batches)) : B \cap batch = {}
  BY <1>1, <1>2, RestIs
<1>4. ok \subseteq batch
  <2>1. Elems(InOrder(batch)) = batch
    BY <1>3, InOrderIs
  <2> QED  BY <2>1, CleanIs
<1>5. batch \subseteq Ready /\ \A B \in Elems(Tail(batches)) : B \subseteq Ready
  BY <1>2, <1>3
<1>6. half \subseteq ok
  BY DEF First
<1>7. clash \subseteq batch /\ clash \cap ok = {}
  OBVIOUS
<1>8. \/ Sent({}) /\ batches' = Tail(batches) /\ UNCHANGED <<pc, merged>>
      \/ /\ Passes(target, ok) /\ Sent({}) /\ batches' = Tail(batches)
         /\ pc' = "advance" /\ merged' = ok
      \/ Sent(ok) /\ batches' = Tail(batches) /\ UNCHANGED <<pc, merged>>
      \/ Sent({}) /\ batches' = <<half, ok \ half>> \o Tail(batches) /\ UNCHANGED <<pc, merged>>
  BY DEF Land
<1> HIDE DEF ok, batch, half, clash
<1>9. \A e \in Ready : st[e] = "queued"
  BY DEF Ready
<1>10. ASSUME Sent({}) PROVE Undecided
  BY <1>5, <1>7, <1>9, <1>10 DEF Undecided
<1>11. CASE Sent({}) /\ batches' = Tail(batches) /\ UNCHANGED <<pc, merged>>
  <2>1. {} \in SUBSET Ready /\ clash \in SUBSET Ready /\ clash \cap {} = {}
    BY <1>5, <1>7
  <2>2. \A B \in Elems(batches') :
          B \subseteq Ready /\ B \cap merged' = {} /\ B \cap (clash \cup {}) = {}
    BY <1>2, <1>3, <1>5, <1>7, <1>11
  <2>3. Active'
    BY <1>1, <1>3, <1>11, <2>1, <2>2, SentIs
  <2> QED  BY <1>1, <1>10, <1>11, <2>3
<1>12. CASE /\ Passes(target, ok) /\ Sent({}) /\ batches' = Tail(batches)
            /\ pc' = "advance" /\ merged' = ok
  <2>1. {} \in SUBSET Ready /\ clash \in SUBSET Ready /\ clash \cap {} = {}
    BY <1>5, <1>7
  <2>2. \A B \in Elems(batches') :
          B \subseteq Ready /\ B \cap merged' = {} /\ B \cap (clash \cup {}) = {}
    BY <1>3, <1>4, <1>5, <1>7, <1>12
  <2>3. /\ pc' = "advance" /\ merged' \in SUBSET Ready /\ Passes(target, merged')
        /\ merged' \cap (clash \cup {}) = {}
    BY <1>4, <1>5, <1>7, <1>12
  <2>4. Active'
    BY <1>1, <1>3, <1>12, <2>1, <2>2, <2>3, SentIs
  <2> QED  BY <1>1, <1>10, <1>12, <2>4
<1>13. CASE Sent(ok) /\ batches' = Tail(batches) /\ UNCHANGED <<pc, merged>>
  <2>1. ok \in SUBSET Ready /\ clash \in SUBSET Ready /\ clash \cap ok = {}
    BY <1>4, <1>5, <1>7
  <2>2. \A B \in Elems(batches') :
          B \subseteq Ready /\ B \cap merged' = {} /\ B \cap (clash \cup ok) = {}
    BY <1>2, <1>3, <1>4, <1>5, <1>7, <1>13
  <2>3. Active'
    BY <1>1, <1>3, <1>13, <2>1, <2>2, SentIs
  <2>4. Undecided
    BY <1>9, <1>13, <2>1 DEF Undecided
  <2> QED  BY <1>1, <2>3, <2>4
<1>14. CASE Sent({}) /\ batches' = <<half, ok \ half>> \o Tail(batches) /\ UNCHANGED <<pc, merged>>
  <2>1. {} \in SUBSET Ready /\ clash \in SUBSET Ready /\ clash \cap {} = {}
    BY <1>5, <1>7
  <2>2. half \in SUBSET Entries /\ ok \ half \in SUBSET Entries /\ half \cap (ok \ half) = {}
    BY <1>3, <1>4, <1>6
  <2>3. PICK s : s = <<half, ok \ half>>
    OBVIOUS
  <2>4. s \in Seq(SUBSET Entries) /\ Elems(s) = {half, ok \ half} /\ Apart(s)
    <3>1. PICK a \in SUBSET Entries, b \in SUBSET Entries :
            a = half /\ b = ok \ half /\ a \cap b = {}
      BY <2>2
    <3>2. <<a, b>> \in Seq(SUBSET Entries) /\ Elems(<<a, b>>) = {a, b} /\ Apart(<<a, b>>)
      BY <3>1, PairIs
    <3>3. s = <<a, b>>
      BY <2>3, <3>1
    <3> QED  BY <3>1, <3>2, <3>3
  <2>5. \A x \in Elems(s), y \in Elems(Tail(batches)) : x \cap y = {}
    BY <1>3, <1>4, <1>6, <2>4
  <2>6. /\ batches' \in Seq(SUBSET Entries) /\ Apart(batches')
        /\ Elems(batches') = {half, ok \ half} \cup Elems(Tail(batches))
    <3>1. PICK t : t = Tail(batches)
      OBVIOUS
    <3>2. /\ t \in Seq(SUBSET Entries) /\ Apart(t)
          /\ \A x \in Elems(s), y \in Elems(t) : x \cap y = {}
      BY <1>3, <2>5, <3>1
    <3>3. /\ s \o t \in Seq(SUBSET Entries) /\ Elems(s \o t) = Elems(s) \cup Elems(t)
          /\ Apart(s \o t)
      <4> HIDE <3>1
      <4> QED  BY <2>4, <3>2, ConcatIs
    <3>4. batches' = s \o t
      BY <1>14, <2>3, <3>1
    <3> QED  BY <2>4, <3>1, <3>3, <3>4
  <2>7. \A B \in Elems(batches') :
          B \subseteq Ready /\ B \cap merged' = {} /\ B \cap (clash \cup {}) = {}
    <3>1. \A B \in {half, ok \ half} : B \subseteq ok
      BY <1>6
    <3>2. ok \subseteq Ready /\ ok \cap clash = {} /\ clash \subseteq batch /\ merged' = {}
      BY <1>2, <1>4, <1>5, <1>7, <1>14
    <3>3. \A B \in Elems(Tail(batches)) : B \subseteq Ready /\ B \cap batch = {}
      BY <1>3, <1>5
    <3> QED  BY <2>6, <3>1, <3>2, <3>3
  <2>8. Active'
    BY <1>1, <1>14, <2>1, <2>6, <2>7, SentIs
  <2> QED  BY <1>1, <1>10, <1>14, <2>8
<1> HIDE DEF Sent
<1> QED  BY <1>8, <1>11, <1>12, <1>13, <1>14

(***************************************************************************)
(* Agent steps                                                             *)
(***************************************************************************)
\* The end of an agent step: what is left awaits its own, or the next wave.
LEMMA FixDoneIs ==
    ASSUME Active, pc \in Fixers, FixDone,
           {e \in Entries : st'[e] \in {"repair", "resolve"}}
               = {e \in Entries : st[e] \in {"repair", "resolve"}} \ {Fixing}
    PROVE  /\ Awaited' /\ todo' \in Seq(Entries) /\ fixes' \in Seq(Entries)
           /\ batches' = <<>> /\ batches' \in Seq(SUBSET Entries) /\ merged' = {}
           /\ pc' \in {"wave", "fix"} /\ Batched'
<1>1. /\ Tail(todo) \in Seq(Entries) /\ OneEach(Tail(todo))
      /\ Elems(Tail(todo)) = {e \in Entries : st[e] \in {"repair", "resolve"}} \ {Fixing}
      /\ fixes = <<>> /\ batches = <<>> /\ merged = {}
      /\ Len(todo) = 1 => Tail(todo) = <<>>
      /\ Len(todo) # 1 => Tail(todo) # <<>>
  BY FixingIs
<1>2. /\ pc' = (IF Len(todo) = 1 THEN "wave" ELSE "fix") /\ todo' = Tail(todo)
      /\ UNCHANGED <<batches, merged, fixes>>
  BY DEF FixDone, Next_
<1>3. Elems(fixes') = {} /\ OneEach(fixes') /\ \A S : <<>> \in Seq(S)
  BY <1>1, <1>2, Short
<1>4. Awaited'
  BY <1>1, <1>2, <1>3 DEF Awaited, Fixers, Early
<1>5. Batched'
  BY <1>1, <1>2, Short DEF Batched
<1> QED  BY <1>1, <1>2, <1>3, <1>4, <1>5

\* What its agent step fixed is queued again.
LEMMA Queued ==
    ASSUME Active, pc \in Fixers, FixDone, UNCHANGED <<w, target, out>>,
           st' = [st EXCEPT ![Fixing] = "queued"],
           branch' \in [Entries -> SUBSET Pieces],
           \A e \in Entries \ {Fixing} : branch'[e] = branch[e], Branches',
           ver' \in [Entries -> 1..MaxVersion],
           repairs' \in [Entries -> Nat], extra' \in [Entries -> Nat]
    PROVE  Active' /\ Undecided
<1>1. Types /\ Decided
  BY DEF Active, Going
<1>2. Fixing \in Entries /\ st[Fixing] \in {"repair", "resolve"} /\ ~Fails(target)
  BY FixingIs
<1>3. \A e \in Entries : st'[e] = IF e = Fixing THEN "queued" ELSE st[e]
  BY <1>1 DEF Types
<1>4. {e \in Entries : st'[e] \in {"repair", "resolve"}}
        = {e \in Entries : st[e] \in {"repair", "resolve"}} \ {Fixing}
  BY <1>3
<1>5. /\ Awaited' /\ todo' \in Seq(Entries) /\ fixes' \in Seq(Entries)
      /\ batches' \in Seq(SUBSET Entries) /\ merged' = {}
      /\ pc' \in {"wave", "fix"} /\ Batched'
  BY <1>4, FixDoneIs
<1>6. st' \in [Entries -> EntryStates]
  BY <1>1 DEF Types, EntryStates
<1>7. Types' /\ ~Ended'
  BY <1>1, <1>5, <1>6 DEF Types, Ended, LivePoints
<1>8. Verified'
  BY <1>2, <1>5 DEF Verified, Early, Fails
<1>9. w.blockedBy \in [Entries -> SUBSET Entries]
  BY <1>1, WorksAre
<1>10. \A e \in Entries : st'[e] = "landed" <=> st[e] = "landed"
  BY <1>2, <1>3
<1>11. Decided'
  <2> SUFFICES ASSUME NEW e \in Entries
               PROVE  /\ out[e] = IF st'[e] \in {"landed", "ejected"} THEN st'[e] ELSE "none"
                      /\ <<e, 1>> \in target <=> st'[e] = "landed"
                      /\ st'[e] = "landed" => branch'[e] \subseteq target
                      /\ st'[e] \in {"landed", "repair", "resolve"} =>
                            \A b \in w.blockedBy[e] : st'[b] = "landed"
    BY DEF Decided
  <2>1. /\ out[e] = IF st[e] \in {"landed", "ejected"} THEN st[e] ELSE "none"
        /\ <<e, 1>> \in target <=> st[e] = "landed"
        /\ st[e] = "landed" => branch[e] \subseteq target
        /\ st[e] \in {"landed", "repair", "resolve"} => \A b \in w.blockedBy[e] : st[b] = "landed"
    BY <1>1 DEF Decided
  <2>2. \A b \in w.blockedBy[e] : b \in Entries
    BY <1>9
  <2>3. CASE e = Fixing
    BY <1>2, <1>3, <2>1, <2>3
  <2>4. CASE e # Fixing
    <3>1. st'[e] = st[e] /\ branch'[e] = branch[e]
      BY <1>3, <2>4
    <3> QED  BY <1>10, <2>1, <2>2, <3>1
  <2> QED  BY <2>3, <2>4
<1>12. Active'
  BY <1>5, <1>7, <1>8, <1>11 DEF Active, Going
<1> QED  BY <1>2, <1>3, <1>12 DEF Undecided

\* What is not fixed is ejected, with everything behind it.
LEMMA Ejected ==
    ASSUME Active, pc \in Fixers, FixDone, Eject({Fixing}),
           UNCHANGED <<w, target, branch, ver>>,
           repairs' \in [Entries -> Nat], extra' \in [Entries -> Nat]
    PROVE  /\ Active'
           /\ \E S \in SUBSET Entries : GaveUp(S) /\ Closed(S)
<1>1. Types /\ Branches /\ Decided
  BY DEF Active, Going
<1>2. Fixing \in Entries /\ st[Fixing] \in {"repair", "resolve"} /\ ~Fails(target)
  BY FixingIs
<1>3. {Fixing} \in SUBSET Entries /\ \A e \in {Fixing} : st[e] \notin {"landed", "ejected"}
  BY <1>2
<1>4. PICK S \in SUBSET Entries : S = EjectedWith({Fixing})
  BY <1>3, EjectedIs
<1>5. /\ Fixing \in S /\ \A e \in S : st[e] \notin {"landed", "ejected"}
      /\ \A e \in Entries : (st[e] \notin {"landed", "ejected"}
                             /\ w.blockedBy[e] \cap S # {}) => e \in S
  BY <1>3, <1>4, EjectedIs
<1>6. \A e \in S : e = Fixing \/ st[e] = "queued"
  BY <1>2, <1>4, EjectedIs
<1>7. /\ st' = [e \in Entries |-> IF e \in S THEN "ejected" ELSE st[e]]
      /\ out' = [e \in Entries |-> IF e \in S THEN "ejected" ELSE out[e]]
  BY <1>4 DEF Eject, Mark
<1>8. {e \in Entries : st'[e] \in {"repair", "resolve"}}
        = {e \in Entries : st[e] \in {"repair", "resolve"}} \ {Fixing}
  BY <1>5, <1>6, <1>7
<1>9. /\ Awaited' /\ todo' \in Seq(Entries) /\ fixes' \in Seq(Entries)
      /\ batches' \in Seq(SUBSET Entries) /\ merged' = {}
      /\ pc' \in {"wave", "fix"} /\ Batched'
  BY <1>8, FixDoneIs
<1>10. st' \in [Entries -> EntryStates] /\ out' \in [Entries -> Outcomes]
  BY <1>1, <1>7 DEF Types, EntryStates, Outcomes
<1>11. Types' /\ ~Ended'
  BY <1>1, <1>9, <1>10 DEF Types, Ended, LivePoints
<1>12. Branches' /\ Verified'
  BY <1>1, <1>2, <1>9 DEF Branches, Verified, Early, Fails
<1>13. w.blockedBy \in [Entries -> SUBSET Entries]
  BY <1>1, WorksAre
<1>14. \A e \in Entries : st'[e] = "landed" <=> st[e] = "landed"
  BY <1>5, <1>7
<1>15. Decided'
  <2> SUFFICES ASSUME NEW e \in Entries
               PROVE  /\ out'[e] = IF st'[e] \in {"landed", "ejected"} THEN st'[e] ELSE "none"
                      /\ <<e, 1>> \in target <=> st'[e] = "landed"
                      /\ st'[e] = "landed" => branch[e] \subseteq target
                      /\ st'[e] \in {"landed", "repair", "resolve"} =>
                            \A b \in w.blockedBy[e] : st'[b] = "landed"
    BY DEF Decided
  <2>1. /\ out[e] = IF st[e] \in {"landed", "ejected"} THEN st[e] ELSE "none"
        /\ <<e, 1>> \in target <=> st[e] = "landed"
        /\ st[e] = "landed" => branch[e] \subseteq target
        /\ st[e] \in {"landed", "repair", "resolve"} => \A b \in w.blockedBy[e] : st[b] = "landed"
    BY <1>1 DEF Decided
  <2>2. \A b \in w.blockedBy[e] : b \in Entries
    BY <1>13
  <2>3. CASE e \in S
    BY <1>5, <1>7, <2>1, <2>3
  <2>4. CASE e \notin S
    <3>1. st'[e] = st[e] /\ out'[e] = out[e]
      BY <1>7, <2>4
    <3> QED  BY <1>14, <2>1, <2>2, <3>1
  <2> QED  BY <2>3, <2>4
<1>16. Active'
  BY <1>9, <1>11, <1>12, <1>15 DEF Active, Going
<1> QED  BY <1>5, <1>7, <1>16 DEF GaveUp, Closed

\* One part of an agent step leads to another.
LEMMA FixGoesOn ==
    ASSUME Active, pc \in Fixers, pc' \in Fixers,
           UNCHANGED <<w, target, st, out, batches, merged, fixes, todo>>,
           branch' \in [Entries -> SUBSET Pieces],
           \A e \in Entries \ {Fixing} : branch'[e] = branch[e], Branches',
           ver' \in [Entries -> 1..MaxVersion],
           repairs' \in [Entries -> Nat], extra' \in [Entries -> Nat]
    PROVE  Active'
<1>1. Types /\ Decided /\ Awaited
  BY DEF Active, Going
<1>2. Fixing \in Entries /\ st[Fixing] \in {"repair", "resolve"} /\ ~Fails(target)
  BY FixingIs
<1>3. batches = <<>> /\ merged = {}
  BY FixingIs
<1>4. Types' /\ ~Ended'
  BY <1>1 DEF Types, Ended, Fixers, LivePoints
<1>5. Verified' /\ Awaited'
  BY <1>1, <1>2 DEF Verified, Awaited, Fixers, Early, Fails
<1>6. Batched'
  BY <1>3, Short DEF Batched, Fixers
<1>7. Decided'
  BY <1>1, <1>2 DEF Decided
<1> QED  BY <1>4, <1>5, <1>6, <1>7 DEF Active, Going

\* What comes into an entry's branch is its own, or the target's.
LEMMA BranchStays ==
    ASSUME Active, pc \in Fixers, target' = target, NEW X, X \subseteq Own(Fixing) \cup target,
           branch' = [branch EXCEPT ![Fixing] = @ \cup X]
    PROVE  /\ Branches' /\ branch' \in [Entries -> SUBSET Pieces]
           /\ \A e \in Entries \ {Fixing} : branch'[e] = branch[e]
<1>1. Types /\ Branches /\ Fixing \in Entries
  BY FixingIs DEF Active
<1>2. X \in SUBSET Pieces
  BY <1>1, OwnIs DEF Types
<1>3. branch \in [Entries -> SUBSET Pieces]
  BY <1>1 DEF Types
<1>4. /\ branch' \in [Entries -> SUBSET Pieces]
      /\ \A e \in Entries : branch'[e] = IF e = Fixing THEN branch[e] \cup X ELSE branch[e]
  BY <1>1, <1>2, <1>3
<1>5. Branches'
  BY <1>1, <1>4 DEF Branches
<1> QED  BY <1>4, <1>5

\* Whether an entry's step is its repair or the resolver's is told by its state.
LEMMA FixStarts ==
    ASSUME Active, Fix
    PROVE  Active' /\ UNCHANGED <<w, target, st>>
<1>1. /\ pc \in Fixers /\ pc' \in Fixers
      /\ UNCHANGED <<w, target, branch, ver, st, repairs, extra, out, batches, merged, fixes, todo>>
  BY DEF Fix, Next_, Same, Fixers
<1>2. Types /\ Branches
  BY DEF Active
<1>3. Branches'
  BY <1>1, <1>2 DEF Branches
<1>4. Active'
  BY <1>1, <1>2, <1>3, FixGoesOn DEF Types
<1> QED  BY <1>1, <1>4

\* A person lets a culprit go, or grants one more repair.
LEMMA AskRepairGoesOn ==
    ASSUME Active, AskRepair
    PROVE  /\ Active' /\ UNCHANGED <<w, target>>
           /\ Undecided \/ \E S \in SUBSET Entries : GaveUp(S) /\ Closed(S)
<1>1. pc \in Fixers /\ UNCHANGED <<w, target, branch, ver, repairs>>
  BY DEF AskRepair, Fixers
<1>2. Types /\ Branches /\ Fixing \in Entries
  BY <1>1, FixingIs DEF Active
<1>3. /\ branch \in [Entries -> SUBSET Pieces] /\ ver \in [Entries -> 1..MaxVersion]
      /\ repairs \in [Entries -> Nat] /\ extra \in [Entries -> Nat]
  BY <1>2 DEF Types
<1>4. Branches'
  BY <1>1, <1>2 DEF Branches
<1>5. CASE Eject({Fixing}) /\ FixDone /\ UNCHANGED <<extra, retries>>
  BY <1>1, <1>3, <1>5, Ejected
<1>6. CASE /\ Next_("integrate") /\ extra' = [extra EXCEPT ![Fixing] = @ + 1]
           /\ UNCHANGED <<st, out, todo>>
  <2>1. extra' \in [Entries -> Nat]
    BY <1>2, <1>3, <1>6
  <2>2. pc' \in Fixers /\ UNCHANGED <<w, target, st, out, batches, merged, fixes, todo>>
    BY <1>1, <1>6 DEF Next_, Fixers
  <2>3. Active'
    BY <1>1, <1>3, <1>4, <2>1, <2>2, FixGoesOn
  <2> QED  BY <1>1, <2>2, <2>3 DEF Undecided
<1> QED  BY <1>5, <1>6 DEF AskRepair

\* The tip is merged into the branch, and what was fixed is queued or goes to its repair.
LEMMA IntegratedIs ==
    ASSUME Active, pc = "integrate", Integrated, UNCHANGED <<w, target, repairs, extra, out>>,
           NEW X, X \subseteq Own(Fixing) \cup target,
           branch' = [branch EXCEPT ![Fixing] = @ \cup X],
           ver' \in [Entries -> 1..MaxVersion]
    PROVE  Active' /\ Undecided
<1>1. pc \in Fixers /\ Types
  BY DEF Fixers, Active
<1>2. /\ Branches' /\ branch' \in [Entries -> SUBSET Pieces]
      /\ \A e \in Entries \ {Fixing} : branch'[e] = branch[e]
  BY <1>1, BranchStays
<1>3. repairs' \in [Entries -> Nat] /\ extra' \in [Entries -> Nat]
  BY <1>1 DEF Types
<1>4. CASE st[Fixing] = "resolve"
  <2>1. st' = [st EXCEPT ![Fixing] = "queued"] /\ FixDone
    BY <1>4 DEF Integrated
  <2> QED  BY <1>1, <1>2, <1>3, <2>1, Queued
<1>5. CASE st[Fixing] # "resolve"
  <2>1. st' = st /\ pc' \in Fixers /\ UNCHANGED <<batches, merged, fixes, todo>>
    BY <1>5 DEF Integrated, Next_, Fixers
  <2>2. Active'
    BY <1>1, <1>2, <1>3, <2>1, FixGoesOn
  <2> QED  BY <2>1, <2>2 DEF Undecided
<1> QED  BY <1>4, <1>5

\* integrate() and resolve(), with or without a conflict.
LEMMA IntegrateGoesOn ==
    ASSUME Active, Integrate
    PROVE  /\ Active' /\ UNCHANGED <<w, target>>
           /\ Undecided \/ \E S \in SUBSET Entries : GaveUp(S) /\ Closed(S)
<1>1. pc = "integrate" /\ pc \in Fixers /\ UNCHANGED <<w, target, repairs, extra>>
  BY DEF Integrate, Fixers
<1>2. Types /\ Branches /\ Fixing \in Entries
  BY <1>1, FixingIs DEF Active
<1>3. /\ branch \in [Entries -> SUBSET Pieces] /\ ver \in [Entries -> 1..MaxVersion]
      /\ repairs \in [Entries -> Nat] /\ extra \in [Entries -> Nat]
  BY <1>2 DEF Types
<1>4. CASE /\ branch' = [branch EXCEPT ![Fixing] = @ \cup target]
           /\ Integrated /\ UNCHANGED <<ver, out, retries>>
  <2>1. target \subseteq Own(Fixing) \cup target
    OBVIOUS
  <2> QED  BY <1>1, <1>3, <1>4, <2>1, IntegratedIs
<1>5. CASE /\ ver[Fixing] < MaxVersion
           /\ ver' = [ver EXCEPT ![Fixing] = @ + 1]
           /\ branch' = [branch EXCEPT ![Fixing] = @ \cup target \cup {<<Fixing, ver[Fixing] + 1>>}]
           /\ Integrated /\ UNCHANGED <<out, retries>>
  <2>1. ver[Fixing] \in 1..MaxVersion /\ MaxVersion \in Nat
    BY <1>2, <1>3, LandTrainConstants
  <2>2. ver[Fixing] + 1 \in 1..MaxVersion
    BY <1>5, <2>1
  <2>3. ver' \in [Entries -> 1..MaxVersion]
    BY <1>2, <1>3, <1>5, <2>2
  <2>4. PICK X : X = target \cup {<<Fixing, ver[Fixing] + 1>>}
    OBVIOUS
  <2>5. X \subseteq Own(Fixing) \cup target
    BY <1>2, <2>2, <2>4, OwnIs
  <2>6. branch' = [branch EXCEPT ![Fixing] = @ \cup X]
    BY <1>3, <1>5, <2>4
  <2> QED  BY <1>1, <1>5, <2>3, <2>5, <2>6, IntegratedIs
<1>6. CASE Eject({Fixing}) /\ FixDone /\ UNCHANGED <<branch, ver, retries>>
  <2>1. repairs' \in [Entries -> Nat] /\ extra' \in [Entries -> Nat]
    BY <1>1, <1>3
  <2> QED  BY <1>1, <1>6, <2>1, Ejected
<1>7. CASE Next_("integrate") /\ UNCHANGED <<branch, ver, st, out, todo>>
  <2>1. pc' \in Fixers /\ UNCHANGED <<w, target, st, out, batches, merged, fixes, todo>>
    BY <1>1, <1>7 DEF Next_, Fixers
  <2>2. Branches'
    BY <1>1, <1>2, <1>7 DEF Branches
  <2>3. Active'
    BY <1>1, <1>3, <1>7, <2>1, <2>2, FixGoesOn
  <2> QED  BY <1>1, <2>1, <2>3 DEF Undecided
<1> QED  BY <1>4, <1>5, <1>6, <1>7 DEF Integrate

\* The member's repair.
LEMMA RepairGoesOn ==
    ASSUME Active, Repair
    PROVE  /\ Active' /\ UNCHANGED <<w, target>>
           /\ Undecided \/ \E S \in SUBSET Entries : GaveUp(S) /\ Closed(S)
<1>1. /\ pc \in Fixers /\ FixDone /\ UNCHANGED <<w, target, extra>>
      /\ repairs' = [repairs EXCEPT ![Fixing] = @ + 1]
  BY DEF Repair, Fixers, Same
<1>2. Types /\ Branches /\ Fixing \in Entries
  BY <1>1, FixingIs DEF Active
<1>3. /\ branch \in [Entries -> SUBSET Pieces] /\ ver \in [Entries -> 1..MaxVersion]
      /\ repairs \in [Entries -> Nat] /\ extra \in [Entries -> Nat]
  BY <1>2 DEF Types
<1>4. repairs' \in [Entries -> Nat] /\ extra' \in [Entries -> Nat]
  BY <1>1, <1>2, <1>3
<1>5. CASE /\ ver[Fixing] < MaxVersion
           /\ ver' = [ver EXCEPT ![Fixing] = @ + 1]
           /\ branch' = [branch EXCEPT ![Fixing] = @ \cup {<<Fixing, ver[Fixing] + 1>>}]
           /\ st' = [st EXCEPT ![Fixing] = "queued"] /\ out' = out
  <2>1. ver[Fixing] \in 1..MaxVersion /\ MaxVersion \in Nat
    BY <1>2, <1>3, LandTrainConstants
  <2>2. ver[Fixing] + 1 \in 1..MaxVersion
    BY <1>5, <2>1
  <2>3. ver' \in [Entries -> 1..MaxVersion]
    BY <1>2, <1>3, <1>5, <2>2
  <2>4. {<<Fixing, ver[Fixing] + 1>>} \subseteq Own(Fixing) \cup target
    BY <1>2, <2>2, OwnIs
  <2>5. /\ Branches' /\ branch' \in [Entries -> SUBSET Pieces]
        /\ \A e \in Entries \ {Fixing} : branch'[e] = branch[e]
    BY <1>1, <1>5, <2>4, BranchStays
  <2> QED  BY <1>1, <1>4, <1>5, <2>3, <2>5, Queued
<1>6. CASE st' = [st EXCEPT ![Fixing] = "queued"] /\ out' = out /\ UNCHANGED <<ver, branch>>
  <2>1. Branches'
    BY <1>1, <1>2, <1>6 DEF Branches
  <2> QED  BY <1>1, <1>3, <1>4, <1>6, <2>1, Queued
<1>7. CASE Eject({Fixing}) /\ UNCHANGED <<ver, branch>>
  BY <1>1, <1>4, <1>7, Ejected
<1> QED  BY <1>5, <1>6, <1>7 DEF Repair

(***************************************************************************)
(* The invariant and what follows from it                                  *)
(***************************************************************************)
\* Everything merged, all the way or not.
LEMMA MergingEnds ==
    ASSUME Active, MergeAll \/ MergeAllFails
    PROVE  /\ Final' /\ w' = w /\ pc = "merge"
           /\ \E ok \in SUBSET Entries : \E marked \in SUBSET ok :
                 /\ target' = Commit(target, ok)
                 /\ st' = [e \in Entries |-> IF e \in marked THEN "landed" ELSE st[e]]
                 /\ pc' = "stopped" \/ (pc' = "ended" /\ marked = ok)
<1>1. CASE MergeAll
  <2>1. PICK order \in Orders :
          LET ok == Clean(target, order)
          IN  /\ target' = Commit(target, ok)
              /\ st' = [e \in Entries |-> IF e \in ok THEN "landed" ELSE st[e]]
              /\ out' = [e \in Entries |-> IF e \in ok THEN "unverified" ELSE "conflicted"]
    BY <1>1 DEF MergeAll
  <2>2. PICK ok : ok = Clean(target, order)
    OBVIOUS
  <2>3. ok \in SUBSET Entries
    <3>1. ok \subseteq Elems(order)
      BY <2>2, CleanIs
    <3> QED  BY <3>1 DEF Elems, Orders
  <2>4. /\ target' = Commit(target, ok)
        /\ st' = [e \in Entries |-> IF e \in ok THEN "landed" ELSE st[e]]
        /\ out' = [e \in Entries |-> IF e \in ok THEN "unverified" ELSE "conflicted"]
    BY <2>1, <2>2
  <2>5. /\ pc = "merge" /\ pc' = "ended" /\ merged' = merged
        /\ UNCHANGED <<w, branch, ver, repairs, extra, batches, fixes, todo>>
    BY <1>1 DEF MergeAll, Same
  <2>6. Final'
    BY <2>3, <2>4, <2>5, MergeEnds
  <2> QED  BY <2>3, <2>4, <2>5, <2>6
<1>2. CASE MergeAllFails
  <2>1. PICK order \in Orders, k \in 0..N, j \in 0..N :
          LET ok == Clean(target, SubSeq(order, 1, k))
              marked == ok \cap {order[i] : i \in 1..j}
          IN  /\ target' = Commit(target, ok) /\ merged' = ok
              /\ st' = [e \in Entries |-> IF e \in marked THEN "landed" ELSE st[e]]
              /\ out' = [e \in Entries |-> IF e \in marked THEN out[e] ELSE "withheld"]
    BY <1>2 DEF MergeAllFails
  <2>2. PICK ok : ok = Clean(target, SubSeq(order, 1, k))
    OBVIOUS
  <2>3. ok \in SUBSET Entries
    <3>1. ok \subseteq Elems(SubSeq(order, 1, k))
      BY <2>2, CleanIs
    <3>2. order \in [Entries -> Entries]
      BY DEF Orders
    <3> QED  BY <3>1, <3>2, StartIs
  <2>4. PICK marked \in SUBSET ok : marked = ok \cap {order[i] : i \in 1..j}
    OBVIOUS
  <2>5. /\ target' = Commit(target, ok) /\ merged' = ok
        /\ st' = [e \in Entries |-> IF e \in marked THEN "landed" ELSE st[e]]
        /\ out' = [e \in Entries |-> IF e \in marked THEN out[e] ELSE "withheld"]
    BY <2>1, <2>2, <2>4
  <2>6. /\ pc = "merge" /\ pc' = "stopped"
        /\ UNCHANGED <<w, branch, ver, repairs, extra, batches, fixes, todo>>
    BY <1>2 DEF MergeAllFails
  <2>7. Final'
    BY <2>3, <2>5, <2>6, MergeEnds
  <2> QED  BY <2>3, <2>5, <2>6, <2>7
<1> QED  BY <1>1, <1>2

\* Every early stop keeps what was decided.
LEMMA StoppingEnds ==
    ASSUME Active, StopAborted \/ AnswerStop \/ Throw \/ Unavailable
    PROVE  Final' /\ UNCHANGED <<w, target, st>> /\ pc' = "stopped"
<1>1. Stop /\ w' = w
  BY DEF StopAborted, AnswerStop, Throw, Unavailable, Same
<1> QED  BY <1>1, StopEnds DEF Stop

\* When the train is over, it is over.
LEMMA NothingAfter ==
    ASSUME Final, Next
    PROVE  FALSE
<1>1. pc \in {"ended", "stopped"}
  BY DEF Final, Ended
<1>2. ~Step
  BY <1>1 DEF Step, StopAborted, Baseline, AnswerStop, AnswerMerge, MergeAll, Wave, Land, Landed,
              Advance, Fix, AskRepair, Integrate, Repair, LivePoints
<1>3. ~Throw /\ ~Unavailable /\ ~MergeAllFails /\ ~AdvanceFails /\ ~EjectFails /\ ~Abort
  BY <1>1 DEF Throw, Unavailable, MergeAllFails, AdvanceFails, EjectFails, Abort
<1> QED  BY <1>2, <1>3 DEF Next

\* The invariant holds at first ...
LEMMA InitIsActive ==
    ASSUME Init
    PROVE  Active
<1>1. /\ pc = "baseline" /\ w \in Works /\ target = w.base
      /\ branch = [e \in Entries |-> {<<e, 1>>}] /\ ver = [e \in Entries |-> 1]
      /\ st = [e \in Entries |-> "queued"] /\ out = [e \in Entries |-> "none"]
      /\ repairs = [e \in Entries |-> 0] /\ extra = [e \in Entries |-> 0]
      /\ batches = <<>> /\ merged = {} /\ fixes = <<>> /\ todo = <<>>
  BY DEF Init
<1>2. w.base \subseteq {<<0, 1>>} /\ \A e \in Entries : e # 0
  BY <1>1, LandTrainConstants DEF Entries
<1>3. 1 \in 1..MaxVersion
  BY LandTrainConstants
<1>4. \A e \in Entries : {<<e, 1>>} \subseteq Own(e) /\ {<<e, 1>>} \in SUBSET Pieces
  BY OwnIs
<1>5. target \in SUBSET Pieces
  BY <1>1, <1>2 DEF Pieces
<1>6. \A S : <<>> \in Seq(S)
  BY Short
<1>7. Types /\ ~Ended
  BY <1>1, <1>3, <1>4, <1>5, <1>6 DEF Types, Ended, LivePoints, EntryStates, Outcomes
<1>8. Branches
  BY <1>1, <1>4 DEF Branches
<1>9. Decided
  <2>1. \A e \in Entries : <<e, 1>> \notin target
    BY <1>1, <1>7, WorksAre
  <2> QED  BY <1>1, <2>1 DEF Decided
<1>10. Verified
  BY <1>1 DEF Verified, Early
<1>11. Batched
  BY <1>1, Short DEF Batched
<1>12. Awaited
  BY <1>1, Short DEF Awaited, Fixers, Early
<1> QED  BY <1>7, <1>8, <1>9, <1>10, <1>11, <1>12 DEF Active, Going

\* ... and every step keeps it.
LEMMA StepKeeps ==
    ASSUME IInv, [Next]_vars
    PROVE  IInv'
<1>1. CASE UNCHANGED vars
  <2>1. CASE Active
    <3>1. Types' /\ ~Ended' /\ Branches' /\ Decided' /\ Verified'
      BY <1>1, <2>1 DEF vars, Active, Going, Types, Ended, Branches, Decided, Verified, Early, Fails
    <3>2. Batched' /\ Awaited'
      BY <1>1, <2>1 DEF vars, Active, Going, Batched, Awaited, Ready, Passes, Commit, Fails
    <3> QED  BY <3>1, <3>2 DEF IInv, Active, Going
  <2>2. CASE Final
    <3>1. Types' /\ Ended' /\ Branches'
      BY <1>1, <2>2 DEF vars, Final, Types, Ended, Branches
    <3>2. TargetVerified' /\ BlockersLandFirst' /\ OutcomeTrueElsewhere'
      BY <1>1, <2>2 DEF vars, Final, Ended, TargetVerified, BlockersLandFirst,
                        OutcomeTrueElsewhere, Fails
    <3> QED  BY <3>1, <3>2 DEF IInv, Final
  <2> QED  BY <2>1, <2>2 DEF IInv
<1>2. CASE Next
  <2>1. Active
    BY <1>2, NothingAfter DEF IInv
  <2>2. StopAborted \/ AnswerStop \/ Throw \/ Unavailable => IInv'
    BY <2>1, StoppingEnds DEF IInv
  <2>3. MergeAll \/ MergeAllFails => IInv'
    BY <2>1, MergingEnds DEF IInv
  <2>4. Baseline \/ AnswerMerge \/ Abort => IInv'
    BY <2>1, EarlyStays DEF IInv
  <2>5. Wave => IInv'
    BY <2>1, WaveEnds, WaveGoesOn DEF IInv
  <2>6. Land => IInv'
    BY <2>1, LandGoesOn DEF IInv
  <2>7. Landed => IInv'
    BY <2>1, LandedGoesOn DEF IInv
  <2>8. Advance => IInv'
    BY <2>1, AdvanceGoesOn DEF IInv
  <2>9. Fix => IInv'
    BY <2>1, FixStarts DEF IInv
  <2>10. AskRepair => IInv'
    BY <2>1, AskRepairGoesOn DEF IInv
  <2>11. Integrate => IInv'
    BY <2>1, IntegrateGoesOn DEF IInv
  <2>12. Repair => IInv'
    BY <2>1, RepairGoesOn DEF IInv
  <2>13. AdvanceFails => IInv'
    BY <2>1, AdvanceFailsEnds DEF IInv
  <2>14. EjectFails => IInv'
    BY <2>1, EjectFailsEnds DEF IInv
  <2> QED  BY <1>2, <2>2, <2>3, <2>4, <2>5, <2>6, <2>7, <2>8, <2>9, <2>10, <2>11, <2>12, <2>13,
              <2>14 DEF Next, Step
<1> QED  BY <1>1, <1>2

\* The invariant holds of every state landTrain reaches.
THEOREM TrainInvariant == Spec => []IInv
<1>1. Init => IInv
  BY InitIsActive DEF IInv
<1>2. IInv /\ [Next]_vars => IInv'
  BY StepKeeps
<1> QED  BY <1>1, <1>2, PTL DEF Spec

\* What the invariant says before the train is over is what its properties say.
LEMMA InvariantSays ==
    ASSUME IInv
    PROVE  LandSafe /\ TargetVerified /\ OutcomeTrueElsewhere
<1>1. Types
  BY DEF IInv, Active, Final
<1>2. ~Ended => \A e \in Elems(fixes) \cup Elems(todo) : st[e] \in {"repair", "resolve"}
  <2> SUFFICES ASSUME ~Ended PROVE \A e \in Elems(fixes) \cup Elems(todo) : st[e] \in {"repair", "resolve"}
    OBVIOUS
  <2>1. Elems(fixes) \cup Elems(todo) = {e \in Entries : st[e] \in {"repair", "resolve"}}
    BY DEF IInv, Final, Active, Going, Awaited
  <2> QED  BY <2>1
<1>3. TypeOK
  BY <1>1, <1>2 DEF TypeOK, Types
<1>4. CASE Active
  <2>1. TargetVerified
    BY <1>4 DEF Active, Going, Verified, TargetVerified
  <2>2. w.blockedBy \in [Entries -> SUBSET Entries]
    BY <1>1, WorksAre
  <2>3. BlockersLandFirst
    BY <1>4, <2>2 DEF Active, Going, Decided, BlockersLandFirst
  <2>4. OutcomeTrueElsewhere
    BY <1>4 DEF Active, OutcomeTrueElsewhere
  <2> QED  BY <1>3, <2>1, <2>3, <2>4 DEF LandSafe
<1>5. CASE Final
  BY <1>3, <1>5 DEF Final, LandSafe
<1> QED  BY <1>4, <1>5 DEF IInv

\* Through waves, bisections, repairs, ejections and failures the state keeps its shape,
\* no entry lands before what it is blocked by has, and the target passes or did not before.
THEOREM LandIsSafe == Spec => []LandSafe
BY TrainInvariant, InvariantSays, PTL

\* The target never holds what the verifier did not pass there, unless it failed before
\* and a person had everything merged unverified.
THEOREM LandsWhatWasVerified == Spec => []TargetVerified
BY TrainInvariant, InvariantSays, PTL

\* However the train ends, the outcome says of each entry what became of it, but of those
\* that were being landed when git or the journal failed.
THEOREM OutcomeIsTrue == Spec => []OutcomeTrueElsewhere
BY TrainInvariant, InvariantSays, PTL

(***************************************************************************)
(* The train keeps RunLanding's promise                                    *)
(***************************************************************************)
Fate == [e \in Entries |-> IF st[e] \in {"landed", "ejected"} THEN st[e] ELSE "open"]
Over == IF pc = "ended" THEN "done" ELSE IF pc = "stopped" THEN "stopped" ELSE "no"

\* A step that decides nothing of the entries is none of RunLanding's.
LEMMA DecidesNothing ==
    ASSUME Active, ~Ended', UNCHANGED <<w, target>>, Undecided
    PROVE  UNCHANGED Landing!vars
<1>1. \A e \in Entries : (IF st'[e] \in {"landed", "ejected"} THEN st'[e] ELSE "open")
                       = (IF st[e] \in {"landed", "ejected"} THEN st[e] ELSE "open")
  BY DEF Undecided
<1>2. Fate' = Fate
  BY <1>1 DEF Fate
<1>3. Over' = Over
  BY DEF Over, Active, Ended
<1> QED  BY <1>2, <1>3 DEF Landing!vars, Fate, Over

\* Giving entries up is, with all that waits for them or stopping there.
LEMMA GivesUp ==
    ASSUME Active, UNCHANGED <<w, target>>, NEW S \in SUBSET Entries, GaveUp(S),
           \/ pc' = "stopped"
           \/ Closed(S) /\ ~Ended'
           \/ /\ Closed(S) /\ pc' = "ended"
              /\ S = {e \in Entries : st[e] \notin {"landed", "ejected"}}
    PROVE  Landing!Next
<1>1. Over = "no"
  BY DEF Over, Active, Ended
<1>2. Landing!Open = {e \in Entries : st[e] \notin {"landed", "ejected"}}
  BY DEF Landing!Open
<1>3. S \in SUBSET Landing!Open
  BY <1>2 DEF GaveUp
<1>4. Fate' = [e \in Entries |-> IF e \in S THEN "ejected" ELSE Fate[e]]
  BY DEF Fate, GaveUp
<1>5. Landing!Decide(S, "ejected")
  BY <1>4 DEF Landing!Decide, Fate
<1>6. \/ Over' = "stopped"
      \/ /\ \A e \in Landing!Open : w.blockedBy[e] \cap S # {} => e \in S
         /\ Over' = "no" \/ (Over' = "done" /\ S = Landing!Open)
  BY <1>2 DEF Over, Ended, Closed
<1>7. Landing!GiveUp(S)
  BY <1>5, <1>6 DEF Landing!GiveUp, Over
<1> QED  BY <1>1, <1>3, <1>7 DEF Landing!Next, Over

\* The work of the entries that land, and no other's, comes to the target.
LEMMA GainsIs ==
    ASSUME Active, NEW S \in SUBSET Entries, target' = Commit(target, S)
    PROVE  Landing!Gains(S)
BY CommitIs DEF Landing!Gains, Active

\* A verified batch lands, recorded or not.
LEMMA Lands ==
    ASSUME Active, w' = w, target' = Commit(target, merged), merged \in SUBSET Ready,
           ~Fails(Commit(target, merged)), NEW F \in SUBSET merged,
           st' = [e \in Entries |-> IF e \in F THEN "landed" ELSE st[e]],
           pc' = "stopped" \/ (~Ended' /\ F = merged)
    PROVE  Landing!Next
<1>1. Over = "no"
  BY DEF Over, Active, Ended
<1>2. \A e \in Ready : e \in Entries /\ st[e] = "queued" /\ \A b \in w.blockedBy[e] : st[b] = "landed"
  BY DEF Ready
<1>3. merged \in SUBSET Landing!Open
  BY <1>2 DEF Landing!Open
<1>4. Fate' = [e \in Entries |-> IF e \in F THEN "landed" ELSE Fate[e]]
  BY DEF Fate
<1>5. Landing!Decide(F, "landed")
  BY <1>4 DEF Landing!Decide, Fate
<1>6. w.blockedBy \in [Entries -> SUBSET Entries]
  BY WorksAre DEF Active
<1>7. \A e \in merged : \A b \in w.blockedBy[e] : Fate[b] = "landed"
  BY <1>2, <1>6 DEF Fate
<1>8. merged \in SUBSET Entries
  BY <1>2
<1>9. Landing!Gains(merged)
  BY <1>8, GainsIs
<1>10. ~Landing!Fails(target')
  BY DEF Landing!Fails, Fails
<1>11. Over' = "stopped" \/ (Over' = "no" /\ F = merged)
  BY DEF Over, Ended
<1>12. Landing!Land(merged, F)
  BY <1>5, <1>7, <1>9, <1>10, <1>11 DEF Landing!Land, Fate, Over
<1> QED  BY <1>1, <1>3, <1>12 DEF Landing!Next, Over

\* Everything is merged unverified onto a target that failed before.
LEMMA Merges ==
    ASSUME Active, pc = "merge", w' = w, NEW ok \in SUBSET Entries, NEW marked \in SUBSET ok,
           target' = Commit(target, ok),
           st' = [e \in Entries |-> IF e \in marked THEN "landed" ELSE st[e]],
           pc' = "stopped" \/ (pc' = "ended" /\ marked = ok)
    PROVE  Landing!Next
<1>1. Over = "no"
  BY DEF Over, Active, Ended
<1>2. target = w.base /\ Fails(w.base) /\ \A e \in Entries : st[e] = "queued"
  BY DEF Active, Going, Verified, Early
<1>3. Landing!Open = Entries
  BY <1>2 DEF Landing!Open
<1>4. Fate' = [e \in Entries |-> IF e \in marked THEN "landed" ELSE Fate[e]]
  BY DEF Fate
<1>5. Landing!Decide(marked, "landed")
  BY <1>4 DEF Landing!Decide, Fate
<1>6. Landing!Gains(ok)
  BY GainsIs
<1>7. Landing!Fails(w.base)
  BY <1>2 DEF Landing!Fails, Fails
<1>8. Over' = "stopped" \/ (Over' = "done" /\ marked = ok)
  BY DEF Over
<1>9. Landing!MergeUnverified(ok, marked)
  BY <1>2, <1>3, <1>5, <1>6, <1>7, <1>8 DEF Landing!MergeUnverified, Over
<1> QED  BY <1>1, <1>3, <1>9 DEF Landing!Next, Over

\* Every step is one of RunLanding's or none.
LEMMA StepLands ==
    ASSUME IInv, [Next]_vars
    PROVE  [Landing!Next]_(Landing!vars)
<1>1. CASE UNCHANGED vars
  BY <1>1 DEF vars, Landing!vars
<1>2. CASE Next
  <2>1. Active
    BY <1>2, NothingAfter DEF IInv
  <2>2. ASSUME StopAborted \/ AnswerStop \/ Throw \/ Unavailable PROVE Landing!Next
    <3>1. UNCHANGED <<w, target, st>> /\ pc' = "stopped"
      BY <2>1, <2>2, StoppingEnds
    <3>2. st' = [e \in Entries |-> IF e \in {} THEN "ejected" ELSE st[e]]
      BY <2>1, <3>1 DEF Active, Types
    <3>3. GaveUp({})
      BY <3>2 DEF GaveUp
    <3> QED  BY <2>1, <3>1, <3>3, GivesUp
  <2>3. MergeAll \/ MergeAllFails => Landing!Next
    BY <2>1, MergingEnds, Merges
  <2>4. Baseline \/ AnswerMerge \/ Abort => UNCHANGED Landing!vars
    <3> SUFFICES ASSUME Baseline \/ AnswerMerge \/ Abort PROVE UNCHANGED Landing!vars
      OBVIOUS
    <3>1. UNCHANGED <<w, target, st>>
      BY DEF Baseline, AnswerMerge, Abort, Same
    <3>2. Active'
      BY <2>1, EarlyStays
    <3> QED  BY <2>1, <3>1, <3>2, DecidesNothing DEF Undecided, Active
  <2>5. Wave => [Landing!Next]_(Landing!vars)
    <3> SUFFICES ASSUME Wave PROVE [Landing!Next]_(Landing!vars)
      OBVIOUS
    <3>1. CASE pc' = "ended"
      <4>1. /\ pc = "wave" /\ fixes = <<>> /\ UNCHANGED <<w, target>>
            /\ Eject({e \in Entries : st[e] = "queued"})
        BY <3>1 DEF Wave, Same
      <4>2. PICK S \in SUBSET Entries : S = {e \in Entries : st[e] = "queued"}
        OBVIOUS
      <4>3. S = {e \in Entries : st[e] \notin {"landed", "ejected"}} /\ EjectedWith(S) = S
        BY <2>1, <4>1, <4>2, OpenIs
      <4>4. GaveUp(S)
        BY <4>1, <4>2, <4>3 DEF GaveUp, Eject, Mark
      <4>5. Closed(S)
        BY <4>3 DEF Closed
      <4> QED  BY <2>1, <3>1, <4>1, <4>3, <4>4, <4>5, GivesUp
    <3>2. CASE pc' # "ended"
      <4>1. Active' /\ UNCHANGED <<w, target, st, out>>
        BY <2>1, <3>2, WaveGoesOn
      <4> QED  BY <2>1, <4>1, DecidesNothing DEF Undecided, Active
    <3> QED  BY <3>1, <3>2
  <2>6. Land => UNCHANGED Landing!vars
    BY <2>1, LandGoesOn, DecidesNothing DEF Active
  <2>7. Landed => UNCHANGED Landing!vars
    <3> SUFFICES ASSUME Landed PROVE UNCHANGED Landing!vars
      OBVIOUS
    <3>1. UNCHANGED <<w, target, st>> /\ Active'
      BY <2>1, LandedGoesOn DEF Landed, Same
    <3> QED  BY <2>1, <3>1, DecidesNothing DEF Undecided, Active
  <2>8. Advance => Landing!Next
    <3> SUFFICES ASSUME Advance PROVE Landing!Next
      OBVIOUS
    <3>1. /\ Active' /\ w' = w /\ target' = Commit(target, merged)
          /\ merged \in SUBSET Ready /\ ~Fails(Commit(target, merged))
          /\ st' = [e \in Entries |-> IF e \in merged THEN "landed" ELSE st[e]]
      BY <2>1, AdvanceGoesOn
    <3>2. ~Ended' /\ merged \in SUBSET merged
      BY <3>1 DEF Active
    <3> QED  BY <2>1, <3>1, <3>2, Lands
  <2>9. Fix => UNCHANGED Landing!vars
    BY <2>1, FixStarts, DecidesNothing DEF Undecided, Active
  <2>10. ASSUME AskRepair \/ Integrate \/ Repair PROVE [Landing!Next]_(Landing!vars)
    <3>1. /\ Active' /\ UNCHANGED <<w, target>>
          /\ Undecided \/ \E S \in SUBSET Entries : GaveUp(S) /\ Closed(S)
      BY <2>1, <2>10, AskRepairGoesOn, IntegrateGoesOn, RepairGoesOn
    <3>2. ~Ended'
      BY <3>1 DEF Active
    <3>3. CASE Undecided
      BY <2>1, <3>1, <3>2, <3>3, DecidesNothing
    <3>4. CASE \E S \in SUBSET Entries : GaveUp(S) /\ Closed(S)
      BY <2>1, <3>1, <3>2, <3>4, GivesUp
    <3> QED  BY <3>1, <3>3, <3>4
  <2>11. AdvanceFails => Landing!Next
    BY <2>1, AdvanceFailsEnds, Lands
  <2>12. EjectFails => Landing!Next
    BY <2>1, EjectFailsEnds, GivesUp
  <2> QED  BY <1>2, <2>2, <2>3, <2>4, <2>5, <2>6, <2>7, <2>8, <2>9, <2>10, <2>11, <2>12
              DEF Next, Step
<1> QED  BY <1>1, <1>2

\* Whatever its waves, bisections, repairs, conflicts and failures, the train lands as
\* RunLanding promises.
THEOREM TrainKeepsItsPromise == Spec => LandsAsPromised
<1>1. Init => Landing!Init
  <2> SUFFICES ASSUME Init PROVE Landing!Init
    OBVIOUS
  <2>1. Fate = [e \in Entries |-> "open"]
    BY DEF Fate, Init
  <2>2. Over = "no"
    BY DEF Over, Init
  <2>3. w.blockedBy \in [Entries -> SUBSET Entries]
    BY LandTrainConstants DEF Init
  <2> QED  BY <2>1, <2>2, <2>3 DEF Landing!Init, Init, Fate, Over
<1>2. IInv /\ [Next]_vars => [Landing!Next]_(Landing!vars)
  BY StepLands
<1> QED  BY <1>1, <1>2, TrainInvariant, PTL DEF Spec, LandsAsPromised, Landing!Spec
=============================================================================
