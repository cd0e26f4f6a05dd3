---------------------------- MODULE JournalProofs ----------------------------
(***************************************************************************)
(* Theorems about SwarmJournal, for any number of takeovers, followers and *)
(* failures: no takeover writes the journal beside the lead, and what was  *)
(* acknowledged is not cut off; and, unless an append was torn or          *)
(* takeovers ran at once, the file can be read and opened again, and a     *)
(* follower is given exactly what it begins with.                          *)
(***************************************************************************)
EXTENDS SwarmJournal, FiniteSetTheorems, SequenceTheorems, WellFoundedInduction, TLAPS

(***************************************************************************)
(* The inductive invariant                                                 *)
(***************************************************************************)
Halves == [ev: Event, half: {1, 2}]

\* An event that is whole in the file f.
Whole(f, i) == i \in DOMAIN f /\ f[i].half = 2

Types ==
    /\ file \in Seq(Halves)
    /\ at \in [Procs -> {"off", "viewed", "open", "done", "dead"}]
    /\ events \in [Procs -> Seq(Event)]
    /\ nextSeq \in [Procs -> Nat]
    /\ writes \in [Procs -> Seq(Event)]
    /\ half \in [Procs -> 0..2]
    /\ cursor \in [Followers -> -1..MaxSeq]
    /\ together \in BOOLEAN
    /\ tears \in Nat

\* A process's appends are its own, and only the lead's can say that the run is running.
OwnQueue(p) ==
    /\ half[p] # 0 => at[p] = "open" /\ writes[p] # <<>>
    /\ at[p] \in {"off", "viewed"} => writes[p] = <<>>
    /\ \A i \in DOMAIN writes[p] :
         writes[p][i].by = p /\ (writes[p][i].kind = "running" => p = Lead)

\* Who may be at work on the journal, and who wrote that the run is running.
Roles ==
    /\ at[Lead] # "viewed"
    /\ at[Lead] = "off" => file = <<>> /\ \A t \in Takers : at[t] = "off"
    /\ \A t \in Takers : at[t] \in {"viewed", "open"} =>
         /\ at[Lead] = "dead"
         /\ ~together => \A u \in Takers : u # t => at[u] \in {"off", "done", "dead"}
    /\ together => at[Lead] = "dead"
    /\ \A i \in DOMAIN file : file[i].ev.kind = "running" => file[i].ev.by = Lead
    /\ \A p \in Procs : OwnQueue(p)

\* The seqs there are, whoever writes.
InBounds(p) ==
    /\ nextSeq[p] <= MaxSeq
    /\ \A k \in DOMAIN writes[p] : writes[p][k].seq < nextSeq[p]

Bounded ==
    /\ \A i \in DOMAIN file : file[i].ev.seq < MaxSeq
    /\ \A p \in Procs : at[p] = "open" => InBounds(p)

\* A line that is written whole stays, whoever cuts the file.
Wholly(p) == half[p] = 2 => \E i \in DOMAIN file : file[i] = [ev |-> Head(writes[p]), half |-> 2]

Written == \A p \in Procs : Wholly(p)

\* The seqs of the whole events grow with their places.
Growing ==
    \A i, j \in DOMAIN file : Whole(file, i) /\ Whole(file, j) /\ i < j =>
        file[i].ev.seq < file[j].ev.seq

\* A whole event that is not the one its writer is about to know.
Behind(p, i) == Whole(file, i) /\ ~(half[p] = 2 /\ i = Len(file))

\* A writer knows nothing but whole events, in order, and the seqs it took are past them.
Ahead(p) ==
    /\ \A i \in DOMAIN file : Whole(file, i) => file[i].ev.seq < nextSeq[p]
    /\ \A i \in DOMAIN file, k \in DOMAIN writes[p] :
         Behind(p, i) => file[i].ev.seq < writes[p][k].seq
    /\ half[p] = 2 => Whole(file, Len(file)) /\ file[Len(file)].ev = Head(writes[p])
    /\ \A k, l \in DOMAIN writes[p] : k < l => writes[p][k].seq < writes[p][l].seq
    /\ \A k \in DOMAIN events[p] :
         \E i \in DOMAIN file : Behind(p, i) /\ file[i].ev = events[p][k]
    /\ \A k, l \in DOMAIN events[p] : k < l => events[p][k].seq < events[p][l].seq

\* So it is while one process at a time takes the run over.
Ordered ==
    ~together =>
      /\ Growing
      /\ \A p \in Procs : at[p] = "open" => Ahead(p)
      /\ given \in [Followers -> Seq(Event)]

\* A file no append was torn in: its lines are whole, but for the last one.
Shaped(f) ==
    \A i \in DOMAIN f :
      /\ f[i].half = IF i % 2 = 1 THEN 1 ELSE 2
      /\ i % 2 = 1 /\ i < Len(f) => f[i].ev = f[i + 1].ev

\* Its writer has read all of it, but for the line it is at.
Synced(p) ==
    /\ half[p] # 2 => events[p] = Lines(file)
    /\ half[p] = 2 => Append(events[p], Head(writes[p])) = Lines(file)
    /\ half[p] = 1 => Len(file) % 2 = 1 /\ file[Len(file)].ev = Head(writes[p])
    /\ half[p] # 1 => Len(file) % 2 = 0

\* A follower has what it begins with, up to its cursor.
Followed(f) ==
    /\ Len(given[f]) <= Len(Lines(file))
    /\ \A i \in DOMAIN given[f] : given[f][i] = Lines(file)[i]
    /\ cursor[f] = IF given[f] = <<>> THEN -1 ELSE Last(given[f]).seq

\* So it is while moreover no append is torn.
Untorn ==
    tears = 0 /\ ~together =>
      /\ Shaped(file)
      /\ \A p \in Procs : at[p] = "open" => Synced(p)
      /\ \A f \in Followers : Followed(f)

IInv == Types /\ Roles /\ Bounded /\ Written /\ Ordered /\ Untorn /\ ResolvedKept

(***************************************************************************)
(* What load() makes of a file                                             *)
(***************************************************************************)
\* A set of places has a last one.
LEMMA LastPlace ==
    ASSUME NEW n \in Nat, NEW S \in SUBSET (1..n), S # {}
    PROVE  \E m \in S : \A i \in S : i <= m
<1> DEFINE T == {n - i : i \in S}
<1>1. \A i \in S : i \in 1..n /\ n - i \in Nat /\ n - i \in T
  OBVIOUS
<1>2. T \subseteq Nat /\ T # {}
  BY <1>1
<1>3. PICK x \in T : \A y \in T : ~(<<y, x>> \in OpToRel(<, Nat))
  BY <1>2, NatLessThanWellFounded, WFMin
<1>4. \A y \in T : ~(y < x)
  BY <1>2, <1>3 DEF OpToRel
<1>5. PICK m \in S : x = n - m
  OBVIOUS
<1>6. \A i \in S : ~(n - i < n - m)
  BY <1>1, <1>4, <1>5
<1> QED  BY <1>1, <1>6

\* Odd and even places.
LEMMA Parity ==
    \A n \in Nat :
      /\ n % 2 \in {0, 1}
      /\ n % 2 = 0 <=> (n + 1) % 2 = 1
      /\ n # 0 => (n % 2 = 0 <=> (n - 1) % 2 = 1)
      /\ (2 * n) % 2 = 0 /\ (2 * n) \div 2 = n
      /\ n \div 2 \in Nat
      /\ n % 2 = 0 => 2 * (n \div 2) = n
OBVIOUS

\* The complete lines end at the last newline.
LEMMA EndIsLast ==
    ASSUME NEW f \in Seq(Halves)
    PROVE  /\ End(f) \in 0..Len(f)
           /\ End(f) # 0 => Whole(f, End(f))
           /\ \A i \in DOMAIN f : Whole(f, i) => i <= End(f)
<1> DEFINE ends == {i \in DOMAIN f : f[i].half = 2}
<1>1. ends \in SUBSET (1..Len(f)) /\ Len(f) \in Nat
  OBVIOUS
<1>2. CASE ends = {}
  BY <1>1, <1>2 DEF End, Whole
<1>3. CASE ends # {}
  <2>1. \E m \in ends : \A j \in ends : j <= m
    BY <1>1, <1>3, LastPlace
  <2> DEFINE last == CHOOSE i \in ends : \A j \in ends : j <= i
  <2>2. last \in ends /\ \A j \in ends : j <= last
    BY <2>1
  <2>3. End(f) = last
    BY <1>3 DEF End
  <2> HIDE DEF last
  <2> QED  BY <1>1, <2>2, <2>3 DEF Whole
<1> QED  BY <1>2, <1>3

\* The events of a file, when it parses, are its whole ones.
LEMMA LinesAreWhole ==
    ASSUME NEW f \in Seq(Halves), Parses(f)
    PROVE  /\ Lines(f) \in Seq(Event)
           /\ 2 * Len(Lines(f)) = End(f)
           /\ \A i \in DOMAIN Lines(f) :
                Whole(f, 2 * i) /\ Lines(f)[i] = f[2 * i].ev
           /\ \A k \in DOMAIN f : Whole(f, k) =>
                \E i \in DOMAIN Lines(f) : k = 2 * i /\ Lines(f)[i] = f[k].ev
<1> DEFINE n == End(f) \div 2
<1>1. End(f) \in 0..Len(f) /\ End(f) % 2 = 0
  BY EndIsLast DEF Parses
<1>2. n \in Nat /\ 2 * n = End(f)
  BY <1>1
<1>3. \A i \in 1..n : 2 * i \in DOMAIN f /\ 2 * i \in 1..End(f) /\ (2 * i) % 2 = 0
  BY <1>1, <1>2
<1>4. \A i \in 1..n : f[2 * i].ev \in Event /\ f[2 * i].half = 2
  <2> TAKE i \in 1..n
  <2>1. f[2 * i] \in Halves
    BY <1>3
  <2>2. f[2 * i].half = IF (2 * i) % 2 = 1 THEN 1 ELSE 2
    BY <1>3 DEF Parses
  <2> QED  BY <1>3, <2>1, <2>2 DEF Halves
<1>5. /\ Lines(f) = [i \in 1..n |-> f[2 * i].ev]
      /\ Lines(f) \in Seq(Event) /\ Len(Lines(f)) = n
      /\ DOMAIN Lines(f) = 1..n
  BY <1>2, <1>4 DEF Lines
<1>6. ASSUME NEW k \in DOMAIN f, Whole(f, k)
      PROVE  \E i \in 1..n : k = 2 * i
  <2>1. k \in 1..End(f)
    BY <1>6, EndIsLast
  <2>2. k % 2 = 0
    BY <1>6, <2>1 DEF Parses, Whole
  <2>3. k \div 2 \in 1..n /\ k = 2 * (k \div 2)
    BY <1>2, <2>1, <2>2
  <2> QED  BY <2>3
<1>7. \A i \in 1..n : Whole(f, 2 * i) /\ Lines(f)[i] = f[2 * i].ev
  BY <1>3, <1>4, <1>5 DEF Whole
<1> HIDE DEF n
<1> QED  BY <1>2, <1>5, <1>6, <1>7

\* A file no append was torn in parses, up to the line being written.
LEMMA ShapedParses ==
    ASSUME NEW f \in Seq(Halves), Shaped(f)
    PROVE  /\ Parses(f)
           /\ End(f) = IF Len(f) % 2 = 0 THEN Len(f) ELSE Len(f) - 1
           /\ \A i \in DOMAIN Lines(f) : Lines(f)[i] = f[2 * i].ev
<1>1. Len(f) \in Nat /\ End(f) \in 0..Len(f)
  BY EndIsLast
<1>2. \A i \in 1..Len(f) : Whole(f, i) <=> i % 2 = 0
  <2> TAKE i \in 1..Len(f)
  <2>1. f[i].half = IF i % 2 = 1 THEN 1 ELSE 2
    BY DEF Shaped
  <2> QED  BY <2>1, Parity DEF Whole
<1>3. ASSUME Len(f) % 2 = 0 PROVE End(f) = Len(f)
  <2>1. Len(f) # 0 => Whole(f, Len(f)) /\ Len(f) \in DOMAIN f
    BY <1>1, <1>2, <1>3
  <2>2. Len(f) # 0 => Len(f) <= End(f)
    BY <2>1, EndIsLast
  <2> QED  BY <1>1, <2>2
<1>4. ASSUME Len(f) % 2 # 0 PROVE End(f) = Len(f) - 1
  <2>1. PICK n \in Nat : n = Len(f)
    BY <1>1
  <2>2. n # 0 /\ (n - 1) % 2 = 0 /\ n % 2 # 0
    BY <1>4, <2>1, Parity
  <2>3. n # 1 => n - 1 \in 1..n
    BY <2>2
  <2>4. n # 1 => n - 1 <= End(f)
    <3>1. n # 1 => Whole(f, n - 1) /\ n - 1 \in DOMAIN f
      BY <1>2, <2>1, <2>2, <2>3
    <3> QED  BY <3>1, EndIsLast
  <2>5. End(f) # n
    <3>1. ~Whole(f, n)
      BY <1>2, <2>1, <2>2
    <3> QED  BY <2>2, <3>1, EndIsLast
  <2>6. End(f) \in 0..n
    BY <1>1, <2>1
  <2>7. End(f) = n - 1
    BY <2>2, <2>4, <2>5, <2>6
  <2> QED  BY <2>1, <2>7
<1>5. End(f) = IF Len(f) % 2 = 0 THEN Len(f) ELSE Len(f) - 1
  BY <1>3, <1>4
<1>6. End(f) % 2 = 0
  <2>1. Len(f) % 2 # 0 => Len(f) # 0 /\ (Len(f) - 1) % 2 = 0
    BY <1>1, Parity
  <2> QED  BY <1>5, <2>1
<1>7. \A i \in 1..End(f) : i \in DOMAIN f /\ (i % 2 = 1 => i < Len(f))
  BY <1>1, <1>6
<1>8. Parses(f)
  BY <1>6, <1>7 DEF Parses, Shaped
<1> QED  BY <1>5, <1>8, LinesAreWhole

\* The first half of a line changes no event ...
LEMMA FirstHalf ==
    ASSUME NEW f \in Seq(Halves), Shaped(f), Len(f) % 2 = 0, NEW e \in Event
    PROVE  /\ Shaped(Append(f, [ev |-> e, half |-> 1]))
           /\ Lines(Append(f, [ev |-> e, half |-> 1])) = Lines(f)
<1> DEFINE g == Append(f, [ev |-> e, half |-> 1])
<1>1. /\ g \in Seq(Halves) /\ Len(g) = Len(f) + 1 /\ Len(f) \in Nat
      /\ DOMAIN g = 1..Len(g)
      /\ \A i \in 1..Len(f) : g[i] = f[i]
      /\ g[Len(g)].half = 1
  BY DEF Halves
<1>2. Len(g) % 2 = 1
  BY <1>1
<1> HIDE DEF g
<1>3. Shaped(g)
  <2> SUFFICES ASSUME NEW i \in 1..Len(g)
               PROVE  /\ g[i].half = IF i % 2 = 1 THEN 1 ELSE 2
                      /\ i % 2 = 1 /\ i < Len(g) => g[i].ev = g[i + 1].ev
    BY <1>1 DEF Shaped
  <2>1. CASE i = Len(g)
    BY <1>1, <1>2, <2>1
  <2>2. CASE i # Len(g)
    <3>1. i \in DOMAIN f /\ g[i] = f[i]
      BY <1>1, <2>2
    <3>2. i % 2 = 1 => i < Len(f) /\ g[i + 1] = f[i + 1]
      BY <1>1, <3>1
    <3> QED  BY <3>1, <3>2 DEF Shaped
  <2> QED  BY <2>1, <2>2
<1>4. End(g) = Len(f) /\ End(f) = Len(f)
  <2>1. End(g) = Len(g) - 1
    BY <1>1, <1>2, <1>3, ShapedParses
  <2>2. End(f) = Len(f)
    BY ShapedParses
  <2> QED  BY <1>1, <2>1, <2>2
<1>5. \A i \in 1..(Len(f) \div 2) : g[2 * i] = f[2 * i]
  BY <1>1
<1>6. Lines(g) = Lines(f)
  BY <1>4, <1>5 DEF Lines
<1> QED  BY <1>3, <1>6 DEF g

\* ... and the second adds its event, the last one.
LEMMA SecondHalf ==
    ASSUME NEW f \in Seq(Halves), Shaped(f), Len(f) % 2 = 1,
           NEW e \in Event, f[Len(f)].ev = e
    PROVE  /\ Shaped(Append(f, [ev |-> e, half |-> 2]))
           /\ Lines(Append(f, [ev |-> e, half |-> 2])) = Append(Lines(f), e)
<1> DEFINE g == Append(f, [ev |-> e, half |-> 2])
<1>1. /\ g \in Seq(Halves) /\ Len(g) = Len(f) + 1 /\ Len(f) \in Nat
      /\ DOMAIN g = 1..Len(g)
      /\ \A i \in 1..Len(f) : g[i] = f[i]
      /\ g[Len(g)] = [ev |-> e, half |-> 2]
  BY DEF Halves
<1>2. Len(g) % 2 = 0
  BY <1>1
<1> HIDE DEF g
<1>3. Shaped(g)
  <2> SUFFICES ASSUME NEW i \in 1..Len(g)
               PROVE  /\ g[i].half = IF i % 2 = 1 THEN 1 ELSE 2
                      /\ i % 2 = 1 /\ i < Len(g) => g[i].ev = g[i + 1].ev
    BY <1>1 DEF Shaped
  <2>1. CASE i = Len(g)
    BY <1>1, <1>2, <2>1
  <2>2. CASE i = Len(f)
    <3>1. g[i] = f[i] /\ i \in DOMAIN f /\ g[i + 1].ev = e
      BY <1>1, <2>2
    <3> QED  BY <2>2, <3>1 DEF Shaped
  <2>3. CASE i < Len(f)
    <3>1. i \in DOMAIN f /\ g[i] = f[i] /\ g[i + 1] = f[i + 1]
      BY <1>1, <2>3
    <3> QED  BY <2>3, <3>1 DEF Shaped
  <2> QED  BY <1>1, <2>1, <2>2, <2>3
<1>4. End(g) = Len(f) + 1 /\ End(f) = Len(f) - 1
  <2>1. End(g) = Len(g)
    BY <1>1, <1>2, <1>3, ShapedParses
  <2>2. End(f) = Len(f) - 1
    BY ShapedParses
  <2> QED  BY <1>1, <2>1, <2>2
<1>5. /\ Lines(g) \in Seq(Event) /\ Lines(f) \in Seq(Event)
      /\ 2 * Len(Lines(g)) = Len(f) + 1 /\ 2 * Len(Lines(f)) = Len(f) - 1
      /\ \A i \in DOMAIN Lines(g) : Lines(g)[i] = g[2 * i].ev
      /\ \A i \in DOMAIN Lines(f) : Lines(f)[i] = f[2 * i].ev
  BY <1>1, <1>3, <1>4, ShapedParses, LinesAreWhole
<1> DEFINE m == Len(Lines(f))
<1>6. /\ m \in Nat /\ 2 * m = Len(f) - 1 /\ Len(Lines(g)) = m + 1
      /\ DOMAIN Lines(f) = 1..m /\ DOMAIN Lines(g) = 1..(m + 1)
  BY <1>1, <1>5
<1> HIDE DEF m
<1>7. ASSUME NEW i \in 1..m PROVE Lines(g)[i] = Lines(f)[i]
  <2>1. 2 * i \in 1..Len(f) /\ i \in DOMAIN Lines(f) /\ i \in DOMAIN Lines(g)
    BY <1>1, <1>6, SMTT(30)
  <2> QED  BY <1>1, <1>5, <2>1
<1>8. Lines(g)[m + 1] = e
  <2>1. m + 1 \in DOMAIN Lines(g) /\ 2 * (m + 1) = Len(g)
    BY <1>1, <1>6
  <2>2. Lines(g)[m + 1] = g[2 * (m + 1)].ev
    BY <1>5, <2>1
  <2> QED  BY <1>1, <2>1, <2>2
<1>9. Lines(g) = Append(Lines(f), e)
  <2>1. /\ Append(Lines(f), e) \in Seq(Event) /\ Len(Append(Lines(f), e)) = m + 1
        /\ \A i \in 1..m : Append(Lines(f), e)[i] = Lines(f)[i]
        /\ Append(Lines(f), e)[m + 1] = e
    BY <1>5, AppendProperties DEF m
  <2>2. \A i \in 1..(m + 1) : Lines(g)[i] = Append(Lines(f), e)[i]
    BY <1>6, <1>7, <1>8, <2>1
  <2> QED  BY <1>5, <1>6, <2>1, <2>2, SeqEqual
<1> QED  BY <1>3, <1>9 DEF g

\* open() keeps every whole event, and leaves no half one.
LEMMA CutKeeps ==
    ASSUME NEW f \in Seq(Halves)
    PROVE  /\ Cut(f) \in Seq(Halves) /\ Len(Cut(f)) = End(f)
           /\ \A i \in 1..End(f) : Cut(f)[i] = f[i]
           /\ \A i \in DOMAIN f : Whole(f, i) => Whole(Cut(f), i)
           /\ \A i \in DOMAIN Cut(f) : i \in DOMAIN f
           /\ Shaped(f) => /\ Shaped(Cut(f)) /\ Len(Cut(f)) % 2 = 0
                           /\ Lines(Cut(f)) = Lines(f)
<1>1. End(f) \in 0..Len(f) /\ Len(f) \in Nat
  BY EndIsLast
<1>2. /\ Cut(f) \in Seq(Halves) /\ Len(Cut(f)) = End(f)
      /\ \A i \in 1..End(f) : Cut(f)[i] = f[i]
  BY <1>1 DEF Cut
<1>3. \A i \in DOMAIN f : Whole(f, i) => Whole(Cut(f), i)
  BY <1>1, <1>2, EndIsLast DEF Whole
<1>4. ASSUME Shaped(f)
      PROVE  /\ Shaped(Cut(f)) /\ Len(Cut(f)) % 2 = 0
             /\ Lines(Cut(f)) = Lines(f)
  <2>1. Len(Cut(f)) % 2 = 0
    BY <1>1, <1>2, <1>4, ShapedParses
  <2>2. Shaped(Cut(f))
    <3> SUFFICES ASSUME NEW i \in 1..End(f)
                 PROVE  /\ Cut(f)[i].half = IF i % 2 = 1 THEN 1 ELSE 2
                        /\ i % 2 = 1 /\ i < End(f) => Cut(f)[i].ev = Cut(f)[i + 1].ev
      BY <1>2 DEF Shaped
    <3>1. /\ i \in DOMAIN f /\ Cut(f)[i] = f[i]
          /\ i < End(f) => i < Len(f) /\ Cut(f)[i + 1] = f[i + 1]
      BY <1>1, <1>2
    <3> QED  BY <1>4, <3>1 DEF Shaped
  <2>3. End(Cut(f)) = End(f)
    BY <1>2, <2>1, <2>2, ShapedParses
  <2>4. \A i \in 1..(End(f) \div 2) : Cut(f)[2 * i] = f[2 * i]
    BY <1>1, <1>2
  <2>5. Lines(Cut(f)) = Lines(f)
    BY <2>3, <2>4 DEF Lines
  <2> QED  BY <2>1, <2>2, <2>5
<1> QED  BY <1>1, <1>2, <1>3, <1>4

(***************************************************************************)
(* The steps of a writer                                                   *)
(***************************************************************************)
\* The first append of a queue, and what is left of it.
LEMMA Queue ==
    ASSUME NEW s \in Seq(Event), s # <<>>
    PROVE  /\ 1 \in DOMAIN s /\ Head(s) = s[1] /\ Head(s) \in Event
           /\ Tail(s) \in Seq(Event)
           /\ \A k \in DOMAIN Tail(s) :
                k + 1 \in DOMAIN s /\ 1 < k + 1 /\ Tail(s)[k] = s[k + 1]
           /\ \A k, l \in DOMAIN Tail(s) : k < l => k + 1 < l + 1
<1>1. Len(s) \in Nat /\ Len(s) # 0 /\ DOMAIN s = 1..Len(s)
  OBVIOUS
<1>2. Tail(s) \in Seq(Event) /\ Len(Tail(s)) = Len(s) - 1 /\ DOMAIN Tail(s) = 1..(Len(s) - 1)
  OBVIOUS
<1>3. \A k \in 1..(Len(s) - 1) : Tail(s)[k] = s[k + 1]
  OBVIOUS
<1>4. \A k \in 1..(Len(s) - 1) : k + 1 \in 1..Len(s) /\ 1 < k + 1
  BY <1>1
<1>5. 1 \in DOMAIN s /\ Head(s) = s[1] /\ Head(s) \in Event
  BY <1>1
<1>6. \A k, l \in 1..(Len(s) - 1) : k < l => k + 1 < l + 1
  BY <1>1
<1> QED  BY <1>1, <1>2, <1>3, <1>4, <1>5, <1>6

\* A longer queue, or file.
LEMMA Longer ==
    ASSUME NEW S, NEW s \in Seq(S), NEW e \in S
    PROVE  /\ Append(s, e) \in Seq(S) /\ Len(Append(s, e)) = Len(s) + 1 /\ Len(s) \in Nat
           /\ DOMAIN Append(s, e) = DOMAIN s \cup {Len(s) + 1}
           /\ \A k \in DOMAIN s : Append(s, e)[k] = s[k] /\ k < Len(s) + 1
           /\ Append(s, e)[Len(s) + 1] = e
           /\ s # <<>> => Head(Append(s, e)) = Head(s)
<1>1. Len(s) \in Nat /\ DOMAIN s = 1..Len(s)
  OBVIOUS
<1>2. /\ Append(s, e) \in Seq(S) /\ Len(Append(s, e)) = Len(s) + 1
      /\ DOMAIN Append(s, e) = 1..(Len(s) + 1)
      /\ \A k \in 1..Len(s) : Append(s, e)[k] = s[k]
      /\ Append(s, e)[Len(s) + 1] = e
  BY AppendProperties
<1>3. 1..(Len(s) + 1) = (1..Len(s)) \cup {Len(s) + 1}
  BY <1>1
<1>4. s # <<>> => Head(Append(s, e)) = Head(s)
  OBVIOUS
<1> QED  BY <1>1, <1>2, <1>3, <1>4

\* Of the writers of a run, one is at work, while one takes it over at a time.
LEMMA OneAtWork ==
    ASSUME IInv, ~together, NEW p \in Procs, NEW q \in Procs,
           at[p] \in {"viewed", "open"}, at[q] \in {"viewed", "open"}
    PROVE  p = q
BY DEF IInv, Types, Roles, Procs

\* Every event has its seq.
LEMMA SeqsAreNumbers ==
    ASSUME Types
    PROVE  /\ \A i \in DOMAIN file :
                file[i] \in Halves /\ file[i].ev \in Event /\ file[i].ev.seq \in Nat
           /\ \A p \in Procs : \A k \in DOMAIN writes[p] :
                writes[p][k] \in Event /\ writes[p][k].seq \in Nat
           /\ \A p \in Procs : \A k \in DOMAIN events[p] :
                events[p][k] \in Event /\ events[p][k].seq \in Nat
<1>1. \A e \in Event : e.seq \in Nat
  BY DEF Event
<1>2. \A h \in Halves : h.ev \in Event
  BY DEF Halves
<1>3. \A i \in DOMAIN file : file[i] \in Halves
  BY DEF Types
<1>4. ASSUME NEW s \in Seq(Event) PROVE \A k \in DOMAIN s : s[k] \in Event
  OBVIOUS
<1>5. \A p \in Procs : writes[p] \in Seq(Event) /\ events[p] \in Seq(Event)
  BY DEF Types
<1> QED  BY <1>1, <1>2, <1>3, <1>4, <1>5

\* An append takes its seq and waits for its turn.
LEMMA AppendKeeps ==
    ASSUME IInv, NEW p \in Procs, at[p] = "open",
           NEW kind \in Kinds, kind = "running" => p = Lead,
           Append1(p, kind),
           UNCHANGED <<file, at, events, half, resolved, cursor, given, together, fails, tears>>
    PROVE  IInv'
<1> DEFINE e == [seq |-> nextSeq[p], by |-> p, kind |-> kind]
           q == writes[p]
<1>1. /\ nextSeq[p] < MaxSeq /\ MaxSeq \in Nat /\ nextSeq[p] \in Nat
      /\ nextSeq' = [nextSeq EXCEPT ![p] = nextSeq[p] + 1]
      /\ writes' = [writes EXCEPT ![p] = Append(q, e)]
      /\ q \in Seq(Event)
  BY JournalConstants DEF Append1, IInv, Types
<1>2. e \in Event
  BY <1>1 DEF Event
<1> HIDE DEF e
<1>3. /\ nextSeq'[p] = nextSeq[p] + 1 /\ writes'[p] = Append(q, e)
      /\ \A r \in Procs : r # p => writes'[r] = writes[r] /\ nextSeq'[r] = nextSeq[r]
      /\ ~together => \A r \in Procs : r # p => at[r] # "open"
  BY <1>1, OneAtWork DEF IInv, Types
<1>4. /\ writes'[p] \in Seq(Event)
      /\ DOMAIN writes'[p] = DOMAIN q \cup {Len(q) + 1}
      /\ \A k \in DOMAIN q : writes'[p][k] = q[k] /\ k < Len(q) + 1
      /\ writes'[p][Len(q) + 1] = e
      /\ q # <<>> => Head(writes'[p]) = Head(q)
      /\ Len(q) \in Nat /\ writes'[p] # <<>>
      /\ DOMAIN q = 1..Len(q)
  <2>1. /\ Append(q, e) \in Seq(Event) /\ Len(Append(q, e)) = Len(q) + 1 /\ Len(q) \in Nat
        /\ DOMAIN Append(q, e) = DOMAIN q \cup {Len(q) + 1}
        /\ \A k \in DOMAIN q : Append(q, e)[k] = q[k] /\ k < Len(q) + 1
        /\ Append(q, e)[Len(q) + 1] = e
        /\ q # <<>> => Head(Append(q, e)) = Head(q)
    BY <1>1, <1>2, Longer
  <2> QED  BY <1>1, <1>3, <2>1
<1>5. e.seq = nextSeq[p] /\ e.by = p /\ e.kind = kind
  BY DEF e
<1> HIDE DEF q
<1>6. Types'
  <2>1. nextSeq' \in [Procs -> Nat]
    BY <1>1 DEF IInv, Types
  <2>2. writes' \in [Procs -> Seq(Event)]
    BY <1>1, <1>3, <1>4 DEF IInv, Types
  <2> QED  BY <2>1, <2>2 DEF IInv, Types
<1>7. Roles'
  <2>1. OwnQueue(p)'
    BY <1>3, <1>4, <1>5 DEF IInv, Roles, OwnQueue, q
  <2>2. \A r \in Procs : OwnQueue(r)'
    BY <1>3, <2>1 DEF IInv, Roles, OwnQueue
  <2> QED  BY <2>2 DEF IInv, Roles
<1>8. Bounded'
  <2>1. InBounds(p)'
    <3>1. \A k \in DOMAIN q : q[k].seq < nextSeq[p] /\ q[k].seq \in Nat
      BY SeqsAreNumbers DEF InBounds, Bounded, IInv, q
    <3>2. nextSeq'[p] <= MaxSeq
      BY <1>1, <1>3
    <3>3. \A k \in DOMAIN writes'[p] : writes'[p][k].seq < nextSeq'[p]
      BY <1>1, <1>3, <1>4, <1>5, <3>1
    <3> QED  BY <3>2, <3>3 DEF InBounds
  <2> QED  BY <1>3, <2>1 DEF IInv, Bounded, InBounds
<1>9. ASSUME ~together PROVE Ahead(p)'
  <2>1. Ahead(p) /\ InBounds(p)
    BY <1>9 DEF IInv, Ordered, Bounded
  <2>2. \A k, l \in DOMAIN writes'[p] : k < l => writes'[p][k].seq < writes'[p][l].seq
    BY <1>4, <1>5, <2>1, SMTT(30) DEF Ahead, InBounds, q
  <2>3. \A i \in DOMAIN file, k \in DOMAIN writes'[p] :
          Behind(p, i) => file[i].ev.seq < writes'[p][k].seq
    BY <1>4, <1>5, <2>1 DEF Ahead, Behind, q
  <2>4. \A i \in DOMAIN file : Whole(file, i) => file[i].ev.seq < nextSeq'[p]
    <3>1. \A i \in DOMAIN file : file[i].ev.seq \in Nat
      BY SeqsAreNumbers DEF IInv
    <3> QED  BY <1>1, <1>3, <2>1, <3>1 DEF Ahead
  <2>5. half[p] = 2 => Whole(file, Len(file)) /\ file[Len(file)].ev = Head(writes'[p])
    BY <1>4, <2>1 DEF Ahead, IInv, Roles, OwnQueue, q
  <2> QED  BY <2>1, <2>2, <2>3, <2>4, <2>5 DEF Ahead, Behind
<1>10. Ordered'
  BY <1>3, <1>9 DEF IInv, Ordered, Growing
<1>11. Untorn'
  <2>1. OwnQueue(p)
    BY DEF IInv, Roles
  <2>2. Synced(p) => Synced(p)'
    BY <1>4, <2>1 DEF Synced, OwnQueue, q
  <2> QED  BY <1>3, <2>2 DEF IInv, Untorn, Followed
<1>12. ResolvedKept' /\ Written'
  <2>1. Wholly(p)'
    BY <1>4 DEF IInv, Written, Wholly, Roles, OwnQueue, q
  <2>2. Written'
    BY <1>3, <2>1 DEF IInv, Written, Wholly
  <2> QED  BY <2>2 DEF IInv, ResolvedKept
<1> QED  BY <1>6, <1>7, <1>8, <1>10, <1>11, <1>12 DEF IInv

\* The appends a run or a takeover makes.
LEMMA JournalKeeps ==
    ASSUME IInv, NEW kind \in {"data", "finished"}, Journal(kind)
    PROVE  IInv'
BY AppendKeeps DEF Journal, Kinds, Procs

\* A taker that attaches journals the claims it releases and the run itself (attachRun).
LEMMA AttachKeeps ==
    ASSUME IInv, NEW p \in Takers, Attach(p)
    PROVE  IInv'
<1>1. PICK kind \in {"data", "interrupted"} : Append1(p, kind)
  BY DEF Attach
<1> QED  BY <1>1, AppendKeeps DEF Attach, Kinds, Procs

\* The append whose turn it is is its writer's, and in bounds.
LEMMA NextIsOwn ==
    ASSUME IInv, NEW p \in Procs, at[p] = "open", 1 \in DOMAIN writes[p]
    PROVE  /\ writes[p][1].by = p /\ writes[p][1].seq < MaxSeq
           /\ writes[p][1].kind = "running" => p = Lead
<1>1. OwnQueue(p) /\ InBounds(p)
  BY DEF IInv, Roles, Bounded
<1>2. writes[p][1].seq \in Nat /\ nextSeq[p] \in Nat /\ MaxSeq \in Nat
  BY SeqsAreNumbers, JournalConstants DEF IInv, Types
<1>3. writes[p][1].seq < nextSeq[p] /\ nextSeq[p] <= MaxSeq
  BY <1>1 DEF InBounds
<1> QED  BY <1>1, <1>2, <1>3 DEF OwnQueue

\* The first half of a line: no event more is in the file.
LEMMA WriteHalfKeeps ==
    ASSUME IInv, NEW p \in Procs, WriteHalf(p)
    PROVE  IInv'
<1> DEFINE e == Head(writes[p])
           h == [ev |-> e, half |-> 1]
<1>1. /\ at[p] = "open" /\ half[p] = 0 /\ writes[p] # <<>> /\ writes[p] \in Seq(Event)
      /\ file' = Append(file, h) /\ half' = [half EXCEPT ![p] = 1]
      /\ UNCHANGED <<at, events, nextSeq, writes, resolved, cursor, given, together, fails, tears>>
      /\ file \in Seq(Halves)
  BY DEF WriteHalf, IInv, Types
<1>2. e \in Event /\ e = writes[p][1] /\ 1 \in DOMAIN writes[p]
  BY <1>1, Queue
<1>3. h \in Halves /\ h.ev = e /\ h.half = 1
  BY <1>2 DEF Halves
<1> HIDE DEF e, h
<1>4. /\ file' \in Seq(Halves) /\ Len(file') = Len(file) + 1 /\ Len(file) \in Nat
      /\ DOMAIN file' = DOMAIN file \cup {Len(file) + 1}
      /\ \A i \in DOMAIN file : file'[i] = file[i] /\ i < Len(file) + 1
      /\ file'[Len(file) + 1] = h
  BY <1>1, <1>3, Longer
<1>5. \A i \in DOMAIN file' : Whole(file', i) <=> i \in DOMAIN file /\ Whole(file, i)
  BY <1>3, <1>4 DEF Whole
<1>6. /\ half'[p] = 1 /\ \A r \in Procs : r # p => half'[r] = half[r]
      /\ ~together => \A r \in Procs : r # p => at[r] # "open"
  BY <1>1, OneAtWork DEF IInv, Types
<1>7. Types'
  BY <1>1, <1>4 DEF IInv, Types
<1>8. e.by = p /\ e.seq < MaxSeq /\ (e.kind = "running" => p = Lead)
  BY <1>1, <1>2, NextIsOwn
<1>9. Roles'
  <2>1. \A r \in Procs : OwnQueue(r)'
    <3>1. OwnQueue(p)'
      BY <1>1 DEF IInv, Roles, OwnQueue, Types
    <3> QED  BY <1>1, <1>6, <3>1 DEF IInv, Roles, OwnQueue
  <2>2. \A i \in DOMAIN file' : file'[i].ev.kind = "running" => file'[i].ev.by = Lead
    BY <1>3, <1>4, <1>8 DEF IInv, Roles
  <2>3. at[Lead] # "off"
    BY <1>1 DEF IInv, Roles, Procs
  <2> QED  BY <1>1, <2>1, <2>2, <2>3 DEF IInv, Roles
<1>10. Bounded'
  BY <1>1, <1>3, <1>4, <1>8 DEF IInv, Bounded, InBounds
<1>11. Ordered'
  <2> SUFFICES ASSUME ~together
               PROVE  Growing' /\ Ahead(p)'
    BY <1>1, <1>6 DEF IInv, Ordered
  <2>1. Ahead(p) /\ Growing
    BY <1>1 DEF IInv, Ordered
  <2>2. Growing'
    BY <1>3, <1>4, <1>5, <2>1 DEF Growing
  <2>3. \A i \in DOMAIN file' : Behind(p, i)' <=> i \in DOMAIN file /\ Behind(p, i)
    BY <1>1, <1>5, <1>6 DEF Behind
  <2>4. Ahead(p)'
    <3>1. \A k \in DOMAIN events[p] :
            \E i \in DOMAIN file' : Behind(p, i)' /\ file'[i].ev = events[p][k]
      BY <1>4, <2>1, <2>3 DEF Ahead
    <3>2. \A i \in DOMAIN file', k \in DOMAIN writes[p] :
            Behind(p, i)' => file'[i].ev.seq < writes[p][k].seq
      BY <1>4, <2>1, <2>3 DEF Ahead
    <3>3. \A i \in DOMAIN file' : Whole(file', i) => file'[i].ev.seq < nextSeq[p]
      BY <1>4, <1>5, <2>1 DEF Ahead
    <3> QED  BY <1>1, <1>6, <2>1, <3>1, <3>2, <3>3 DEF Ahead
  <2> QED  BY <2>2, <2>4
<1>12. Untorn'
  <2> SUFFICES ASSUME tears = 0, ~together
               PROVE  /\ Shaped(file') /\ Synced(p)'
                      /\ \A f \in Followers : Followed(f)'
    BY <1>1, <1>6 DEF Untorn
  <2>1. Shaped(file) /\ Synced(p) /\ \A f \in Followers : Followed(f)
    BY <1>1 DEF IInv, Untorn
  <2>2. Shaped(file') /\ Lines(file') = Lines(file)
    BY <1>1, <1>2, <2>1, FirstHalf DEF Synced, h
  <2>3. Len(file') % 2 = 1 /\ file'[Len(file')].ev = e
    <3>1. Len(file) % 2 = 0
      BY <1>1, <2>1 DEF Synced
    <3> QED  BY <1>3, <1>4, <3>1
  <2>4. Synced(p)'
    <3>1. half'[p] = 1 /\ events'[p] = events[p] /\ Head(writes'[p]) = e
      BY <1>1, <1>6 DEF e
    <3> QED  BY <1>1, <2>1, <2>2, <2>3, <3>1 DEF Synced
  <2> QED  BY <1>1, <2>1, <2>2, <2>4 DEF Followed
<1>13. ResolvedKept' /\ Written'
  <2>1. Written'
    BY <1>1, <1>4, <1>6 DEF IInv, Written, Wholly
  <2> QED  BY <1>1, <1>4, <2>1 DEF IInv, ResolvedKept
<1> QED  BY <1>7, <1>9, <1>10, <1>11, <1>12, <1>13 DEF IInv

\* The line is whole, and its writer has yet to know.
LEMMA WriteRestKeeps ==
    ASSUME IInv, NEW p \in Procs, WriteRest(p)
    PROVE  IInv'
<1> DEFINE e == Head(writes[p])
           h == [ev |-> e, half |-> 2]
<1>0. OwnQueue(p) /\ half[p] = 1 /\ at[p] = "open"
  BY DEF WriteRest, IInv, Roles
<1>1. /\ writes[p] # <<>> /\ writes[p] \in Seq(Event)
      /\ file' = Append(file, h) /\ half' = [half EXCEPT ![p] = 2]
      /\ UNCHANGED <<at, events, nextSeq, writes, resolved, cursor, given, together, fails, tears>>
      /\ file \in Seq(Halves)
  BY <1>0 DEF WriteRest, IInv, Types, OwnQueue
<1>2. e \in Event /\ e = writes[p][1] /\ 1 \in DOMAIN writes[p]
  BY <1>1, Queue
<1>3. h \in Halves /\ h.ev = e /\ h.half = 2
  BY <1>2 DEF Halves
<1> HIDE DEF e, h
<1>4. /\ file' \in Seq(Halves) /\ Len(file') = Len(file) + 1 /\ Len(file) \in Nat
      /\ DOMAIN file' = DOMAIN file \cup {Len(file) + 1}
      /\ \A i \in DOMAIN file : file'[i] = file[i] /\ i < Len(file) + 1
      /\ file'[Len(file) + 1] = h
  BY <1>1, <1>3, Longer
<1>5. /\ \A i \in DOMAIN file : Whole(file', i) <=> Whole(file, i)
      /\ Whole(file', Len(file) + 1)
  BY <1>3, <1>4 DEF Whole
<1>6. /\ half'[p] = 2 /\ \A r \in Procs : r # p => half'[r] = half[r]
      /\ ~together => \A r \in Procs : r # p => at[r] # "open"
  BY <1>0, <1>1, OneAtWork DEF IInv, Types
<1>7. Types'
  BY <1>1, <1>4 DEF IInv, Types
<1>8. e.by = p /\ e.seq < MaxSeq /\ (e.kind = "running" => p = Lead)
  BY <1>0, <1>2, NextIsOwn
<1>9. Roles'
  <2>1. \A r \in Procs : OwnQueue(r)'
    <3>1. OwnQueue(p)'
      BY <1>0, <1>1 DEF IInv, Roles, OwnQueue, Types
    <3> QED  BY <1>1, <1>6, <3>1 DEF IInv, Roles, OwnQueue
  <2>2. \A i \in DOMAIN file' : file'[i].ev.kind = "running" => file'[i].ev.by = Lead
    BY <1>3, <1>4, <1>8 DEF IInv, Roles
  <2>3. at[Lead] # "off"
    BY <1>0 DEF IInv, Roles, Procs
  <2> QED  BY <1>1, <2>1, <2>2, <2>3 DEF IInv, Roles
<1>10. Bounded'
  BY <1>1, <1>3, <1>4, <1>8 DEF IInv, Bounded, InBounds
<1>11. Ordered'
  <2> SUFFICES ASSUME ~together
               PROVE  Growing' /\ Ahead(p)'
    BY <1>1, <1>6 DEF IInv, Ordered
  <2>1. Ahead(p) /\ Growing /\ InBounds(p)
    BY <1>0 DEF IInv, Ordered, Bounded
  <2>2. /\ e.seq < nextSeq[p]
        /\ \A i \in DOMAIN file : Whole(file, i) => file[i].ev.seq < e.seq
    BY <1>0, <1>2, <2>1 DEF Ahead, InBounds, Behind
  <2>3. Growing'
    <3> SUFFICES ASSUME NEW i \in DOMAIN file', NEW j \in DOMAIN file',
                        Whole(file', i), Whole(file', j), i < j
                 PROVE  file'[i].ev.seq < file'[j].ev.seq
      BY DEF Growing
    <3>1. i \in DOMAIN file
      BY <1>4
    <3>2. CASE j \in DOMAIN file
      BY <1>4, <1>5, <2>1, <3>1, <3>2 DEF Growing
    <3>3. CASE j = Len(file) + 1
      BY <1>3, <1>4, <1>5, <2>2, <3>1, <3>3
    <3> QED  BY <1>4, <3>2, <3>3
  <2>4. \A i \in DOMAIN file' : Behind(p, i)' <=> i \in DOMAIN file /\ Behind(p, i)
    <3>1. \A i \in DOMAIN file : i # Len(file) + 1
      BY <1>4
    <3> QED  BY <1>0, <1>4, <1>5, <1>6, <3>1 DEF Behind
  <2>5. Ahead(p)'
    <3>1. \A k \in DOMAIN events[p] :
            \E i \in DOMAIN file' : Behind(p, i)' /\ file'[i].ev = events[p][k]
      BY <1>4, <2>1, <2>4 DEF Ahead
    <3>2. \A i \in DOMAIN file', k \in DOMAIN writes[p] :
            Behind(p, i)' => file'[i].ev.seq < writes[p][k].seq
      BY <1>4, <2>1, <2>4 DEF Ahead
    <3>3. \A i \in DOMAIN file' : Whole(file', i) => file'[i].ev.seq < nextSeq[p]
      BY <1>3, <1>4, <1>5, <2>1, <2>2 DEF Ahead
    <3>4. Whole(file', Len(file')) /\ file'[Len(file')].ev = Head(writes[p])
      BY <1>3, <1>4, <1>5 DEF e
    <3> QED  BY <1>1, <1>6, <2>1, <3>1, <3>2, <3>3, <3>4 DEF Ahead
  <2> QED  BY <2>3, <2>5
<1>12. Untorn'
  <2> SUFFICES ASSUME tears = 0, ~together
               PROVE  /\ Shaped(file') /\ Synced(p)'
                      /\ \A f \in Followers : Followed(f)'
    BY <1>1, <1>6 DEF Untorn
  <2>1. Shaped(file) /\ Synced(p) /\ \A f \in Followers : Followed(f)
    BY <1>0 DEF IInv, Untorn
  <2>2. Len(file) % 2 = 1 /\ file[Len(file)].ev = e /\ events[p] = Lines(file)
    BY <1>0, <2>1 DEF Synced, e
  <2>3. Shaped(file') /\ Lines(file') = Append(Lines(file), e)
    BY <1>1, <1>2, <2>1, <2>2, SecondHalf DEF h
  <2>4. Synced(p)'
    <3>1. Len(file') % 2 = 0
      BY <1>4, <2>2
    <3>2. half'[p] = 2 /\ events'[p] = events[p] /\ Head(writes'[p]) = e
      BY <1>1, <1>6 DEF e
    <3> QED  BY <2>2, <2>3, <3>1, <3>2 DEF Synced
  <2>5. ASSUME NEW f \in Followers PROVE Followed(f)'
    <3>1. Lines(file) \in Seq(Event)
      BY <2>2 DEF IInv, Types
    <3>2. /\ Len(Lines(file')) = Len(Lines(file)) + 1 /\ Len(Lines(file)) \in Nat
          /\ \A k \in DOMAIN Lines(file) : Lines(file')[k] = Lines(file)[k]
      BY <1>2, <2>3, <3>1, Longer
    <3>3. /\ given[f] \in Seq(Event) /\ Len(given[f]) <= Len(Lines(file))
          /\ \A i \in DOMAIN given[f] : given[f][i] = Lines(file)[i]
          /\ cursor[f] = IF given[f] = <<>> THEN -1 ELSE Last(given[f]).seq
      BY <2>1, <2>5 DEF Followed, IInv, Ordered
    <3>4. DOMAIN given[f] \subseteq DOMAIN Lines(file) /\ Len(given[f]) \in Nat
      BY <3>1, <3>3
    <3>5. Len(given[f]) <= Len(Lines(file'))
      BY <3>2, <3>3, <3>4
    <3> QED  BY <1>1, <3>2, <3>3, <3>4, <3>5 DEF Followed
  <2> QED  BY <2>3, <2>4, <2>5
<1>13. ResolvedKept' /\ Written'
  <2>1. Wholly(p)'
    <3>1. file'[Len(file) + 1] = [ev |-> Head(writes[p]), half |-> 2]
      BY <1>4 DEF h, e
    <3> QED  BY <1>1, <1>4, <3>1 DEF Wholly
  <2>2. Written'
    BY <1>1, <1>4, <1>6, <2>1 DEF IInv, Written, Wholly
  <2> QED  BY <1>1, <1>4, <2>2 DEF IInv, ResolvedKept
<1> QED  BY <1>7, <1>9, <1>10, <1>11, <1>12, <1>13 DEF IInv

\* What an append that ends, either way, leaves of its writer's queue.
LEMMA NextAppend ==
    ASSUME IInv, NEW p \in Procs, at[p] = "open", writes[p] # <<>>,
           writes' = [writes EXCEPT ![p] = Tail(writes[p])],
           half' = [half EXCEPT ![p] = 0],
           at' \in [Procs -> {"off", "viewed", "open", "done", "dead"}],
           at'[p] \in {"open", "done", "dead"},
           \A r \in Procs : r # p => at'[r] = at[r],
           UNCHANGED <<file, nextSeq, together>>
    PROVE  /\ writes' \in [Procs -> Seq(Event)] /\ half' \in [Procs -> 0..2] /\ half'[p] = 0
           /\ \A k \in DOMAIN writes'[p] :
                k + 1 \in DOMAIN writes[p] /\ 1 < k + 1 /\ writes'[p][k] = writes[p][k + 1]
           /\ \A k, l \in DOMAIN writes'[p] : k < l => k + 1 < l + 1
           /\ 1 \in DOMAIN writes[p] /\ Head(writes[p]) = writes[p][1]
           /\ ~together => \A r \in Procs : r # p => at'[r] # "open"
           /\ Roles' /\ Bounded' /\ Written'
<1>1. /\ writes[p] \in Seq(Event) /\ writes'[p] = Tail(writes[p])
      /\ \A r \in Procs : r # p => writes'[r] = writes[r] /\ half'[r] = half[r]
      /\ half'[p] = 0 /\ half' \in [Procs -> 0..2]
  BY DEF IInv, Types
<1>2. /\ 1 \in DOMAIN writes[p] /\ Head(writes[p]) = writes[p][1]
      /\ writes'[p] \in Seq(Event)
      /\ \A k \in DOMAIN writes'[p] :
           k + 1 \in DOMAIN writes[p] /\ 1 < k + 1 /\ writes'[p][k] = writes[p][k + 1]
      /\ \A k, l \in DOMAIN writes'[p] : k < l => k + 1 < l + 1
  <2> DEFINE q == writes[p]
  <2>1. q \in Seq(Event) /\ q # <<>> /\ writes'[p] = Tail(q)
    BY <1>1
  <2> HIDE DEF q
  <2>2. /\ 1 \in DOMAIN q /\ Head(q) = q[1] /\ Tail(q) \in Seq(Event)
        /\ \A k \in DOMAIN Tail(q) :
             k + 1 \in DOMAIN q /\ 1 < k + 1 /\ Tail(q)[k] = q[k + 1]
        /\ \A k, l \in DOMAIN Tail(q) : k < l => k + 1 < l + 1
    BY <2>1, Queue
  <2> QED  BY <2>1, <2>2 DEF q
<1>3. writes' \in [Procs -> Seq(Event)]
  BY <1>1, <1>2 DEF IInv, Types
<1>4. ~together => \A r \in Procs : r # p => at'[r] # "open"
  BY OneAtWork
<1>5. \A r \in Procs : OwnQueue(r)'
  <2>1. OwnQueue(p)'
    <3>1. \A k \in DOMAIN writes[p] :
            writes[p][k].by = p /\ (writes[p][k].kind = "running" => p = Lead)
      BY DEF IInv, Roles, OwnQueue
    <3> QED  BY <1>1, <1>2, <3>1 DEF OwnQueue
  <2>2. ASSUME NEW r \in Procs, r # p PROVE OwnQueue(r)'
    <3>1. OwnQueue(r)
      BY DEF IInv, Roles
    <3>2. writes'[r] = writes[r] /\ half'[r] = half[r] /\ at'[r] = at[r]
      BY <1>1, <2>2
    <3> QED  BY <3>1, <3>2 DEF OwnQueue
  <2> QED  BY <2>1, <2>2
<1>6. at[Lead] # "off" /\ at'[Lead] \notin {"off", "viewed"}
  BY DEF IInv, Roles, Procs
<1>7. at[Lead] = "dead" => at'[Lead] = "dead"
  BY DEF Procs
<1>8. ASSUME NEW t \in Takers, at'[t] \in {"viewed", "open"}
      PROVE  /\ at'[Lead] = "dead"
             /\ ~together => \A u \in Takers : u # t => at'[u] \in {"off", "done", "dead"}
  <2>1. t \in Procs /\ t # Lead /\ at[t] \in {"viewed", "open"}
    BY <1>8, JournalConstants DEF Procs
  <2>2. /\ at[Lead] = "dead"
        /\ ~together => \A u \in Takers : u # t => at[u] \in {"off", "done", "dead"}
    BY <2>1 DEF IInv, Roles
  <2>3. ASSUME NEW u \in Takers, at[u] \in {"off", "done", "dead"}
        PROVE  at'[u] \in {"off", "done", "dead"}
    BY <2>3 DEF Procs
  <2> QED  BY <1>7, <2>2, <2>3
<1>9. Roles'
  <2>1. together => at'[Lead] = "dead"
    BY <1>7 DEF IInv, Roles
  <2> QED  BY <1>5, <1>6, <1>8, <2>1 DEF IInv, Roles
<1>10. Bounded'
  <2>1. InBounds(p)'
    <3>1. InBounds(p)
      BY DEF IInv, Bounded
    <3> QED  BY <1>2, <3>1 DEF InBounds
  <2>2. ASSUME NEW r \in Procs, at'[r] = "open" PROVE InBounds(r)'
    <3>1. CASE r = p
      BY <2>1, <3>1
    <3>2. CASE r # p
      BY <1>1, <2>2, <3>2 DEF IInv, Bounded, InBounds
    <3> QED  BY <3>1, <3>2
  <2> QED  BY <2>2 DEF IInv, Bounded
<1>11. Written'
  BY <1>1 DEF IInv, Written, Wholly
<1> QED  BY <1>1, <1>2, <1>3, <1>4, <1>9, <1>10, <1>11

\* The events an append that ends leaves its writer with are whole ones, in order: those it
\* had, and the one that is whole and was on its way if it takes that.
LEMMA AheadAfter ==
    ASSUME IInv, NEW p \in Procs, at[p] = "open", writes[p] # <<>>, ~together,
           writes' = [writes EXCEPT ![p] = Tail(writes[p])],
           half' = [half EXCEPT ![p] = 0],
           UNCHANGED <<file, nextSeq>>,
           \/ events'[p] = events[p]
           \/ half[p] = 2 /\ events'[p] = Append(events[p], Head(writes[p]))
    PROVE  Ahead(p)'
<1>1. Ahead(p) /\ half'[p] = 0
  BY DEF IInv, Types, Ordered
<1> DEFINE q == writes[p]
           e == Head(writes[p])
<1>2. /\ q \in Seq(Event) /\ q # <<>> /\ writes'[p] = Tail(q)
      /\ 1 \in DOMAIN q /\ e = q[1] /\ e \in Event
      /\ \A k \in DOMAIN Tail(q) : k + 1 \in DOMAIN q /\ 1 < k + 1 /\ Tail(q)[k] = q[k + 1]
      /\ \A k, l \in DOMAIN Tail(q) : k < l => k + 1 < l + 1
  <2>1. q \in Seq(Event) /\ q # <<>> /\ writes'[p] = Tail(q)
    BY DEF IInv, Types
  <2>2. e = Head(q)
    BY DEF q
  <2> HIDE DEF q, e
  <2> QED  BY <2>1, <2>2, Queue
<1>3. /\ \A k, l \in DOMAIN q : k < l => q[k].seq < q[l].seq
      /\ \A i \in DOMAIN file, k \in DOMAIN q : Behind(p, i) => file[i].ev.seq < q[k].seq
      /\ half[p] = 2 => Whole(file, Len(file)) /\ file[Len(file)].ev = e
  BY <1>1 DEF Ahead
<1> HIDE DEF q, e
<1>4. \A i : Behind(p, i)' <=> Whole(file, i)
  BY <1>1 DEF Behind
<1>5. \A i : Whole(file, i) => i \in DOMAIN file /\ (Behind(p, i) \/ (half[p] = 2 /\ i = Len(file)))
  BY DEF Whole, Behind
<1>6. \A i \in DOMAIN file, k \in DOMAIN writes'[p] :
        Behind(p, i)' => file[i].ev.seq < writes'[p][k].seq
  <2> SUFFICES ASSUME NEW i \in DOMAIN file, NEW k \in DOMAIN writes'[p], Whole(file, i)
               PROVE  file[i].ev.seq < writes'[p][k].seq
    BY <1>4
  <2>1. CASE Behind(p, i)
    BY <1>2, <1>3, <2>1
  <2>2. CASE half[p] = 2 /\ i = Len(file)
    BY <1>2, <1>3, <2>2
  <2> QED  BY <1>5, <2>1, <2>2
<1>7. \A k, l \in DOMAIN writes'[p] : k < l => writes'[p][k].seq < writes'[p][l].seq
  BY <1>2, <1>3
<1>8. /\ \A k \in DOMAIN events[p] :
            \E i \in DOMAIN file : Behind(p, i) /\ file[i].ev = events[p][k]
      /\ \A k, l \in DOMAIN events[p] : k < l => events[p][k].seq < events[p][l].seq
      /\ \A i \in DOMAIN file : Whole(file, i) => file[i].ev.seq < nextSeq[p]
  BY <1>1 DEF Ahead
<1>9. /\ \A k \in DOMAIN events'[p] :
            \E i \in DOMAIN file : Whole(file, i) /\ file[i].ev = events'[p][k]
      /\ \A k, l \in DOMAIN events'[p] : k < l => events'[p][k].seq < events'[p][l].seq
  <2>1. CASE events'[p] = events[p]
    BY <1>8, <2>1 DEF Behind
  <2>2. CASE half[p] = 2 /\ events'[p] = Append(events[p], e)
    <3>1. /\ Len(events[p]) \in Nat
          /\ DOMAIN events'[p] = DOMAIN events[p] \cup {Len(events[p]) + 1}
          /\ \A k \in DOMAIN events[p] : events'[p][k] = events[p][k] /\ k < Len(events[p]) + 1
          /\ events'[p][Len(events[p]) + 1] = e
      <4>1. events[p] \in Seq(Event)
        BY DEF IInv, Types
      <4> QED  BY <1>2, <2>2, <4>1, Longer
    <3>2. Whole(file, Len(file)) /\ Len(file) \in DOMAIN file /\ file[Len(file)].ev = e
      BY <1>3, <2>2 DEF Whole
    <3>3. \A m \in DOMAIN events[p] : events[p][m].seq < e.seq
      BY <1>2, <1>3, <1>8
    <3>4. \A k \in DOMAIN events'[p] :
             \E i \in DOMAIN file : Whole(file, i) /\ file[i].ev = events'[p][k]
      BY <1>8, <3>1, <3>2 DEF Behind
    <3>5. ASSUME NEW k \in DOMAIN events'[p], NEW l \in DOMAIN events'[p], k < l
          PROVE  events'[p][k].seq < events'[p][l].seq
      <4>1. k \in DOMAIN events[p]
        BY <3>1, <3>5
      <4>2. CASE l \in DOMAIN events[p]
        BY <1>8, <3>1, <3>5, <4>1, <4>2
      <4>3. CASE l = Len(events[p]) + 1
        BY <3>1, <3>3, <4>1, <4>3
      <4> QED  BY <3>1, <4>2, <4>3
    <3> QED  BY <3>4, <3>5
  <2> QED  BY <2>1, <2>2 DEF e
<1> QED  BY <1>1, <1>4, <1>6, <1>7, <1>8, <1>9 DEF Ahead

\* The append resolves: its event is the last of the file, and the writer knows it.
LEMMA ResolveKeeps ==
    ASSUME IInv, NEW p \in Procs, Resolve(p)
    PROVE  IInv'
<1> DEFINE e == Head(writes[p])
<1>0. OwnQueue(p) /\ half[p] = 2 /\ at[p] = "open"
  BY DEF Resolve, IInv, Roles
<1>1. /\ writes[p] # <<>> /\ writes[p] \in Seq(Event)
      /\ half' = [half EXCEPT ![p] = 0]
      /\ writes' = [writes EXCEPT ![p] = Tail(writes[p])]
      /\ events' = [events EXCEPT ![p] = Append(events[p], e)]
      /\ resolved' = resolved \cup {e}
      /\ at' = IF e.kind \in {"finished", "interrupted"}
                  THEN [at EXCEPT ![p] = "done"] ELSE at
      /\ UNCHANGED <<file, nextSeq, cursor, given, together, fails, tears>>
      /\ file \in Seq(Halves)
  BY <1>0 DEF Resolve, IInv, Types, OwnQueue
<1>2. e \in Event
  BY <1>1, Queue
<1>3. /\ at' \in [Procs -> {"off", "viewed", "open", "done", "dead"}]
      /\ at'[p] \in {"open", "done"}
      /\ \A r \in Procs : r # p => at'[r] = at[r]
  <2> HIDE DEF e
  <2> QED  BY <1>0, <1>1 DEF IInv, Types
<1>4. /\ writes' \in [Procs -> Seq(Event)] /\ half' \in [Procs -> 0..2] /\ half'[p] = 0
      /\ ~together => \A r \in Procs : r # p => at'[r] # "open"
      /\ Roles' /\ Bounded' /\ Written'
  BY <1>0, <1>1, <1>3, NextAppend
<1>5. events[p] \in Seq(Event) /\ events'[p] = Append(events[p], e) /\ events'[p] \in Seq(Event)
  <2>1. events[p] \in Seq(Event) /\ events'[p] = Append(events[p], e)
    BY <1>1 DEF IInv, Types
  <2> QED  BY <1>2, <2>1, Longer
<1>6. ~together => Ahead(p)'
  BY <1>0, <1>1, <1>5, AheadAfter
<1> HIDE DEF e
<1>7. Types'
  <2>1. events' \in [Procs -> Seq(Event)]
    BY <1>1, <1>5 DEF IInv, Types
  <2> QED  BY <1>1, <1>3, <1>4, <2>1 DEF IInv, Types
<1>8. Ordered'
  BY <1>1, <1>4, <1>6 DEF IInv, Ordered, Growing
<1>9. Untorn'
  <2> SUFFICES ASSUME tears = 0, ~together
               PROVE  Shaped(file) /\ Synced(p)' /\ \A f \in Followers : Followed(f)'
    BY <1>1, <1>4 DEF Untorn
  <2>1. Shaped(file) /\ Synced(p) /\ \A f \in Followers : Followed(f)
    BY <1>0 DEF IInv, Untorn
  <2>2. Append(events[p], e) = Lines(file) /\ Len(file) % 2 = 0
    BY <1>0, <2>1 DEF Synced, e
  <2>3. Synced(p)'
    BY <1>1, <1>4, <1>5, <2>2 DEF Synced
  <2> QED  BY <1>1, <2>1, <2>3 DEF Followed
<1>10. ResolvedKept'
  <2>1. PICK i \in DOMAIN file : file[i] = [ev |-> e, half |-> 2]
    <3>1. Wholly(p)
      BY DEF IInv, Written
    <3> QED  BY <1>0, <3>1 DEF Wholly, e
  <2> QED  BY <1>1, <2>1 DEF IInv, ResolvedKept
<1> QED  BY <1>4, <1>7, <1>8, <1>9, <1>10 DEF IInv

\* An append that rejects leaves the file as it is; once it has begun its line, it is torn.
LEMMA RejectsKeeps ==
    ASSUME IInv, NEW p \in Procs, at[p] = "open", writes[p] # <<>>, Rejects(p),
           \/ half[p] = 0 /\ tears' = tears
           \/ tears' = tears + 1
    PROVE  IInv'
<1>1. /\ half' = [half EXCEPT ![p] = 0]
      /\ writes' = [writes EXCEPT ![p] = Tail(writes[p])]
      /\ UNCHANGED <<file, events, nextSeq, resolved, cursor, given, together>>
      /\ tears \in Nat /\ tears' \in Nat /\ (tears' = 0 => tears = 0 /\ half[p] = 0)
  BY DEF Rejects, IInv, Types
<1>2. \/ at' = [at EXCEPT ![p] = "dead"]
      \/ at' = [at EXCEPT ![p] = "done"]
      \/ at' = at
  BY DEF Rejects
<1>3. /\ at' \in [Procs -> {"off", "viewed", "open", "done", "dead"}]
      /\ at'[p] \in {"open", "done", "dead"}
      /\ \A r \in Procs : r # p => at'[r] = at[r]
  BY <1>2 DEF IInv, Types
<1>4. /\ writes' \in [Procs -> Seq(Event)] /\ half' \in [Procs -> 0..2] /\ half'[p] = 0
      /\ ~together => \A r \in Procs : r # p => at'[r] # "open"
      /\ Roles' /\ Bounded' /\ Written'
  BY <1>1, <1>3, NextAppend
<1>5. Types'
  BY <1>1, <1>3, <1>4 DEF IInv, Types
<1>6. Ordered'
  <2>1. ~together => Ahead(p)'
    BY <1>1, AheadAfter
  <2> QED  BY <1>1, <1>4, <2>1 DEF IInv, Ordered, Growing
<1>7. Untorn'
  <2>1. ASSUME tears = 0, ~together, half[p] = 0 PROVE Synced(p)'
    <3>1. Synced(p)
      BY <2>1 DEF IInv, Untorn
    <3> QED  BY <1>1, <1>4, <2>1, <3>1 DEF Synced
  <2> QED  BY <1>1, <1>4, <2>1 DEF IInv, Untorn, Followed
<1>8. ResolvedKept'
  BY <1>1 DEF IInv, ResolvedKept
<1> QED  BY <1>4, <1>5, <1>6, <1>7, <1>8 DEF IInv

\* An append that writes nothing rejects, and the writer goes on.
LEMMA WriteFailsKeeps ==
    ASSUME IInv, NEW p \in Procs, WriteFails(p)
    PROVE  IInv'
BY RejectsKeeps DEF WriteFails

\* An append that fails half way rejects as well, and leaves its half in the file.
LEMMA TearKeeps ==
    ASSUME IInv, NEW p \in Procs, Tear(p)
    PROVE  IInv'
<1>1. OwnQueue(p)
  BY DEF IInv, Roles
<1> QED  BY <1>1, RejectsKeeps DEF Tear, OwnQueue

(***************************************************************************)
(* The steps of the processes                                              *)
(***************************************************************************)
\* A process dies with what it had not written.
LEMMA DieKeeps ==
    ASSUME IInv, NEW p \in Procs, Die(p)
    PROVE  IInv'
<1>1. /\ at[p] \in {"viewed", "open"} \/ (p = Lead /\ at[p] = "done")
      /\ at' = [at EXCEPT ![p] = "dead"]
      /\ writes' = [writes EXCEPT ![p] = <<>>] /\ half' = [half EXCEPT ![p] = 0]
      /\ UNCHANGED <<file, events, nextSeq, resolved, cursor, given, together, fails, tears>>
  BY DEF Die
<1>2. /\ at' \in [Procs -> {"off", "viewed", "open", "done", "dead"}]
      /\ writes' \in [Procs -> Seq(Event)] /\ half' \in [Procs -> 0..2]
      /\ at'[p] = "dead" /\ writes'[p] = <<>> /\ half'[p] = 0 /\ at[p] # "off"
      /\ \A r \in Procs : r # p => at'[r] = at[r] /\ writes'[r] = writes[r] /\ half'[r] = half[r]
  BY <1>1 DEF IInv, Types
<1>3. Types'
  BY <1>1, <1>2 DEF IInv, Types
<1>4. Roles'
  <2>1. \A r \in Procs : OwnQueue(r)'
    <3>1. OwnQueue(p)'
      BY <1>2 DEF OwnQueue
    <3> QED  BY <1>2, <3>1, SMTT(30) DEF IInv, Roles, OwnQueue
  <2>2. at'[Lead] # "viewed" /\ at[Lead] # "off" /\ at'[Lead] # "off"
    BY <1>1, <1>2 DEF IInv, Roles, Procs
  <2>3. \A t \in Takers : at'[t] \in {"viewed", "open"} =>
          /\ at'[Lead] = "dead"
          /\ ~together => \A u \in Takers : u # t => at'[u] \in {"off", "done", "dead"}
    BY <1>2 DEF IInv, Roles, Procs
  <2>4. together => at'[Lead] = "dead"
    BY <1>2 DEF IInv, Roles, Procs
  <2> QED  BY <1>1, <2>1, <2>2, <2>3, <2>4 DEF IInv, Roles
<1>5. \A r \in Procs : at'[r] = "open" => r # p /\ at[r] = "open"
  BY <1>2
<1>6. Bounded' /\ Written'
  <2>1. Bounded'
    BY <1>1, <1>2, <1>5 DEF IInv, Bounded, InBounds
  <2>2. Written'
    BY <1>1, <1>2 DEF IInv, Written, Wholly
  <2> QED  BY <2>1, <2>2
<1>7. Ordered'
  BY <1>1, <1>2, <1>5 DEF IInv, Ordered, Growing, Ahead, Behind
<1>8. Untorn'
  BY <1>1, <1>2, <1>5 DEF IInv, Untorn, Synced, Followed
<1>9. ResolvedKept'
  BY <1>1 DEF IInv, ResolvedKept
<1> QED  BY <1>3, <1>4, <1>6, <1>7, <1>8, <1>9 DEF IInv

\* Only the lead's run is taken over, and only when the lead is dead.
LEMMA ViewKeeps ==
    ASSUME IInv, NEW p \in Takers, View(p)
    PROVE  IInv'
<1>1. /\ p \in Procs /\ at[p] = "off"
      /\ at' = [at EXCEPT ![p] = "viewed"]
      /\ together' = (together \/ \E q \in Takers : at[q] \in {"viewed", "open"})
      /\ UNCHANGED <<file, events, nextSeq, writes, half, resolved, cursor, given, fails, tears>>
      /\ Parses(file) /\ Record # {} /\ RunOf.kind = "running" /\ at[RunOf.by] = "dead"
      /\ file \in Seq(Halves)
  BY DEF View, WriterLive, Procs, IInv, Types
<1>2. /\ at' \in [Procs -> {"off", "viewed", "open", "done", "dead"}]
      /\ at'[p] = "viewed" /\ p # Lead
      /\ \A r \in Procs : r # p => at'[r] = at[r]
  BY <1>1, JournalConstants DEF IInv, Types
<1>3. at[Lead] = "dead"
  <2> DEFINE i == CHOOSE i \in Record : \A j \in Record : j <= i
  <2>1. Lines(file) \in Seq(Event) /\ DOMAIN Lines(file) = 1..Len(Lines(file))
    BY <1>1, LinesAreWhole
  <2>2. Record \in SUBSET (1..Len(Lines(file))) /\ Len(Lines(file)) \in Nat
    BY <2>1 DEF Record
  <2>3. \E m \in Record : \A j \in Record : j <= m
    BY <1>1, <2>2, LastPlace
  <2>4. i \in DOMAIN Lines(file) /\ RunOf = Lines(file)[i]
    BY <2>3 DEF Record, RunOf
  <2> HIDE DEF i
  <2>5. Whole(file, 2 * i) /\ RunOf = file[2 * i].ev
    BY <1>1, <2>4, LinesAreWhole
  <2>6. RunOf.by = Lead
    BY <1>1, <2>5 DEF IInv, Roles, Whole
  <2> QED  BY <1>1, <2>6
<1>4. Types'
  BY <1>1, <1>2 DEF IInv, Types
<1>5. Roles'
  <2>1. \A r \in Procs : OwnQueue(r)'
    <3>1. OwnQueue(p)'
      BY <1>1, <1>2 DEF IInv, Roles, OwnQueue
    <3> QED  BY <1>1, <1>2, <3>1 DEF IInv, Roles, OwnQueue
  <2>2. at'[Lead] = "dead"
    BY <1>2, <1>3 DEF Procs
  <2>3. ASSUME ~together', NEW t \in Takers, at'[t] \in {"viewed", "open"},
               NEW u \in Takers, u # t
        PROVE  at'[u] \in {"off", "done", "dead"}
    <3>1. \A q \in Takers : at[q] \in {"off", "done", "dead"}
      BY <1>1, <2>3 DEF Procs, IInv, Types
    <3>2. t = p
      BY <1>2, <2>3, <3>1 DEF Procs
    <3> QED  BY <1>2, <2>3, <3>1, <3>2 DEF Procs
  <2> QED  BY <1>1, <2>1, <2>2, <2>3 DEF IInv, Roles
<1>6. \A r \in Procs : at'[r] = "open" => at[r] = "open"
  BY <1>2
<1>7. (~together' => ~together) /\ Bounded' /\ Written' /\ ResolvedKept'
  <2>1. Bounded'
    BY <1>1, <1>6 DEF IInv, Bounded, InBounds
  <2>2. Written'
    BY <1>1 DEF IInv, Written, Wholly
  <2>3. ResolvedKept'
    BY <1>1 DEF IInv, ResolvedKept
  <2> QED  BY <1>1, <2>1, <2>2, <2>3
<1>8. Ordered'
  BY <1>1, <1>6, <1>7 DEF IInv, Ordered, Growing, Ahead, Behind
<1>9. Untorn'
  BY <1>1, <1>6, <1>7 DEF IInv, Untorn, Synced, Followed
<1> QED  BY <1>4, <1>5, <1>7, <1>8, <1>9 DEF IInv

\* A new journal has nothing in it.
LEMMA EmptyFile ==
    /\ <<>> \in Seq(Halves) /\ Len(<<>>) = 0 /\ Shaped(<<>>)
    /\ Lines(<<>>) = <<>> /\ Cut(<<>>) = <<>>
<1>1. <<>> \in Seq(Halves) /\ Len(<<>>) = 0
  OBVIOUS
<1>2. Shaped(<<>>)
  BY DEF Shaped
<1>3. End(<<>>) = 0
  <2>1. End(<<>>) \in 0..Len(<<>>)
    BY <1>1, EndIsLast
  <2> QED  BY <1>1, <2>1
<1>4. Lines(<<>>) \in Seq(Event) /\ 2 * Len(Lines(<<>>)) = 0
  BY <1>1, <1>2, <1>3, ShapedParses, LinesAreWhole
<1>5. Lines(<<>>) = <<>>
  <2>1. Len(Lines(<<>>)) \in Nat
    BY <1>4
  <2>2. Len(Lines(<<>>)) = 0
    BY <1>4, <2>1
  <2> QED  BY <1>4, <2>2, EmptySeq
<1>6. Cut(<<>>) \in Seq(Halves) /\ Len(Cut(<<>>)) = 0
  BY <1>1, <1>3, CutKeeps
<1>7. Cut(<<>>) = <<>>
  BY <1>6, EmptySeq
<1> QED  BY <1>1, <1>2, <1>5, <1>7

\* The run begins with the record that it is running.
LEMMA StartRunKeeps ==
    ASSUME IInv, StartRun
    PROVE  IInv'
<1> DEFINE e == [seq |-> nextSeq[Lead], by |-> Lead, kind |-> "running"]
<1>1. /\ Lead \in Procs /\ at[Lead] = "off" /\ at' = [at EXCEPT ![Lead] = "open"]
      /\ nextSeq[Lead] < MaxSeq /\ nextSeq' = [nextSeq EXCEPT ![Lead] = nextSeq[Lead] + 1]
      /\ writes' = [writes EXCEPT ![Lead] = Append(writes[Lead], e)]
      /\ file' = Cut(file) /\ events' = [events EXCEPT ![Lead] = Lines(file)]
      /\ UNCHANGED <<half, resolved, cursor, given, together, fails, tears>>
  BY DEF StartRun, Opened, Append1, Procs
<1>2. /\ file = <<>> /\ writes[Lead] = <<>> /\ half[Lead] = 0 /\ ~together
      /\ \A t \in Takers : at[t] = "off"
  BY <1>1 DEF IInv, Roles, OwnQueue
<1>3. file' = <<>> /\ events' = [events EXCEPT ![Lead] = <<>>] /\ Lines(file) = <<>>
  BY <1>1, <1>2, EmptyFile
<1>4. e \in Event /\ e.seq = nextSeq[Lead] /\ e.by = Lead /\ nextSeq[Lead] \in Nat
  BY <1>1 DEF IInv, Types, Event, Kinds
<1> HIDE DEF e
<1>5. /\ writes' = [writes EXCEPT ![Lead] = <<e>>] /\ <<e>> \in Seq(Event)
      /\ DOMAIN <<e>> = {1} /\ <<e>>[1] = e
  <2>1. Append(<<>>, e) = <<e>>
    OBVIOUS
  <2> QED  BY <1>1, <1>2, <1>4, <2>1
<1>6. /\ at'[Lead] = "open" /\ writes'[Lead] = <<e>> /\ events'[Lead] = <<>>
      /\ nextSeq'[Lead] = nextSeq[Lead] + 1 /\ <<e>> # <<>>
      /\ \A r \in Procs : r # Lead => at'[r] = "off" /\ at[r] = "off" /\ writes'[r] = writes[r]
  BY <1>1, <1>2, <1>3, <1>5 DEF IInv, Types, Procs
<1>7. Types'
  <2>1. at' \in [Procs -> {"off", "viewed", "open", "done", "dead"}]
    BY <1>1 DEF IInv, Types
  <2>2. nextSeq' \in [Procs -> Nat]
    BY <1>1 DEF IInv, Types
  <2>3. events' \in [Procs -> Seq(Event)]
    <3>1. <<>> \in Seq(Event)
      OBVIOUS
    <3> QED  BY <1>3, <3>1 DEF IInv, Types
  <2>4. writes' \in [Procs -> Seq(Event)]
    BY <1>5 DEF IInv, Types
  <2> QED  BY <1>1, <1>3, <2>1, <2>2, <2>3, <2>4, EmptyFile DEF IInv, Types
<1>8. Roles'
  <2>1. OwnQueue(Lead)'
    BY <1>1, <1>2, <1>4, <1>5, <1>6 DEF OwnQueue
  <2>2. \A r \in Procs : OwnQueue(r)'
    BY <1>1, <1>6, <2>1 DEF IInv, Roles, OwnQueue
  <2>3. \A t \in Takers : at'[t] = "off"
    BY <1>6, JournalConstants DEF Procs
  <2> QED  BY <1>1, <1>2, <1>3, <1>6, <2>2, <2>3 DEF Roles
<1>9. nextSeq'[Lead] <= MaxSeq /\ e.seq < nextSeq'[Lead]
  BY <1>1, <1>4, <1>6, JournalConstants
<1>10. Bounded' /\ Written'
  <2>1. InBounds(Lead)'
    BY <1>5, <1>6, <1>9 DEF InBounds
  <2>2. Bounded'
    BY <1>3, <1>6, <2>1 DEF Bounded
  <2>3. Written'
    BY <1>1, <1>2, <1>6 DEF IInv, Written, Wholly, Roles, OwnQueue
  <2> QED  BY <2>2, <2>3
<1>11. Ordered'
  <2>1. Ahead(Lead)'
    BY <1>1, <1>2, <1>3, <1>5, <1>6 DEF Ahead, Behind
  <2> QED  BY <1>1, <1>2, <1>3, <1>6, <2>1 DEF IInv, Ordered, Growing
<1>12. Untorn'
  <2>1. Synced(Lead)'
    <3>1. Len(file') % 2 = 0 /\ Lines(file') = <<>>
      BY <1>3, EmptyFile
    <3> QED  BY <1>1, <1>2, <1>6, <3>1 DEF Synced
  <2> QED  BY <1>1, <1>2, <1>3, <1>6, <2>1, EmptyFile DEF IInv, Untorn, Followed
<1>13. ResolvedKept'
  BY <1>1, <1>2, <1>3 DEF IInv, ResolvedKept
<1> QED  BY <1>7, <1>8, <1>10, <1>11, <1>12, <1>13 DEF IInv

\* The events of a file that parses are whole ones of the file, and in bounds.
LEMMA LinesInBounds ==
    ASSUME IInv, Parses(file)
    PROVE  /\ Lines(file) \in Seq(Event)
           /\ \A k \in DOMAIN Lines(file) :
                /\ Lines(file)[k].seq \in Nat /\ Lines(file)[k].seq < MaxSeq
                /\ 2 * k \in DOMAIN file /\ Whole(file, 2 * k) /\ file[2 * k].ev = Lines(file)[k]
<1>1. file \in Seq(Halves) /\ \A i \in DOMAIN file : file[i].ev.seq < MaxSeq
  BY DEF IInv, Types, Bounded
<1>2. /\ Lines(file) \in Seq(Event)
      /\ \A k \in DOMAIN Lines(file) :
           2 * k \in DOMAIN file /\ Whole(file, 2 * k) /\ Lines(file)[k] = file[2 * k].ev
  BY <1>1, LinesAreWhole DEF Whole
<1>3. \A k \in DOMAIN Lines(file) : Lines(file)[k].seq \in Nat /\ Lines(file)[k].seq < MaxSeq
  BY <1>1, <1>2, SeqsAreNumbers DEF IInv
<1> QED  BY <1>2, <1>3

\* While one process at a time takes the run over, they are in the order of their seqs.
LEMMA LinesGrow ==
    ASSUME IInv, ~together, Parses(file)
    PROVE  \A k, l \in DOMAIN Lines(file) : k < l => Lines(file)[k].seq < Lines(file)[l].seq
<1>1. \A k, l \in DOMAIN Lines(file) : k < l => 2 * k < 2 * l
  <2>1. DOMAIN Lines(file) = 1..Len(Lines(file)) /\ Len(Lines(file)) \in Nat
    BY LinesInBounds
  <2> QED  BY <2>1
<1> QED  BY <1>1, LinesInBounds DEF IInv, Ordered, Growing

\* A takeover opens the file: it cuts the half line off, and its seqs go on from the last.
LEMMA OpenKeeps ==
    ASSUME IInv, NEW p \in Takers, Open(p)
    PROVE  IInv'
<1> DEFINE s == Lines(file)
<1>1. /\ p \in Procs /\ at[p] = "viewed" /\ at' = [at EXCEPT ![p] = "open"]
      /\ nextSeq' = [nextSeq EXCEPT ![p] = SeqAfter(s)]
      /\ Parses(file) /\ file' = Cut(file) /\ events' = [events EXCEPT ![p] = s]
      /\ UNCHANGED <<writes, half, resolved, cursor, given, together, fails, tears>>
      /\ file \in Seq(Halves) /\ p # Lead
  BY JournalConstants DEF Open, Opened, Procs, IInv, Types
<1>2. writes[p] = <<>> /\ half[p] = 0 /\ OwnQueue(p)
  BY <1>1 DEF IInv, Roles, OwnQueue
<1>3. /\ file' \in Seq(Halves) /\ Len(file') = End(file)
      /\ \A i \in 1..End(file) : file'[i] = file[i]
      /\ \A i \in DOMAIN file : Whole(file, i) => Whole(file', i)
      /\ \A i \in DOMAIN file' : i \in DOMAIN file /\ file'[i] = file[i]
      /\ Shaped(file) => Shaped(file') /\ Len(file') % 2 = 0 /\ Lines(file') = s
  <2>1. DOMAIN file' = 1..Len(file')
    BY <1>1, CutKeeps
  <2> QED  BY <1>1, <2>1, CutKeeps
<1>4. \A i \in DOMAIN file : Whole(file, i) => i \in DOMAIN file' /\ file'[i] = file[i]
  BY <1>3 DEF Whole
<1>5. /\ s \in Seq(Event)
      /\ \A k \in DOMAIN s :
           /\ s[k].seq \in Nat /\ s[k].seq < MaxSeq
           /\ \E i \in DOMAIN file : Whole(file, i) /\ file[i].ev = s[k]
      /\ ~together => \A k, l \in DOMAIN s : k < l => s[k].seq < s[l].seq
      /\ \A i \in DOMAIN file : Whole(file, i) => \E k \in DOMAIN s : s[k] = file[i].ev
  BY <1>1, LinesInBounds, LinesGrow, LinesAreWhole DEF Whole
<1> HIDE DEF s
<1>6. /\ SeqAfter(s) \in Nat /\ SeqAfter(s) <= MaxSeq
      /\ ~together => \A k \in DOMAIN s : s[k].seq < SeqAfter(s)
  <2>1. CASE s = <<>>
    BY <2>1, JournalConstants DEF SeqAfter
  <2>2. CASE s # <<>>
    <3>1. Len(s) \in Nat /\ DOMAIN s = 1..Len(s) /\ Len(s) \in DOMAIN s
      BY <1>5, <2>2
    <3>2. SeqAfter(s) = s[Len(s)].seq + 1
      BY <2>2 DEF SeqAfter, Last
    <3>3. \A k \in DOMAIN s : k = Len(s) \/ k < Len(s)
      BY <3>1
    <3>4. s[Len(s)].seq \in Nat /\ s[Len(s)].seq < MaxSeq
      BY <1>5, <3>1
    <3>5. SeqAfter(s) \in Nat /\ SeqAfter(s) <= MaxSeq
      BY <3>2, <3>4, JournalConstants
    <3>6. ASSUME ~together, NEW k \in DOMAIN s PROVE s[k].seq < SeqAfter(s)
      <4>1. s[k].seq \in Nat /\ (s[k].seq = s[Len(s)].seq \/ s[k].seq < s[Len(s)].seq)
        BY <1>5, <3>1, <3>3, <3>6
      <4> QED  BY <3>2, <3>4, <4>1
    <3> QED  BY <3>5, <3>6
  <2> QED  BY <2>1, <2>2
<1>7. /\ at'[p] = "open" /\ events'[p] = s /\ nextSeq'[p] = SeqAfter(s)
      /\ \A r \in Procs : r # p => at'[r] = at[r] /\ nextSeq'[r] = nextSeq[r]
      /\ ~together => \A r \in Procs : r # p => at'[r] # "open"
  BY <1>1, OneAtWork DEF IInv, Types
<1>8. Types'
  <2>1. at' \in [Procs -> {"off", "viewed", "open", "done", "dead"}]
    BY <1>1 DEF IInv, Types
  <2>2. nextSeq' \in [Procs -> Nat]
    BY <1>1, <1>6 DEF IInv, Types
  <2>3. events' \in [Procs -> Seq(Event)]
    BY <1>1, <1>5 DEF IInv, Types
  <2> QED  BY <1>1, <1>3, <2>1, <2>2, <2>3 DEF IInv, Types
<1>9. Roles'
  <2>1. \A r \in Procs : OwnQueue(r)'
    <3>1. OwnQueue(p)'
      BY <1>1, <1>2, <1>7 DEF OwnQueue
    <3> QED  BY <1>1, <1>7, <3>1 DEF IInv, Roles, OwnQueue
  <2>2. at'[Lead] = "dead"
    BY <1>1, <1>7 DEF IInv, Roles, Procs
  <2>3. ASSUME ~together, NEW t \in Takers, at'[t] \in {"viewed", "open"},
               NEW u \in Takers, u # t
        PROVE  at'[u] \in {"off", "done", "dead"}
    <3>1. \A q \in Takers : q # p => at'[q] \in {"off", "done", "dead"}
      BY <1>1, <1>7, <2>3 DEF IInv, Roles, Procs
    <3> QED  BY <2>3, <3>1
  <2>4. \A i \in DOMAIN file' : file'[i].ev.kind = "running" => file'[i].ev.by = Lead
    BY <1>3 DEF IInv, Roles
  <2> QED  BY <1>1, <2>1, <2>2, <2>3, <2>4 DEF Roles
<1>10. Bounded' /\ Written'
  <2>1. InBounds(p)'
    BY <1>1, <1>2, <1>6, <1>7 DEF InBounds
  <2>2. Bounded'
    BY <1>1, <1>3, <1>7, <2>1 DEF IInv, Bounded, InBounds
  <2>3. ASSUME NEW r \in Procs, half[r] = 2
        PROVE  \E i \in DOMAIN file' : file'[i] = [ev |-> Head(writes[r]), half |-> 2]
    <3>1. PICK i \in DOMAIN file : file[i] = [ev |-> Head(writes[r]), half |-> 2]
      BY <2>3 DEF IInv, Written, Wholly
    <3>2. Whole(file, i)
      BY <3>1 DEF Whole
    <3> QED  BY <1>4, <3>1, <3>2
  <2>4. Written'
    BY <1>1, <2>3 DEF Written, Wholly
  <2> QED  BY <2>2, <2>4
<1>11. Ordered'
  <2> SUFFICES ASSUME ~together PROVE Growing' /\ Ahead(p)'
    BY <1>1, <1>7 DEF IInv, Ordered
  <2>1. Growing'
    BY <1>3 DEF IInv, Ordered, Growing, Whole
  <2>2. \A i \in DOMAIN file' : Whole(file', i) => file'[i].ev.seq < nextSeq'[p]
    <3>1. \A i \in DOMAIN file : Whole(file, i) => file[i].ev.seq < SeqAfter(s)
      BY <1>5, <1>6
    <3> QED  BY <1>3, <1>7, <3>1 DEF Whole
  <2>3. \A k \in DOMAIN s : \E i \in DOMAIN file' : Behind(p, i)' /\ file'[i].ev = s[k]
    BY <1>1, <1>2, <1>3, <1>4, <1>5 DEF Behind
  <2>4. Ahead(p)'
    <3>1. DOMAIN writes'[p] = {} /\ half'[p] = 0
      BY <1>1, <1>2
    <3>2. \A k, l \in DOMAIN events'[p] : k < l => events'[p][k].seq < events'[p][l].seq
      BY <1>5, <1>7
    <3>3. \A k \in DOMAIN events'[p] :
            \E i \in DOMAIN file' : Behind(p, i)' /\ file'[i].ev = events'[p][k]
      BY <1>7, <2>3
    <3> QED  BY <2>2, <3>1, <3>2, <3>3 DEF Ahead
  <2> QED  BY <2>1, <2>4
<1>12. Untorn'
  <2> SUFFICES ASSUME tears = 0, ~together
               PROVE  /\ Shaped(file') /\ Synced(p)'
                      /\ \A f \in Followers : Followed(f)'
    BY <1>1, <1>7 DEF Untorn
  <2>1. /\ Shaped(file') /\ Len(file') % 2 = 0 /\ Lines(file') = s
        /\ \A f \in Followers : Followed(f)
    BY <1>3 DEF IInv, Untorn
  <2>2. Synced(p)'
    BY <1>1, <1>2, <1>7, <2>1 DEF Synced
  <2> QED  BY <1>1, <2>1, <2>2 DEF Followed, s
<1>13. ResolvedKept'
  <2> SUFFICES ASSUME NEW e \in resolved
               PROVE  \E i \in DOMAIN file' : file'[i] = [ev |-> e, half |-> 2]
    BY <1>1 DEF ResolvedKept
  <2>1. PICK i \in DOMAIN file : file[i] = [ev |-> e, half |-> 2]
    BY DEF IInv, ResolvedKept
  <2>2. Whole(file, i)
    BY <2>1 DEF Whole
  <2> QED  BY <1>4, <2>1, <2>2
<1> QED  BY <1>8, <1>9, <1>10, <1>11, <1>12, <1>13 DEF IInv

(***************************************************************************)
(* The followers                                                           *)
(***************************************************************************)
\* What is past a cursor of events in the order of their seqs is the end of them.
LEMMA NewIsTheEnd ==
    ASSUME NEW s \in Seq(Event), NEW c \in Int,
           \A k, l \in DOMAIN s : k < l => s[k].seq < s[l].seq
    PROVE  \E m \in 0..Len(s) :
             /\ \A k \in DOMAIN s : s[k].seq > c <=> k > m
             /\ NewIn(s, c) \in Seq(Event) /\ Len(NewIn(s, c)) = Len(s) - m
             /\ \A k \in 1..(Len(s) - m) : NewIn(s, c)[k] = s[m + k]
<1>1. PICK n \in Nat : n = Len(s)
  OBVIOUS
<1>2. DOMAIN s = 1..n
  BY <1>1
<1>3. \A k \in 1..n : s[k] \in Event /\ s[k].seq \in Nat
  <2>1. \A e \in Event : e.seq \in Nat
    BY DEF Event
  <2> QED  BY <1>2, <2>1
<1> DEFINE Low == {k \in 1..n : ~(s[k].seq > c)}
<1>4. PICK m \in 0..n : \A k \in 1..n : s[k].seq > c <=> k > m
  <2>1. CASE Low = {}
    <3>1. \A k \in 1..n : s[k].seq > c <=> k > 0
      BY <2>1
    <3>2. 0 \in 0..n
      OBVIOUS
    <3> QED  BY <3>1, <3>2
  <2>2. CASE Low # {}
    <3>1. PICK m \in Low : \A k \in Low : k <= m
      BY <1>1, <2>2, LastPlace
    <3>2. \A k \in 1..n : k > m => s[k].seq > c
      BY <3>1
    <3>3. ASSUME NEW k \in 1..n, ~(k > m) PROVE ~(s[k].seq > c)
      <4>1. k = m \/ k < m
        BY <3>1, <3>3
      <4>2. s[k].seq = s[m].seq \/ s[k].seq < s[m].seq
        BY <1>2, <3>1, <4>1
      <4>3. s[k].seq \in Nat /\ s[m].seq \in Nat /\ ~(s[m].seq > c)
        BY <1>3, <3>1
      <4> QED  BY <4>2, <4>3
    <3>4. m \in 0..n /\ \A k \in 1..n : s[k].seq > c <=> k > m
      BY <3>1, <3>2, <3>3
    <3> QED  BY <3>4
  <2> QED  BY <2>1, <2>2
<1> HIDE DEF Low
<1> DEFINE I == {k \in DOMAIN s : s[k].seq > c}
<1>5. I = (m + 1)..n
  BY <1>1, <1>2, <1>4
<1>6. Cardinality(I) = n - m
  <2>1. m + 1 \in Int /\ n \in Int
    OBVIOUS
  <2>2. Cardinality((m + 1)..n) = IF m + 1 > n THEN 0 ELSE n - (m + 1) + 1
    BY <2>1, FS_Interval
  <2>3. (IF m + 1 > n THEN 0 ELSE n - (m + 1) + 1) = n - m
    OBVIOUS
  <2> QED  BY <1>5, <2>2, <2>3
<1>7. \A i \in I : Cardinality({j \in I : j < i}) = i - 1 - m
  <2> TAKE i \in I
  <2>1. i \in (m + 1)..n
    BY <1>5
  <2>2. i \in Int /\ i - 1 \in Int /\ m + 1 \in Int /\ i >= m + 1
    BY <2>1
  <2>3. {j \in I : j < i} = (m + 1)..(i - 1)
    BY <1>5, <2>1
  <2>4. Cardinality((m + 1)..(i - 1)) =
          IF m + 1 > i - 1 THEN 0 ELSE (i - 1) - (m + 1) + 1
    BY <2>2, FS_Interval
  <2>5. (IF m + 1 > i - 1 THEN 0 ELSE (i - 1) - (m + 1) + 1) = i - 1 - m
    BY <2>2
  <2> QED  BY <2>3, <2>4, <2>5
<1> HIDE DEF I
<1>8. ASSUME NEW k \in 1..(n - m)
      PROVE  (CHOOSE i \in I : Cardinality({j \in I : j < i}) = k - 1) = m + k
  <2>1. \A i \in I : i \in Int /\ (Cardinality({j \in I : j < i}) = k - 1 <=> i = m + k)
    <3> TAKE i \in I
    <3>1. i \in Int /\ Cardinality({j \in I : j < i}) = i - 1 - m
      BY <1>1, <1>5, <1>7
    <3> QED  BY <1>1, <3>1
  <2>2. m + k \in I
    BY <1>1, <1>5
  <2> QED  BY <2>1, <2>2
<1>9. NewIn(s, c) = [k \in 1..(n - m) |-> s[m + k]]
  <2>1. NewIn(s, c) = Kept(s, I)
    BY DEF NewIn, I
  <2> QED  BY <1>6, <1>8, <2>1 DEF Kept
<1>10. \A k \in 1..(n - m) : s[m + k] \in Event
  <2>1. \A k \in 1..(n - m) : m + k \in 1..n
    BY <1>1
  <2> QED  BY <1>3, <2>1
<1>11. /\ NewIn(s, c) \in Seq(Event) /\ Len(NewIn(s, c)) = n - m
       /\ \A k \in 1..(n - m) : NewIn(s, c)[k] = s[m + k]
  <2>1. n - m \in Nat
    BY <1>1
  <2> QED  BY <1>9, <1>10, <2>1
<1> QED  BY <1>1, <1>2, <1>4, <1>11

\* The last of what is new is one of the events, in whatever order they are.
LEMMA LastIsNew ==
    ASSUME NEW s \in Seq(Event), NEW c \in Int, NewIn(s, c) # <<>>
    PROVE  \E k \in DOMAIN s : Last(NewIn(s, c)) = s[k]
<1> DEFINE I == {k \in DOMAIN s : s[k].seq > c}
           new == NewIn(s, c)
<1>1. PICK n \in Nat : n = Len(s) /\ DOMAIN s = 1..n
  OBVIOUS
<1>2. I \in SUBSET (1..n) /\ IsFiniteSet(I)
  <2>1. IsFiniteSet(1..n)
    BY FS_Interval
  <2> QED  BY <1>1, <2>1, FS_Subset
<1>3. PICK N \in Nat : N = Cardinality(I)
  BY <1>2, FS_CardinalityType
<1>4. new = [k \in 1..N |-> s[CHOOSE i \in I : Cardinality({j \in I : j < i}) = k - 1]]
  BY <1>3 DEF NewIn, Kept
<1>5. Len(new) = N /\ (N = 0 => new = <<>>)
  <2> DEFINE Given == {new[k] : k \in 1..N}
  <2>1. DOMAIN new = 1..N /\ new = [k \in 1..N |-> new[k]]
    BY <1>4
  <2> HIDE DEF new
  <2>2. new \in [1..N -> Given]
    BY <2>1
  <2> HIDE DEF Given
  <2>3. new \in Seq(Given) /\ Len(new) = N
    BY <2>2
  <2> QED  BY <2>3, EmptySeq
<1>6. N # 0 /\ I # {}
  BY <1>3, <1>5, FS_EmptySet
<1>7. PICK m \in I : \A j \in I : j <= m
  BY <1>2, <1>6, LastPlace
<1>8. Cardinality({j \in I : j < m}) = N - 1
  <2>1. {j \in I : j < m} = I \ {m}
    BY <1>2, <1>7
  <2> QED  BY <1>2, <1>3, <1>7, <2>1, FS_RemoveElement
<1> DEFINE last == CHOOSE i \in I : Cardinality({j \in I : j < i}) = N - 1
<1>9. last \in I
  BY <1>7, <1>8
<1>10. new[N] = s[last]
  BY <1>4, <1>6
<1> QED  BY <1>5, <1>9, <1>10 DEF Last

\* A follower is given all there is past its cursor, and its cursor goes to the end.
LEMMA PollKeeps ==
    ASSUME IInv, NEW f \in Followers, Poll(f)
    PROVE  IInv'
<1>1. PICK s \in Sources :
        /\ NewIn(s, cursor[f]) # <<>>
        /\ given' = [given EXCEPT ![f] = given[f] \o NewIn(s, cursor[f])]
        /\ cursor' = [cursor EXCEPT ![f] = Last(NewIn(s, cursor[f])).seq]
  BY DEF Poll
<1>2. UNCHANGED <<file, at, events, nextSeq, writes, half, resolved, together, fails, tears>>
  BY DEF Poll
<1> DEFINE L == Lines(file)
<1>3. /\ s \in Seq(Event)
      /\ \A k \in DOMAIN s : s[k].seq \in Nat /\ s[k].seq < MaxSeq
      /\ ~together => \A k, l \in DOMAIN s : k < l => s[k].seq < s[l].seq
  <2>1. CASE at[Lead] = "open" /\ s = events[Lead]
    <3>1. Lead \in Procs /\ Ahead(Lead) /\ s \in Seq(Event)
      BY <2>1 DEF Procs, IInv, Roles, Ordered, Types
    <3>2. ASSUME NEW k \in DOMAIN s PROVE s[k].seq \in Nat /\ s[k].seq < MaxSeq
      <4>1. PICK i \in DOMAIN file : file[i].ev = s[k]
        BY <2>1, <3>1, <3>2 DEF Ahead
      <4> QED  BY <4>1, SeqsAreNumbers DEF IInv, Bounded
    <3> QED  BY <2>1, <3>1, <3>2 DEF Ahead
  <2>2. CASE Parses(file) /\ s = Lines(file)
    BY <2>2, LinesInBounds, LinesGrow
  <2> QED  BY <1>1, <2>1, <2>2 DEF Sources
\* What it reads is what the file begins with.
<1>4. ASSUME tears = 0, ~together
      PROVE  /\ L \in Seq(Event) /\ Len(s) <= Len(L)
             /\ \A k \in DOMAIN s : k \in DOMAIN L /\ s[k] = L[k]
             /\ \A k, l \in DOMAIN L : k < l => L[k].seq < L[l].seq
             /\ \A k \in DOMAIN L : L[k].seq \in Nat
  <2>1. Parses(file)
    BY <1>4, ShapedParses DEF IInv, Types, Untorn
  <2>2. /\ L \in Seq(Event) /\ \A k \in DOMAIN L : L[k].seq \in Nat
        /\ \A k, l \in DOMAIN L : k < l => L[k].seq < L[l].seq
    BY <1>4, <2>1, LinesInBounds, LinesGrow
  <2>3. CASE s = L
    BY <1>3, <2>2, <2>3
  <2>4. CASE at[Lead] = "open" /\ s = events[Lead] /\ s # L
    <3>1. Lead \in Procs /\ Synced(Lead) /\ OwnQueue(Lead) /\ writes[Lead] \in Seq(Event)
      BY <1>4, <2>4 DEF Procs, IInv, Untorn, Roles, Types
    <3>2. half[Lead] = 2 /\ Append(s, Head(writes[Lead])) = L /\ writes[Lead] # <<>>
      BY <2>4, <3>1 DEF Synced, OwnQueue
    <3>3. Head(writes[Lead]) \in Event
      BY <3>1, <3>2, Queue
    <3>4. /\ Len(L) = Len(s) + 1 /\ Len(s) \in Nat
          /\ \A k \in DOMAIN s : L[k] = s[k]
          /\ DOMAIN L = DOMAIN s \cup {Len(s) + 1}
      BY <1>3, <3>2, <3>3, Longer
    <3> QED  BY <2>2, <3>4
  <2> QED  BY <1>1, <2>3, <2>4 DEF Sources
<1>5. /\ cursor[f] \in Int /\ MaxSeq \in Nat /\ cursor \in [Followers -> -1..MaxSeq]
      /\ ~together => given[f] \in Seq(Event) /\ given \in [Followers -> Seq(Event)]
  BY JournalConstants DEF IInv, Types, Ordered
<1> DEFINE new == NewIn(s, cursor[f])
<1>6. PICK n \in Nat : n = Len(s) /\ DOMAIN s = 1..n
  BY <1>3
<1>7. Types'
  <2>1. PICK k \in DOMAIN s : Last(new) = s[k]
    BY <1>1, <1>3, <1>5, LastIsNew
  <2>2. Last(new).seq \in -1..MaxSeq
    BY <1>3, <1>5, <2>1
  <2>3. cursor' \in [Followers -> -1..MaxSeq]
    BY <1>1, <1>5, <2>2
  <2> QED  BY <1>2, <2>3 DEF IInv, Types
<1>8. Roles' /\ Bounded' /\ Written' /\ ResolvedKept'
  <2>1. Roles'
    BY <1>2 DEF IInv, Roles, OwnQueue
  <2>2. Bounded' /\ Written'
    BY <1>2 DEF IInv, Bounded, InBounds, Written, Wholly
  <2>3. ResolvedKept'
    BY <1>2 DEF IInv, ResolvedKept
  <2> QED  BY <2>1, <2>2, <2>3
<1> SUFFICES Ordered' /\ Untorn'
  BY <1>7, <1>8 DEF IInv
<1>9. CASE together
  BY <1>2, <1>9 DEF Ordered, Untorn
<1>10. CASE ~together
  <2> USE <1>10
  <2> HIDE DEF L, new
  <2>1. PICK m \in 0..n :
          /\ \A k \in 1..n : s[k].seq > cursor[f] <=> k > m
          /\ new \in Seq(Event) /\ Len(new) = n - m
          /\ \A k \in 1..(n - m) : new[k] = s[m + k]
    BY <1>3, <1>5, <1>6, NewIsTheEnd DEF new
  <2>2. /\ given'[f] = given[f] \o new /\ new # <<>> /\ cursor'[f] = Last(new).seq
        /\ given' = [given EXCEPT ![f] = given[f] \o new]
        /\ \A g \in Followers : g # f => given'[g] = given[g] /\ cursor'[g] = cursor[g]
    BY <1>1, <1>5 DEF new
  <2>3. m < n /\ n \in 1..n /\ Last(new) = s[n]
    <3>1. Len(new) # 0
      BY <2>1, <2>2, EmptySeq
    <3>2. n - m # 0 /\ m < n
      BY <2>1, <3>1
    <3>3. n - m \in 1..(n - m) /\ m + (n - m) = n
      BY <3>2
    <3>4. new[n - m] = s[n]
      BY <2>1, <3>3
    <3> QED  BY <2>1, <3>2, <3>4 DEF Last
  <2>4. given' \in [Followers -> Seq(Event)]
    <3>1. given[f] \o new \in Seq(Event)
      BY <1>5, <2>1, ConcatProperties
    <3> QED  BY <1>5, <2>2, <3>1
  <2>5. Ordered'
    BY <1>2, <2>4 DEF IInv, Ordered, Growing, Ahead, Behind
  <2>6. ASSUME tears = 0 PROVE Followed(f)'
    <3>1. /\ Followed(f) /\ n <= Len(L) /\ L \in Seq(Event)
          /\ \A k \in 1..n : k \in DOMAIN L /\ s[k] = L[k]
          /\ \A k, l \in DOMAIN L : k < l => L[k].seq < L[l].seq
          /\ \A k \in DOMAIN L : L[k].seq \in Nat
      BY <1>4, <1>6, <2>6 DEF IInv, Untorn, L
    <3>2. PICK g \in Nat : g = Len(given[f]) /\ DOMAIN given[f] = 1..g
      BY <1>5
    <3>3. /\ 1..g \subseteq DOMAIN L
          /\ \A i \in 1..g : given[f][i] = L[i]
          /\ cursor[f] = IF given[f] = <<>> THEN -1 ELSE Last(given[f]).seq
      BY <3>1, <3>2 DEF Followed, L
    \* The cursor is where it is in the file.
    <3>4. ASSUME NEW k \in 1..n PROVE s[k].seq > cursor[f] <=> k > g
      <4>1. s[k] = L[k] /\ k \in DOMAIN L /\ L[k].seq \in Nat
        BY <3>1, <3>4
      <4>2. CASE g = 0
        <5>1. given[f] = <<>>
          BY <1>5, <3>2, <4>2, EmptySeq
        <5> QED  BY <3>3, <4>1, <4>2, <5>1
      <4>3. CASE g # 0
        <5>1. g \in 1..g /\ given[f] # <<>>
          BY <3>2, <4>3
        <5>2. cursor[f] = L[g].seq /\ L[g].seq \in Nat /\ g \in DOMAIN L
          BY <3>1, <3>2, <3>3, <5>1 DEF Last
        <5>3. /\ k < g => L[k].seq < L[g].seq
              /\ g < k => L[g].seq < L[k].seq
          BY <3>1, <4>1, <5>2
        <5>4. k < g \/ k = g \/ g < k
          BY <3>2
        <5> QED  BY <3>2, <4>1, <5>2, <5>3, <5>4
      <4> QED  BY <4>2, <4>3
    <3>5. m = g
      <4>1. \A k \in 1..n : k > m <=> k > g
        BY <2>1, <3>4
      <4>2. m < g => FALSE
        <5>1. m + 1 \in 1..n /\ m + 1 > m
          BY <2>1, <2>3
        <5>2. m + 1 > g
          BY <4>1, <5>1
        <5> QED  BY <2>1, <3>2, <5>2
      <4>3. g < m => FALSE
        <5>1. g < m => m \in 1..n /\ m > g /\ ~(m > m)
          BY <2>1, <3>2
        <5> QED  BY <4>1, <5>1
      <4> QED  BY <2>1, <3>2, <4>2, <4>3
    <3>6. /\ Len(given'[f]) = n
          /\ \A i \in 1..n : given'[f][i] = s[i]
      <4>1. /\ Len(given[f] \o new) = g + (n - g)
            /\ \A i \in 1..(g + (n - g)) :
                 (given[f] \o new)[i] = IF i <= g THEN given[f][i] ELSE new[i - g]
        BY <1>5, <2>1, <3>2, <3>5, ConcatProperties
      <4>2. g + (n - g) = n
        BY <3>2
      <4>3. ASSUME NEW i \in 1..n PROVE (given[f] \o new)[i] = s[i]
        <5>1. CASE i <= g
          BY <3>1, <3>2, <3>3, <4>1, <4>2, <5>1
        <5>2. CASE ~(i <= g)
          <6>1. i - g \in 1..(n - g) /\ g + (i - g) = i
            BY <3>2, <5>2
          <6>2. new[i - g] = s[g + (i - g)]
            BY <2>1, <3>5, <6>1
          <6> QED  BY <4>1, <4>2, <5>2, <6>1, <6>2
        <5> QED  BY <5>1, <5>2
      <4> QED  BY <2>2, <4>1, <4>2, <4>3
    <3>7. given'[f] \in Seq(Event) /\ DOMAIN given'[f] = 1..n /\ given'[f] # <<>>
      <4>1. given'[f] \in Seq(Event)
        BY <2>4
      <4> QED  BY <2>3, <3>6, <4>1
    <3>8. Last(given'[f]) = s[n]
      BY <2>3, <3>6 DEF Last
    <3>9. Lines(file') = L
      BY <1>2 DEF L
    <3> QED  BY <2>2, <2>3, <3>1, <3>6, <3>7, <3>8, <3>9 DEF Followed
  <2>7. Untorn'
    <3> SUFFICES ASSUME tears = 0
                 PROVE  /\ Shaped(file)
                        /\ \A p \in Procs : at[p] = "open" => Synced(p)'
                        /\ \A g \in Followers : Followed(g)'
      BY <1>2 DEF Untorn
    <3>1. \A p \in Procs : at[p] = "open" => Synced(p)'
      BY <1>2 DEF IInv, Untorn, Synced
    <3>2. \A g \in Followers : Followed(g)'
      BY <1>2, <2>2, <2>6 DEF IInv, Untorn, Followed
    <3> QED  BY <3>1, <3>2 DEF IInv, Untorn
  <2> QED  BY <2>5, <2>7
<1> QED  BY <1>9, <1>10

(***************************************************************************)
(* The theorems                                                            *)
(***************************************************************************)
\* The invariant holds of a run that has not started.
LEMMA Initial == Init => IInv
<1> SUFFICES ASSUME Init PROVE IInv
  OBVIOUS
<1>1. <<>> \in Seq(Event) /\ Len(<<>>) = 0 /\ DOMAIN <<>> = {}
  OBVIOUS
<1>2. Types
  <2>1. cursor \in [Followers -> -1..MaxSeq]
    BY JournalConstants DEF Init
  <2>2. file \in Seq(Halves)
    BY EmptyFile DEF Init
  <2>3. half \in [Procs -> 0..2]
    BY DEF Init
  <2> QED  BY <1>1, <2>1, <2>2, <2>3 DEF Init, Types
<1>3. Roles
  BY <1>1, JournalConstants DEF Init, Roles, OwnQueue, Procs
<1>4. Bounded /\ Written /\ Ordered
  BY <1>1 DEF Init, Bounded, Written, Wholly, Ordered, Growing, Procs
<1>5. Untorn
  BY <1>1, EmptyFile DEF Init, Untorn, Followed
<1>6. ResolvedKept
  BY DEF Init, ResolvedKept
<1> QED  BY <1>2, <1>3, <1>4, <1>5, <1>6 DEF IInv

\* Every step keeps it.
LEMMA Steps == IInv /\ [Next]_vars => IInv'
<1> SUFFICES ASSUME IInv, [Next]_vars PROVE IInv'
  OBVIOUS
<1>1. CASE StartRun
  BY <1>1, StartRunKeeps
<1>2. CASE \E kind \in {"data", "finished"} : Journal(kind)
  BY <1>2, JournalKeeps
<1>3. CASE \E p \in Procs : WriteHalf(p)
  BY <1>3, WriteHalfKeeps
<1>4. CASE \E p \in Procs : WriteRest(p)
  BY <1>4, WriteRestKeeps
<1>5. CASE \E p \in Procs : Resolve(p)
  BY <1>5, ResolveKeeps
<1>6. CASE \E p \in Procs : WriteFails(p)
  BY <1>6, WriteFailsKeeps
<1>7. CASE \E p \in Procs : Tear(p)
  BY <1>7, TearKeeps
<1>8. CASE \E p \in Procs : Die(p)
  BY <1>8, DieKeeps
<1>9. CASE \E p \in Takers : View(p)
  BY <1>9, ViewKeeps
<1>10. CASE \E p \in Takers : Open(p)
  BY <1>10, OpenKeeps
<1>11. CASE \E p \in Takers : Attach(p)
  BY <1>11, AttachKeeps
<1>12. CASE \E f \in Followers : Poll(f)
  BY <1>12, PollKeeps
<1>13. CASE UNCHANGED vars
  <2>1. UNCHANGED <<file, at, events, nextSeq, writes, half, resolved, cursor, given, together,
                       tears>>
    BY <1>13 DEF vars
  <2>2. Types' /\ Roles' /\ ResolvedKept'
    BY <2>1 DEF IInv, Types, Roles, OwnQueue, ResolvedKept
  <2>3. Bounded' /\ Written'
    BY <2>1 DEF IInv, Bounded, InBounds, Written, Wholly
  <2>4. Ordered'
    BY <2>1 DEF IInv, Ordered, Growing, Ahead, Behind
  <2>5. Untorn'
    BY <2>1 DEF IInv, Untorn, Synced, Followed
  <2> QED  BY <2>2, <2>3, <2>4, <2>5 DEF IInv
<1> QED
  BY <1>1, <1>2, <1>3, <1>4, <1>5, <1>6, <1>7, <1>8, <1>9, <1>10, <1>11, <1>12, <1>13 DEF Next

\* So it holds of every reachable state.
THEOREM Inductive == Spec => []IInv
BY Initial, Steps, PTL DEF Spec

\* The state has its shape.
LEMMA ShapeFromInv == IInv => TypeOK
<1> SUFFICES ASSUME IInv PROVE TypeOK
  OBVIOUS
<1>1. \A i \in DOMAIN file : file[i].ev \in Event /\ file[i].half \in {1, 2}
  BY SeqsAreNumbers DEF IInv, Halves
<1>2. \A p \in Procs : Elements(events[p]) \cup Elements(writes[p]) \subseteq Event
  BY SeqsAreNumbers DEF IInv, Elements
<1>3. \A p \in Procs : half[p] # 0 => writes[p] # <<>>
  BY DEF IInv, Roles, OwnQueue
<1> QED  BY <1>1, <1>2, <1>3 DEF IInv, Types, TypeOK

\* A takeover writes when the lead is dead, and what a writer knows is what is in the file.
LEMMA OneWriterFromInv == IInv => OneWriter
<1> SUFFICES ASSUME IInv PROVE OneWriter
  OBVIOUS
<1>1. \A t \in Takers : at[t] \in {"viewed", "open"} => at[Lead] = "dead"
  BY DEF IInv, Roles
<1>2. ASSUME ~together, NEW p \in Procs, at[p] = "open", NEW e \in Elements(events[p])
      PROVE  e.seq < nextSeq[p]
  <2>1. PICK k \in DOMAIN events[p] : e = events[p][k]
    BY <1>2 DEF Elements
  <2>2. PICK i \in DOMAIN file : Whole(file, i) /\ file[i].ev = e
    BY <1>2, <2>1 DEF IInv, Ordered, Ahead, Behind
  <2> QED  BY <1>2, <2>2 DEF IInv, Ordered, Ahead
<1>3. ASSUME ~together, tears = 0, NEW p \in Procs, at[p] = "open"
      PROVE  Lines(file) = events[p] \o OnItsWay(p)
  <2>1. Synced(p) /\ OwnQueue(p) /\ events[p] \in Seq(Event) /\ writes[p] \in Seq(Event)
    BY <1>3 DEF IInv, Untorn, Roles, Types
  <2>2. CASE half[p] = 2
    <3>1. Head(writes[p]) \in Event
      BY <2>1, <2>2, Queue DEF OwnQueue
    <3>2. Append(events[p], Head(writes[p])) = events[p] \o <<Head(writes[p])>>
      BY <2>1, <3>1, AppendIsConcat
    <3> QED  BY <2>1, <2>2, <3>2 DEF Synced, OnItsWay
  <2>3. CASE half[p] # 2
    BY <2>1, <2>3, ConcatEmptySeq DEF Synced, OnItsWay
  <2> QED  BY <2>2, <2>3
<1> QED  BY <1>1, <1>2, <1>3 DEF OneWriter

\* The file can be read and opened again, in the order of its seqs.
LEMMA ReadsFromInv == IInv => JournalReads
<1> SUFFICES ASSUME IInv, tears = 0, ~together
             PROVE  /\ Parses(file)
                    /\ \A i, j \in DOMAIN Lines(file) : i < j =>
                         Lines(file)[i].seq < Lines(file)[j].seq
  BY DEF JournalReads
<1>1. Parses(file)
  BY ShapedParses DEF IInv, Types, Untorn
<1> QED  BY <1>1, LinesGrow

\* No takeover writes the journal while the lead lives, and the end of an append that
\* resolved is never cut off, however many processes take the run over and however many
\* appends fail.  While they take it over one after the other (nothing in attachRun keeps them
\* from doing so at once), a writer's seqs are new; and if moreover no append is torn, its
\* state is what the file says, and the file can be read whatever a crash left of a line.
THEOREM JournalIsSafe == Spec => []JournalSafe
<1>1. IInv => JournalSafe
  BY ShapeFromInv, OneWriterFromInv, ReadsFromInv DEF JournalSafe, IInv
<1> QED  BY <1>1, Inductive, PTL

\* A follower that polls by its cursor is given what the file begins with, each event once and
\* in its order, whether it asks the writer or reads the file, and across the crashes that cut
\* a line off and give its seq to another event: while no append is torn, and one process at
\* a time takes the run over.
THEOREM FollowersSeeTheFile == Spec => []GivenIsTheFile
<1>1. IInv => GivenIsTheFile
  BY DEF IInv, Untorn, Followed, GivenIsTheFile
<1> QED  BY <1>1, Inductive, PTL
=============================================================================
