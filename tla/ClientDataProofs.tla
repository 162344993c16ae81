--------------------------- MODULE ClientDataProofs ---------------------------
(***************************************************************************)
(* Theorems about ClientData, for any number of clients and graphs, any    *)
(* driver, any time window and any bounds.                                 *)
(***************************************************************************)
EXTENDS ClientData, FiniteSetTheorems, LeastNumber

-----------------------------------------------------------------------------
(* Merging files one after the other. *)

\* f lists the data after each of the first n names in the order.
IsMerging(f, mine, names, order, n) ==
  f = [i \in 0..n |->
         IF i = 0 THEN mine
         ELSE IF order[i] \in names /\ store[order[i]].ok
              THEN merge_data(f[i - 1], store[order[i]].data)
              ELSE f[i - 1]]

\* The recursion of process_files has a solution.
LEMMA MergingExists ==
  ASSUME NEW mine, NEW names, NEW order
  PROVE  \A n \in Nat : \E f : IsMerging(f, mine, names, order, n)
<1> DEFINE bad == {n \in Nat : ~ \E f : IsMerging(f, mine, names, order, n)}
<1> SUFFICES ASSUME bad # {} PROVE FALSE
  OBVIOUS
<1>1. PICK n \in bad : \A m \in bad : n <= m
  BY LeastNumber
<1>2. CASE n = 0
  <2> DEFINE h == [i \in 0..0 |-> mine]
  <2> IsMerging(h, mine, names, order, 0)
    BY DEF IsMerging
  <2> QED BY <1>2
<1>3. CASE n # 0
  <2>1. n \in Nat /\ n - 1 \in Nat /\ ~(n <= n - 1)
    BY <1>3
  <2>2. PICK f : IsMerging(f, mine, names, order, n - 1)
    BY <1>1, <2>1
  <2> DEFINE next(d, i) == IF order[i] \in names /\ store[order[i]].ok
                           THEN merge_data(d, store[order[i]].data) ELSE d
             h == [i \in 0..n |-> IF i = n THEN next(f[n - 1], n) ELSE f[i]]
  <2>3. ASSUME NEW i \in 0..n
        PROVE  h[i] = IF i = 0 THEN mine ELSE next(h[i - 1], i)
    BY <2>1, <2>2, <1>3 DEF IsMerging
  <2>4. h = [i \in 0..n |-> IF i = 0 THEN mine ELSE next(h[i - 1], i)]
    BY <2>3
  <2>5. IsMerging(h, mine, names, order, n)
    BY <2>4, Zenon DEF IsMerging
  <2> QED BY <2>5
<1> QED BY <1>2, <1>3

\* process_files returns what is there after the last name.
LEMMA ProcessFilesIs ==
  ASSUME NEW mine, NEW names, NEW order
  PROVE  \E f : /\ IsMerging(f, mine, names, order, MaxClock)
                /\ process_files(mine, names, order) = f[MaxClock]
<1> DEFINE f == CHOOSE f : IsMerging(f, mine, names, order, MaxClock)
<1>1. IsMerging(f, mine, names, order, MaxClock)
  <2> MaxClock \in Nat BY ClientDataAssumption
  <2> \E g : IsMerging(g, mine, names, order, MaxClock) BY MergingExists
  <2> QED OBVIOUS
<1>2. process_files(mine, names, order) = f[MaxClock]
  BY DEF process_files, IsMerging
<1> QED BY <1>1, <1>2

Data == [Graphs -> Copy]

\* No copy is a copy like others, from no secrets and with no signatures.
LEMMA NoCopyType ==
  /\ NoCopy \in Copy /\ NoCopy.key = 0 /\ NoCopy.sigs = {} /\ NoCopy.tx = FALSE
  /\ NoData \in Data /\ WellFormed(NoData) /\ \A g \in Graphs : NoData[g] = NoCopy
<1>1. NoCopy \in Copy /\ NoCopy.key = 0 /\ NoCopy.sigs = {} /\ NoCopy.tx = FALSE
  BY ClientDataAssumption DEF NoCopy, Copy
<1> QED BY <1>1 DEF NoData, WellFormed, Data

\* What b keeps of a: the graphs, what they are made from, whether they are
\* paid, and the signatures.
Keeps(b, a) ==
  \A g \in Graphs : a[g] # NoCopy =>
    b[g].key = a[g].key /\ b[g].tx = a[g].tx /\ a[g].sigs \subseteq b[g].sigs

\* A merge keeps the client's data, and takes over the graphs and signatures
\* of the file.
LEMMA MergeData ==
  ASSUME NEW a \in Data, NEW b \in Data, WellFormed(a), WellFormed(b)
  PROVE  LET r == merge_data(a, b) IN
         /\ r \in Data /\ WellFormed(r) /\ Keeps(r, a)
         /\ \A g \in Graphs : /\ r[g].key \in {a[g].key, b[g].key}
                              /\ b[g] # NoCopy => r[g] # NoCopy
                              /\ b[g].sigs \subseteq r[g].sigs
<1> DEFINE r == merge_data(a, b)
<1>1. ASSUME NEW g \in Graphs
      PROVE  /\ r[g] \in Copy /\ r[g].key \in {a[g].key, b[g].key}
             /\ r[g].key = 0 => r[g] = NoCopy
             /\ a[g] # NoCopy => /\ r[g].key = a[g].key /\ r[g].tx = a[g].tx
                                 /\ a[g].sigs \subseteq r[g].sigs
             /\ b[g] # NoCopy => r[g] # NoCopy
             /\ b[g].sigs \subseteq r[g].sigs
  <2>1. r[g] = MergeGraph(a[g], b[g])
    BY DEF merge_data
  <2>2. a[g] \in Copy /\ b[g] \in Copy
    BY DEF Data
  <2>3. CASE a[g] = NoCopy
    BY <2>1, <2>2, <2>3, NoCopyType DEF MergeGraph, WellFormed
  <2>4. CASE a[g] # NoCopy
    <3>1. r[g] = [a[g] EXCEPT !.sigs = @ \cup b[g].sigs]
      BY <2>1, <2>4 DEF MergeGraph
    <3>2. /\ r[g] \in Copy /\ r[g].key = a[g].key /\ r[g].tx = a[g].tx
          /\ r[g].sigs = a[g].sigs \cup b[g].sigs
      BY <2>2, <3>1 DEF Copy
    <3>3. a[g].key # 0
      BY <2>4 DEF WellFormed
    <3> QED BY <2>4, <3>2, <3>3, NoCopyType
  <2> QED BY <2>3, <2>4
<1>2. r \in Data
  <2> r = [g \in Graphs |-> r[g]] BY DEF merge_data
  <2> QED BY <1>1 DEF Data
<1> HIDE DEF r
<1> QED BY <1>1, <1>2 DEF WellFormed, Keeps, r

\* An order goes through all the names there can be.
IsOrder(order) ==
  \A n \in 1..MaxClock : \E i \in 1..MaxClock : order[i] = n

\* Both orders do.
LEMMA OrdersComplete == IsOrder(OldestFirst) /\ IsOrder(NewestFirst)
<1> MaxClock \in Nat BY ClientDataAssumption
<1>1. IsOrder(OldestFirst)
  BY DEF IsOrder, OldestFirst
<1>2. ASSUME NEW n \in 1..MaxClock
      PROVE  \E i \in 1..MaxClock : NewestFirst[i] = n
  <2> MaxClock + 1 - n \in 1..MaxClock OBVIOUS
  <2> NewestFirst[MaxClock + 1 - n] = n BY DEF NewestFirst
  <2> QED OBVIOUS
<1> QED BY <1>1, <1>2 DEF IsOrder

\* What the client has after process_files: it keeps its data, and takes over
\* the graphs and signatures of every named file that is whole.
LEMMA ProcessFiles ==
  ASSUME ClientInv, NEW mine \in Data, WellFormed(mine),
         NEW names \in SUBSET DOMAIN store, NEW order, IsOrder(order)
  PROVE  LET r == process_files(mine, names, order) IN
         /\ r \in Data /\ WellFormed(r) /\ Keeps(r, mine)
         /\ \A g \in Graphs :
              /\ r[g].key \in {mine[g].key} \cup {store[n].data[g].key : n \in Valid(names)}
              /\ \A n \in Valid(names) :
                   /\ store[n].data[g] # NoCopy => r[g] # NoCopy
                   /\ store[n].data[g].sigs \subseteq r[g].sigs
<1> DEFINE r == process_files(mine, names, order)
           V == Valid(names)
           From(g) == {mine[g].key} \cup {store[n].data[g].key : n \in V}
<1>1. PICK f : IsMerging(f, mine, names, order, MaxClock) /\ r = f[MaxClock]
  BY ProcessFilesIs
<1>2. MaxClock \in Nat
  BY ClientDataAssumption
<1>3. f[0] = mine
  BY <1>1, <1>2 DEF IsMerging
<1>4. \A i \in 1..MaxClock :
        f[i] = IF order[i] \in V THEN merge_data(f[i - 1], store[order[i]].data)
                                 ELSE f[i - 1]
  BY <1>1, <1>2 DEF IsMerging, Valid
<1>5. \A n \in V : store[n].data \in Data /\ WellFormed(store[n].data)
  BY DEF ClientInv, ClientTypeOK, Valid, Data
<1> HIDE DEF r, V
<1> DEFINE Taken(i, n) ==
             \A g \in Graphs : /\ store[n].data[g] # NoCopy => f[i][g] # NoCopy
                               /\ store[n].data[g].sigs \subseteq f[i][g].sigs
           Good(i) ==
             /\ f[i] \in Data /\ WellFormed(f[i]) /\ Keeps(f[i], mine)
             /\ \A g \in Graphs : f[i][g].key \in From(g)
             /\ \A j \in 1..i : order[j] \in V => Taken(i, order[j])
           bad == {i \in 0..MaxClock : ~Good(i)}
<1>6. bad = {}
  <2> SUFFICES ASSUME bad # {} PROVE FALSE
    OBVIOUS
  <2>1. PICK i \in bad : \A m \in bad : i <= m
    <3> bad \in SUBSET Nat BY <1>2
    <3> HIDE DEF bad
    <3> QED BY LeastNumber
  <2>2. i # 0
    <3>1. f[0] \in Data /\ WellFormed(f[0]) /\ Keeps(f[0], mine)
      BY <1>3 DEF Keeps
    <3>2. \A g \in Graphs : f[0][g].key \in From(g)
      BY <1>3
    <3>3. \A j \in 1..0 : FALSE
      OBVIOUS
    <3> Good(0)
      BY <3>1, <3>2, <3>3
    <3> QED BY <2>1
  <2>3. i \in 1..MaxClock /\ i - 1 \in 0..MaxClock /\ ~(i <= i - 1)
    BY <1>2, <2>2
  <2>4. Good(i - 1)
    BY <2>1, <2>3
  <2>5. CASE order[i] \notin V
    <3>1. f[i] = f[i - 1]
      BY <1>4, <2>3, <2>5
    <3>2. \A j \in 1..i : order[j] \in V => j \in 1..(i - 1)
      BY <2>3, <2>5
    <3>3. Good(i)
      BY <2>4, <3>1, <3>2
    <3> QED BY <3>3
  <2>6. CASE order[i] \in V
    <3> DEFINE a == f[i - 1]
               b == store[order[i]].data
    <3>1. a \in Data /\ WellFormed(a) /\ b \in Data /\ WellFormed(b)
      BY <1>5, <2>4, <2>6
    <3>2. f[i] = merge_data(a, b)
      BY <1>4, <2>3, <2>6
    <3>3. /\ f[i] \in Data /\ WellFormed(f[i]) /\ Keeps(f[i], a)
          /\ \A g \in Graphs : /\ f[i][g].key \in {a[g].key, b[g].key}
                               /\ b[g] # NoCopy => f[i][g] # NoCopy
                               /\ b[g].sigs \subseteq f[i][g].sigs
      <4> HIDE DEF a, b
      <4> QED BY <3>1, <3>2, MergeData
    <3>4. Keeps(f[i], mine)
      <4>1. ASSUME NEW g \in Graphs, mine[g] # NoCopy PROVE a[g] # NoCopy
        <5>1. mine[g].key # 0 /\ a[g].key = mine[g].key
          BY <2>4, <4>1 DEF WellFormed, Keeps
        <5> QED BY <5>1, NoCopyType
      <4> HIDE DEF a, b
      <4> QED BY <2>4, <3>3, <4>1 DEF Keeps, a
    <3>5. \A g \in Graphs : f[i][g].key \in From(g)
      <4>1. \A g \in Graphs : b[g].key \in From(g) /\ a[g].key \in From(g)
        BY <2>4, <2>6
      <4> HIDE DEF a, b, From
      <4> QED BY <3>3, <4>1
    <3>6. ASSUME NEW j \in 1..i, order[j] \in V, NEW g \in Graphs
          PROVE  /\ store[order[j]].data[g] # NoCopy => f[i][g] # NoCopy
                 /\ store[order[j]].data[g].sigs \subseteq f[i][g].sigs
      <4>1. CASE j = i
        BY <3>3, <4>1
      <4>2. CASE j # i
        <5>1. j \in 1..(i - 1)
          BY <2>3, <4>2
        <5>2. /\ store[order[j]].data[g] # NoCopy => a[g] # NoCopy
              /\ store[order[j]].data[g].sigs \subseteq a[g].sigs
          BY <2>4, <3>6, <5>1
        <5>3. a[g] # NoCopy => f[i][g] # NoCopy /\ a[g].sigs \subseteq f[i][g].sigs
          <6> SUFFICES ASSUME a[g] # NoCopy
                       PROVE  f[i][g] # NoCopy /\ a[g].sigs \subseteq f[i][g].sigs
            OBVIOUS
          <6>1. a[g].key # 0 /\ f[i][g].key = a[g].key /\ a[g].sigs \subseteq f[i][g].sigs
            <7> HIDE DEF a
            <7> QED BY <3>1, <3>3 DEF WellFormed, Keeps
          <6> QED BY <6>1, NoCopyType
        <5>4. a[g] = NoCopy => store[order[j]].data[g].sigs = {}
          BY <5>2, NoCopyType
        <5> QED BY <5>2, <5>3, <5>4
      <4> QED BY <4>1, <4>2
    <3>7. Good(i)
      BY <3>3, <3>4, <3>5, <3>6
    <3> QED BY <3>7
  <2> QED BY <2>5, <2>6
<1>7. Good(MaxClock)
  BY <1>2, <1>6
<1>8. \A n \in V : \E j \in 1..MaxClock : order[j] = n
  BY DEF V, Valid, IsOrder, ClientInv, ClientTypeOK
<1>9. \A n \in V : Taken(MaxClock, n)
  BY <1>7, <1>8
<1> QED BY <1>1, <1>7, <1>9 DEF r, V

-----------------------------------------------------------------------------
(* Events taken out of the list. *)

\* The events of h are as many in t as in s.
SameEvents(t, s, h) == Cardinality(EventsOf(t, h)) = Cardinality(EventsOf(s, h))

\* The events of a graph in a list are finitely many.
LEMMA EventsFinite ==
  ASSUME NEW s \in Seq(Graphs), NEW h
  PROVE  /\ EventsOf(s, h) \subseteq 1..Len(s) /\ IsFiniteSet(EventsOf(s, h))
         /\ Cardinality(EventsOf(s, h)) \in Nat
<1>1. EventsOf(s, h) \subseteq 1..Len(s) /\ Len(s) \in Nat
  BY DEF EventsOf
<1>2. IsFiniteSet(1..Len(s))
  BY <1>1, FS_Interval
<1> QED BY <1>1, <1>2, FS_Subset, FS_CardinalityType

\* swap_remove shortens the list by the removed event: the last event takes its
\* place, the others stay where they are and as many as they were.
LEMMA SwapRemove ==
  ASSUME NEW s \in Seq(Graphs), NEW p \in 1..Len(s)
  PROVE  LET t == swap_remove(s, p) IN
         /\ t \in Seq(Graphs) /\ Len(t) = Len(s) - 1
         /\ \A j \in 1..Len(t) : j # p => t[j] = s[j]
         /\ \A h : h # s[p] => SameEvents(t, s, h)
<1> DEFINE t == swap_remove(s, p)
           L == Len(s)
<1>1. L \in Nat /\ L - 1 \in Nat /\ p \in 1..L /\ \A i \in 1..L : s[i] \in Graphs
  OBVIOUS
<1>2. t = [j \in 1..(L - 1) |-> IF j = p THEN s[L] ELSE s[j]]
  BY DEF swap_remove
<1>3. \A j \in 1..(L - 1) : (IF j = p THEN s[L] ELSE s[j]) \in Graphs
  BY <1>1
<1>4. t \in Seq(Graphs) /\ Len(t) = L - 1 /\ DOMAIN t = 1..(L - 1)
  <2> HIDE DEF t, L
  <2> QED BY <1>1, <1>2, <1>3
<1>5. \A j \in 1..(L - 1) : j # p => t[j] = s[j]
  BY <1>2
<1>6. ASSUME NEW h, h # s[p] PROVE SameEvents(t, s, h)
  <2> DEFINE E == EventsOf(s, h)
             D == EventsOf(t, h)
  <2>1. E = {i \in 1..L : s[i] = h} /\ D = {i \in 1..(L - 1) : t[i] = h} /\ p \notin E
    BY <1>4, <1>6 DEF EventsOf
  <2>2. IsFiniteSet(E) /\ Cardinality(E) \in Nat
    BY EventsFinite
  <2> HIDE DEF E, D, t, L
  <2>3. CASE L \notin E
    <3> D = E
      <4>1. ASSUME NEW i \in E PROVE i \in D
        <5> i \in 1..(L - 1) /\ i # p BY <1>1, <2>1, <2>3
        <5> QED BY <1>5, <2>1
      <4>2. ASSUME NEW i \in D PROVE i \in E
        <5>1. i # p
          <6> SUFFICES ASSUME i = p PROVE FALSE OBVIOUS
          <6> s[L] = h /\ L \in 1..L BY <1>1, <1>2, <2>1
          <6> QED BY <2>1, <2>3
        <5> QED BY <1>1, <1>5, <2>1, <5>1
      <4> QED BY <4>1, <4>2
    <3> QED BY DEF SameEvents, E, D
  <2>4. CASE L \in E
    <3>1. p \in 1..(L - 1) /\ s[L] = h
      BY <1>1, <2>1, <2>4
    <3>2. D = (E \ {L}) \cup {p}
      <4>1. ASSUME NEW i \in E \ {L} PROVE i \in D
        <5> i \in 1..(L - 1) /\ i # p BY <1>1, <2>1
        <5> QED BY <1>5, <2>1
      <4>2. p \in D
        BY <1>2, <2>1, <3>1
      <4>3. ASSUME NEW i \in D, i # p PROVE i \in E \ {L}
        BY <1>1, <1>5, <2>1, <4>3
      <4> QED BY <4>1, <4>2, <4>3
    <3>3. IsFiniteSet(E \ {L}) /\ Cardinality(E \ {L}) = Cardinality(E) - 1
      BY <2>2, <2>4, FS_RemoveElement
    <3>4. p \notin E \ {L}
      BY <2>1
    <3>5. Cardinality(D) = Cardinality(E \ {L}) + 1
      BY <3>2, <3>3, <3>4, FS_AddElement
    <3>6. Cardinality(D) = Cardinality(E)
      BY <2>2, <3>3, <3>5
    <3> QED BY <3>6 DEF SameEvents, E, D
  <2> QED BY <2>3, <2>4
<1> QED BY <1>4, <1>5, <1>6

\* What is left of d after index i of s.
Removed(d, s, g, i) ==
  IF s[i] # g \/ d.panics THEN d
  ELSE IF i > Len(d.events)
  THEN [d EXCEPT !.panics = TRUE]
  ELSE [d EXCEPT !.events = swap_remove(@, i)]

\* f lists what is left after each of the first n indices of s.
IsRemoving(f, s, g, n) ==
  f = [i \in 0..n |-> IF i = 0 THEN [events |-> s, panics |-> FALSE]
                      ELSE Removed(f[i - 1], s, g, i)]

\* The recursion of remove_matches has a solution.
LEMMA RemovingExists ==
  ASSUME NEW s, NEW g
  PROVE  \A n \in Nat : \E f : IsRemoving(f, s, g, n)
<1> DEFINE bad == {n \in Nat : ~ \E f : IsRemoving(f, s, g, n)}
           start == [events |-> s, panics |-> FALSE]
<1> SUFFICES ASSUME bad # {} PROVE FALSE
  OBVIOUS
<1>1. PICK n \in bad : \A m \in bad : n <= m
  BY LeastNumber
<1>2. CASE n = 0
  <2> DEFINE h == [i \in 0..0 |-> start]
  <2> HIDE DEF start
  <2> h = [i \in 0..0 |-> IF i = 0 THEN start ELSE Removed(h[i - 1], s, g, i)]
    OBVIOUS
  <2> HIDE DEF h
  <2> IsRemoving(h, s, g, 0)
    BY Zenon DEF IsRemoving, start
  <2> QED BY <1>2
<1>3. CASE n # 0
  <2>1. n \in Nat /\ n - 1 \in Nat /\ ~(n <= n - 1)
    BY <1>3
  <2>2. PICK f : IsRemoving(f, s, g, n - 1)
    BY <1>1, <2>1
  <2>3. f = [i \in 0..(n - 1) |-> IF i = 0 THEN start
                                  ELSE Removed(f[i - 1], s, g, i)]
    BY <2>2, Zenon DEF IsRemoving
  <2> DEFINE h == [i \in 0..n |-> IF i = n THEN Removed(f[n - 1], s, g, n) ELSE f[i]]
  <2> HIDE DEF start
  <2>4. ASSUME NEW i \in 0..n
        PROVE  h[i] = IF i = 0 THEN start ELSE Removed(h[i - 1], s, g, i)
    BY <2>1, <2>3, <1>3
  <2>5. h = [i \in 0..n |-> IF i = 0 THEN start ELSE Removed(h[i - 1], s, g, i)]
    BY <2>4
  <2> HIDE DEF h
  <2>6. IsRemoving(h, s, g, n)
    BY <2>5, Zenon DEF IsRemoving, start
  <2> QED BY <2>6
<1> QED BY <1>2, <1>3

\* Unless an index is out of range, the other graphs keep their events; it never
\* is for the only event of a graph.
LEMMA RemoveMatches ==
  ASSUME NEW s \in Seq(Graphs), NEW g
  PROVE  LET r == remove_matches(s, g) IN
         /\ r.events \in Seq(Graphs) /\ r.panics \in BOOLEAN
         /\ ~r.panics => \A h : h # g => SameEvents(r.events, s, h)
         /\ r.panics => Cardinality(EventsOf(s, g)) > 1
<1> DEFINE L == Len(s)
           f == CHOOSE f : IsRemoving(f, s, g, L)
<1>0. L \in Nat
  OBVIOUS
<1>1. IsRemoving(f, s, g, L)
  <2> \E e : IsRemoving(e, s, g, L) BY <1>0, RemovingExists
  <2> QED OBVIOUS
<1>2. remove_matches(s, g) = f[L]
  BY DEF remove_matches, IsRemoving, Removed
<1> HIDE DEF f, L
<1>3. /\ f[0] = [events |-> s, panics |-> FALSE]
      /\ \A i \in 1..L : f[i] = Removed(f[i - 1], s, g, i)
  <2> DEFINE start == [events |-> s, panics |-> FALSE]
  <2>1. f = [i \in 0..L |-> IF i = 0 THEN start ELSE Removed(f[i - 1], s, g, i)]
    BY <1>1, Zenon DEF IsRemoving
  <2> HIDE DEF start
  <2>2. f[0] = start /\ \A i \in 1..L : f[i] = Removed(f[i - 1], s, g, i)
    BY <1>0, <2>1
  <2> QED BY <2>2 DEF start
<1> DEFINE Before(i) == {j \in 1..i : s[j] = g}
           Good(i) ==
             /\ f[i] = [events |-> f[i].events, panics |-> f[i].panics]
             /\ f[i].events \in Seq(Graphs) /\ f[i].panics \in BOOLEAN
             /\ \A h : h # g => SameEvents(f[i].events, s, h)
             /\ \A j \in (i + 1)..Len(f[i].events) : j <= L /\ f[i].events[j] = s[j]
             /\ Before(i) = {} => f[i].events = s /\ ~f[i].panics
             /\ f[i].panics => \E j, k \in Before(i) : j # k
           bad == {i \in 0..L : ~Good(i)}
<1>4. bad = {}
  <2> SUFFICES ASSUME bad # {} PROVE FALSE
    OBVIOUS
  <2>1. PICK i \in bad : \A m \in bad : i <= m
    <3> bad \in SUBSET Nat BY <1>0
    <3> HIDE DEF bad
    <3> QED BY LeastNumber
  <2>2. i # 0
    <3>1. f[0].events = s /\ f[0].panics = FALSE
      BY <1>3
    <3>2. Good(0)
      BY <1>3, <3>1 DEF SameEvents, L
    <3> QED BY <2>1, <3>2
  <2>3. i \in 1..L /\ i - 1 \in 0..L /\ ~(i <= i - 1) /\ i \in Nat
    BY <1>0, <2>2
  <2>4. Good(i - 1)
    BY <2>1, <2>3
  <2> DEFINE a == f[i - 1]
             e == f[i - 1].events
  <2>5. Before(i) = Before(i - 1) \cup (IF s[i] = g THEN {i} ELSE {})
    BY <2>3
  <2>6. e \in Seq(Graphs) /\ Len(e) \in Nat
    BY <2>4
  <2>7. CASE s[i] # g \/ a.panics
    <3>1. f[i] = a
      BY <1>3, <2>3, <2>7 DEF Removed
    <3>2. \A j \in (i + 1)..Len(e) : j \in ((i - 1) + 1)..Len(e)
      BY <2>3, <2>6
    <3>3. Before(i) = {} => Before(i - 1) = {}
      BY <2>5
    <3>4. Good(i)
      BY <2>4, <2>5, <3>1, <3>2, <3>3
    <3> QED BY <3>4
  <2>8. CASE s[i] = g /\ ~a.panics /\ i > Len(e)
    <3>1. f[i] = [a EXCEPT !.panics = TRUE]
      BY <1>3, <2>3, <2>8 DEF Removed
    <3>2. f[i] = [events |-> e, panics |-> TRUE]
      BY <2>4, <3>1
    <3>3. Before(i - 1) # {}
      BY <2>3, <2>4, <2>8 DEF L
    <3>4. \E j, k \in Before(i) : j # k
      <4> PICK j \in Before(i - 1) : TRUE BY <3>3
      <4> j # i /\ j \in Before(i) /\ i \in Before(i) BY <2>3, <2>5, <2>8
      <4> QED OBVIOUS
    <3>5. \A j \in (i + 1)..Len(e) : j \in ((i - 1) + 1)..Len(e)
      BY <2>3, <2>6
    <3>6. Good(i)
      BY <2>4, <3>2, <3>4, <3>5
    <3> QED BY <3>6
  <2>9. CASE s[i] = g /\ ~a.panics /\ i <= Len(e)
    <3> DEFINE t == swap_remove(e, i)
    <3>1. f[i] = [a EXCEPT !.events = t]
      <4>1. f[i] = Removed(a, s, g, i) /\ ~(i > Len(a.events))
        BY <1>3, <2>3, <2>6, <2>9
      <4> QED BY <2>9, <4>1, Zenon DEF Removed
    <3>2. f[i] = [events |-> t, panics |-> FALSE]
      BY <2>4, <2>9, <3>1
    <3>3. i \in 1..Len(e) /\ i \in ((i - 1) + 1)..Len(e)
      BY <2>3, <2>6, <2>9
    <3>4. e[i] = g
      BY <2>4, <2>9, <3>3
    <3>5. /\ t \in Seq(Graphs) /\ Len(t) = Len(e) - 1
          /\ \A j \in 1..Len(t) : j # i => t[j] = e[j]
          /\ \A h : h # g => SameEvents(t, e, h)
      <4> HIDE DEF e
      <4> QED BY <2>6, <3>3, <3>4, SwapRemove
    <3> HIDE DEF t
    <3>6. \A j \in (i + 1)..Len(t) :
            j \in ((i - 1) + 1)..Len(e) /\ j # i /\ j \in 1..Len(t)
      BY <2>3, <2>6, <3>5
    <3>7. \A j \in (i + 1)..Len(t) : j <= L /\ t[j] = s[j]
      BY <2>4, <3>5, <3>6
    <3>8. \A h : h # g => SameEvents(t, s, h)
      BY <2>4, <3>5 DEF SameEvents
    <3>9. i \in Before(i)
      BY <2>5, <2>9
    <3>10. Good(i)
      BY <3>2, <3>5, <3>7, <3>8, <3>9
    <3> QED BY <3>10
  <2> QED BY <2>3, <2>6, <2>7, <2>8, <2>9
<1>5. Good(L)
  <2> L \in 0..L BY <1>0
  <2> QED BY <1>4, Zenon
<1>6. ASSUME f[L].panics PROVE Cardinality(EventsOf(s, g)) > 1
  <2>1. PICK j, k \in EventsOf(s, g) : j # k
    BY <1>5, <1>6 DEF EventsOf, L
  <2>2. IsFiniteSet(EventsOf(s, g)) /\ Cardinality(EventsOf(s, g)) \in Nat
    BY EventsFinite
  <2>3. Cardinality(EventsOf(s, g)) # 1
    BY <2>1, <2>2, FS_Singleton
  <2>4. Cardinality(EventsOf(s, g)) # 0
    BY <2>1, <2>2, FS_EmptySet
  <2> QED BY <2>2, <2>3, <2>4
<1> QED BY <1>2, <1>5, <1>6

\* What is there after the graph g has had its turn.
Taken(acc, waiting, g) ==
  IF acc.panics \/ g \notin waiting THEN acc ELSE match_event(acc, g)

\* f lists what is there after each of the first n graphs.
IsTaking(f, waiting, events, order, n) ==
  f = [i \in 0..n |->
        IF i = 0 THEN [events |-> events, panics |-> FALSE, matched |-> {}]
        ELSE Taken(f[i - 1], waiting, order[i])]

\* The recursion of read_from_l2 has a solution.
LEMMA TakingExists ==
  ASSUME NEW waiting, NEW events, NEW order
  PROVE  \A n \in Nat : \E f : IsTaking(f, waiting, events, order, n)
<1> DEFINE bad == {n \in Nat : ~ \E f : IsTaking(f, waiting, events, order, n)}
           start == [events |-> events, panics |-> FALSE, matched |-> {}]
<1> SUFFICES ASSUME bad # {} PROVE FALSE
  OBVIOUS
<1>1. PICK n \in bad : \A m \in bad : n <= m
  BY LeastNumber
<1>2. CASE n = 0
  <2> DEFINE h == [i \in 0..0 |-> start]
  <2> HIDE DEF start
  <2> h = [i \in 0..0 |-> IF i = 0 THEN start ELSE Taken(h[i - 1], waiting, order[i])]
    OBVIOUS
  <2> HIDE DEF h
  <2> IsTaking(h, waiting, events, order, 0)
    BY Zenon DEF IsTaking, start
  <2> QED BY <1>2
<1>3. CASE n # 0
  <2>1. n \in Nat /\ n - 1 \in Nat /\ ~(n <= n - 1)
    BY <1>3
  <2>2. PICK f : IsTaking(f, waiting, events, order, n - 1)
    BY <1>1, <2>1
  <2>3. f = [i \in 0..(n - 1) |-> IF i = 0 THEN start
                                  ELSE Taken(f[i - 1], waiting, order[i])]
    BY <2>2, Zenon DEF IsTaking
  <2> DEFINE h == [i \in 0..n |-> IF i = n THEN Taken(f[n - 1], waiting, order[n])
                                           ELSE f[i]]
  <2> HIDE DEF start
  <2>4. ASSUME NEW i \in 0..n
        PROVE  h[i] = IF i = 0 THEN start ELSE Taken(h[i - 1], waiting, order[i])
    BY <2>1, <2>3, <1>3
  <2>5. h = [i \in 0..n |-> IF i = 0 THEN start ELSE Taken(h[i - 1], waiting, order[i])]
    BY <2>4
  <2> HIDE DEF h
  <2>6. IsTaking(h, waiting, events, order, n)
    BY <2>5, Zenon DEF IsTaking, start
  <2> QED BY <2>6
<1> QED BY <1>2, <1>3

\* An order names each graph once.
LEMMA OrderNamesOnce ==
  ASSUME NEW order \in Orders
  PROVE  /\ Len(order) = Cardinality(Graphs) /\ Cardinality(Graphs) \in Nat
         /\ \A g \in Graphs : \E i \in 1..Len(order) : order[i] = g
         /\ \A i \in 1..Len(order) : order[i] \in Graphs
         /\ \A i, j \in 1..Len(order) : order[i] = order[j] => i = j
<1> DEFINE N == Cardinality(Graphs)
           S == 1..N
<1>1. N \in Nat /\ order \in [S -> Graphs] /\ Range(order) = Graphs
  BY ClientDataAssumption, FS_CardinalityType DEF Orders
<1>2. Len(order) = N
  BY <1>1
<1>3. IsFiniteSet(S) /\ Cardinality(S) = N
  BY <1>1, FS_Interval
<1>4. \A g \in Graphs : \E i \in S : order[i] = g
  BY <1>1 DEF Range
<1>5. order \in Surjection(S, Graphs)
  BY <1>1, <1>4 DEF Surjection
<1> HIDE DEF S, N
<1>6. order \in Injection(S, Graphs)
  BY <1>3, <1>5, FS_SurjSameCardinalityImpliesInj DEF N
<1> QED BY <1>1, <1>2, <1>4, <1>6 DEF Injection, IsInjective, S, N

\* A graph that takes its event leaves the others theirs.
LEMMA MatchEvent ==
  ASSUME NEW acc, NEW g, acc.events \in Seq(Graphs)
  PROVE  LET r == match_event(acc, g) IN
         /\ r.events \in Seq(Graphs) /\ r.panics \in BOOLEAN
         /\ ~r.panics => \A h : h # g => SameEvents(r.events, acc.events, h)
         /\ r.panics => Cardinality(EventsOf(acc.events, g)) > 1
         /\ r.matched = IF Cardinality(EventsOf(acc.events, g)) = 1
                        THEN acc.matched \cup {g} ELSE acc.matched
<1> DEFINE rest == remove_matches(acc.events, g)
           new == IF Cardinality(EventsOf(acc.events, g)) = 1
                  THEN acc.matched \cup {g} ELSE acc.matched
<1>1. /\ rest.events \in Seq(Graphs) /\ rest.panics \in BOOLEAN
      /\ ~rest.panics => \A h : h # g => SameEvents(rest.events, acc.events, h)
      /\ rest.panics => Cardinality(EventsOf(acc.events, g)) > 1
  BY RemoveMatches
<1>2. match_event(acc, g) = [events |-> rest.events, panics |-> rest.panics,
                             matched |-> new]
  BY DEF match_event
<1> HIDE DEF rest
<1> QED BY <1>1, <1>2

\* The graphs that take an event are the waiting ones with one event in the list;
\* only a waiting graph with several can make an index go out of range.
LEMMA ReadFromL2 ==
  ASSUME NEW waiting \in SUBSET Graphs, NEW events \in Seq(Graphs), NEW order \in Orders
  PROVE  LET r    == read_from_l2(waiting, events, order)
             N(g) == Cardinality(EventsOf(events, g))
         IN  /\ r.matched \subseteq waiting
             /\ IF r.panics THEN \E g \in waiting : N(g) > 1
                ELSE r.matched = {g \in waiting : N(g) = 1}
<1> DEFINE L == Len(order)
           N(g) == Cardinality(EventsOf(events, g))
           f == CHOOSE f : IsTaking(f, waiting, events, order, L)
<1>0. /\ L \in Nat
      /\ \A g \in Graphs : \E i \in 1..L : order[i] = g
      /\ \A i \in 1..L : order[i] \in Graphs
      /\ \A i, j \in 1..L : order[i] = order[j] => i = j
  BY OrderNamesOnce
<1>1. IsTaking(f, waiting, events, order, L)
  <2> \E e : IsTaking(e, waiting, events, order, L) BY <1>0, TakingExists
  <2> QED OBVIOUS
<1>2. read_from_l2(waiting, events, order) = f[L]
  BY DEF read_from_l2, IsTaking, Taken
<1> HIDE DEF f, L
<1>3. /\ f[0] = [events |-> events, panics |-> FALSE, matched |-> {}]
      /\ \A i \in 1..L : f[i] = Taken(f[i - 1], waiting, order[i])
  <2> DEFINE start == [events |-> events, panics |-> FALSE, matched |-> {}]
  <2>1. f = [i \in 0..L |-> IF i = 0 THEN start
                            ELSE Taken(f[i - 1], waiting, order[i])]
    BY <1>1, Zenon DEF IsTaking
  <2> HIDE DEF start
  <2>2. f[0] = start /\ \A i \in 1..L : f[i] = Taken(f[i - 1], waiting, order[i])
    BY <1>0, <2>1
  <2> QED BY <2>2 DEF start
<1> HIDE DEF N
<1> DEFINE Seen(i) == {order[j] : j \in 1..i}
           Good(i) ==
             /\ f[i].events \in Seq(Graphs) /\ f[i].panics \in BOOLEAN
             /\ f[i].matched \subseteq waiting
             /\ IF f[i].panics THEN \E g \in waiting : N(g) > 1
                ELSE /\ \A h \in Graphs \ Seen(i) : SameEvents(f[i].events, events, h)
                     /\ f[i].matched = {g \in waiting \cap Seen(i) : N(g) = 1}
           bad == {i \in 0..L : ~Good(i)}
<1>4. bad = {}
  <2> SUFFICES ASSUME bad # {} PROVE FALSE
    OBVIOUS
  <2>1. PICK i \in bad : \A m \in bad : i <= m
    <3> bad \in SUBSET Nat BY <1>0
    <3> HIDE DEF bad
    <3> QED BY LeastNumber
  <2>2. i # 0
    <3>1. f[0].events = events /\ f[0].panics = FALSE /\ f[0].matched = {} /\ Seen(0) = {}
      BY <1>3
    <3>2. Good(0)
      BY <3>1 DEF SameEvents
    <3> QED BY <2>1, <3>2
  <2>3. i \in 1..L /\ i - 1 \in 0..L /\ ~(i <= i - 1) /\ i \in Nat
    BY <1>0, <2>2
  <2>4. Good(i - 1)
    BY <2>1, <2>3
  <2> DEFINE a == f[i - 1]
             g == order[i]
  <2>5. g \in Graphs /\ g \notin Seen(i - 1) /\ Seen(i) = Seen(i - 1) \cup {g}
    <3>1. \A j \in 1..(i - 1) : j \in 1..L /\ j # i
      BY <1>0, <2>3
    <3>2. g \in Graphs /\ g \notin Seen(i - 1)
      BY <1>0, <2>3, <3>1
    <3>3. \A j : j \in 1..i <=> j \in 1..(i - 1) \/ j = i
      BY <2>3
    <3> QED BY <3>2, <3>3
  <2> HIDE DEF Seen
  <2>6. CASE a.panics \/ g \notin waiting
    <3>1. f[i] = a
      BY <1>3, <2>3, <2>6 DEF Taken
    <3>2. Good(i)
      BY <2>4, <2>5, <2>6, <3>1
    <3> QED BY <3>2
  <2>7. CASE ~a.panics /\ g \in waiting
    <3>1. f[i] = match_event(a, g)
      BY <1>3, <2>3, <2>7 DEF Taken
    <3>2. /\ f[i].events \in Seq(Graphs) /\ f[i].panics \in BOOLEAN
          /\ ~f[i].panics => \A h : h # g => SameEvents(f[i].events, a.events, h)
          /\ f[i].panics => Cardinality(EventsOf(a.events, g)) > 1
          /\ f[i].matched = IF Cardinality(EventsOf(a.events, g)) = 1
                            THEN a.matched \cup {g} ELSE a.matched
      <4>1. a.events \in Seq(Graphs)
        BY <2>4
      <4> HIDE DEF a, g
      <4>2. /\ match_event(a, g).events \in Seq(Graphs)
            /\ match_event(a, g).panics \in BOOLEAN
            /\ ~match_event(a, g).panics =>
                 \A h : h # g => SameEvents(match_event(a, g).events, a.events, h)
            /\ match_event(a, g).panics => Cardinality(EventsOf(a.events, g)) > 1
            /\ match_event(a, g).matched = IF Cardinality(EventsOf(a.events, g)) = 1
                                           THEN a.matched \cup {g} ELSE a.matched
        BY <4>1, MatchEvent
      <4> QED BY <3>1, <4>2, Zenon
    <3>3. Cardinality(EventsOf(a.events, g)) = N(g)
      BY <2>4, <2>5, <2>7 DEF SameEvents, N
    <3>4. a.matched = {h \in waiting \cap Seen(i - 1) : N(h) = 1}
      BY <2>4, <2>7
    <3>5. f[i].matched = {h \in waiting \cap Seen(i) : N(h) = 1}
      <4> HIDE DEF a, g
      <4> QED BY <2>5, <2>7, <3>2, <3>3, <3>4
    <3>6. ~f[i].panics =>
            \A h \in Graphs \ Seen(i) : SameEvents(f[i].events, events, h)
      BY <2>4, <2>5, <2>7, <3>2 DEF SameEvents
    <3>7. f[i].panics => \E h \in waiting : N(h) > 1
      BY <2>7, <3>2, <3>3
    <3>8. Good(i)
      BY <3>2, <3>5, <3>6, <3>7
    <3> QED BY <3>8
  <2> QED BY <2>4, <2>6, <2>7
<1>5. Good(L)
  <2> L \in 0..L BY <1>0
  <2> QED BY <1>4, Zenon
<1>6. Graphs \subseteq Seen(L)
  BY <1>0
<1>7. ~f[L].panics => f[L].matched = {g \in waiting : N(g) = 1}
  <2> HIDE DEF Seen
  <2> QED BY <1>5, <1>6
<1> QED BY <1>2, <1>5, <1>7 DEF N

\* The lists of events are sequences.
LEMMA EventListsAre == EventLists \subseteq Seq(Graphs)
<1> SUFFICES ASSUME NEW events \in EventLists PROVE events \in Seq(Graphs)
  OBVIOUS
<1>1. Cardinality(Graphs) \in Nat
  BY ClientDataAssumption, FS_CardinalityType
<1>2. PICK n \in 0..(Cardinality(Graphs) + 1) : events \in [1..n -> Graphs]
  BY DEF EventLists
<1>3. n \in Nat
  BY <1>1
<1> QED BY <1>2, <1>3

-----------------------------------------------------------------------------
(* Inclusion of data, and keys in use. *)

\* Inclusion is transitive.
LEMMA IncludesTrans ==
  ASSUME NEW a, NEW b, NEW d, Includes(a, b), Includes(b, d)
  PROVE  Includes(a, d)
BY DEF Includes

\* Data that keeps a client's data includes what that included.
LEMMA KeepsIncludes ==
  ASSUME NEW a, NEW b, NEW d, WellFormed(a), Keeps(b, a), Includes(a, d)
  PROVE  Includes(b, d)
<1>1. Includes(b, a)
  <2> SUFFICES ASSUME NEW g \in Graphs, a[g] # NoCopy
               PROVE  b[g] # NoCopy /\ a[g].sigs \subseteq b[g].sigs
    BY DEF Includes
  <2>1. a[g].key # 0 /\ b[g].key = a[g].key /\ a[g].sigs \subseteq b[g].sigs
    BY DEF Keeps, WellFormed
  <2> QED BY <2>1, NoCopyType
<1> QED BY <1>1, IncludesTrans

\* No new key comes into use: the keys still agree.
LEMMA KeysStillAgree ==
  ASSUME KeysAgree, UNCHANGED secrets,
         \A g \in Graphs : KeysUsed(g)' \subseteq KeysUsed(g) \cup {0}
  PROVE  KeysAgree'
BY DEF KeysAgree

\* The parts of the invariant that concern one client or one file.
LEMMA InvTypes ==
  ASSUME ClientInv
  PROVE  /\ \A c \in Clients : /\ data[c] \in Data /\ WellFormed(data[c])
                               /\ latest[c] \in Nat /\ upload[c] \in Nat
         /\ \A n \in DOMAIN store : /\ n \in 1..MaxClock
                                    /\ store[n].data \in Data
                                    /\ WellFormed(store[n].data)
         /\ ValidFiles \subseteq DOMAIN store
         /\ Operator \in Clients /\ Verifiers \subseteq Clients
         /\ MaxClock \in Nat /\ MaxKeys \in Nat /\ MaxFaults \in Nat
<1>1. \A n \in DOMAIN store : n \in 1..MaxClock /\ store[n].data \in Data
  BY DEF ClientInv, ClientTypeOK, Data
<1>2. \A c \in Clients : data[c] \in Data /\ latest[c] \in Nat /\ upload[c] \in Nat
  BY ClientDataAssumption DEF ClientInv, ClientTypeOK, Data
<1> QED BY <1>1, <1>2, ClientDataAssumption DEF ClientInv, ValidFiles, Clients

\* Faults are counted up to the bound.
LEMMA FaultType ==
  ASSUME ClientInv, NEW b \in BOOLEAN, Fault(b)
  PROVE  faults' \in 0..MaxFaults /\ (b => faults' # faults)
BY ClientDataAssumption DEF ClientInv, ClientTypeOK, Fault

\* What the operator missed is forgotten when its own command goes on.
LEMMA SightedType ==
  ASSUME ClientInv, NEW c \in Clients, Sighted(c)
  PROVE  blind' \in BOOLEAN /\ (c # Operator => blind' = blind)
<1>1. blind \in BOOLEAN
  BY DEF ClientInv, ClientTypeOK
<1> QED BY <1>1 DEF Sighted

\* The keys in use when the files stay and one client's data changes.
LEMMA KeysOneClient ==
  ASSUME ClientInv, NEW c \in Clients, NEW new,
         data' = [data EXCEPT ![c] = new], UNCHANGED store
  PROVE  \A g \in Graphs : KeysUsed(g)' \subseteq KeysUsed(g) \cup {new[g].key}
<1>1. \A d \in Clients : data'[d] = IF d = c THEN new ELSE data[d]
  BY DEF ClientInv, ClientTypeOK
<1>2. ValidFiles' = ValidFiles
  BY DEF ValidFiles
<1> QED BY <1>1, <1>2 DEF KeysUsed

\* The files of the store that were not overlooked, in the words of FilesInclude.
Kept == ValidFiles \ overlooked

\* What a client must include: the files it has processed or is about to follow.
Follows(c, n) ==
  n <= latest[c] \/ (pc[c] = "pushing" /\ n <= upload[c] /\ n \notin unread[c])

\* FilesInclude in those words.
LEMMA FilesIncludeIs ==
  FilesInclude <=>
    \A n \in Kept :
      /\ \A m \in ValidFiles : n <= m => Includes(store[m].data, store[n].data)
      /\ \A c \in Clients : Follows(c, n) => Includes(data[c], store[n].data)
BY DEF FilesInclude, Kept, Follows

\* The same when the files stay: what the clients follow is all there is to show.
LEMMA FilesStayIncluded ==
  ASSUME ClientInv, UNCHANGED <<store, overlooked>>,
         \A c \in Clients, n \in Kept :
           Follows(c, n)' => Includes(data'[c], store[n].data)
  PROVE  FilesInclude'
<1>1. FilesInclude
  BY DEF ClientInv
<1>2. ValidFiles' = ValidFiles /\ Kept' = Kept
  BY DEF ValidFiles, Kept
<1>3. ASSUME NEW n \in Kept
      PROVE  /\ \A m \in ValidFiles : n <= m => Includes(store'[m].data, store'[n].data)
             /\ \A c \in Clients : Follows(c, n)' => Includes(data'[c], store'[n].data)
  BY <1>1, FilesIncludeIs
<1> QED BY <1>2, <1>3 DEF FilesInclude, Kept, Follows, Includes

\* What is in the store stays when the files do.
LEMMA StoreStays ==
  ASSUME UNCHANGED store
  PROVE  ValidFiles' = ValidFiles /\ \A g \in Graphs : InStore(g)' <=> InStore(g)
BY DEF ValidFiles, InStore

\* A client that changes its own copies, without making one, keeps all.
LEMMA OwnChange ==
  ASSUME ClientInv, NEW c \in Clients, NEW new \in Data,
         pc[c] = "synced", pc' = [pc EXCEPT ![c] = "changed"],
         data' = [data EXCEPT ![c] = new],
         \A g \in Graphs : /\ new[g].key = data[c][g].key
                           /\ data[c][g].sigs \subseteq new[g].sigs
                           /\ new[g] = NoCopy <=> data[c][g] = NoCopy
                           /\ data[c][g].tx => new[g].tx,
         UNCHANGED <<driver, clock, store, latest, upload, secrets, keys, faults,
                     restarted, unread, overlooked, recreated>>,
         Sighted(c),
         payments' \in [Graphs -> Nat], ~restarted => PaymentsKnown'
  PROVE  ClientInv'
<1>1. \A d \in Clients : data'[d] = IF d = c THEN new ELSE data[d]
  BY DEF ClientInv, ClientTypeOK
<1>2. ClientTypeOK'
  <2>1. data' \in [Clients -> [Graphs -> Copy]]
    BY DEF ClientInv, ClientTypeOK, Data
  <2>2. pc' \in [Clients -> {"idle", "synced", "changed", "pushing"}]
    BY DEF ClientInv, ClientTypeOK
  <2> QED BY <2>1, <2>2, SightedType DEF ClientInv, ClientTypeOK
<1>3. pc \in [Clients -> {"idle", "synced", "changed", "pushing"}]
  BY DEF ClientInv, ClientTypeOK
<1>4. NamesSound'
  BY <1>3 DEF ClientInv, NamesSound
<1>5. WellFormed(new)
  <2>1. WellFormed(data[c])
    BY DEF ClientInv
  <2> QED BY <2>1 DEF WellFormed
<1>6. \A d \in Clients : WellFormed(data[d])'
  BY <1>1, <1>5 DEF ClientInv, WellFormed
<1>7. \A n \in DOMAIN store : WellFormed(store[n].data)'
  BY DEF ClientInv, WellFormed
<1>8. FilesInclude'
  <2>1. Includes(new, data[c])
    BY DEF Includes
  <2>2. ASSUME NEW d \in Clients, NEW n \in Kept, Follows(d, n)'
        PROVE  Includes(data'[d], store[n].data)
    <3>1. Follows(d, n)
      BY <1>3, <2>2 DEF Follows
    <3>2. Includes(data[d], store[n].data)
      BY <3>1, FilesIncludeIs DEF ClientInv
    <3>3. CASE d = c
      BY <1>1, <2>1, <3>2, <3>3, IncludesTrans
    <3>4. CASE d # c
      BY <1>1, <3>2, <3>4
    <3> QED BY <3>3, <3>4
  <2> QED BY <2>2, FilesStayIncluded
<1>9. GraphsInStore => GraphsInStore'
  <2>1. \A g \in Graphs, d \in Clients : data'[d][g] = NoCopy <=> data[d][g] = NoCopy
    BY <1>1
  <2>2. pc'[Operator] = "synced" => c # Operator /\ pc[Operator] = "synced"
    BY <1>3, InvTypes
  <2>3. c # Operator => blind' = blind
    BY SightedType
  <2> QED BY <2>1, <2>2, <2>3, InvTypes, StoreStays DEF GraphsInStore
<1>10. KeysAgree => KeysAgree'
  <2>1. \A g \in Graphs : new[g].key \in KeysUsed(g)
    BY DEF KeysUsed
  <2>2. UNCHANGED store /\ UNCHANGED secrets
    OBVIOUS
  <2>3. \A g \in Graphs : KeysUsed(g)' \subseteq KeysUsed(g) \cup {new[g].key}
    BY <2>2, KeysOneClient
  <2>4. \A g \in Graphs : KeysUsed(g)' \subseteq KeysUsed(g) \cup {0}
    BY <2>1, <2>3
  <2> QED BY <2>2, <2>4, KeysStillAgree
<1> QED BY <1>2, <1>4, <1>6, <1>7, <1>8, <1>9, <1>10 DEF ClientInv

-----------------------------------------------------------------------------
(* The invariant, action by action. *)

\* The clients start with nothing.
LEMMA InitInv == Init => ClientInv
<1> SUFFICES ASSUME Init PROVE ClientInv
  OBVIOUS
<1> USE ClientDataAssumption DEF Init
<1>0. DOMAIN store = {} /\ ValidFiles = {}
  BY DEF ValidFiles
<1>1. ClientTypeOK
  <2>1. data \in [Clients -> [Graphs -> Copy]]
    BY NoCopyType DEF Data
  <2>2. clock \in 1..MaxClock /\ keys \in 0..MaxKeys /\ faults \in 0..MaxFaults
    OBVIOUS
  <2>3. latest \in [Clients -> 0..MaxClock] /\ upload \in [Clients -> 0..MaxClock]
        /\ secrets \in [Graphs -> 0..MaxKeys] /\ payments \in [Graphs -> Nat]
    OBVIOUS
  <2>4. pc \in [Clients -> {"idle", "synced", "changed", "pushing"}]
    OBVIOUS
  <2>5. /\ restarted \in BOOLEAN /\ driver \in Configured
        /\ unread \in [Clients -> SUBSET (1..MaxClock)] /\ overlooked \subseteq 1..MaxClock
        /\ blind \in BOOLEAN /\ recreated \in BOOLEAN
    OBVIOUS
  <2> QED BY <1>0, <2>1, <2>2, <2>3, <2>4, <2>5 DEF ClientTypeOK
<1>2. NamesSound
  BY <1>0 DEF NamesSound
<1>3. \A c \in Clients : data[c] = NoData /\ WellFormed(data[c])
  BY NoCopyType
<1>4. PaymentsKnown
  BY DEF PaymentsKnown
<1>5. Operator \in Clients /\ Verifiers \subseteq Clients
  BY DEF Clients
<1>6. FilesInclude
  BY <1>0 DEF FilesInclude
<1>7. GraphsInStore
  BY <1>0, <1>3, <1>5, NoCopyType DEF GraphsInStore, InStore
<1>8. KeysAgree
  <2> \A g \in Graphs : KeysUsed(g) \subseteq {0}
    BY <1>0, <1>3, NoCopyType DEF KeysUsed
  <2> QED BY DEF KeysAgree
<1> QED BY <1>0, <1>1, <1>2, <1>3, <1>4, <1>6, <1>7, <1>8 DEF ClientInv

\* Time passes.
LEMMA TickStep == ASSUME ClientInv, Tick PROVE ClientInv'
<1>1. /\ clock < MaxClock /\ clock' = clock + 1
      /\ UNCHANGED <<driver, store, pc, data, latest, upload, secrets, keys,
                     payments, faults, restarted, unread, overlooked, blind, recreated>>
  BY DEF Tick, watchVars
<1>2. clock \in 1..MaxClock /\ MaxClock \in Nat
  BY ClientDataAssumption DEF ClientInv, ClientTypeOK
<1>3. ClientTypeOK'
  BY <1>1, <1>2 DEF ClientInv, ClientTypeOK
<1>4. NamesSound'
  <2>1. \A n \in DOMAIN store : n <= clock + 1
    BY <1>2, InvTypes DEF ClientInv, NamesSound
  <2>2. ASSUME NEW c \in Clients
        PROVE  /\ latest[c] \in DOMAIN store \cup {0}
               /\ upload[c] <= clock + 1
               /\ upload[c] # 0 <=> pc[c] = "pushing"
    <3>1. upload[c] \in Nat
      BY InvTypes
    <3>2. /\ latest[c] \in DOMAIN store \cup {0}
          /\ upload[c] <= clock
          /\ upload[c] # 0 <=> pc[c] = "pushing"
      <4> NamesSound BY DEF ClientInv
      <4> QED BY DEF NamesSound
    <3> QED BY <1>2, <3>1, <3>2
  <2> QED BY <1>1, <2>1, <2>2 DEF NamesSound
<1>5. PaymentsKnown' <=> PaymentsKnown
  BY <1>1 DEF PaymentsKnown
<1>6. /\ FilesInclude' <=> FilesInclude
      /\ GraphsInStore' <=> GraphsInStore
      /\ KeysAgree' <=> KeysAgree
  <2> \A g \in Graphs : (KeysUsed(g)' = KeysUsed(g)) /\ (InStore(g)' <=> InStore(g))
    BY <1>1 DEF KeysUsed, InStore, ValidFiles
  <2> QED BY <1>1 DEF FilesInclude, GraphsInStore, KeysAgree, ValidFiles, Includes
<1> QED BY <1>1, <1>3, <1>4, <1>5, <1>6 DEF ClientInv, WellFormed

\* Signing, paying and matching events change a client's own copies.
LEMMA SignStep ==
  ASSUME ClientInv, NEW c \in Clients, NEW g \in Graphs, push_verifier_signature(c, g)
  PROVE  ClientInv'
<1> DEFINE copy == [data[c][g] EXCEPT !.sigs = @ \cup {c}]
           new == [data[c] EXCEPT ![g] = copy]
<1>1. data[c] \in Data /\ data[c][g] \in Copy /\ c \in Verifiers
      /\ data[c][g] # NoCopy /\ data[c][g].key # 0
  BY InvTypes DEF Data, push_verifier_signature, WellFormed
<1>2. /\ copy \in Copy /\ copy.key = data[c][g].key /\ data[c][g].sigs \subseteq copy.sigs
      /\ copy.tx = data[c][g].tx
  BY <1>1 DEF Copy
<1>3. copy # NoCopy
  BY <1>1, <1>2, NoCopyType
<1>4. data' = [data EXCEPT ![c] = new]
  BY DEF push_verifier_signature, Change, ClientInv, ClientTypeOK
<1> HIDE DEF copy
<1>5. /\ new \in Data /\ new[g] = copy
      /\ \A h \in Graphs : h # g => new[h] = data[c][h]
  BY <1>1, <1>2 DEF Data
<1> HIDE DEF new
<1>6. /\ pc[c] = "synced" /\ pc' = [pc EXCEPT ![c] = "changed"] /\ Sighted(c)
      /\ UNCHANGED <<driver, clock, store, latest, upload, secrets, keys, faults,
                     restarted, unread, overlooked, recreated, payments>>
  BY DEF push_verifier_signature, Change
<1>7. \A h \in Graphs : /\ new[h].key = data[c][h].key
                        /\ data[c][h].sigs \subseteq new[h].sigs
                        /\ new[h] = NoCopy <=> data[c][h] = NoCopy
                        /\ data[c][h].tx => new[h].tx
  BY <1>1, <1>2, <1>3, <1>5
<1>8. c # Operator
  BY <1>1, ClientDataAssumption
<1>9. PaymentsKnown' <=> PaymentsKnown
  <2> data'[Operator] = data[Operator]
    BY <1>4, <1>8, InvTypes DEF ClientInv, ClientTypeOK
  <2> QED BY <1>6 DEF PaymentsKnown
<1>10. payments' \in [Graphs -> Nat]
  BY <1>6 DEF ClientInv, ClientTypeOK
<1> QED BY <1>4, <1>5, <1>6, <1>7, <1>9, <1>10, OwnChange DEF ClientInv

\* broadcast_peg_out pays when the copy has no transaction: nothing was paid.
LEMMA PayStep ==
  ASSUME ClientInv, NEW g \in Graphs, peg_out(g)
  PROVE  ClientInv'
<1> DEFINE c == Operator
           copy == [data[c][g] EXCEPT !.tx = TRUE]
           new == [data[c] EXCEPT ![g] = copy]
<1>0. c \in Clients
  BY InvTypes
<1>1. data[c] \in Data /\ data[c][g] \in Copy /\ data[c][g].event /\ ~data[c][g].tx
  BY <1>0, InvTypes DEF Data, peg_out
<1>2. data[c][g] # NoCopy /\ data[c][g].key # 0
  <2> NoCopy.event = FALSE BY DEF NoCopy
  <2> QED BY <1>0, <1>1, InvTypes DEF WellFormed
<1>3. /\ copy \in Copy /\ copy.key = data[c][g].key /\ copy.sigs = data[c][g].sigs
      /\ copy.tx
  BY <1>1 DEF Copy
<1>4. copy # NoCopy
  BY <1>2, <1>3, NoCopyType
<1>5. data' = [data EXCEPT ![c] = new]
  BY <1>0 DEF peg_out, Change, ClientInv, ClientTypeOK
<1> HIDE DEF copy
<1>6. /\ new \in Data /\ new[g] = copy
      /\ \A h \in Graphs : h # g => new[h] = data[c][h]
  BY <1>1, <1>3 DEF Data
<1> HIDE DEF new
<1>7. /\ pc[c] = "synced" /\ pc' = [pc EXCEPT ![c] = "changed"] /\ Sighted(c)
      /\ UNCHANGED <<driver, clock, store, latest, upload, secrets, keys, faults,
                     restarted, unread, overlooked, recreated>>
      /\ payments' = [payments EXCEPT ![g] = @ + 1]
  BY DEF peg_out, Change
<1>8. \A h \in Graphs : /\ new[h].key = data[c][h].key
                        /\ data[c][h].sigs \subseteq new[h].sigs
                        /\ new[h] = NoCopy <=> data[c][h] = NoCopy
                        /\ data[c][h].tx => new[h].tx
  BY <1>2, <1>3, <1>4, <1>6
<1>9. payments \in [Graphs -> Nat] /\ payments' \in [Graphs -> Nat]
  BY <1>7 DEF ClientInv, ClientTypeOK
<1>10. ASSUME ~restarted PROVE PaymentsKnown'
  <2>1. data'[c] = new
    BY <1>0, <1>5 DEF ClientInv, ClientTypeOK
  <2>2. PaymentsKnown
    BY <1>10 DEF ClientInv
  <2>3. payments[g] = 0
    BY <1>1, <2>2 DEF PaymentsKnown
  <2> QED BY <1>3, <1>6, <1>7, <1>9, <2>1, <2>2, <2>3 DEF PaymentsKnown
<1> QED BY <1>0, <1>5, <1>6, <1>7, <1>8, <1>9, <1>10, OwnChange

\* Only graphs that wait for an event are matched.
LEMMA MatchingsWait ==
  ASSUME NEW waiting \in SUBSET Graphs, NEW matched \in Matchings[waiting]
  PROVE  matched \subseteq waiting
<1>1. PICK events \in EventLists, order \in Orders :
        matched = read_from_l2(waiting, events, order).matched
  BY DEF Matchings
<1>2. events \in Seq(Graphs)
  BY EventListsAre
<1> QED BY <1>1, <1>2, ReadFromL2

\* sync_l2 changes events only.
LEMMA SyncL2Step == ASSUME ClientInv, SyncL2 PROVE ClientInv'
<1> DEFINE c == Operator
           waiting == Waiting(data[c])
<1>0. c \in Clients /\ data[c] \in Data /\ WellFormed(data[c])
  BY InvTypes
<1>1. PICK matched \in Matchings[waiting] :
        data' = [data EXCEPT ![c] = [g \in Graphs |-> IF g \in matched
                                     THEN [@[g] EXCEPT !.event = TRUE] ELSE @[g]]]
  BY DEF SyncL2
<1> DEFINE new == [g \in Graphs |-> IF g \in matched
                                    THEN [data[c][g] EXCEPT !.event = TRUE]
                                    ELSE data[c][g]]
<1>2. data' = [data EXCEPT ![c] = new] /\ data'[c] = new
  BY <1>0, <1>1 DEF ClientInv, ClientTypeOK
<1>3. matched \subseteq waiting
  <2> waiting \in SUBSET Graphs BY DEF Waiting
  <2> HIDE DEF waiting
  <2> QED BY MatchingsWait
<1>4. ASSUME NEW h \in Graphs
      PROVE  /\ new[h] \in Copy /\ new[h].key = data[c][h].key
             /\ data[c][h].sigs \subseteq new[h].sigs
             /\ new[h] = NoCopy <=> data[c][h] = NoCopy
             /\ data[c][h].tx => new[h].tx
  <2>0. data[c][h] \in Copy
    BY <1>0 DEF Data
  <2>1. CASE h \in matched
    <3>1. new[h] = [data[c][h] EXCEPT !.event = TRUE]
      BY <2>1
    <3>2. data[c][h] # NoCopy /\ data[c][h].key # 0
      BY <1>0, <1>3, <2>1 DEF Waiting, WellFormed
    <3> HIDE DEF new
    <3>3. /\ new[h] \in Copy /\ new[h].key = data[c][h].key
          /\ new[h].sigs = data[c][h].sigs /\ new[h].tx = data[c][h].tx
      BY <2>0, <3>1 DEF Copy
    <3> QED BY <3>2, <3>3, NoCopyType
  <2>2. CASE h \notin matched
    BY <2>0, <2>2
  <2> QED BY <2>1, <2>2
<1>5. new \in Data
  BY <1>4 DEF Data
<1>6. /\ pc[c] = "synced" /\ pc' = [pc EXCEPT ![c] = "changed"] /\ Sighted(c)
      /\ UNCHANGED <<driver, clock, store, latest, upload, secrets, keys, faults,
                     restarted, unread, overlooked, recreated, payments>>
  BY DEF SyncL2
<1> HIDE DEF new
<1>7. ~restarted => PaymentsKnown'
  BY <1>2, <1>4, <1>6 DEF ClientInv, PaymentsKnown
<1>8. payments' \in [Graphs -> Nat]
  BY <1>6 DEF ClientInv, ClientTypeOK
<1> QED BY <1>0, <1>2, <1>4, <1>5, <1>6, <1>7, <1>8, OwnChange

\* A command with nothing to do.
LEMMA NothingStep ==
  ASSUME ClientInv, NEW c \in Clients, NothingToDo(c)
  PROVE  ClientInv'
<1>1. /\ pc[c] = "synced" /\ pc' = [pc EXCEPT ![c] = "idle"]
      /\ UNCHANGED <<driver, clock, store, data, latest, upload, secrets, keys,
                     payments, faults, restarted, unread, overlooked, recreated>>
      /\ pc \in [Clients -> {"idle", "synced", "changed", "pushing"}]
      /\ Sighted(c)
  BY DEF NothingToDo, ClientInv, ClientTypeOK
<1>2. ClientTypeOK'
  BY <1>1, SightedType DEF ClientInv, ClientTypeOK
<1>3. NamesSound'
  BY <1>1 DEF ClientInv, NamesSound
<1>4. PaymentsKnown' <=> PaymentsKnown
  BY <1>1 DEF PaymentsKnown
<1>5. FilesInclude'
  <2>1. \A d \in Clients, n \in Kept : Follows(d, n)' => Follows(d, n)
    BY <1>1 DEF Follows
  <2>2. \A d \in Clients, n \in Kept : Follows(d, n)' => Includes(data'[d], store[n].data)
    BY <1>1, <2>1, FilesIncludeIs DEF ClientInv
  <2> QED BY <1>1, <2>2, FilesStayIncluded
<1>6. GraphsInStore => GraphsInStore'
  <2>1. pc'[Operator] = "synced" => pc[Operator] = "synced" /\ c # Operator
    BY <1>1, InvTypes
  <2>2. c # Operator => blind' = blind
    BY <1>1, SightedType
  <2> QED BY <1>1, <2>1, <2>2, InvTypes, StoreStays DEF GraphsInStore
<1>7. KeysAgree => KeysAgree'
  <2> \A g \in Graphs : KeysUsed(g)' = KeysUsed(g)
    BY <1>1 DEF KeysUsed, ValidFiles
  <2> QED BY <1>1 DEF KeysAgree
<1> QED BY <1>1, <1>2, <1>3, <1>4, <1>5, <1>6, <1>7 DEF ClientInv, WellFormed

\* A graph is made only when nobody has it: its secrets are new, and theirs.
LEMMA CreateStep ==
  ASSUME ClientInv, NEW g \in Graphs, create_peg_out_graph(g)
  PROVE  ClientInv'
<1> DEFINE c == Operator
           k == keys + 1
           new == [data[c] EXCEPT ![g] = NewCopy(k)]
<1>0. c \in Clients /\ data[c] \in Data /\ data[c][g] = NoCopy
  BY InvTypes DEF create_peg_out_graph
<1>1. k \in 1..MaxKeys
  BY ClientDataAssumption DEF create_peg_out_graph, ClientInv, ClientTypeOK
<1>2. /\ NewCopy(k) \in Copy /\ NewCopy(k).key = k /\ NewCopy(k).sigs = {}
      /\ NewCopy(k) # NoCopy
  <2>1. k # 0 /\ k \in 0..MaxKeys
    BY <1>1
  <2> HIDE DEF k
  <2>2. NewCopy(k) \in Copy /\ NewCopy(k).key = k /\ NewCopy(k).sigs = {}
    BY <2>1, NoCopyType DEF NewCopy, Copy
  <2> QED BY <2>1, <2>2, NoCopyType
<1>3. data' = [data EXCEPT ![c] = new]
  BY <1>0 DEF create_peg_out_graph, Change, ClientInv, ClientTypeOK
<1>4. /\ new \in Data /\ new[g] = NewCopy(k)
      /\ \A h \in Graphs : h # g => new[h] = data[c][h]
  BY <1>0, <1>2 DEF Data
<1>5. /\ pc[c] = "synced" /\ pc' = [pc EXCEPT ![c] = "changed"] /\ Sighted(c)
      /\ UNCHANGED <<driver, clock, store, latest, upload, payments, faults,
                     restarted, unread, overlooked>>
      /\ recreated' = (recreated \/ blind)
      /\ keys' = k
      /\ \A h \in Graphs : secrets'[h] = IF h = g THEN k ELSE 0
      /\ secrets' \in [Graphs -> 0..MaxKeys]
  <2>1. secrets' = [h \in Graphs |-> IF h = g THEN k ELSE 0]
    BY DEF create_peg_out_graph, StoredSecrets
  <2>2. k \in 0..MaxKeys /\ 0 \in 0..MaxKeys
    BY <1>1, ClientDataAssumption
  <2>3. keys' = k
    BY DEF create_peg_out_graph
  <2> HIDE DEF k
  <2>4. /\ \A h \in Graphs : secrets'[h] = IF h = g THEN k ELSE 0
        /\ secrets' \in [Graphs -> 0..MaxKeys]
    BY <2>1, <2>2
  <2>5. /\ pc[c] = "synced" /\ pc' = [pc EXCEPT ![c] = "changed"] /\ Sighted(c)
        /\ UNCHANGED <<driver, clock, store, latest, upload, payments, faults,
                       restarted, unread, overlooked>>
        /\ recreated' = (recreated \/ blind)
    BY DEF create_peg_out_graph, Change
  <2> QED BY <2>3, <2>4, <2>5
<1> HIDE DEF new, k
<1>6. \A d \in Clients : data'[d] = IF d = c THEN new ELSE data[d]
  BY <1>3 DEF ClientInv, ClientTypeOK
<1>7. pc \in [Clients -> {"idle", "synced", "changed", "pushing"}]
  BY DEF ClientInv, ClientTypeOK
<1>8. ClientTypeOK'
  <2>1. data' \in [Clients -> [Graphs -> Copy]]
    BY <1>3, <1>4 DEF ClientInv, ClientTypeOK, Data
  <2>2. pc' \in [Clients -> {"idle", "synced", "changed", "pushing"}]
    BY <1>5, <1>7
  <2>3. keys' \in 0..MaxKeys
    BY <1>1, <1>5
  <2>4. blind' \in BOOLEAN /\ recreated' \in BOOLEAN
    BY <1>0, <1>5, SightedType DEF ClientInv, ClientTypeOK
  <2> QED BY <1>5, <2>1, <2>2, <2>3, <2>4 DEF ClientInv, ClientTypeOK
<1>9. NamesSound'
  BY <1>5, <1>7 DEF ClientInv, NamesSound
<1>10. WellFormed(new)
  <2> WellFormed(data[c]) BY <1>0, InvTypes
  <2> QED BY <1>1, <1>2, <1>4 DEF WellFormed
<1>11. /\ \A d \in Clients : WellFormed(data[d])'
       /\ \A n \in DOMAIN store : WellFormed(store[n].data)'
  BY <1>5, <1>6, <1>10 DEF ClientInv, WellFormed
<1>12. ASSUME ~restarted PROVE PaymentsKnown'
  <2>1. PaymentsKnown /\ data'[c] = new
    BY <1>0, <1>6, <1>12 DEF ClientInv
  <2>2. payments[g] = 0
    BY <1>0, <2>1, NoCopyType DEF PaymentsKnown
  <2> QED BY <1>4, <1>5, <2>1, <2>2 DEF PaymentsKnown
<1>13. FilesInclude'
  <2>1. Includes(new, data[c])
    BY <1>0, <1>4 DEF Includes
  <2>2. ASSUME NEW d \in Clients, NEW n \in Kept, Follows(d, n)'
        PROVE  Includes(data'[d], store[n].data)
    <3>1. Follows(d, n)
      BY <1>5, <1>7, <2>2 DEF Follows
    <3>2. Includes(data[d], store[n].data)
      BY <3>1, FilesIncludeIs DEF ClientInv
    <3>3. CASE d = c
      BY <1>6, <2>1, <3>2, <3>3, IncludesTrans
    <3>4. CASE d # c
      BY <1>6, <3>2, <3>4
    <3> QED BY <3>3, <3>4
  <2> QED BY <1>5, <2>2, FilesStayIncluded
<1>14. GraphsInStore => GraphsInStore'
  <2>1. \A d \in Verifiers : data'[d] = data[d]
    BY <1>6, InvTypes, ClientDataAssumption
  <2>2. pc'[c] # "synced"
    BY <1>0, <1>5, <1>7
  <2> QED BY <1>5, <2>1, <2>2, StoreStays DEF GraphsInStore
<1>15. ASSUME GraphsInStore, KeysAgree, ~blind PROVE KeysAgree'
  <2>1. ~InStore(g)
    BY <1>0, <1>5, <1>15 DEF GraphsInStore
  <2>2. ASSUME NEW h \in Graphs
        PROVE  /\ \A i, j \in KeysUsed(h)' : i # 0 /\ j # 0 => i = j
               /\ secrets'[h] # 0 => KeysUsed(h)' \subseteq {0, secrets'[h]}
    <3>1. KeysUsed(h)' \subseteq KeysUsed(h) \cup {new[h].key}
      BY <1>0, <1>3, <1>5, KeysOneClient
    <3>2. CASE h = g
      <4>1. \A d \in Clients : data[d][g] = NoCopy
        BY <1>0, <1>15, <2>1 DEF GraphsInStore, Clients
      <4>2. KeysUsed(g) \subseteq {0}
        BY <2>1, <4>1, NoCopyType DEF KeysUsed, InStore
      <4>3. KeysUsed(h)' \subseteq {0, k}
        BY <1>2, <1>4, <3>1, <3>2, <4>2
      <4> QED BY <1>5, <3>2, <4>3
    <3>3. CASE h # g
      <4>1. new[h].key \in KeysUsed(h)
        BY <1>0, <1>4, <3>3 DEF KeysUsed
      <4>2. KeysUsed(h)' \subseteq KeysUsed(h)
        BY <3>1, <4>1
      <4> QED BY <1>5, <1>15, <3>3, <4>2 DEF KeysAgree
    <3> QED BY <3>2, <3>3
  <2> QED BY <2>2 DEF KeysAgree
<1>16. overlooked' = overlooked /\ (~recreated' => ~recreated /\ ~blind)
  BY <1>5
<1> QED BY <1>5, <1>8, <1>9, <1>11, <1>12, <1>13, <1>14, <1>15, <1>16 DEF ClientInv

\* A client that stops forgets its copies; the files stay.
LEMMA ForgetStep ==
  ASSUME ClientInv, NEW c \in Clients, Forget(c)
  PROVE  ClientInv'
<1>0. /\ data' = [data EXCEPT ![c] = NoData] /\ latest' = [latest EXCEPT ![c] = 0]
      /\ upload' = [upload EXCEPT ![c] = 0] /\ pc' = [pc EXCEPT ![c] = "idle"]
      /\ unread' = [unread EXCEPT ![c] = {}] /\ Sighted(c)
      /\ UNCHANGED <<driver, clock, store, secrets, keys, payments, overlooked, recreated>>
      /\ restarted' = TRUE
  BY DEF Forget
<1>1. \A d \in Clients : /\ data'[d] = IF d = c THEN NoData ELSE data[d]
                         /\ latest'[d] = IF d = c THEN 0 ELSE latest[d]
                         /\ upload'[d] = IF d = c THEN 0 ELSE upload[d]
                         /\ pc'[d] = IF d = c THEN "idle" ELSE pc[d]
                         /\ unread'[d] = IF d = c THEN {} ELSE unread[d]
  BY <1>0 DEF ClientInv, ClientTypeOK
<1>2. ClientTypeOK'
  <2>1. data' \in [Clients -> [Graphs -> Copy]]
    BY <1>0, NoCopyType DEF ClientInv, ClientTypeOK, Data
  <2>2. pc' \in [Clients -> {"idle", "synced", "changed", "pushing"}]
    BY <1>0 DEF ClientInv, ClientTypeOK
  <2>3. latest' \in [Clients -> 0..MaxClock] /\ upload' \in [Clients -> 0..MaxClock]
    BY <1>0, ClientDataAssumption DEF ClientInv, ClientTypeOK
  <2>4. unread' \in [Clients -> SUBSET (1..MaxClock)]
    BY <1>0 DEF ClientInv, ClientTypeOK
  <2>5. faults' \in 0..MaxFaults /\ blind' \in BOOLEAN
    <3> TRUE \in BOOLEAN /\ Fault(TRUE) BY DEF Forget
    <3> QED BY <1>0, FaultType, SightedType
  <2> QED BY <1>0, <2>1, <2>2, <2>3, <2>4, <2>5 DEF ClientInv, ClientTypeOK
<1>3. NamesSound'
  <2> clock \in Nat /\ 0 <= clock
    BY ClientDataAssumption DEF ClientInv, ClientTypeOK
  <2> NamesSound
    BY DEF ClientInv
  <2> QED BY <1>0, <1>1 DEF NamesSound
<1>4. /\ \A d \in Clients : WellFormed(data[d])'
      /\ \A n \in DOMAIN store : WellFormed(store[n].data)'
  BY <1>0, <1>1, NoCopyType DEF ClientInv, WellFormed
<1>5. FilesInclude'
  <2>1. \A n \in Kept : ~(n <= 0)
    BY InvTypes DEF Kept
  <2>2. \A d \in Clients, n \in Kept :
          Follows(d, n)' => d # c /\ data'[d] = data[d] /\ Follows(d, n)
    BY <1>1, <2>1 DEF Follows
  <2>3. \A d \in Clients, n \in Kept : Follows(d, n)' => Includes(data'[d], store[n].data)
    BY <2>2, FilesIncludeIs DEF ClientInv
  <2> QED BY <1>0, <2>3, FilesStayIncluded
<1>6. GraphsInStore => GraphsInStore'
  <2>1. pc'[Operator] = "synced" => c # Operator
    BY <1>1, InvTypes
  <2>2. c # Operator => blind' = blind
    BY <1>0, SightedType
  <2> QED BY <1>0, <1>1, <2>1, <2>2, InvTypes, NoCopyType, StoreStays DEF GraphsInStore
<1>7. KeysAgree => KeysAgree'
  <2>1. UNCHANGED store /\ UNCHANGED secrets
    BY <1>0
  <2>2. \A g \in Graphs : KeysUsed(g)' \subseteq KeysUsed(g) \cup {NoData[g].key}
    BY <1>0, <2>1, KeysOneClient
  <2>3. \A g \in Graphs : KeysUsed(g)' \subseteq KeysUsed(g) \cup {0}
    BY <2>2, NoCopyType
  <2> QED BY <2>1, <2>3, KeysStillAgree
<1> QED BY <1>0, <1>2, <1>3, <1>4, <1>5, <1>6, <1>7 DEF ClientInv

\* A restart, a panic for secrets that are not there, and one for an index.
LEMMA StopStep ==
  ASSUME ClientInv,
         \/ \E c \in Clients : Restart(c)
         \/ \E g \in Graphs : CommitmentBroadcast(g)
         \/ SyncL2Panics
  PROVE  ClientInv'
BY InvTypes, ForgetStep DEF Restart, CommitmentBroadcast, SyncL2Panics

-----------------------------------------------------------------------------
(* Reading the store. *)

\* A set of file names that is not empty has a newest one.
LEMMA NewestFile ==
  ASSUME NEW S \in SUBSET (1..MaxClock), S # {}
  PROVE  Max(S) \in S /\ \A n \in S : n <= Max(S)
<1> DEFINE U == {MaxClock - n : n \in S}
<1>1. MaxClock \in Nat
  BY ClientDataAssumption
<1>2. U \in SUBSET Nat /\ U # {}
  <2>1. \A n \in S : n \in 1..MaxClock
    OBVIOUS
  <2>2. \A n \in S : MaxClock - n \in Nat
    BY <1>1, <2>1
  <2> QED BY <2>2
<1>3. PICK u \in U : \A m \in U : u <= m
  <2> HIDE DEF U
  <2> QED BY <1>2, LeastNumber
<1>4. PICK x \in S : u = MaxClock - x
  OBVIOUS
<1>5. ASSUME NEW y \in S PROVE x >= y
  <2> MaxClock - x <= MaxClock - y BY <1>3, <1>4
  <2> x \in 1..MaxClock /\ y \in 1..MaxClock OBVIOUS
  <2> QED BY <1>1
<1>6. Max(S) \in S /\ \A y \in S : Max(S) >= y
  BY <1>5 DEF Max
<1>7. \A y \in S : y \in Nat
  <2> \A y \in S : y \in 1..MaxClock OBVIOUS
  <2> QED BY <1>1
<1> QED BY <1>6, <1>7

\* What a client has after process_files: all it had and all that is in the files;
\* no other graphs, and no other keys.
LEMMA Reading ==
  ASSUME ClientInv, NEW c \in Clients, NEW names \in SUBSET DOMAIN store,
         NEW order, IsOrder(order)
  PROVE  LET r == process_files(data[c], names, order) IN
         /\ r \in Data /\ WellFormed(r) /\ Keeps(r, data[c])
         /\ \A g \in Graphs : /\ r[g].key \in KeysUsed(g)
                              /\ r[g] # NoCopy => data[c][g] # NoCopy \/ InStore(g)
         /\ \A n \in Valid(names) : Includes(r, store[n].data)
<1> DEFINE r == process_files(data[c], names, order)
<1>1. data[c] \in Data /\ WellFormed(data[c])
  BY InvTypes
<1>2. /\ r \in Data /\ WellFormed(r) /\ Keeps(r, data[c])
      /\ \A g \in Graphs :
           /\ r[g].key \in {data[c][g].key} \cup {store[n].data[g].key : n \in Valid(names)}
           /\ \A n \in Valid(names) : /\ store[n].data[g] # NoCopy => r[g] # NoCopy
                                      /\ store[n].data[g].sigs \subseteq r[g].sigs
  BY <1>1, ProcessFiles
<1> HIDE DEF r
<1>3. Valid(names) \subseteq ValidFiles
  BY DEF Valid, ValidFiles
<1>4. ASSUME NEW g \in Graphs PROVE r[g].key \in KeysUsed(g)
  <2> \A n \in Valid(names) : store[n].data[g].key \in KeysUsed(g)
    BY <1>3 DEF KeysUsed
  <2> data[c][g].key \in KeysUsed(g)
    BY DEF KeysUsed
  <2> QED BY <1>2
<1>5. ASSUME NEW g \in Graphs, r[g] # NoCopy, data[c][g] = NoCopy PROVE InStore(g)
  <2>1. r[g].key # 0
    BY <1>2, <1>5 DEF WellFormed
  <2>2. PICK n \in Valid(names) : store[n].data[g].key # 0
    BY <1>2, <1>5, <2>1, NoCopyType
  <2> QED BY <1>3, <2>2, NoCopyType DEF InStore
<1>6. \A n \in Valid(names) : Includes(r, store[n].data)
  BY <1>2 DEF Includes
<1> QED BY <1>2, <1>4, <1>5, <1>6 DEF r

\* A client that has what it had, and the newest file of those it could read, has
\* all the files up to that one, and all but those it missed.
LEMMA Known ==
  ASSUME ClientInv, NEW c \in Clients, NEW failed, NEW r, Keeps(r, data[c]),
         LET V == Valid(get_latest_file_names(c) \ failed)
         IN  V # {} => Includes(r, store[Max(V)].data),
         NEW n \in Kept,
         LET V == Valid(get_latest_file_names(c) \ failed)
         IN  \/ n \notin Missed(c, failed)
             \/ n <= latest[c]
             \/ V # {} /\ n <= Max(V)
  PROVE  Includes(r, store[n].data)
<1> DEFINE V == Valid(get_latest_file_names(c) \ failed)
<1>1. /\ n \in Nat /\ latest[c] \in Nat /\ n \in DOMAIN store /\ n \in ValidFiles
      /\ WellFormed(data[c]) /\ FilesInclude
  BY InvTypes DEF Kept, ClientInv
<1>2. V \subseteq ValidFiles /\ V \in SUBSET (1..MaxClock)
  BY InvTypes DEF Valid, ValidFiles, get_latest_file_names, get_file_names
<1>3. V # {} => Max(V) \in V /\ \A m \in V : m <= Max(V)
  <2> HIDE DEF V
  <2> QED BY <1>2, NewestFile
<1>4. CASE n <= latest[c]
  BY <1>1, <1>4, FilesIncludeIs, KeepsIncludes DEF Follows
<1>5. CASE V # {} /\ n <= Max(V)
  <2>1. Includes(store[Max(V)].data, store[n].data)
    BY <1>1, <1>2, <1>3, <1>5, FilesIncludeIs
  <2> QED BY <1>5, <2>1, IncludesTrans
<1>6. CASE n \notin Missed(c, failed) /\ ~(n <= latest[c])
  <2>1. n \in Valid(get_latest_file_names(c))
    BY <1>1, <1>6 DEF Valid, ValidFiles, get_latest_file_names, get_file_names
  <2>2. PICK m \in V : ~(m < n)
    BY <1>6, <2>1 DEF Missed
  <2>3. m \in 1..MaxClock /\ Max(V) \in 1..MaxClock /\ m <= Max(V) /\ MaxClock \in Nat
    BY <1>2, <1>3, ClientDataAssumption
  <2>4. n <= Max(V)
    <3> HIDE DEF V
    <3> QED BY <1>1, <2>2, <2>3
  <2> QED BY <1>5, <2>2, <2>4
<1> QED BY <1>4, <1>5, <1>6

\* A client that takes over data from the store, to work with it or, named u,
\* to push it.
LEMMA TakeOver ==
  ASSUME ClientInv, NEW c \in Clients, NEW r \in Data, WellFormed(r),
         Keeps(r, data[c]), data' = [data EXCEPT ![c] = r],
         \A g \in Graphs : /\ r[g].key \in KeysUsed(g)
                           /\ r[g] # NoCopy => data[c][g] # NoCopy \/ InStore(g),
         NEW newest \in DOMAIN store \cup {0}, latest' = [latest EXCEPT ![c] = newest],
         NEW u \in {0, clock}, upload' = [upload EXCEPT ![c] = u],
         pc' = [pc EXCEPT ![c] = IF u = 0 THEN "synced" ELSE "pushing"],
         NEW w \in SUBSET (1..MaxClock), unread' = [unread EXCEPT ![c] = w],
         UNCHANGED <<driver, clock, store, secrets, keys, payments, restarted,
                     overlooked, recreated>>,
         faults' \in 0..MaxFaults, blind' \in BOOLEAN, c # Operator => blind' = blind,
         \A n \in Kept : \/ n <= newest
                         \/ u # 0 /\ n <= u /\ n \notin w
                         \/ u = 0 /\ c = Operator /\ ~blind'
                         => Includes(r, store[n].data)
  PROVE  ClientInv'
<1> DEFINE p == IF u = 0 THEN "synced" ELSE "pushing"
<1>0. clock \in 1..MaxClock /\ clock \in Nat /\ clock # 0 /\ MaxClock \in Nat
  BY ClientDataAssumption DEF ClientInv, ClientTypeOK
<1>1. \A d \in Clients : /\ data'[d] = IF d = c THEN r ELSE data[d]
                         /\ latest'[d] = IF d = c THEN newest ELSE latest[d]
                         /\ upload'[d] = IF d = c THEN u ELSE upload[d]
                         /\ unread'[d] = IF d = c THEN w ELSE unread[d]
                         /\ pc'[d] = IF d = c THEN p ELSE pc[d]
  BY DEF ClientInv, ClientTypeOK
<1>2. ClientTypeOK'
  <2>1. data' \in [Clients -> [Graphs -> Copy]]
    BY DEF ClientInv, ClientTypeOK, Data
  <2>2. pc' \in [Clients -> {"idle", "synced", "changed", "pushing"}]
    BY DEF ClientInv, ClientTypeOK
  <2>3. newest \in 0..MaxClock /\ u \in 0..MaxClock
    BY <1>0, InvTypes
  <2>4. latest' \in [Clients -> 0..MaxClock] /\ upload' \in [Clients -> 0..MaxClock]
    BY <2>3 DEF ClientInv, ClientTypeOK
  <2>5. unread' \in [Clients -> SUBSET (1..MaxClock)]
    BY DEF ClientInv, ClientTypeOK
  <2> QED BY <2>1, <2>2, <2>4, <2>5 DEF ClientInv, ClientTypeOK
<1>3. NamesSound'
  <2>1. u <= clock /\ (u # 0 <=> p = "pushing")
    BY <1>0
  <2>2. NamesSound
    BY DEF ClientInv
  <2> HIDE DEF p
  <2> QED BY <1>1, <2>1, <2>2 DEF NamesSound
<1>4. /\ \A d \in Clients : WellFormed(data[d])'
      /\ \A n \in DOMAIN store : WellFormed(store[n].data)'
  BY <1>1 DEF ClientInv, WellFormed
<1>5. ASSUME ~restarted PROVE PaymentsKnown'
  <2>1. PaymentsKnown
    BY <1>5 DEF ClientInv
  <2>2. \A g \in Graphs : data[Operator][g].tx => data'[Operator][g].tx
    <3>1. \A g \in Graphs : data[c][g].tx => data[c][g] # NoCopy
      BY NoCopyType
    <3>2. \A g \in Graphs : data[c][g].tx => r[g].tx
      BY <3>1 DEF Keeps
    <3> QED BY <1>1, <3>2, InvTypes
  <2> QED BY <2>1, <2>2 DEF PaymentsKnown
<1>6. FilesInclude'
  <2>1. ASSUME NEW d \in Clients, NEW n \in Kept, Follows(d, n)'
        PROVE  Includes(data'[d], store[n].data)
    <3>1. CASE d = c
      BY <1>1, <2>1, <3>1 DEF Follows
    <3>2. CASE d # c
      <4> Follows(d, n) BY <1>1, <2>1, <3>2 DEF Follows
      <4> QED BY <1>1, <3>2, FilesIncludeIs DEF ClientInv
    <3> QED BY <3>1, <3>2
  <2> QED BY <2>1, FilesStayIncluded
<1>7. ASSUME GraphsInStore, overlooked = {} PROVE GraphsInStore'
  <2>1. ASSUME NEW g \in Graphs, NEW d \in Verifiers, data'[d][g] # NoCopy
        PROVE  InStore(g)
    <3>1. d \in Clients /\ (data[d][g] # NoCopy => InStore(g))
      BY <1>7, InvTypes DEF GraphsInStore
    <3>2. d = c \/ data'[d] = data[d]
      BY <1>1, <3>1
    <3> QED BY <1>1, <2>1, <3>1, <3>2
  <2>2. ASSUME NEW g \in Graphs, pc'[Operator] = "synced", ~blind', InStore(g)
        PROVE  data'[Operator][g] # NoCopy
    <3>0. Operator \in Clients
      BY InvTypes
    <3>1. CASE c = Operator
      <4>1. PICK n \in ValidFiles : store[n].data[g] # NoCopy
        BY <2>2 DEF InStore
      <4>2. u = 0 /\ n \in Kept
        BY <1>1, <1>7, <2>2, <3>0, <3>1 DEF Kept
      <4>3. Includes(r, store[n].data)
        BY <2>2, <3>1, <4>2
      <4> QED BY <1>1, <3>1, <4>1, <4>3 DEF Includes
    <3>2. CASE c # Operator
      BY <1>1, <1>7, <2>2, <3>0, <3>2 DEF GraphsInStore
    <3> QED BY <3>1, <3>2
  <2> QED BY <2>1, <2>2, StoreStays DEF GraphsInStore
<1>8. KeysAgree => KeysAgree'
  <2>1. UNCHANGED store /\ UNCHANGED secrets
    OBVIOUS
  <2>2. \A g \in Graphs : KeysUsed(g)' \subseteq KeysUsed(g) \cup {r[g].key}
    BY <2>1, KeysOneClient
  <2>3. \A g \in Graphs : KeysUsed(g)' \subseteq KeysUsed(g) \cup {0}
    BY <2>2
  <2> QED BY <2>1, <2>3, KeysStillAgree
<1> QED BY <1>2, <1>3, <1>4, <1>5, <1>6, <1>7, <1>8 DEF ClientInv

\* A client that takes nothing over keeps what it has.
LEMMA TakeNothing ==
  ASSUME ClientInv, NEW c \in Clients
  PROVE  /\ data[c] \in Data /\ WellFormed(data[c]) /\ Keeps(data[c], data[c])
         /\ data = [data EXCEPT ![c] = data[c]]
         /\ latest = [latest EXCEPT ![c] = latest[c]]
         /\ upload = [upload EXCEPT ![c] = upload[c]]
         /\ unread = [unread EXCEPT ![c] = unread[c]]
         /\ unread[c] \in SUBSET (1..MaxClock)
         /\ latest[c] \in DOMAIN store \cup {0}
         /\ \A g \in Graphs : data[c][g].key \in KeysUsed(g)
<1>1. NamesSound
  BY DEF ClientInv
<1> QED BY <1>1, InvTypes DEF ClientInv, ClientTypeOK, Keeps, KeysUsed, NamesSound

\* The newest file a client can read, if there is one, is in the store.
LEMMA NewestRead ==
  ASSUME ClientInv, NEW c \in Clients, NEW failed,
         Valid(get_latest_file_names(c) \ failed) # {}
  PROVE  LET V == Valid(get_latest_file_names(c) \ failed) IN
         Max(V) \in V /\ Max(V) \in DOMAIN store
<1> DEFINE V == Valid(get_latest_file_names(c) \ failed)
<1>1. V \subseteq DOMAIN store /\ V \in SUBSET (1..MaxClock)
  BY InvTypes DEF Valid, get_latest_file_names, get_file_names
<1> HIDE DEF V
<1> QED BY <1>1, NewestFile DEF V

\* What a reading client ends with: r, and the name of its newest file.
TakenOver(c, failed, r, newest) ==
  /\ r \in Data /\ WellFormed(r) /\ Keeps(r, data[c])
  /\ newest \in DOMAIN store \cup {0}
  /\ \A g \in Graphs : /\ r[g].key \in KeysUsed(g)
                       /\ r[g] # NoCopy => data[c][g] # NoCopy \/ InStore(g)
  /\ \A n \in Kept : n <= newest \/ n \notin Missed(c, failed)
                     => Includes(r, store[n].data)

\* A sync reads every file up to the newest one it can, or one that includes it.
LEMMA SyncReads ==
  ASSUME ClientInv, NEW c \in Clients, NEW failed, read_from_data_store(c, failed)
  PROVE  \E r, newest : /\ TakenOver(c, failed, r, newest)
                        /\ data' = [data EXCEPT ![c] = r]
                        /\ latest' = [latest EXCEPT ![c] = newest]
<1> DEFINE names == get_latest_file_names(c) \ failed
           V == Valid(names)
           newest == Max(V)
           window == filter_files_names_by_timestamp(names, newest) \cup {newest}
           r == process_files(data[c], window, OldestFirst)
<1>1. names \subseteq DOMAIN store
  BY DEF get_latest_file_names, get_file_names
<1>2. CASE V = {}
  <2>1. UNCHANGED <<data, latest>>
    BY <1>2 DEF read_from_data_store
  <2>2. ASSUME NEW n \in Kept, n <= latest[c] \/ n \notin Missed(c, failed)
        PROVE  Includes(data[c], store[n].data)
    BY <1>2, <2>2, TakeNothing, Known
  <2>3. TakenOver(c, failed, data[c], latest[c])
    BY <2>2, TakeNothing DEF TakenOver
  <2> QED BY <2>1, <2>3, TakeNothing
<1>3. CASE V # {}
  <2>1. newest \in V /\ newest \in DOMAIN store
    BY <1>3, NewestRead
  <2>2. data' = [data EXCEPT ![c] = r] /\ latest' = [latest EXCEPT ![c] = newest]
    BY <1>3 DEF read_from_data_store, ClientInv, ClientTypeOK
  <2>3. window \in SUBSET DOMAIN store /\ newest \in Valid(window)
    BY <1>1, <2>1 DEF filter_files_names_by_timestamp, Valid
  <2>4. /\ r \in Data /\ WellFormed(r) /\ Keeps(r, data[c])
        /\ \A g \in Graphs : /\ r[g].key \in KeysUsed(g)
                             /\ r[g] # NoCopy => data[c][g] # NoCopy \/ InStore(g)
        /\ \A n \in Valid(window) : Includes(r, store[n].data)
    <3> HIDE DEF window
    <3> QED BY <2>3, OrdersComplete, Reading
  <2>5. Includes(r, store[newest].data)
    BY <2>3, <2>4
  <2> HIDE DEF r, window
  <2>6. ASSUME NEW n \in Kept, n <= newest \/ n \notin Missed(c, failed)
        PROVE  Includes(r, store[n].data)
    BY <1>3, <2>4, <2>5, <2>6, Known
  <2>7. TakenOver(c, failed, r, newest)
    BY <2>1, <2>4, <2>6 DEF TakenOver
  <2> QED BY <2>2, <2>7
<1> QED BY <1>2, <1>3

\* A flush reads all the files that it has not processed, and can.
LEMMA FlushReads ==
  ASSUME ClientInv, NEW c \in Clients, NEW failed
  PROVE  LET names == get_latest_file_names(c) \ failed
             r     == process_files(data[c], names, NewestFirst)
         IN  /\ TakenOver(c, failed, r, latest[c])
             /\ TakenOver(c, failed, r, IF Valid(names) = {} THEN 0 ELSE Max(Valid(names)))
<1> DEFINE names == get_latest_file_names(c) \ failed
           V == Valid(names)
           newest == IF V = {} THEN 0 ELSE Max(V)
           r == process_files(data[c], names, NewestFirst)
<1>1. names \in SUBSET DOMAIN store
  BY DEF get_latest_file_names, get_file_names
<1>2. newest \in DOMAIN store \cup {0} /\ (V # {} => Max(V) \in V)
  BY NewestRead
<1>3. /\ r \in Data /\ WellFormed(r) /\ Keeps(r, data[c])
      /\ \A g \in Graphs : /\ r[g].key \in KeysUsed(g)
                           /\ r[g] # NoCopy => data[c][g] # NoCopy \/ InStore(g)
      /\ \A n \in V : Includes(r, store[n].data)
  <2> HIDE DEF names
  <2> QED BY <1>1, OrdersComplete, Reading
<1>4. V # {} => Includes(r, store[Max(V)].data)
  BY <1>2, <1>3
<1> HIDE DEF r
<1>5. ASSUME NEW n \in Kept, n <= latest[c] \/ n \notin Missed(c, failed)
      PROVE  Includes(r, store[n].data)
  BY <1>3, <1>4, <1>5, Known
<1>6. ASSUME NEW n \in Kept, n <= newest PROVE Includes(r, store[n].data)
  <2>1. ~(n <= 0)
    BY InvTypes DEF Kept
  <2>2. V # {} /\ n <= Max(V)
    BY <1>6, <2>1
  <2> QED BY <1>3, <1>4, <2>2, Known
<1>7. TakenOver(c, failed, r, latest[c])
  BY <1>3, <1>5, TakeNothing DEF TakenOver
<1>8. TakenOver(c, failed, r, newest)
  BY <1>2, <1>3, <1>5, <1>6 DEF TakenOver
<1> QED BY <1>7, <1>8 DEF r

\* Files that are missed have names like others.
LEMMA MissedType ==
  ASSUME ClientInv, NEW c, NEW failed
  PROVE  /\ Missed(c, failed) \in SUBSET (1..MaxClock)
         /\ Missed(c, {}) = {}
<1>1. get_latest_file_names(c) \subseteq 1..MaxClock
  BY DEF ClientInv, ClientTypeOK, get_latest_file_names, get_file_names
<1>2. \A n \in get_latest_file_names(c) : n \in Nat
  BY <1>1, ClientDataAssumption
<1> QED BY <1>1, <1>2 DEF Missed, Valid

\* A command begins with what it could read of the store.
LEMMA SyncStep ==
  ASSUME ClientInv, NEW c \in Clients, NEW failed, Sync(c, failed)
  PROVE  /\ ClientInv'
         /\ \A n \in ValidFiles \ overlooked :
              faults' = faults \/ n <= latest'[c] => Includes(data'[c], store[n].data)
<1>1. faults' \in 0..MaxFaults /\ (faults' = faults => failed = {})
  <2> (failed # {}) \in BOOLEAN /\ Fault(failed # {}) BY DEF Sync
  <2> QED BY FaultType
<1>2. /\ pc[c] = "idle" /\ pc' = [pc EXCEPT ![c] = "synced"]
      /\ UNCHANGED <<driver, clock, store, upload, secrets, keys, payments, restarted,
                     unread, overlooked, recreated>>
  BY DEF Sync
<1>3. upload' = [upload EXCEPT ![c] = 0]
  <2>1. upload[c] = 0
    BY <1>2 DEF ClientInv, NamesSound
  <2> QED BY <1>2, <2>1, TakeNothing
<1>4. PICK r, newest : /\ TakenOver(c, failed, r, newest)
                       /\ data' = [data EXCEPT ![c] = r]
                       /\ latest' = [latest EXCEPT ![c] = newest]
  BY SyncReads DEF Sync
<1>5. data'[c] = r /\ latest'[c] = newest
  BY <1>4 DEF ClientInv, ClientTypeOK
<1>6. /\ blind' \in BOOLEAN /\ (c # Operator => blind' = blind)
      /\ c = Operator /\ ~blind' => Missed(c, failed) = {}
  BY DEF Sync, ClientInv, ClientTypeOK
<1>7. pc' = [pc EXCEPT ![c] = IF 0 = 0 THEN "synced" ELSE "pushing"]
  BY <1>2
<1>8. \A n \in Kept : \/ n <= newest
                      \/ 0 # 0 /\ n <= 0 /\ n \notin unread[c]
                      \/ 0 = 0 /\ c = Operator /\ ~blind'
                      => Includes(r, store[n].data)
  BY <1>4, <1>6 DEF TakenOver
<1>9. unread' = [unread EXCEPT ![c] = unread[c]] /\ unread[c] \in SUBSET (1..MaxClock)
  BY <1>2, TakeNothing
<1>10. ClientInv'
  <2>1. /\ r \in Data /\ WellFormed(r) /\ Keeps(r, data[c])
        /\ newest \in DOMAIN store \cup {0}
        /\ \A g \in Graphs : /\ r[g].key \in KeysUsed(g)
                             /\ r[g] # NoCopy => data[c][g] # NoCopy \/ InStore(g)
    BY <1>4 DEF TakenOver
  <2>2. 0 \in {0, clock}
    OBVIOUS
  <2>3. UNCHANGED <<driver, clock, store, secrets, keys, payments, restarted,
                    overlooked, recreated>>
    BY <1>2
  <2> HIDE DEF Missed
  <2> QED BY <1>1, <1>3, <1>4, <1>6, <1>7, <1>8, <1>9, <2>1, <2>2, <2>3, TakeOver
<1>11. \A n \in Kept : faults' = faults \/ n <= newest => Includes(r, store[n].data)
  BY <1>1, <1>4, MissedType DEF TakenOver
<1> QED BY <1>5, <1>10, <1>11 DEF Kept

\* A flush merges what it can read of all that is new, and names the file it will
\* push.
LEMMA FlushMergeStep ==
  ASSUME ClientInv, NEW c \in Clients, NEW listed \in BOOLEAN, NEW failed,
         FlushMerge(c, listed, failed)
  PROVE  ClientInv'
<1>0. clock \in Nat /\ clock # 0 /\ \A n \in DOMAIN store : n \in Nat
  BY InvTypes DEF ClientInv, ClientTypeOK
<1>1. faults' \in 0..MaxFaults
  <2> DEFINE b == ~listed \/ failed # {} \/ Overlaps
  <2> b \in BOOLEAN /\ Fault(b) BY DEF Overlaps, FlushMerge
  <2> QED BY FaultType
<1>2. /\ pc' = [pc EXCEPT ![c] = "pushing"] /\ upload' = [upload EXCEPT ![c] = clock]
      /\ UNCHANGED <<driver, clock, store, secrets, keys, payments, restarted,
                     overlooked, blind, recreated>>
      /\ unread' = [unread EXCEPT ![c] = Missed(c, failed)]
  BY DEF FlushMerge
<1>3. PICK r, newest : /\ TakenOver(c, failed, r, newest)
                       /\ data' = [data EXCEPT ![c] = r]
                       /\ latest' = [latest EXCEPT ![c] = newest]
  <2> DEFINE names == get_latest_file_names(c) \ failed
             r == process_files(data[c], names, NewestFirst)
             newest == IF Valid(names) = {} THEN 0 ELSE Max(Valid(names))
  <2>1. data' = [data EXCEPT ![c] = r]
    BY DEF FlushMerge, ClientInv, ClientTypeOK
  <2>2. /\ ~listed => latest' = latest
        /\ listed => latest' = [latest EXCEPT ![c] = newest]
    BY DEF FlushMerge
  <2>3. TakenOver(c, failed, r, latest[c]) /\ TakenOver(c, failed, r, newest)
    BY FlushReads
  <2>4. latest = [latest EXCEPT ![c] = latest[c]]
    BY TakeNothing
  <2> HIDE DEF r, newest
  <2>5. CASE listed
    BY <2>1, <2>2, <2>3, <2>5
  <2>6. CASE ~listed
    BY <2>1, <2>2, <2>3, <2>4, <2>6
  <2> QED BY <2>5, <2>6
<1>4. pc' = [pc EXCEPT ![c] = IF clock = 0 THEN "synced" ELSE "pushing"]
  BY <1>0, <1>2
<1>5. blind' \in BOOLEAN /\ blind' = blind
  BY <1>2 DEF ClientInv, ClientTypeOK
<1>6. /\ r \in Data /\ WellFormed(r) /\ Keeps(r, data[c])
      /\ newest \in DOMAIN store \cup {0}
      /\ \A g \in Graphs : /\ r[g].key \in KeysUsed(g)
                           /\ r[g] # NoCopy => data[c][g] # NoCopy \/ InStore(g)
      /\ \A n \in Kept : n <= newest \/ n \notin Missed(c, failed)
                         => Includes(r, store[n].data)
  BY <1>3 DEF TakenOver
<1>7. Missed(c, failed) \in SUBSET (1..MaxClock)
  BY MissedType
<1> HIDE DEF Missed
<1> QED BY <1>0, <1>1, <1>2, <1>3, <1>4, <1>5, <1>6, <1>7, TakeOver

\* A file is added, whole or not; the client that wrote it takes it for its
\* latest one if the upload was reported as done.
LEMMA PutStep ==
  ASSUME ClientInv, NEW c \in Clients, pc[c] = "pushing", NEW ok \in BOOLEAN,
         store' = Put(c, ok), NEW newest \in {upload[c], latest[c]},
         latest' = [latest EXCEPT ![c] = newest], Pushed(c), faults' \in 0..MaxFaults,
         overlooked \cup Late(c) \subseteq overlooked', overlooked' \subseteq 1..MaxClock,
         ok \/ newest # latest[c] => unread[c] \subseteq overlooked',
         unread' \in [Clients -> SUBSET (1..MaxClock)],
         \A d \in Clients \ {c} :
           /\ unread[d] \subseteq unread'[d]
           /\ ok /\ upload[c] <= upload[d] => upload[c] \in unread'[d]
  PROVE  ClientInv'
<1> DEFINE u == upload[c]
           file == [ok |-> ok, data |-> IF ok THEN data[c] ELSE NoData]
<1>0. /\ u \in 1..MaxClock /\ u \in Nat /\ u # 0 /\ u <= clock
      /\ data[c] \in Data /\ WellFormed(data[c])
  <2> u \in Nat /\ u # 0 /\ u <= clock
    BY InvTypes DEF ClientInv, NamesSound
  <2> clock \in 1..MaxClock /\ MaxClock \in Nat
    BY ClientDataAssumption DEF ClientInv, ClientTypeOK
  <2> QED BY InvTypes
<1>1. \A d \in Clients : /\ latest'[d] = IF d = c THEN newest ELSE latest[d]
                         /\ upload'[d] = IF d = c THEN 0 ELSE upload[d]
                         /\ pc'[d] = IF d = c THEN "idle" ELSE pc[d]
  BY DEF Pushed, ClientInv, ClientTypeOK
<1>2. UNCHANGED <<driver, clock, data, secrets, keys, payments, restarted, blind, recreated>>
  BY DEF Pushed
<1>3. /\ DOMAIN store' = DOMAIN store \cup {u}
      /\ store'[u] = file
      /\ \A n \in DOMAIN store : n # u => store'[n] = store[n]
  BY DEF Put
<1>4. /\ file.ok = ok /\ file.data = IF ok THEN data[c] ELSE NoData
      /\ file.data \in Data /\ WellFormed(file.data)
      /\ file \in [ok : BOOLEAN, data : [Graphs -> Copy]]
  BY <1>0, NoCopyType DEF Data
<1>5. \A m \in DOMAIN store : u <= m => u \in overlooked'
  BY DEF Late
<1> HIDE DEF file, u
<1>6. ClientTypeOK'
  <2>1. /\ DOMAIN store' \subseteq 1..MaxClock
        /\ \A n \in DOMAIN store' : store'[n] \in [ok : BOOLEAN, data : [Graphs -> Copy]]
    BY <1>0, <1>3, <1>4 DEF ClientInv, ClientTypeOK
  <2>2. pc' \in [Clients -> {"idle", "synced", "changed", "pushing"}]
    BY DEF Pushed, ClientInv, ClientTypeOK
  <2>3. newest \in 0..MaxClock /\ 0 \in 0..MaxClock
    BY <1>0, ClientDataAssumption DEF u, ClientInv, ClientTypeOK
  <2>4. latest' \in [Clients -> 0..MaxClock] /\ upload' \in [Clients -> 0..MaxClock]
    BY <2>3 DEF Pushed, ClientInv, ClientTypeOK
  <2> QED BY <1>2, <2>1, <2>2, <2>4 DEF ClientInv, ClientTypeOK
<1>7. NamesSound'
  <2>1. NamesSound /\ newest \in DOMAIN store' \cup {0} /\ 0 <= clock
    BY <1>0, <1>3, InvTypes DEF ClientInv, NamesSound, u, ClientTypeOK
  <2>2. \A n \in DOMAIN store' : n <= clock'
    BY <1>0, <1>2, <1>3, <2>1 DEF NamesSound
  <2>3. ASSUME NEW d \in Clients
        PROVE  /\ latest'[d] \in DOMAIN store' \cup {0}
               /\ upload'[d] <= clock'
               /\ upload'[d] # 0 <=> pc'[d] = "pushing"
    BY <1>1, <1>2, <1>3, <2>1 DEF NamesSound
  <2> QED BY <2>2, <2>3 DEF NamesSound
<1>8. /\ \A d \in Clients : WellFormed(data[d])'
      /\ \A n \in DOMAIN store' : WellFormed(store'[n].data)
  BY <1>2, <1>3, <1>4 DEF ClientInv, WellFormed
<1>9. ~restarted => PaymentsKnown'
  BY <1>2 DEF ClientInv, PaymentsKnown
\* A valid file is the new one, or one that was there.
<1>10. ASSUME NEW n \in ValidFiles'
       PROVE  \/ n = u /\ ok /\ store'[n].data = data[c]
              \/ n # u /\ n \in ValidFiles /\ store'[n] = store[n]
  <2> n \in DOMAIN store' /\ store'[n].ok
    BY DEF ValidFiles
  <2> QED BY <1>3, <1>4 DEF ValidFiles
<1>11. FilesInclude'
  <2> SUFFICES ASSUME NEW n \in ValidFiles' \ overlooked'
               PROVE  /\ \A m \in ValidFiles' : n <= m =>
                           Includes(store'[m].data, store'[n].data)
                      /\ \A d \in Clients :
                           \/ n <= latest'[d]
                           \/ pc'[d] = "pushing" /\ n <= upload'[d] /\ n \notin unread'[d]
                           => Includes(data'[d], store'[n].data)
    BY DEF FilesInclude, Includes
  <2>0. FilesInclude
    BY DEF ClientInv
  <2>1. ASSUME n # u PROVE n \in Kept /\ store'[n] = store[n]
    BY <1>10, <2>1 DEF Kept
  <2>2. ASSUME n # u, n <= u, ok \/ newest # latest[c] PROVE Includes(data[c], store'[n].data)
    <3> n \notin unread[c] BY <2>2 DEF u
    <3> Follows(c, n) BY <2>2 DEF Follows, u
    <3> QED BY <2>0, <2>1, <2>2, FilesIncludeIs
  <2>3. Includes(data[c], data[c])
    BY DEF Includes
  <2>4. ASSUME NEW m \in ValidFiles', n <= m
        PROVE  Includes(store'[m].data, store'[n].data)
    <3>1. CASE m = u
      <4>1. ok /\ store'[m].data = data[c]
        BY <1>10, <3>1
      <4>2. CASE n = u
        BY <3>1, <4>1, <4>2, <2>3
      <4>3. CASE n # u
        BY <2>2, <2>4, <3>1, <4>1, <4>3
      <4> QED BY <4>2, <4>3
    <3>2. CASE m # u
      <4>1. m \in ValidFiles /\ store'[m] = store[m] /\ m \in DOMAIN store
        BY <1>10, <3>2 DEF ValidFiles
      <4>2. n # u
        BY <1>5, <2>4, <4>1
      <4> QED BY <2>0, <2>1, <2>4, <4>1, <4>2, FilesIncludeIs
    <3> QED BY <3>1, <3>2
  <2>5. ASSUME NEW d \in Clients,
               \/ n <= latest'[d]
               \/ pc'[d] = "pushing" /\ n <= upload'[d] /\ n \notin unread'[d]
        PROVE  Includes(data[d], store'[n].data)
    <3>1. CASE d = c
      <4>1. n <= newest
        BY <1>1, <2>5, <3>1
      <4>2. CASE n = u
        BY <1>10, <2>3, <3>1, <4>2
      <4>3. CASE n # u /\ newest # latest[c]
        BY <2>2, <3>1, <4>1, <4>3 DEF u
      <4>4. CASE n # u /\ newest = latest[c]
        <5> Follows(c, n) BY <4>1, <4>4 DEF Follows
        <5> QED BY <2>0, <2>1, <3>1, <4>4, FilesIncludeIs
      <4> QED BY <4>2, <4>3, <4>4
    <3>2. CASE d # c
      <4>1. latest'[d] = latest[d] /\ upload'[d] = upload[d] /\ pc'[d] = pc[d]
        BY <1>1, <3>2
      <4>2. /\ latest[d] \in DOMAIN store \cup {0} /\ unread[d] \subseteq unread'[d]
            /\ ok /\ u <= upload[d] => u \in unread'[d]
        BY <3>2 DEF ClientInv, NamesSound, u
      <4>3. n # u
        <5> SUFFICES ASSUME n = u PROVE FALSE
          OBVIOUS
        <5>1. ok
          BY <1>10
        <5>2. n <= latest[d]
          BY <2>5, <4>1, <4>2, <5>1
        <5>3. latest[d] # 0
          BY <1>0, <5>2
        <5> QED BY <1>5, <4>2, <5>2, <5>3
      <4>4. Follows(d, n)
        BY <2>5, <4>1, <4>2 DEF Follows
      <4> QED BY <2>0, <2>1, <4>3, <4>4, FilesIncludeIs
    <3> QED BY <3>1, <3>2
  <2> QED BY <1>2, <2>4, <2>5
<1>12. ASSUME GraphsInStore, overlooked' = {} PROVE GraphsInStore'
  <2>1. u \notin DOMAIN store
    BY <1>0, <1>5, <1>12
  <2>2. \A n \in ValidFiles : n \in ValidFiles' /\ store'[n] = store[n]
    BY <1>3, <2>1 DEF ValidFiles
  <2>3. \A g \in Graphs : InStore(g) => InStore(g)'
    BY <2>2 DEF InStore
  <2>4. ASSUME NEW g \in Graphs, InStore(g)', c # Operator PROVE InStore(g)
    <3>1. PICK n \in ValidFiles' : store'[n].data[g] # NoCopy
      BY <2>4 DEF InStore
    <3>2. CASE n \in ValidFiles /\ store'[n] = store[n]
      BY <3>1, <3>2 DEF InStore
    <3>3. CASE store'[n].data = data[c]
      BY <1>12, <2>4, <3>1, <3>3 DEF GraphsInStore, Clients
    <3> QED BY <1>10, <3>2, <3>3
  <2>5. pc'[Operator] = "synced" => c # Operator /\ pc[Operator] = "synced"
    BY <1>1, InvTypes
  <2> QED BY <1>2, <1>12, <2>3, <2>4, <2>5 DEF GraphsInStore
<1>13. KeysAgree => KeysAgree'
  <2>1. ASSUME NEW g \in Graphs PROVE KeysUsed(g)' \subseteq KeysUsed(g) \cup {0}
    <3>1. \A d \in Clients : data'[d][g].key \in KeysUsed(g)
      BY <1>2 DEF KeysUsed
    <3>2. \A n \in ValidFiles' : store'[n].data[g].key \in KeysUsed(g)
      BY <1>10 DEF KeysUsed
    <3> QED BY <3>1, <3>2 DEF KeysUsed
  <2>2. UNCHANGED secrets
    BY <1>2
  <2> QED BY <2>1, <2>2, KeysStillAgree
<1>14. /\ overlooked' = {} => overlooked = {}
       /\ ~recreated' => ~recreated
  BY <1>2
<1> QED BY <1>2, <1>6, <1>7, <1>8, <1>9, <1>11, <1>12, <1>13, <1>14 DEF ClientInv

\* The upload is reported as done, or fails and may leave a part of the file.
LEMMA PushStep ==
  ASSUME ClientInv, NEW c \in Clients, NEW b \in BOOLEAN,
         FlushPush(c, b) \/ FlushFail(c, b)
  PROVE  ClientInv'
<1>0. /\ pc[c] = "pushing" /\ Pushed(c)
      /\ upload[c] \in 1..MaxClock /\ overlooked \subseteq 1..MaxClock
      /\ unread \in [Clients -> SUBSET (1..MaxClock)]
  <2>1. pc[c] = "pushing" /\ Pushed(c)
    BY DEF FlushPush, FlushFail
  <2>2. upload[c] # 0 /\ upload[c] \in 0..MaxClock
    BY <2>1 DEF ClientInv, ClientTypeOK, NamesSound
  <2> QED BY <2>1, <2>2, ClientDataAssumption DEF ClientInv, ClientTypeOK
<1>1. Late(c) \subseteq 1..MaxClock
  BY <1>0 DEF Late
<1>2. CASE FlushPush(c, b)
  <2>1. faults' \in 0..MaxFaults
    <3> (~b) \in BOOLEAN /\ Fault(~b) BY <1>2 DEF FlushPush
    <3> QED BY FaultType
  <2>2. /\ store' = Put(c, b) /\ latest' = [latest EXCEPT ![c] = upload[c]]
        /\ overlooked' = overlooked \cup unread[c] \cup Late(c)
        /\ unread' = [d \in Clients |->
                        IF d = c THEN {}
                        ELSE unread[d] \cup {n \in {upload[c]} : n <= upload[d]}]
    BY <1>2 DEF FlushPush
  <2>3. overlooked' \subseteq 1..MaxClock
    BY <1>0, <1>1, <2>2
  <2>4. unread' \in [Clients -> SUBSET (1..MaxClock)]
    BY <1>0, <2>2
  <2>5. \A d \in Clients \ {c} :
          /\ unread[d] \subseteq unread'[d]
          /\ b /\ upload[c] <= upload[d] => upload[c] \in unread'[d]
    BY <2>2
  <2> HIDE DEF Late
  <2> QED BY <1>0, <2>1, <2>2, <2>3, <2>4, <2>5, PutStep
<1>3. CASE FlushFail(c, b)
  <2>1. /\ faults' \in 0..MaxFaults /\ UNCHANGED latest
        /\ unread' = [unread EXCEPT ![c] = {}]
    <3> TRUE \in BOOLEAN /\ Fault(TRUE) BY <1>3 DEF FlushFail
    <3> QED BY <1>3, FaultType DEF FlushFail
  <2>2. /\ unread' \in [Clients -> SUBSET (1..MaxClock)]
        /\ \A d \in Clients : unread'[d] = IF d = c THEN {} ELSE unread[d]
    BY <1>0, <2>1
  <2>3. CASE b
    <3>1. store' = Put(c, FALSE) /\ overlooked' = overlooked \cup Late(c)
      BY <1>3, <2>3 DEF FlushFail
    <3>2. latest' = [latest EXCEPT ![c] = latest[c]]
      BY <2>1, TakeNothing
    <3> HIDE DEF Late
    <3> QED BY <1>0, <1>1, <2>1, <2>2, <3>1, <3>2, PutStep
  <2>4. CASE ~b
    <3>1. UNCHANGED store /\ UNCHANGED overlooked
      BY <1>3, <2>4 DEF FlushFail
    <3>2. UNCHANGED <<driver, clock, store, data, latest, secrets, keys, payments,
                      restarted, overlooked, blind, recreated>>
      BY <1>0, <2>1, <3>1 DEF Pushed
    <3>3. \A d \in Clients : /\ upload'[d] = IF d = c THEN 0 ELSE upload[d]
                             /\ pc'[d] = IF d = c THEN "idle" ELSE pc[d]
      BY <1>0 DEF Pushed, ClientInv, ClientTypeOK
    <3>4. ClientTypeOK'
      <4>1. pc' \in [Clients -> {"idle", "synced", "changed", "pushing"}]
        BY <1>0 DEF Pushed, ClientInv, ClientTypeOK
      <4>2. upload' \in [Clients -> 0..MaxClock]
        BY <1>0, ClientDataAssumption DEF Pushed, ClientInv, ClientTypeOK
      <4> QED BY <2>1, <2>2, <3>2, <4>1, <4>2 DEF ClientInv, ClientTypeOK
    <3>5. NamesSound'
      <4> NamesSound /\ 0 <= clock
        BY ClientDataAssumption DEF ClientInv, ClientTypeOK
      <4> QED BY <3>2, <3>3 DEF NamesSound
    <3>6. PaymentsKnown' <=> PaymentsKnown
      BY <3>2 DEF PaymentsKnown
    <3>7. FilesInclude'
      <4>1. \A d \in Clients, n \in Kept : Follows(d, n)' => Follows(d, n)
        BY <2>2, <3>2, <3>3 DEF Follows
      <4>2. \A d \in Clients, n \in Kept :
              Follows(d, n)' => Includes(data'[d], store[n].data)
        BY <3>2, <4>1, FilesIncludeIs DEF ClientInv
      <4> QED BY <3>2, <4>2, FilesStayIncluded
    <3>8. GraphsInStore => GraphsInStore'
      BY <3>2, <3>3, InvTypes, StoreStays DEF GraphsInStore
    <3>9. KeysAgree => KeysAgree'
      <4> \A g \in Graphs : KeysUsed(g)' = KeysUsed(g)
        BY <3>2 DEF KeysUsed, ValidFiles
      <4> QED BY <3>2 DEF KeysAgree
    <3> QED BY <3>2, <3>4, <3>5, <3>6, <3>7, <3>8, <3>9 DEF ClientInv, WellFormed
  <2> QED BY <2>3, <2>4
<1> QED BY <1>2, <1>3

\* Every step keeps the invariant.
LEMMA NextInv == ASSUME ClientInv, [Next]_vars PROVE ClientInv'
<1>1. CASE Tick
  BY <1>1, TickStep
<1>2. CASE SyncL2 \/ SyncL2Panics
  BY <1>2, SyncL2Step, StopStep
<1>3. ASSUME NEW g \in Graphs,
             create_peg_out_graph(g) \/ peg_out(g) \/ CommitmentBroadcast(g)
      PROVE  ClientInv'
  BY <1>3, CreateStep, PayStep, StopStep
<1>4. ASSUME NEW c \in Clients, Step(c) PROVE ClientInv'
  <2>1. ASSUME NEW failed,
               Sync(c, failed) \/ \E listed \in BOOLEAN : FlushMerge(c, listed, failed)
        PROVE  ClientInv'
    BY <2>1, SyncStep, FlushMergeStep
  <2>2. CASE NothingToDo(c)
    BY <2>2, NothingStep
  <2>3. ASSUME NEW g \in Graphs, push_verifier_signature(c, g) PROVE ClientInv'
    BY <2>3, SignStep
  <2>4. ASSUME NEW b \in BOOLEAN, FlushPush(c, b) \/ FlushFail(c, b) PROVE ClientInv'
    BY <2>4, PushStep
  <2>5. CASE Restart(c)
    BY <2>5, StopStep
  <2> QED BY <1>4, <2>1, <2>2, <2>3, <2>4, <2>5 DEF Step
<1>5. CASE UNCHANGED vars
  <2>1. UNCHANGED <<driver, clock, store, pc, data, latest, upload, secrets, keys,
                    payments, faults, restarted, unread, overlooked, blind, recreated>>
    BY <1>5 DEF vars, watchVars
  <2>2. ClientTypeOK' <=> ClientTypeOK
    BY <2>1 DEF ClientTypeOK
  <2>3. NamesSound' <=> NamesSound
    BY <2>1 DEF NamesSound
  <2>4. PaymentsKnown' <=> PaymentsKnown
    BY <2>1 DEF PaymentsKnown
  <2>5. /\ FilesInclude' <=> FilesInclude
        /\ GraphsInStore' <=> GraphsInStore
        /\ KeysAgree' <=> KeysAgree
    <3> \A g \in Graphs : (KeysUsed(g)' = KeysUsed(g)) /\ (InStore(g)' <=> InStore(g))
      BY <2>1 DEF KeysUsed, InStore, ValidFiles
    <3> QED BY <2>1 DEF FilesInclude, GraphsInStore, KeysAgree, ValidFiles, Includes
  <2> QED BY <2>1, <2>2, <2>3, <2>4, <2>5 DEF ClientInv, WellFormed
<1> QED BY <1>1, <1>2, <1>3, <1>4, <1>5 DEF Next

-----------------------------------------------------------------------------
(* What the clients and the store keep, always. *)

\* Every command, crash, failed download and failed upload leaves the copies, the
\* files and the secrets as the invariant says.
THEOREM ClientInvHolds == Spec => []ClientInv
BY InitInv, NextInv, PTL DEF Spec

\* The newest valid file holds all the graphs and signatures of the others, but
\* for those that the flush which pushed a later file could not read.
THEOREM NothingLostHolds == Spec => []NothingLost
<1>1. ClientInv => NothingLost
  <2> SUFFICES ASSUME ClientInv, NEW n \in ValidFiles \ overlooked
               PROVE  Includes(store[Max(ValidFiles)].data, store[n].data)
    BY DEF NothingLost
  <2>1. Max(ValidFiles) \in ValidFiles /\ n <= Max(ValidFiles)
    <3> ValidFiles \in SUBSET (1..MaxClock) BY InvTypes
    <3> QED BY NewestFile
  <2> QED BY <2>1, FilesIncludeIs DEF ClientInv, Kept
<1> QED BY <1>1, ClientInvHolds, PTL

\* A sync leaves the client with all that any client has pushed, up to the file it
\* names as its latest when downloads fail.
THEOREM SyncIsComplete == Spec => SyncComplete
<1> DEFINE Complete(c) ==
             pc[c] = "idle" /\ pc'[c] = "synced" =>
               \A n \in ValidFiles \ overlooked :
                 faults' = faults \/ n <= latest'[c] => Includes(data'[c], store[n].data)
<1>1. ASSUME ClientInv, [Next]_vars PROVE \A c \in Clients : Complete(c)
  <2> SUFFICES ASSUME NEW c \in Clients, pc[c] = "idle", pc'[c] = "synced",
                      NEW n \in ValidFiles \ overlooked,
                      faults' = faults \/ n <= latest'[c]
               PROVE  Includes(data'[c], store[n].data)
    OBVIOUS
  <2>0. pc \in [Clients -> {"idle", "synced", "changed", "pushing"}]
    BY <1>1 DEF ClientInv, ClientTypeOK
  <2>1. \E failed : Sync(c, failed)
    <3>1. ~Tick /\ ~UNCHANGED vars
      BY DEF Tick, vars
    <3>2. ~SyncL2 /\ ~SyncL2Panics
      BY <2>0 DEF SyncL2, SyncL2Panics, Forget
    <3>3. \A g \in Graphs : /\ ~create_peg_out_graph(g) /\ ~peg_out(g)
                            /\ ~CommitmentBroadcast(g)
      BY <2>0 DEF create_peg_out_graph, peg_out, CommitmentBroadcast, Change, Forget
    <3>4. PICK d \in Clients : Step(d)
      BY <1>1, <3>1, <3>2, <3>3 DEF Next
    <3>5. /\ ~NothingToDo(d) /\ ~Restart(d)
          /\ \A g \in Graphs : ~push_verifier_signature(d, g)
          /\ \A b \in BOOLEAN : ~FlushPush(d, b) /\ ~FlushFail(d, b)
          /\ \A failed : \A b \in BOOLEAN : ~FlushMerge(d, b, failed)
      BY <2>0 DEF NothingToDo, Restart, Forget, push_verifier_signature, Change,
         FlushMerge, FlushPush, FlushFail, Pushed
    <3>6. PICK failed : Sync(d, failed)
      BY <3>4, <3>5 DEF Step
    <3>7. d = c
      BY <2>0, <3>6 DEF Sync
    <3> QED BY <3>6, <3>7
  <2> QED BY <1>1, <2>1, SyncStep
<1>2. ClientInv /\ [Next]_vars => [\A c \in Clients : Complete(c)]_vars
  BY <1>1
<1>3. Spec => [][\A c \in Clients : Complete(c)]_vars
  BY <1>2, ClientInvHolds, PTL DEF Spec
<1> QED BY <1>3 DEF SyncComplete

\* All copies of a graph were made from one set of secrets, the operator's.
THEOREM CopiesAgreeAlways == Spec => []CopiesAgree
<1>1. ClientInv => CopiesAgree
  <2> SUFFICES ASSUME ClientInv, overlooked = {}, ~recreated, NEW g \in Graphs
               PROVE  /\ Cardinality(KeysUsed(g) \ {0}) <= 1
                      /\ secrets[g] # 0 => KeysUsed(g) \subseteq {0, secrets[g]}
    BY DEF CopiesAgree
  <2> DEFINE K == KeysUsed(g) \ {0}
  <2>1. /\ \A j, k \in K : j = k
        /\ secrets[g] # 0 => KeysUsed(g) \subseteq {0, secrets[g]}
    BY DEF ClientInv, KeysAgree
  <2> HIDE DEF K
  <2>2. Cardinality(K) <= 1
    <3>1. CASE K = {}
      BY <3>1, FS_EmptySet
    <3>2. CASE K # {}
      <4>1. PICK k \in K : K = {k}
        BY <2>1, <3>2
      <4>2. Cardinality(K) = 1
        BY <4>1, FS_Singleton
      <4> QED BY <4>2
    <3> QED BY <3>1, <3>2
  <2> QED BY <2>1, <2>2 DEF K
<1> QED BY <1>1, ClientInvHolds, PTL

\* Without a restart nobody is paid twice.
THEOREM PaidOnce == Spec => []PaidTwiceOnlyAfterRestart
<1>1. ClientInv => PaidTwiceOnlyAfterRestart
  BY DEF ClientInv, ClientTypeOK, PaymentsKnown, PaidTwiceOnlyAfterRestart
<1> QED BY <1>1, ClientInvHolds, PTL

\* Every waiting graph takes its event, in whatever order, if there is exactly
\* one; an index goes out of range only when a waiting graph has several.
THEOREM EventsAreMatched == Spec => []EventsMatched
<1>1. \A waiting \in SUBSET Graphs : MatchedRight[waiting]
  <2> SUFFICES ASSUME NEW waiting \in SUBSET Graphs,
                      NEW events \in EventLists, NEW order \in Orders
               PROVE  LET m    == read_from_l2(waiting, events, order)
                          N(g) == Cardinality(EventsOf(events, g))
                      IN  IF m.panics THEN \E g \in waiting : N(g) > 1
                          ELSE m.matched = {g \in waiting : N(g) = 1}
    BY DEF MatchedRight
  <2>1. events \in Seq(Graphs)
    BY EventListsAre
  <2> QED BY <2>1, ReadFromL2
<1>2. EventsMatched
  BY <1>1 DEF EventsMatched, Waiting
<1> QED BY <1>2, PTL
=============================================================================
