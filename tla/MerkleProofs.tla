----------------------------- MODULE MerkleProofs -----------------------------
(***************************************************************************)
(* The Merkle mountain ranges and Merkle trees of LightClient, for any      *)
(* width of a size and any leaves.  A row of the host's range has half as   *)
(* many nodes as the row below it, the guest's subroots are the last nodes  *)
(* of the odd rows, and a proof of inclusion that the host generates        *)
(* verifies for its own leaf alone.  The path of a transaction in the tree  *)
(* of first digests gives the root of the tree over the ids.                *)
(***************************************************************************)
EXTENDS TargetProofs, SequenceTheorems

-----------------------------------------------------------------------------
(* Sequences of any values.                                                 *)

\* s is a sequence
IsSeq(s) == Len(s) \in Nat /\ s \in Seq({s[i] : i \in 1..Len(s)})

\* Sequences have a length.
LEMMA LenIs == \A s : IsSeq(s) => Len(s) \in Nat
BY DEF IsSeq

\* What sequences are made of.
LEMMA SeqOf ==
  ASSUME NEW S, NEW s
  PROVE  /\ s \in Seq(S) => IsSeq(s)
         /\ \A n \in Nat : s \in [1..n -> S] => IsSeq(s) /\ Len(s) = n
<1>1. ASSUME s \in Seq(S) PROVE IsSeq(s)
  <2>1. Len(s) \in Nat /\ s \in [1..Len(s) -> S]
    BY <1>1, LenProperties
  <2>2. s \in [1..Len(s) -> {s[i] : i \in 1..Len(s)}]
    BY <2>1
  <2> QED BY <2>1, <2>2, SeqDef DEF IsSeq
<1>2. ASSUME NEW n \in Nat, s \in [1..n -> S] PROVE IsSeq(s) /\ Len(s) = n
  <2>1. s \in Seq(S)
    BY <1>2, SeqDef
  <2>2. DOMAIN s = 1..Len(s) /\ Len(s) \in Nat
    BY <2>1, LenProperties
  <2>3. 1..n = 1..Len(s)
    BY <1>2, <2>2
  <2>4. Len(s) = n
    <3>1. PICK m \in Nat : m = Len(s)
      BY <2>2
    <3>2. 1..n = 1..m
      BY <2>3, <3>1
    <3>3. n \in 1..n <=> n \in 1..m
      BY <3>2
    <3>4. m \in 1..n <=> m \in 1..m
      BY <3>2
    <3> QED BY <3>1, <3>3, <3>4
  <2> QED BY <1>1, <2>1, <2>4
<1> QED BY <1>1, <1>2

\* Sequences with the same elements are the same.
LEMMA SeqSame ==
  ASSUME NEW s, NEW t, IsSeq(s), IsSeq(t), Len(s) = Len(t), \A i \in 1..Len(s) : s[i] = t[i]
  PROVE  s = t
<1> DEFINE S == {s[i] : i \in 1..Len(s)} \cup {t[i] : i \in 1..Len(t)}
<1>1. s \in Seq(S) /\ t \in Seq(S)
  BY SeqMonotonic DEF IsSeq
<1> HIDE DEF S
<1> QED BY <1>1, SeqEqual

\* One element more.
LEMMA AppendIs ==
  ASSUME NEW s, NEW e, IsSeq(s)
  PROVE  /\ IsSeq(Append(s, e)) /\ Len(Append(s, e)) = Len(s) + 1
         /\ \A i \in 1..Len(s) : Append(s, e)[i] = s[i]
         /\ Append(s, e)[Len(s) + 1] = e
<1> DEFINE S == {s[i] : i \in 1..Len(s)} \cup {e}
<1>1. s \in Seq(S) /\ e \in S
  BY SeqMonotonic DEF IsSeq
<1> HIDE DEF S
<1>2. /\ Append(s, e) \in Seq(S) /\ Len(Append(s, e)) = Len(s) + 1
      /\ \A i \in 1..Len(s) : Append(s, e)[i] = s[i]
      /\ Append(s, e)[Len(s) + 1] = e
  BY <1>1, AppendProperties
<1>3. IsSeq(Append(s, e))
  BY <1>2, SeqOf
<1> QED BY <1>2, <1>3

\* t is s with another k-th element
Changed(t, s, k, e) == t = [s EXCEPT ![k] = e]

\* One element changed.
LEMMA ExceptIs ==
  ASSUME NEW s, IsSeq(s), NEW k \in 1..Len(s), NEW e, NEW t, Changed(t, s, k, e)
  PROVE  /\ IsSeq(t) /\ Len(t) = Len(s) /\ t[k] = e
         /\ \A i \in 1..Len(s) : i # k => t[i] = s[i]
<1> DEFINE S == {s[i] : i \in 1..Len(s)} \cup {e}
<1>1. s \in Seq(S) /\ e \in S
  BY SeqMonotonic DEF IsSeq
<1> HIDE DEF S
<1>2. /\ t \in Seq(S) /\ Len(t) = Len(s)
      /\ \A i \in 1..Len(s) : t[i] = IF i = k THEN e ELSE s[i]
  BY <1>1, ExceptSeq DEF Changed
<1>3. IsSeq(t)
  BY <1>2, SeqOf
<1> QED BY <1>2, <1>3

\* The first elements.
LEMMA SubSeqIs ==
  ASSUME NEW s, IsSeq(s), NEW m \in 0..Len(s)
  PROVE  LET t == SubSeq(s, 1, m)
         IN IsSeq(t) /\ Len(t) = m /\ \A i \in 1..m : t[i] = s[i]
<1> DEFINE S == {s[i] : i \in 1..Len(s)}
           t == SubSeq(s, 1, m)
<1>1. Len(s) \in Nat /\ m \in Nat /\ m <= Len(s)
  BY DEF IsSeq
<1>2. \A i \in 1..m : s[i] \in S
  BY <1>1
<1> HIDE DEF S
<1>3. /\ t \in Seq(S) /\ Len(t) = IF 1 <= m THEN m - 1 + 1 ELSE 0
      /\ \A i \in 1..(m - 1 + 1) : t[i] = s[1 + i - 1]
  BY <1>1, <1>2, SubSeqProperties
<1>4. IsSeq(t)
  BY <1>3, SeqOf
<1>5. Len(t) = m
  BY <1>1, <1>3
<1>6. ASSUME NEW i \in 1..m PROVE t[i] = s[i]
  <2> i \in 1..(m - 1 + 1) /\ 1 + i - 1 = i BY <1>1
  <2> QED BY <1>3
<1> QED BY <1>4, <1>5, <1>6

-----------------------------------------------------------------------------
(* The bits of a number.                                                    *)

\* The number without its last l bits: how many nodes a level above has
Up(n, l) == n \div Pow2[l]

\* Quotients, like remainders, from a way to write the number.
LEMMA QuotientIs ==
  \A q \in Int, r \in Int, b \in Nat \ {0} : 0 <= r /\ r < b => (b * q + r) \div b = q
OBVIOUS

\* A number, its quotient and its remainder.
LEMMA Division ==
  ASSUME NEW n \in Nat, NEW a \in Nat \ {0}
  PROVE  \E q, r \in Nat : n = a * q + r /\ r < a /\ q = n \div a /\ r = n % a
<1>1. n = a * (n \div a) + (n % a) /\ n \div a \in Nat /\ n % a \in Nat /\ n % a < a
  OBVIOUS
<1> QED BY <1>1

\* Level by level, the number is halved.
LEMMA UpIs ==
  ASSUME NEW n \in Nat, NEW l \in Nat
  PROVE  /\ Up(n, l) \in Nat /\ Up(n, 0) = n
         /\ Up(n, l + 1) = Up(n, l) \div 2
         /\ Up(n, l) = 2 * Up(n, l + 1) + (Up(n, l) % 2)
         /\ Up(n, l) % 2 \in {0, 1}
         /\ Bit(n, l) = Up(n, l) % 2
<1>1. PICK a \in Nat \ {0} : a = Pow2[l] /\ Pow2[l + 1] = 2 * a
  BY Pow2Is
<1>2. PICK q \in Nat, r \in Nat : n = a * q + r /\ r < a /\ q = n \div a
  BY <1>1, Division
<1>3. PICK p \in Nat, s \in {0, 1} : q = 2 * p + s /\ p = q \div 2 /\ s = q % 2
  <2> q = 2 * (q \div 2) + (q % 2) /\ q \div 2 \in Nat /\ q % 2 \in {0, 1}
    OBVIOUS
  <2> QED OBVIOUS
<1>4. Up(n, l) = q
  BY <1>1, <1>2 DEF Up
<1>5. Up(n, 0) = n
  <2> n \div 1 = n OBVIOUS
  <2> QED BY Pow2Is DEF Up
<1>6. Up(n, l + 1) = p
  <2>1. PICK c \in Nat : c = 2 * a /\ c # 0
    BY <1>1
  <2>2. PICK x \in Nat : x = a * p
    <3> a \in Nat /\ p \in Nat BY <1>1, <1>3
    <3> a * p \in Nat OBVIOUS
    <3> QED OBVIOUS
  <2>3. c * p = 2 * x
    <3>1. \A u, v \in Nat : (2 * u) * v = 2 * (u * v)
      OBVIOUS
    <3> QED BY <1>1, <1>3, <2>1, <2>2, <3>1
  <2>4. a * q = 2 * x + (IF s = 0 THEN 0 ELSE a)
    <3>1. \A u, v \in Nat : u * (2 * v) = 2 * (u * v) /\ u * (2 * v + 1) = 2 * (u * v) + u
      OBVIOUS
    <3>2. CASE s = 0
      <4> q = 2 * p BY <1>3, <3>2
      <4> QED BY <1>1, <1>3, <2>2, <3>1, <3>2
    <3>3. CASE s = 1
      <4> q = 2 * p + 1 BY <1>3, <3>3
      <4> QED BY <1>1, <1>3, <2>2, <3>1, <3>3
    <3> QED BY <1>3, <3>2, <3>3
  <2>5. PICK y \in Nat : y = (IF s = 0 THEN 0 ELSE a) + r /\ y < 2 * a
    <3> (IF s = 0 THEN 0 ELSE a) + r \in Nat /\ (IF s = 0 THEN 0 ELSE a) + r < 2 * a
      BY <1>1, <1>2
    <3> QED OBVIOUS
  <2>7. n = c * p + y
    BY <1>1, <1>2, <2>2, <2>3, <2>4, <2>5
  <2>8. (c * p + y) \div c = p
    BY <1>3, <2>1, <2>5, QuotientIs
  <2>9. n \div c = p
    BY <2>7, <2>8
  <2> QED BY <1>1, <2>1, <2>9 DEF Up
<1>7. Bit(n, l) = s
  BY <1>1, <1>2, <1>3 DEF Bit
<1> QED BY <1>2, <1>3, <1>4, <1>5, <1>6, <1>7

\* The same, for the level below.
LEMMA UpBelow ==
  ASSUME NEW n \in Nat, NEW l \in Nat \ {0}
  PROVE  /\ Up(n, l) \in Nat /\ Up(n, l - 1) \in Nat
         /\ Up(n, l - 1) = 2 * Up(n, l) + (Up(n, l - 1) % 2)
         /\ Up(n, l - 1) % 2 \in {0, 1}
<1>1. PICK k \in Nat : k = l - 1 /\ l = k + 1
  <2> l - 1 \in Nat /\ l = (l - 1) + 1 OBVIOUS
  <2> QED OBVIOUS
<1>2. l \in Nat
  OBVIOUS
<1> QED BY <1>1, <1>2, UpIs

-----------------------------------------------------------------------------
(* The loops, as functions.                                                 *)

\* A node p merges with the k-th sibling.
ClimbNext(siblings, index, p, k) ==
  IF Bit(index, k - 1) = 1 THEN hash_pair(siblings[k], p) ELSE hash_pair(p, siblings[k])

\* f lists the nodes after up to n siblings.
IsClimb(f, leaf, siblings, index, n) ==
  f = [k \in 0..n |-> IF k = 0 THEN leaf
                      ELSE ClimbNext(siblings, index, f[k - 1], k)]

\* A leaf climbs past any number of siblings.
LEMMA ClimbExist ==
  ASSUME NEW leaf, NEW siblings, NEW index
  PROVE  \A n \in Nat : \E f : IsClimb(f, leaf, siblings, index, n)
<1> DEFINE bad == {n \in Nat : ~ \E f : IsClimb(f, leaf, siblings, index, n)}
           first == leaf
<1> SUFFICES ASSUME bad # {} PROVE FALSE
  OBVIOUS
<1>1. PICK n \in bad : \A m \in bad : n <= m
  <2> HIDE DEF bad
  <2> bad \in SUBSET Nat BY DEF bad
  <2> QED BY LeastNumber
<1>2. CASE n = 0
  <2> IsClimb([z \in 0..0 |-> first], leaf, siblings, index, 0)
    BY DEF IsClimb
  <2> QED BY <1>2
<1>3. CASE n # 0
  <2>1. n \in Nat /\ n - 1 \in Nat /\ ~(n <= n - 1)
    BY <1>3
  <2>2. PICK f : IsClimb(f, leaf, siblings, index, n - 1)
    BY <1>1, <2>1
  <2> DEFINE h == [k \in 0..n |-> IF k = n THEN ClimbNext(siblings, index, f[n - 1], n)
                                  ELSE f[k]]
  <2>3. \A k \in 0..(n - 1) : f[k] = IF k = 0 THEN first
                                    ELSE ClimbNext(siblings, index, f[k - 1], k)
    BY <2>2 DEF IsClimb
  <2> HIDE DEF first
  <2>4. ASSUME NEW k \in 0..n
        PROVE  h[k] = IF k = 0 THEN first ELSE ClimbNext(siblings, index, h[k - 1], k)
    BY <2>1, <2>3, <1>3
  <2>5. h = [k \in 0..n |-> IF k = 0 THEN first ELSE ClimbNext(siblings, index, h[k - 1], k)]
    BY <2>4
  <2> HIDE DEF h
  <2>6. IsClimb(h, leaf, siblings, index, n)
    BY <2>5, Zenon DEF IsClimb, first
  <2> QED BY <2>6
<1> QED BY <1>2, <1>3

\* The node of Climb after each sibling.
LEMMA ClimbAre ==
  ASSUME NEW leaf, NEW siblings, NEW index, Len(siblings) \in Nat
  PROVE  LET f == Climb(leaf, siblings, index)
         IN /\ f[0] = leaf
            /\ \A k \in 1..Len(siblings) : f[k] = ClimbNext(siblings, index, f[k - 1], k)
<1> DEFINE n == Len(siblings)
           f == CHOOSE f : IsClimb(f, leaf, siblings, index, n)
           first == leaf
<1>1. IsClimb(f, leaf, siblings, index, n)
  <2> \E g : IsClimb(g, leaf, siblings, index, n) BY ClimbExist
  <2> QED OBVIOUS
<1>2. Climb(leaf, siblings, index) = f
  BY DEF Climb, IsClimb, ClimbNext
<1> HIDE DEF f, n, first
<1>3. f = [k \in 0..n |-> IF k = 0 THEN first ELSE ClimbNext(siblings, index, f[k - 1], k)]
  BY <1>1, Zenon DEF IsClimb, first
<1>4. f[0] = first /\ \A k \in 1..n : f[k] = ClimbNext(siblings, index, f[k - 1], k)
  <2> n \in Nat BY DEF n
  <2> 0 \in 0..n /\ \A k \in 1..n : k \in 0..n /\ k # 0 OBVIOUS
  <2> QED BY <1>3
<1> QED BY <1>2, <1>4, Zenon DEF n, first

\* recalculate_peaks at the k-th level.
PeaksNext(p, k) ==
  Peak(p, k)

\* f lists what recalculate_peaks has done after up to n levels.
IsPeaks(f, nodes, n) ==
  f = [k \in 0..n |-> IF k = 0 THEN [nodes |-> nodes, done |-> FALSE]
                      ELSE PeaksNext(f[k - 1], k)]

\* recalculate_peaks runs over any number of levels.
LEMMA PeaksExist ==
  ASSUME NEW nodes
  PROVE  \A n \in Nat : \E f : IsPeaks(f, nodes, n)
<1> DEFINE bad == {n \in Nat : ~ \E f : IsPeaks(f, nodes, n)}
           first == [nodes |-> nodes, done |-> FALSE]
<1> SUFFICES ASSUME bad # {} PROVE FALSE
  OBVIOUS
<1>1. PICK n \in bad : \A m \in bad : n <= m
  <2> HIDE DEF bad
  <2> bad \in SUBSET Nat BY DEF bad
  <2> QED BY LeastNumber
<1>2. CASE n = 0
  <2> IsPeaks([z \in 0..0 |-> first], nodes, 0)
    BY DEF IsPeaks
  <2> QED BY <1>2
<1>3. CASE n # 0
  <2>1. n \in Nat /\ n - 1 \in Nat /\ ~(n <= n - 1)
    BY <1>3
  <2>2. PICK f : IsPeaks(f, nodes, n - 1)
    BY <1>1, <2>1
  <2> DEFINE h == [k \in 0..n |-> IF k = n THEN PeaksNext(f[n - 1], n)
                                  ELSE f[k]]
  <2>3. \A k \in 0..(n - 1) : f[k] = IF k = 0 THEN first
                                    ELSE PeaksNext(f[k - 1], k)
    BY <2>2 DEF IsPeaks
  <2> HIDE DEF first
  <2>4. ASSUME NEW k \in 0..n
        PROVE  h[k] = IF k = 0 THEN first ELSE PeaksNext(h[k - 1], k)
    BY <2>1, <2>3, <1>3
  <2>5. h = [k \in 0..n |-> IF k = 0 THEN first ELSE PeaksNext(h[k - 1], k)]
    BY <2>4
  <2> HIDE DEF h
  <2>6. IsPeaks(h, nodes, n)
    BY <2>5, Zenon DEF IsPeaks, first
  <2> QED BY <2>6
<1> QED BY <1>2, <1>3

\* What recalculate_peaks has done after each level.
LEMMA PeaksAre ==
  ASSUME NEW nodes, (Len(nodes) - 1) \in Nat
  PROVE  LET f == Peaks(nodes)
         IN /\ f[0] = [nodes |-> nodes, done |-> FALSE]
            /\ \A k \in 1..(Len(nodes) - 1) : f[k] = PeaksNext(f[k - 1], k)
<1> DEFINE n == (Len(nodes) - 1)
           f == CHOOSE f : IsPeaks(f, nodes, n)
           first == [nodes |-> nodes, done |-> FALSE]
<1>1. IsPeaks(f, nodes, n)
  <2> \E g : IsPeaks(g, nodes, n) BY PeaksExist
  <2> QED OBVIOUS
<1>2. Peaks(nodes) = f
  BY DEF Peaks, IsPeaks, PeaksNext
<1> HIDE DEF f, n, first
<1>3. f = [k \in 0..n |-> IF k = 0 THEN first ELSE PeaksNext(f[k - 1], k)]
  BY <1>1, Zenon DEF IsPeaks, first
<1>4. f[0] = first /\ \A k \in 1..n : f[k] = PeaksNext(f[k - 1], k)
  <2> n \in Nat BY DEF n
  <2> 0 \in 0..n /\ \A k \in 1..n : k \in 0..n /\ k # 0 OBVIOUS
  <2> QED BY <1>3
<1> QED BY <1>2, <1>4, Zenon DEF n, first

\* get_subroots at the k-th row from the top.
SubrootsNext(nodes, p, k) ==
  LET row == nodes[Len(nodes) + 1 - k]
  IN IF Len(row) % 2 = 1 THEN Append(p, row[Len(row)]) ELSE p

\* f lists the subroots of up to n rows from the top.
IsSubrootList(f, nodes, n) ==
  f = [k \in 0..n |-> IF k = 0 THEN <<>>
                      ELSE SubrootsNext(nodes, f[k - 1], k)]

\* get_subroots runs over any number of rows.
LEMMA SubrootsExist ==
  ASSUME NEW nodes
  PROVE  \A n \in Nat : \E f : IsSubrootList(f, nodes, n)
<1> DEFINE bad == {n \in Nat : ~ \E f : IsSubrootList(f, nodes, n)}
           first == <<>>
<1> SUFFICES ASSUME bad # {} PROVE FALSE
  OBVIOUS
<1>1. PICK n \in bad : \A m \in bad : n <= m
  <2> HIDE DEF bad
  <2> bad \in SUBSET Nat BY DEF bad
  <2> QED BY LeastNumber
<1>2. CASE n = 0
  <2> IsSubrootList([z \in 0..0 |-> first], nodes, 0)
    BY DEF IsSubrootList
  <2> QED BY <1>2
<1>3. CASE n # 0
  <2>1. n \in Nat /\ n - 1 \in Nat /\ ~(n <= n - 1)
    BY <1>3
  <2>2. PICK f : IsSubrootList(f, nodes, n - 1)
    BY <1>1, <2>1
  <2> DEFINE h == [k \in 0..n |-> IF k = n THEN SubrootsNext(nodes, f[n - 1], n)
                                  ELSE f[k]]
  <2>3. \A k \in 0..(n - 1) : f[k] = IF k = 0 THEN first
                                    ELSE SubrootsNext(nodes, f[k - 1], k)
    BY <2>2 DEF IsSubrootList
  <2> HIDE DEF first
  <2>4. ASSUME NEW k \in 0..n
        PROVE  h[k] = IF k = 0 THEN first ELSE SubrootsNext(nodes, h[k - 1], k)
    BY <2>1, <2>3, <1>3
  <2>5. h = [k \in 0..n |-> IF k = 0 THEN first ELSE SubrootsNext(nodes, h[k - 1], k)]
    BY <2>4
  <2> HIDE DEF h
  <2>6. IsSubrootList(h, nodes, n)
    BY <2>5, Zenon DEF IsSubrootList, first
  <2> QED BY <2>6
<1> QED BY <1>2, <1>3

\* The subroots after each row.
LEMMA SubrootsAre ==
  ASSUME NEW nodes, Len(nodes) \in Nat
  PROVE  LET f == Subroots(nodes)
         IN /\ f[0] = <<>>
            /\ \A k \in 1..Len(nodes) : f[k] = SubrootsNext(nodes, f[k - 1], k)
<1> DEFINE n == Len(nodes)
           f == CHOOSE f : IsSubrootList(f, nodes, n)
           first == <<>>
<1>1. IsSubrootList(f, nodes, n)
  <2> \E g : IsSubrootList(g, nodes, n) BY SubrootsExist
  <2> QED OBVIOUS
<1>2. Subroots(nodes) = f
  BY DEF Subroots, IsSubrootList, SubrootsNext
<1> HIDE DEF f, n, first
<1>3. f = [k \in 0..n |-> IF k = 0 THEN first ELSE SubrootsNext(nodes, f[k - 1], k)]
  BY <1>1, Zenon DEF IsSubrootList, first
<1>4. f[0] = first /\ \A k \in 1..n : f[k] = SubrootsNext(nodes, f[k - 1], k)
  <2> n \in Nat BY DEF n
  <2> 0 \in 0..n /\ \A k \in 1..n : k \in 0..n /\ k # 0 OBVIOUS
  <2> QED BY <1>3
<1> QED BY <1>2, <1>4, Zenon DEF n, first

\* The host appends the k-th block.
HostMmrsNext(hs, p, k) ==
  NativeAppend(p, compute_block_hash(hs[k]))

\* f lists the host's ranges over up to n blocks.
IsHostMmrs(f, hs, n) ==
  f = [k \in 0..n |-> IF k = 0 THEN NativeNew
                      ELSE HostMmrsNext(hs, f[k - 1], k)]

\* The host appends any number of blocks.
LEMMA HostMmrsExist ==
  ASSUME NEW hs
  PROVE  \A n \in Nat : \E f : IsHostMmrs(f, hs, n)
<1> DEFINE bad == {n \in Nat : ~ \E f : IsHostMmrs(f, hs, n)}
           first == NativeNew
<1> SUFFICES ASSUME bad # {} PROVE FALSE
  OBVIOUS
<1>1. PICK n \in bad : \A m \in bad : n <= m
  <2> HIDE DEF bad
  <2> bad \in SUBSET Nat BY DEF bad
  <2> QED BY LeastNumber
<1>2. CASE n = 0
  <2> IsHostMmrs([z \in 0..0 |-> first], hs, 0)
    BY DEF IsHostMmrs
  <2> QED BY <1>2
<1>3. CASE n # 0
  <2>1. n \in Nat /\ n - 1 \in Nat /\ ~(n <= n - 1)
    BY <1>3
  <2>2. PICK f : IsHostMmrs(f, hs, n - 1)
    BY <1>1, <2>1
  <2> DEFINE h == [k \in 0..n |-> IF k = n THEN HostMmrsNext(hs, f[n - 1], n)
                                  ELSE f[k]]
  <2>3. \A k \in 0..(n - 1) : f[k] = IF k = 0 THEN first
                                    ELSE HostMmrsNext(hs, f[k - 1], k)
    BY <2>2 DEF IsHostMmrs
  <2> HIDE DEF first
  <2>4. ASSUME NEW k \in 0..n
        PROVE  h[k] = IF k = 0 THEN first ELSE HostMmrsNext(hs, h[k - 1], k)
    BY <2>1, <2>3, <1>3
  <2>5. h = [k \in 0..n |-> IF k = 0 THEN first ELSE HostMmrsNext(hs, h[k - 1], k)]
    BY <2>4
  <2> HIDE DEF h
  <2>6. IsHostMmrs(h, hs, n)
    BY <2>5, Zenon DEF IsHostMmrs, first
  <2> QED BY <2>6
<1> QED BY <1>2, <1>3

\* The host's range after each block.
LEMMA HostMmrsAre ==
  ASSUME NEW hs, Len(hs) \in Nat
  PROVE  LET f == HostMmrs(hs)
         IN /\ f[0] = NativeNew
            /\ \A k \in 1..Len(hs) : f[k] = HostMmrsNext(hs, f[k - 1], k)
<1> DEFINE n == Len(hs)
           f == CHOOSE f : IsHostMmrs(f, hs, n)
           first == NativeNew
<1>1. IsHostMmrs(f, hs, n)
  <2> \E g : IsHostMmrs(g, hs, n) BY HostMmrsExist
  <2> QED OBVIOUS
<1>2. HostMmrs(hs) = f
  BY DEF HostMmrs, IsHostMmrs, HostMmrsNext
<1> HIDE DEF f, n, first
<1>3. f = [k \in 0..n |-> IF k = 0 THEN first ELSE HostMmrsNext(hs, f[k - 1], k)]
  BY <1>1, Zenon DEF IsHostMmrs, first
<1>4. f[0] = first /\ \A k \in 1..n : f[k] = HostMmrsNext(hs, f[k - 1], k)
  <2> n \in Nat BY DEF n
  <2> 0 \in 0..n /\ \A k \in 1..n : k \in 0..n /\ k # 0 OBVIOUS
  <2> QED BY <1>3
<1> QED BY <1>2, <1>4, Zenon DEF n, first


-----------------------------------------------------------------------------
(* Numbers without their last bits.                                         *)

\* A number loses all its bits when it is smaller than the next power.
LEMMA UpZero ==
  ASSUME NEW n \in Nat, NEW l \in Nat
  PROVE  Up(n, l) = 0 <=> n < Pow2[l]
<1>1. PICK a \in Nat \ {0} : a = Pow2[l]
  BY Pow2Is
<1>2. PICK q \in Nat, r \in Nat : n = a * q + r /\ r < a /\ q = n \div a
  BY <1>1, Division
<1>3. CASE q = 0
  BY <1>1, <1>2, <1>3 DEF Up
<1>4. CASE q # 0
  <2>1. PICK p \in Nat : q = p + 1
    <3> q - 1 \in Nat /\ q = (q - 1) + 1 BY <1>2, <1>4
    <3> QED OBVIOUS
  <2>2. a * (p + 1) = a * p + a /\ a * p \in Nat
    <3> \A u, v \in Nat : u * (v + 1) = u * v + u /\ u * v \in Nat
      OBVIOUS
    <3> QED BY <1>1, <2>1
  <2> QED BY <1>1, <1>2, <1>4, <2>1, <2>2 DEF Up
<1> QED BY <1>3, <1>4

\* Two numbers with the same upper bits have the same ones above, and two
\* numbers in an order keep it.
LEMMA UpTogether ==
  ASSUME NEW m \in Nat, NEW n \in Nat, NEW l \in Nat
  PROVE  /\ Up(m, l) = Up(n, l) => \A k \in Nat : k >= l => Up(m, k) = Up(n, k)
         /\ m <= n => Up(m, l) <= Up(n, l)
<1>1. ASSUME Up(m, l) = Up(n, l), NEW k \in Nat, k >= l PROVE Up(m, k) = Up(n, k)
  <2> DEFINE bad == {j \in Nat : j >= l /\ Up(m, j) # Up(n, j)}
  <2> SUFFICES ASSUME bad # {} PROVE FALSE
    BY <1>1
  <2>1. PICK j \in bad : \A i \in bad : j <= i
    <3> HIDE DEF bad
    <3> bad \in SUBSET Nat BY DEF bad
    <3> QED BY LeastNumber
  <2>2. j # l /\ j - 1 \in Nat /\ j - 1 >= l /\ j - 1 + 1 = j
    BY <1>1, <2>1
  <2>3. Up(m, j - 1) = Up(n, j - 1)
    BY <2>1, <2>2
  <2>4. Up(m, j - 1 + 1) = Up(m, j - 1) \div 2 /\ Up(n, j - 1 + 1) = Up(n, j - 1) \div 2
    BY <2>2, UpIs
  <2> QED BY <2>1, <2>2, <2>3, <2>4
<1>2. ASSUME m <= n PROVE Up(m, l) <= Up(n, l)
  <2>1. PICK a \in Nat \ {0} : a = Pow2[l]
    BY Pow2Is
  <2>2. PICK p \in Nat, r \in Nat : m = a * p + r /\ r < a /\ p = m \div a
    BY <2>1, Division
  <2>3. PICK q \in Nat, s \in Nat : n = a * q + s /\ s < a /\ q = n \div a
    BY <2>1, Division
  <2>4. ASSUME q < p PROVE FALSE
    <3>1. PICK d \in Nat : p = q + 1 + d
      <4> p - q - 1 \in Nat /\ p = q + 1 + (p - q - 1) BY <2>2, <2>3, <2>4
      <4> QED OBVIOUS
    <3>2. \A u, v, w \in Nat : u * (v + 1 + w) = u * v + u + u * w /\ u * w \in Nat /\ u * v \in Nat
      OBVIOUS
    <3>3. a * p = a * q + a + a * d /\ a * d \in Nat /\ a * q \in Nat
      BY <2>1, <2>3, <3>1, <3>2
    <3> QED BY <1>2, <2>1, <2>2, <2>3, <3>3
  <2> QED BY <2>1, <2>2, <2>3, <2>4 DEF Up
<1> QED BY <1>1, <1>2

\* A number with no bits left has none above.
LEMMA UpNothing ==
  ASSUME NEW n \in Nat, NEW l \in Nat, Up(n, l) = 0, NEW k \in Nat, k >= l
  PROVE  Up(n, k) = 0
<1>1. Pow2[l] \in Nat /\ Pow2[k] \in Nat /\ Pow2[l] <= Pow2[k] /\ n < Pow2[l]
  BY Pow2Is, Pow2Grows, UpZero
<1> QED BY <1>1, UpZero

\* A number and its successor: the carry goes on as long as the sum is even.
LEMMA CarryIs ==
  ASSUME NEW n \in Nat, NEW l \in Nat
  PROVE  /\ Up(n + 1, l) = Up(n, l) + 1 /\ Up(n + 1, l) % 2 = 0 =>
              Up(n + 1, l + 1) = Up(n, l + 1) + 1
         /\ Up(n + 1, l) = Up(n, l) + 1 /\ Up(n + 1, l) % 2 = 1 =>
              Up(n + 1, l + 1) = Up(n, l + 1)
         /\ Up(n + 1, l) = Up(n, l) => Up(n + 1, l + 1) = Up(n, l + 1)
<1>1. n + 1 \in Nat
  OBVIOUS
<1>2. Up(n, l) \in Nat /\ Up(n, l + 1) = Up(n, l) \div 2
  BY UpIs
<1>3. Up(n + 1, l) \in Nat /\ Up(n + 1, l + 1) = Up(n + 1, l) \div 2
  BY <1>1, UpIs
<1> QED BY <1>2, <1>3

\* The bits of a remainder are the last bits of the number.
LEMMA BitOfRemainder ==
  ASSUME NEW n \in Nat, NEW t \in Nat, NEW j \in Nat, j < t
  PROVE  Bit(n % Pow2[t], j) = Bit(n, j)
<1>1. PICK a \in Nat \ {0} : a = Pow2[j]
  BY Pow2Is
<1>2. PICK d \in Nat : t = j + 1 + d
  <2> t - j - 1 \in Nat /\ t = j + 1 + (t - j - 1) OBVIOUS
  <2> QED OBVIOUS
<1>3. PICK c \in Nat \ {0} : c = Pow2[d]
  BY Pow2Is
<1>4. Pow2[t] = (2 * a) * c
  <2> Pow2[j + 1] = 2 * a /\ j + 1 \in Nat BY <1>1, Pow2Is
  <2> QED BY <1>2, <1>3, Pow2Sum
<1>5. PICK b \in Nat \ {0} : b = (2 * a) * c /\ b = a * (2 * c)
  <2>1. \A u, v \in Nat : (2 * u) * v = u * (2 * v)
    OBVIOUS
  <2>2. Pow2[t] \in Nat \ {0}
    BY Pow2Is
  <2> QED BY <1>1, <1>3, <1>4, <2>1, <2>2
<1>6. PICK q \in Nat, r \in Nat : n = b * q + r /\ r < b /\ r = n % b
  BY <1>5, Division
<1>7. PICK u \in Nat, v \in Nat : r = a * u + v /\ v < a /\ u = r \div a
  BY <1>1, <1>6, Division
<1>8. n = a * (2 * (c * q) + u) + v /\ c * q \in Nat
  <2>1. \A x, y, z \in Nat : (x * (2 * y)) * z = x * (2 * (y * z)) /\ y * z \in Nat
    OBVIOUS
  <2>2. PICK w \in Nat : w = c * q
    BY <1>3, <1>6, <2>1
  <2>3. (a * (2 * c)) * q = a * (2 * w)
    BY <1>1, <1>3, <1>6, <2>1, <2>2
  <2>4. \A x, y, z \in Nat : x * (2 * y + z) = x * (2 * y) + x * z /\ x * (2 * y) \in Nat
         /\ x * z \in Nat
    OBVIOUS
  <2>5. a * (2 * w + u) = a * (2 * w) + a * u /\ a * (2 * w) \in Nat /\ a * u \in Nat
    BY <1>1, <1>7, <2>2, <2>4
  <2>6. n = a * (2 * w) + (a * u + v)
    BY <1>5, <1>6, <1>7, <2>3
  <2>7. n = a * (2 * w + u) + v
    BY <1>7, <2>5, <2>6
  <2> QED BY <2>2, <2>7
<1>9. n \div a = 2 * (c * q) + u
  <2>1. PICK w \in Nat : w = 2 * (c * q) + u
    BY <1>7, <1>8
  <2>2. (a * w + v) \div a = w
    BY <1>1, <1>7, <2>1, QuotientIs
  <2> QED BY <1>8, <2>1, <2>2
<1>10. (2 * (c * q) + u) % 2 = u % 2
  BY <1>7, <1>8
<1> QED BY <1>1, <1>4, <1>5, <1>6, <1>7, <1>9, <1>10 DEF Bit

-----------------------------------------------------------------------------
(* The host's mountain range, as a relation between its rows.               *)

\* The rows of a range over n leaves f: half as many nodes on every level, each
\* the hash of the two below it, up to a row of one
IsRange(nodes, f, n) ==
  /\ IsSeq(nodes) /\ Len(nodes) >= 1
  /\ \A l \in 1..Len(nodes) : IsSeq(nodes[l]) /\ Len(nodes[l]) = Up(n, l - 1)
  /\ \A i \in 1..n : nodes[1][i] = f[i]
  /\ \A l \in 1..(Len(nodes) - 1) : \A i \in 1..Up(n, l) :
       nodes[l + 1][i] = hash_pair(nodes[l][2 * i - 1], nodes[l][2 * i])
  /\ Up(n, Len(nodes) - 1) <= 1
  /\ Len(nodes) > 1 => Up(n, Len(nodes) - 1) = 1

\* The rows of one range are those of another and more
Extends(more, nodes, n) ==
  /\ Len(more) >= Len(nodes)
  /\ \A l \in 1..Len(nodes) : \A i \in 1..Up(n, l - 1) : more[l][i] = nodes[l][i]

\* t is nodes with one node more in the k-th row
Appended(t, nodes, k, e) == t = [nodes EXCEPT ![k] = Append(nodes[k], e)]

\* A node more in one row.
LEMMA RowAppended ==
  ASSUME NEW nodes, IsSeq(nodes), NEW k \in 1..Len(nodes), IsSeq(nodes[k]), NEW e, NEW t,
         Appended(t, nodes, k, e)
  PROVE  /\ IsSeq(t) /\ Len(t) = Len(nodes)
         /\ \A j \in 1..Len(nodes) : j # k => t[j] = nodes[j]
         /\ IsSeq(t[k]) /\ Len(t[k]) = Len(nodes[k]) + 1
         /\ \A i \in 1..Len(nodes[k]) : t[k][i] = nodes[k][i]
         /\ t[k][Len(nodes[k]) + 1] = e
<1> DEFINE row == Append(nodes[k], e)
<1>0. Changed(t, nodes, k, row)
  BY DEF Appended, Changed
<1>1. /\ IsSeq(row) /\ Len(row) = Len(nodes[k]) + 1
      /\ \A i \in 1..Len(nodes[k]) : row[i] = nodes[k][i]
      /\ row[Len(nodes[k]) + 1] = e
  BY AppendIs
<1> HIDE DEF row
<1>2. /\ IsSeq(t) /\ Len(t) = Len(nodes) /\ t[k] = row
      /\ \A i \in 1..Len(nodes) : i # k => t[i] = nodes[i]
  BY <1>0, ExceptIs
<1> QED BY <1>1, <1>2

\* One level of recalculate_peaks.
LEMMA PeakIs ==
  ASSUME NEW acc, acc = [nodes |-> acc.nodes, done |-> acc.done], acc.done \in BOOLEAN, NEW l
  PROVE  LET row == acc.nodes[l]
         IN Peak(acc, l) =
              IF acc.done \/ Len(row) % 2 = 1 THEN [nodes |-> acc.nodes, done |-> TRUE]
              ELSE [nodes |-> [acc.nodes EXCEPT ![l + 1] =
                                 Append(acc.nodes[l + 1], hash_pair(row[Len(row) - 1], row[Len(row)]))],
                    done |-> acc.done]
<1> DEFINE e == hash_pair(acc.nodes[l][Len(acc.nodes[l]) - 1], acc.nodes[l][Len(acc.nodes[l])])
<1>1. Peak(acc, l) = IF acc.done \/ Len(acc.nodes[l]) % 2 = 1 THEN [acc EXCEPT !.done = TRUE]
                     ELSE [acc EXCEPT !.nodes[l + 1] = Append(@, e)]
  BY Zenon DEF Peak
<1> HIDE DEF e
<1>2. [acc EXCEPT !.done = TRUE] = [nodes |-> acc.nodes, done |-> TRUE]
  <2> DEFINE m == acc.nodes
             d == acc.done
  <2>1. acc = [nodes |-> m, done |-> d] OBVIOUS
  <2> HIDE DEF m, d
  <2>2. \A b : [acc EXCEPT !.done = b] = [nodes |-> m, done |-> b] BY <2>1
  <2> QED BY <2>2, Zenon DEF m
<1>3. [acc EXCEPT !.nodes[l + 1] = Append(@, e)]
      = [nodes |-> [acc.nodes EXCEPT ![l + 1] = Append(acc.nodes[l + 1], e)], done |-> acc.done]
  OBVIOUS
<1> QED BY <1>1, <1>2, <1>3, Zenon DEF e

\* What recalculate_peaks has done after l levels: the rows up to the next one
\* are those of one leaf more
RowsOk(m, done, nodes, f, n, l) ==
  /\ IsSeq(m) /\ Len(m) = Len(nodes)
  /\ \A k \in 1..Len(nodes) :
       IsSeq(m[k]) /\ Len(m[k]) = Up(IF k <= l + 1 THEN n + 1 ELSE n, k - 1)
  /\ Extends(m, nodes, n)
  /\ m[1][n + 1] = f[n + 1]
  /\ \A k \in 1..l : \A i \in 1..Up(n + 1, k) :
       m[k + 1][i] = hash_pair(m[k][2 * i - 1], m[k][2 * i])
  /\ Up(n + 1, l) = IF done THEN Up(n, l) ELSE Up(n, l) + 1

PeaksOk(acc, nodes, f, n, l) ==
  /\ acc = [nodes |-> acc.nodes, done |-> acc.done] /\ acc.done \in BOOLEAN
  /\ RowsOk(acc.nodes, acc.done, nodes, f, n, l)

\* The rows and the flag as a record.
LEMMA PeaksRecord ==
  ASSUME NEW m, NEW done \in BOOLEAN, NEW nodes, NEW f, NEW n, NEW l,
         RowsOk(m, done, nodes, f, n, l)
  PROVE  PeaksOk([nodes |-> m, done |-> done], nodes, f, n, l)
<1> DEFINE acc == [nodes |-> m, done |-> done]
<1>1. acc.nodes = m /\ acc.done = done
  OBVIOUS
<1>2. acc = [nodes |-> acc.nodes, done |-> acc.done]
  BY <1>1, Zenon
<1> HIDE DEF acc
<1>3. PeaksOk(acc, nodes, f, n, l)
  BY <1>1, <1>2, Zenon DEF PeaksOk
<1> QED BY <1>3 DEF acc

\* The leaf is in its place before the first level.
LEMMA PeaksStart ==
  ASSUME NEW f, NEW n \in Nat, NEW nodes, IsRange(nodes, f, n)
  PROVE  PeaksOk([nodes |-> [nodes EXCEPT ![1] = Append(nodes[1], f[n + 1])], done |-> FALSE],
                 nodes, f, n, 0)
<1> DEFINE t == [nodes EXCEPT ![1] = Append(nodes[1], f[n + 1])]
<1>1. /\ IsSeq(nodes) /\ 1 \in 1..Len(nodes) /\ Len(nodes) \in Nat
      /\ \A l \in 1..Len(nodes) : IsSeq(nodes[l]) /\ Len(nodes[l]) = Up(n, l - 1)
  BY LenIs DEF IsRange
<1>2. Len(nodes[1]) = n /\ Up(n, 0) = n /\ Up(n + 1, 0) = n + 1
  <2>1. n + 1 \in Nat /\ 0 \in Nat /\ 1 - 1 = 0 OBVIOUS
  <2>2. Up(n, 0) = n /\ Up(n + 1, 0) = n + 1 BY <2>1, UpIs
  <2> QED BY <1>1, <2>1, <2>2
<1>3. /\ IsSeq(t) /\ Len(t) = Len(nodes)
      /\ \A j \in 1..Len(nodes) : j # 1 => t[j] = nodes[j]
      /\ IsSeq(t[1]) /\ Len(t[1]) = n + 1
      /\ \A i \in 1..n : t[1][i] = nodes[1][i]
      /\ t[1][n + 1] = f[n + 1]
  <2> DEFINE e == f[n + 1]
  <2>1. Appended(t, nodes, 1, e) /\ IsSeq(nodes[1])
    BY <1>1 DEF Appended
  <2> HIDE DEF e, t
  <2>2. /\ IsSeq(t) /\ Len(t) = Len(nodes)
        /\ \A j \in 1..Len(nodes) : j # 1 => t[j] = nodes[j]
        /\ IsSeq(t[1]) /\ Len(t[1]) = Len(nodes[1]) + 1
        /\ \A i \in 1..Len(nodes[1]) : t[1][i] = nodes[1][i]
        /\ t[1][Len(nodes[1]) + 1] = e
    BY <1>1, <2>1, RowAppended
  <2> QED BY <1>2, <2>2 DEF e
<1> HIDE DEF t
<1>4. ASSUME NEW k \in 1..Len(nodes)
      PROVE  IsSeq(t[k]) /\ Len(t[k]) = Up(IF k <= 0 + 1 THEN n + 1 ELSE n, k - 1)
  <2>1. CASE k = 1
    BY <1>2, <1>3, <2>1
  <2>2. CASE k # 1
    BY <1>1, <1>3, <2>2
  <2> QED BY <2>1, <2>2
<1>5. Extends(t, nodes, n)
  <2> SUFFICES ASSUME NEW l \in 1..Len(nodes), NEW i \in 1..Up(n, l - 1) PROVE t[l][i] = nodes[l][i]
    BY <1>1, <1>3 DEF Extends
  <2>1. CASE l = 1
    BY <1>2, <1>3, <2>1
  <2>2. CASE l # 1
    BY <1>3, <2>2
  <2> QED BY <2>1, <2>2
<1>6. RowsOk(t, FALSE, nodes, f, n, 0)
  BY <1>2, <1>3, <1>4, <1>5 DEF RowsOk
<1>7. PeaksOk([nodes |-> t, done |-> FALSE], nodes, f, n, 0)
  BY <1>6, PeaksRecord
<1> QED BY <1>7 DEF t

\* Every level of recalculate_peaks puts the row above right.
LEMMA PeaksStep ==
  ASSUME NEW f, NEW n \in Nat, NEW nodes, IsRange(nodes, f, n),
         NEW l \in 1..(Len(nodes) - 1), NEW acc, PeaksOk(acc, nodes, f, n, l - 1)
  PROVE  PeaksOk(Peak(acc, l), nodes, f, n, l)
<1> DEFINE m == acc.nodes
           row == m[l]
<1>1. /\ IsSeq(nodes) /\ Len(nodes) \in Nat /\ l \in Nat /\ l - 1 \in Nat /\ n + 1 \in Nat
      /\ l \in 1..Len(nodes) /\ l + 1 \in 1..Len(nodes) /\ l - 1 + 1 = l /\ l + 1 - 1 = l
      /\ l \in Nat \ {0} /\ 1 \in 1..Len(nodes)
  BY LenIs DEF IsRange
<1>2. /\ acc = [nodes |-> m, done |-> acc.done] /\ acc.done \in BOOLEAN
      /\ IsSeq(m) /\ Len(m) = Len(nodes) /\ Extends(m, nodes, n)
      /\ m[1][n + 1] = f[n + 1]
      /\ \A k \in 1..(l - 1) : \A i \in 1..Up(n + 1, k) :
           m[k + 1][i] = hash_pair(m[k][2 * i - 1], m[k][2 * i])
  BY DEF PeaksOk, RowsOk
<1>3. \A k \in 1..Len(nodes) :
        IsSeq(m[k]) /\ Len(m[k]) = Up(IF k <= l THEN n + 1 ELSE n, k - 1)
  BY <1>1 DEF PeaksOk, RowsOk
<1>4. Up(n + 1, l - 1) = IF acc.done THEN Up(n, l - 1) ELSE Up(n, l - 1) + 1
  BY DEF PeaksOk, RowsOk
<1>5. IsSeq(row) /\ Len(row) = Up(n + 1, l - 1) /\ IsSeq(m[l + 1]) /\ Len(m[l + 1]) = Up(n, l)
  BY <1>1, <1>3
<1>6. /\ Up(n, l) \in Nat /\ Up(n, l - 1) \in Nat /\ 2 * Up(n, l) <= Up(n, l - 1)
      /\ Up(n + 1, l) \in Nat /\ Up(n + 1, l - 1) \in Nat
      /\ Up(n + 1, l - 1) % 2 \in {0, 1}
      /\ Up(n + 1, l - 1) = 2 * Up(n + 1, l) + (Up(n + 1, l - 1) % 2)
  <2>1. /\ Up(n, l) \in Nat /\ Up(n, l - 1) \in Nat /\ Up(n, l - 1) % 2 \in {0, 1}
        /\ Up(n, l - 1) = 2 * Up(n, l) + (Up(n, l - 1) % 2)
    BY <1>1, UpBelow
  <2>2. /\ Up(n + 1, l) \in Nat /\ Up(n + 1, l - 1) \in Nat /\ Up(n + 1, l - 1) % 2 \in {0, 1}
        /\ Up(n + 1, l - 1) = 2 * Up(n + 1, l) + (Up(n + 1, l - 1) % 2)
    BY <1>1, UpBelow
  <2> QED BY <2>1, <2>2
<1>7. ASSUME NEW i \in 1..Up(n, l)
      PROVE  m[l + 1][i] = hash_pair(m[l][2 * i - 1], m[l][2 * i])
  <2>1. 2 * i - 1 \in 1..Up(n, l - 1) /\ 2 * i \in 1..Up(n, l - 1)
    BY <1>6
  <2>2. m[l + 1][i] = nodes[l + 1][i]
    <3>1. PICK k \in 1..Len(nodes) : k = l + 1 /\ k - 1 = l
      BY <1>1
    <3>2. m[k][i] = nodes[k][i]
      BY <1>2, <3>1 DEF Extends
    <3> QED BY <3>1, <3>2
  <2>3. m[l][2 * i - 1] = nodes[l][2 * i - 1] /\ m[l][2 * i] = nodes[l][2 * i]
    BY <1>1, <1>2, <2>1 DEF Extends
  <2>4. nodes[l + 1][i] = hash_pair(nodes[l][2 * i - 1], nodes[l][2 * i])
    BY DEF IsRange
  <2> QED BY <2>2, <2>3, <2>4
<1>8. CASE acc.done \/ Len(row) % 2 = 1
  <2>1. Up(n + 1, l) = Up(n, l)
    <3>1. Up(n + 1, l - 1) % 2 = 1 \/ Up(n + 1, l - 1) = Up(n, l - 1)
      BY <1>4, <1>5, <1>8
    <3> QED BY <1>1, <1>4, <3>1, CarryIs
  <2> DEFINE next == [nodes |-> m, done |-> TRUE]
  <2>2. Peak(acc, l) = next
    BY <1>2, <1>8, PeakIs
  <2> HIDE DEF next, m
  <2>4. ASSUME NEW k \in 1..Len(nodes)
        PROVE  IsSeq(m[k]) /\ Len(m[k]) = Up(IF k <= l + 1 THEN n + 1 ELSE n, k - 1)
    <3>1. CASE k = l + 1
      BY <1>1, <1>5, <2>1, <3>1 DEF m
    <3>2. CASE k # l + 1
      <4> k <= l <=> k <= l + 1 BY <1>1, <3>2
      <4> QED BY <1>3
    <3> QED BY <3>1, <3>2
  <2>5. ASSUME NEW k \in 1..l, NEW i \in 1..Up(n + 1, k)
        PROVE  m[k + 1][i] = hash_pair(m[k][2 * i - 1], m[k][2 * i])
    <3>1. CASE k = l
      BY <1>7, <2>1, <3>1
    <3>2. CASE k # l
      <4> k \in 1..(l - 1) BY <1>1, <3>2
      <4> QED BY <1>2
    <3> QED BY <3>1, <3>2
  <2>6. RowsOk(m, TRUE, nodes, f, n, l)
    BY <1>2, <2>1, <2>4, <2>5 DEF RowsOk
  <2>7. PeaksOk(next, nodes, f, n, l)
    BY <2>6, PeaksRecord DEF next
  <2> QED BY <2>2, <2>7
<1>9. CASE ~(acc.done \/ Len(row) % 2 = 1)
  <2>1. Up(n + 1, l - 1) % 2 = 0 /\ Up(n + 1, l - 1) = Up(n, l - 1) + 1 /\ acc.done = FALSE
    BY <1>2, <1>4, <1>5, <1>6, <1>9
  <2>2. Up(n + 1, l) = Up(n, l) + 1
    BY <1>1, <2>1, CarryIs
  <2> DEFINE e == hash_pair(row[Len(row) - 1], row[Len(row)])
             t == [m EXCEPT ![l + 1] = Append(m[l + 1], e)]
             next == [nodes |-> t, done |-> FALSE]
  <2>3. Peak(acc, l) = next
    BY <1>2, <1>9, <2>1, PeakIs
  <2>4. /\ IsSeq(t) /\ Len(t) = Len(nodes)
        /\ \A j \in 1..Len(nodes) : j # l + 1 => t[j] = m[j]
        /\ IsSeq(t[l + 1]) /\ Len(t[l + 1]) = Up(n + 1, l)
        /\ \A i \in 1..Up(n, l) : t[l + 1][i] = m[l + 1][i]
        /\ t[l + 1][Up(n + 1, l)] = e
    <3> HIDE DEF e, m, row
    <3>1. /\ IsSeq(t) /\ Len(t) = Len(m)
          /\ \A j \in 1..Len(m) : j # l + 1 => t[j] = m[j]
          /\ IsSeq(t[l + 1]) /\ Len(t[l + 1]) = Len(m[l + 1]) + 1
          /\ \A i \in 1..Len(m[l + 1]) : t[l + 1][i] = m[l + 1][i]
          /\ t[l + 1][Len(m[l + 1]) + 1] = e
      <4>1. PICK k \in 1..Len(m) : k = l + 1
        BY <1>1, <1>2
      <4>2. Appended(t, m, k, e) /\ IsSeq(m) /\ IsSeq(m[k])
        BY <1>2, <1>5, <4>1 DEF Appended
      <4> HIDE DEF t
      <4>3. /\ IsSeq(t) /\ Len(t) = Len(m)
            /\ \A j \in 1..Len(m) : j # k => t[j] = m[j]
            /\ IsSeq(t[k]) /\ Len(t[k]) = Len(m[k]) + 1
            /\ \A i \in 1..Len(m[k]) : t[k][i] = m[k][i]
            /\ t[k][Len(m[k]) + 1] = e
        BY <4>2, RowAppended
      <4> QED BY <4>1, <4>3
    <3> QED BY <1>2, <1>5, <2>2, <3>1
  <2>5. e = hash_pair(m[l][2 * Up(n + 1, l) - 1], m[l][2 * Up(n + 1, l)])
    <3> Len(row) = 2 * Up(n + 1, l)
      BY <1>5, <1>6, <2>1
    <3> QED OBVIOUS
  <2> HIDE DEF next, t, e, row, m
  <2>7. ASSUME NEW k \in 1..Len(nodes)
        PROVE  IsSeq(t[k]) /\ Len(t[k]) = Up(IF k <= l + 1 THEN n + 1 ELSE n, k - 1)
    <3>1. CASE k = l + 1
      BY <1>1, <2>4, <3>1
    <3>2. CASE k # l + 1
      <4> k <= l <=> k <= l + 1 BY <1>1, <3>2
      <4> QED BY <1>3, <2>4, <3>2
    <3> QED BY <3>1, <3>2
  <2>8. Extends(t, nodes, n)
    <3> SUFFICES ASSUME NEW k \in 1..Len(nodes), NEW i \in 1..Up(n, k - 1)
                 PROVE  t[k][i] = nodes[k][i]
      BY <1>2, <2>4 DEF Extends, IsSeq
    <3>1. m[k][i] = nodes[k][i]
      BY <1>2 DEF Extends
    <3>2. CASE k = l + 1
      <4> i \in 1..Up(n, l) BY <1>1, <3>2
      <4> QED BY <2>4, <3>1, <3>2
    <3>3. CASE k # l + 1
      BY <2>4, <3>1, <3>3
    <3> QED BY <3>2, <3>3
  <2>9. ASSUME NEW k \in 1..l, NEW i \in 1..Up(n + 1, k)
        PROVE  t[k + 1][i] = hash_pair(t[k][2 * i - 1], t[k][2 * i])
    <3>1. t[k] = m[k]
      <4> k # l + 1 /\ k \in 1..Len(nodes) BY <1>1
      <4> QED BY <2>4
    <3>2. CASE k # l
      <4>1. k \in 1..(l - 1) /\ k + 1 # l + 1 /\ k + 1 \in 1..Len(nodes) BY <1>1, <3>2
      <4> QED BY <1>2, <2>4, <3>1, <4>1
    <3>3. CASE k = l /\ i # Up(n + 1, l)
      <4>1. i \in 1..Up(n, l) BY <1>6, <2>2, <3>3
      <4> QED BY <1>7, <2>4, <3>1, <3>3, <4>1
    <3>4. CASE k = l /\ i = Up(n + 1, l)
      BY <2>4, <2>5, <3>1, <3>4
    <3> QED BY <3>2, <3>3, <3>4
  <2>10. t[1][n + 1] = f[n + 1]
    <3> 1 # l + 1 BY <1>1
    <3> t[1] = m[1] BY <1>1, <2>4
    <3> QED BY <1>2
  <2>11. RowsOk(t, FALSE, nodes, f, n, l)
    BY <2>2, <2>4, <2>7, <2>8, <2>9, <2>10 DEF RowsOk
  <2>12. PeaksOk(next, nodes, f, n, l)
    BY <2>11, PeaksRecord DEF next
  <2> QED BY <2>3, <2>12
<1> QED BY <1>8, <1>9

\* A range over no leaves is one.
LEMMA RangeStarts ==
  ASSUME NEW f
  PROVE  IsRange(NativeNew, f, 0)
<1>1. /\ NativeNew \in Seq({<<>>}) /\ Len(NativeNew) = 1 /\ NativeNew[1] = <<>>
      /\ <<>> \in Seq({}) /\ Len(<<>>) = 0
  BY DEF NativeNew
<1>2. IsSeq(NativeNew) /\ IsSeq(<<>>)
  BY <1>1, SeqOf
<1>3. Up(0, 0) = 0 /\ Up(0, 1 - 1) = 0
  <2> 0 \in Nat /\ 1 - 1 = 0 OBVIOUS
  <2> QED BY UpIs
<1>4. ASSUME NEW l \in 1..Len(NativeNew)
      PROVE  IsSeq(NativeNew[l]) /\ Len(NativeNew[l]) = Up(0, l - 1)
  <2> l = 1 BY <1>1
  <2> QED BY <1>1, <1>2, <1>3
<1> QED BY <1>1, <1>2, <1>3, <1>4 DEF IsRange

\* A sequence of one.
LEMMA OneElement ==
  ASSUME NEW e, NEW s, s = <<e>>
  PROVE  IsSeq(s) /\ Len(s) = 1 /\ s[1] = e
<1>1. s \in Seq({e}) /\ Len(s) = 1 /\ s[1] = e
  OBVIOUS
<1> QED BY <1>1, SeqOf

\* All levels of recalculate_peaks.
LEMMA PeaksAll ==
  ASSUME NEW f, NEW n \in Nat, NEW nodes, IsRange(nodes, f, n), NEW t,
         Appended(t, nodes, 1, f[n + 1])
  PROVE  /\ Len(t) = Len(nodes)
         /\ \A l \in 0..(Len(nodes) - 1) : PeaksOk(Peaks(t)[l], nodes, f, n, l)
<1> DEFINE e == f[n + 1]
           bad == {l \in Nat : l \in 0..(Len(nodes) - 1) /\ ~PeaksOk(Peaks(t)[l], nodes, f, n, l)}
<1>1. IsSeq(nodes) /\ Len(nodes) \in Nat /\ Len(nodes) >= 1 /\ 1 \in 1..Len(nodes) /\ IsSeq(nodes[1])
  BY LenIs DEF IsRange
<1>2. Len(t) = Len(nodes)
  <2> Appended(t, nodes, 1, e) OBVIOUS
  <2> HIDE DEF e
  <2> QED BY <1>1, RowAppended
<1>3. SUFFICES ASSUME bad # {} PROVE FALSE
  BY <1>2
<1>4. PICK l \in bad : \A k \in bad : l <= k
  <2> HIDE DEF bad
  <2> bad \in SUBSET Nat BY DEF bad
  <2> QED BY <1>3, LeastNumber
<1>5. /\ Peaks(t)[0] = [nodes |-> t, done |-> FALSE]
      /\ \A k \in 1..(Len(t) - 1) : Peaks(t)[k] = Peak(Peaks(t)[k - 1], k)
  <2> Len(t) - 1 \in Nat BY <1>1, <1>2
  <2> QED BY PeaksAre DEF PeaksNext
<1>6. PeaksOk(Peaks(t)[0], nodes, f, n, 0)
  <2>1. PeaksOk([nodes |-> [nodes EXCEPT ![1] = Append(nodes[1], e)], done |-> FALSE], nodes, f, n, 0)
    BY PeaksStart
  <2>2. t = [nodes EXCEPT ![1] = Append(nodes[1], e)]
    BY DEF Appended
  <2> QED BY <1>5, <2>1, <2>2, Zenon
<1>7. l # 0
  BY <1>4, <1>6
<1>8. l \in 1..(Len(nodes) - 1) /\ l - 1 \in Nat /\ l - 1 \in 0..(Len(nodes) - 1) /\ ~(l <= l - 1)
  BY <1>1, <1>4, <1>7
<1>9. PeaksOk(Peaks(t)[l - 1], nodes, f, n, l - 1)
  BY <1>4, <1>8
<1>10. PeaksOk(Peak(Peaks(t)[l - 1], l), nodes, f, n, l)
  BY <1>8, <1>9, PeaksStep
<1> QED BY <1>2, <1>4, <1>5, <1>8, <1>10

\* NativeAppend makes the range of one leaf more, which extends the one before.
LEMMA RangeAppends ==
  ASSUME NEW f, NEW n \in Nat, NEW nodes, IsRange(nodes, f, n)
  PROVE  LET more == NativeAppend(nodes, f[n + 1])
         IN IsRange(more, f, n + 1) /\ Extends(more, nodes, n)
<1> DEFINE t == [nodes EXCEPT ![1] = Append(@, f[n + 1])]
           D == Len(nodes)
           kept == Peaks(t)[D - 1].nodes
           top == kept[D]
           more == NativeAppend(nodes, f[n + 1])
<1>1. /\ IsSeq(nodes) /\ D \in Nat /\ D >= 1 /\ D \in 1..D /\ 1 \in 1..D /\ D - 1 \in 0..(D - 1)
      /\ D - 1 \in Nat /\ n + 1 \in Nat /\ D \in Nat \ {0} /\ D - 1 + 1 = D
      /\ \A i \in 1..n : nodes[1][i] = f[i]
      /\ Up(n, D - 1) <= 1 /\ (D > 1 => Up(n, D - 1) = 1)
  BY LenIs DEF IsRange
<1>2. Appended(t, nodes, 1, f[n + 1])
  BY DEF Appended
<1>3. more = IF Len(top) > 1 THEN Append(kept, <<hash_pair(top[1], top[2])>>) ELSE kept
  <2>1. more = recalculate_peaks(t)
    BY DEF NativeAppend
  <2> HIDE DEF t
  <2>2. Len(t) = D
    BY <1>2, PeaksAll
  <2> QED BY <2>1, <2>2 DEF recalculate_peaks
<1> HIDE DEF t, more
<1>4. PeaksOk(Peaks(t)[D - 1], nodes, f, n, D - 1)
  BY <1>1, <1>2, PeaksAll
<1>5. \E done \in BOOLEAN : RowsOk(kept, done, nodes, f, n, D - 1)
  BY <1>4 DEF PeaksOk
<1> HIDE DEF kept
<1>6. /\ IsSeq(kept) /\ Len(kept) = D /\ Extends(kept, nodes, n)
      /\ kept[1][n + 1] = f[n + 1]
      /\ \A k \in 1..(D - 1) : \A i \in 1..Up(n + 1, k) :
           kept[k + 1][i] = hash_pair(kept[k][2 * i - 1], kept[k][2 * i])
      /\ Up(n + 1, D - 1) = Up(n, D - 1) \/ Up(n + 1, D - 1) = Up(n, D - 1) + 1
  BY <1>5 DEF RowsOk
<1>7. \A k \in 1..D : IsSeq(kept[k]) /\ Len(kept[k]) = Up(n + 1, k - 1)
  <2> SUFFICES ASSUME NEW k \in 1..D PROVE IsSeq(kept[k]) /\ Len(kept[k]) = Up(n + 1, k - 1)
    OBVIOUS
  <2> k <= D - 1 + 1 BY <1>1
  <2> QED BY <1>5 DEF RowsOk
<1>8. \A i \in 1..(n + 1) : kept[1][i] = f[i]
  <2> SUFFICES ASSUME NEW i \in 1..(n + 1) PROVE kept[1][i] = f[i]
    OBVIOUS
  <2>1. CASE i = n + 1
    BY <1>6, <2>1
  <2>2. CASE i # n + 1
    <3>1. i \in 1..n /\ 1 - 1 = 0 /\ Up(n, 0) = n
      BY <2>2, UpIs
    <3>2. kept[1][i] = nodes[1][i]
      BY <1>1, <1>6, <3>1 DEF Extends
    <3> QED BY <1>1, <3>1, <3>2
  <2> QED BY <2>1, <2>2
<1>9. /\ Up(n, D - 1) \in Nat /\ Up(n + 1, D - 1) \in Nat /\ Len(top) = Up(n + 1, D - 1)
      /\ Up(n + 1, D) = Up(n + 1, D - 1) \div 2
  <2>1. Up(n, D - 1) \in Nat
    BY <1>1, UpBelow
  <2>2. Up(n + 1, D - 1) \in Nat /\ Up(n + 1, D - 1 + 1) = Up(n + 1, D - 1) \div 2
    BY <1>1, UpIs
  <2> QED BY <1>1, <1>7, <2>1, <2>2
<1>10. D = 1 => Up(n, D - 1) = n /\ Up(n + 1, D - 1) = n + 1
  <2> Up(n, 0) = n /\ Up(n + 1, 0) = n + 1
    <3> 0 \in Nat OBVIOUS
    <3> QED BY <1>1, UpIs
  <2> QED BY <1>1
<1> HIDE DEF top
<1>11. CASE ~(Len(top) > 1)
  <2>1. more = kept
    BY <1>3, <1>11
  <2>2. Up(n + 1, D - 1) <= 1 /\ (D > 1 => Up(n + 1, D - 1) = 1)
    BY <1>1, <1>6, <1>9, <1>11
  <2>3. IsRange(kept, f, n + 1)
    BY <1>1, <1>6, <1>7, <1>8, <2>2 DEF IsRange
  <2> QED BY <1>6, <2>1, <2>3 DEF more
<1>12. CASE Len(top) > 1
  <2> DEFINE last == <<hash_pair(top[1], top[2])>>
  <2>1. Len(top) = 2 /\ Up(n + 1, D - 1) = 2 /\ Up(n + 1, D) = 1
    BY <1>1, <1>6, <1>9, <1>12
  <2>2. IsSeq(last) /\ Len(last) = 1 /\ last[1] = hash_pair(top[1], top[2])
    BY OneElement
  <2> HIDE DEF last
  <2>3. more = Append(kept, last)
    BY <1>3, <1>12 DEF last
  <2>4. /\ IsSeq(more) /\ Len(more) = D + 1 /\ more[D + 1] = last
        /\ \A i \in 1..D : more[i] = kept[i]
    <3>1. /\ IsSeq(Append(kept, last)) /\ Len(Append(kept, last)) = Len(kept) + 1
          /\ \A i \in 1..Len(kept) : Append(kept, last)[i] = kept[i]
          /\ Append(kept, last)[Len(kept) + 1] = last
      BY <1>6, AppendIs
    <3> QED BY <1>6, <2>3, <3>1
  <2>5. ASSUME NEW l \in 1..Len(more) PROVE IsSeq(more[l]) /\ Len(more[l]) = Up(n + 1, l - 1)
    <3>1. CASE l = D + 1
      <4> l - 1 = D BY <1>1, <3>1
      <4> QED BY <2>1, <2>2, <2>4, <3>1
    <3>2. CASE l # D + 1
      <4> l \in 1..D BY <1>1, <2>4, <3>2
      <4> QED BY <1>7, <2>4
    <3> QED BY <3>1, <3>2
  <2>6. ASSUME NEW l \in 1..(Len(more) - 1), NEW i \in 1..Up(n + 1, l)
        PROVE  more[l + 1][i] = hash_pair(more[l][2 * i - 1], more[l][2 * i])
    <3>1. l \in 1..D /\ more[l] = kept[l]
      BY <1>1, <2>4
    <3>2. CASE l = D
      <4> i = 1 BY <2>1, <3>2
      <4> QED BY <2>2, <2>4, <3>1, <3>2 DEF top
    <3>3. CASE l # D
      <4> l \in 1..(D - 1) /\ l + 1 \in 1..D /\ more[l + 1] = kept[l + 1] BY <1>1, <2>4, <3>1, <3>3
      <4> QED BY <1>6, <3>1
    <3> QED BY <3>2, <3>3
  <2>7. \A i \in 1..(n + 1) : more[1][i] = f[i]
    BY <1>1, <1>8, <2>4
  <2>8. Len(more) >= 1 /\ Len(more) - 1 = D
    BY <1>1, <2>4
  <2>9. IsRange(more, f, n + 1)
    BY <2>1, <2>4, <2>5, <2>6, <2>7, <2>8 DEF IsRange
  <2>10. Extends(more, nodes, n)
    <3> SUFFICES ASSUME NEW l \in 1..D, NEW i \in 1..Up(n, l - 1) PROVE more[l][i] = nodes[l][i]
      BY <1>1, <2>4 DEF Extends
    <3> kept[l][i] = nodes[l][i] BY <1>6 DEF Extends
    <3> QED BY <2>4
  <2> QED BY <2>9, <2>10 DEF more
<1> QED BY <1>11, <1>12

-----------------------------------------------------------------------------
(* The subroots.                                                            *)

\* The number of ones of a number from a bit on
Ones(n, l) == Cardinality({b \in l..WordBits : Bit(n, b) = 1})

\* The ones are counted bit by bit.
LEMMA OnesAre ==
  ASSUME NEW n \in Nat, NEW l \in Nat
  PROVE  /\ Ones(n, l) \in Nat
         /\ l <= WordBits => Ones(n, l) = Ones(n, l + 1) + Bit(n, l) /\ Bit(n, l) \in {0, 1}
         /\ l > WordBits => Ones(n, l) = 0
         /\ \A k \in l..WordBits : Bit(n, k) = 1 => Ones(n, k) \in 1..Ones(n, l)
         /\ (\A b \in l..WordBits : Bit(n, b) # 1) => Ones(n, l) = 0
<1> DEFINE S(j) == {b \in j..WordBits : Bit(n, b) = 1}
<1>1. WordBits \in Nat
  BY WidthTypes
<1>2. ASSUME NEW j \in Nat PROVE IsFiniteSet(S(j)) /\ Ones(n, j) = Cardinality(S(j)) /\ Ones(n, j) \in Nat
  <2>1. IsFiniteSet(j..WordBits)
    BY <1>1, FS_Interval
  <2>2. S(j) \subseteq j..WordBits
    OBVIOUS
  <2>3. IsFiniteSet(S(j))
    BY <2>1, <2>2, FS_Subset
  <2>4. Ones(n, j) = Cardinality(S(j))
    BY DEF Ones
  <2> HIDE DEF S
  <2> QED BY <2>3, <2>4, FS_CardinalityType
<1>3. ASSUME l <= WordBits
      PROVE  Ones(n, l) = Ones(n, l + 1) + Bit(n, l) /\ Bit(n, l) \in {0, 1}
  <2>1. Bit(n, l) \in {0, 1}
    BY UpIs
  <2>2. l + 1 \in Nat /\ IsFiniteSet(S(l + 1)) /\ l \notin S(l + 1)
    BY <1>2
  <2>3. CASE Bit(n, l) = 1
    <3>1. S(l) = S(l + 1) \cup {l}
      BY <1>1, <1>3, <2>3
    <3> HIDE DEF S
    <3>2. Cardinality(S(l + 1) \cup {l}) = Cardinality(S(l + 1)) + 1
      BY <2>2, FS_AddElement
    <3> QED BY <1>2, <2>2, <2>3, <3>1, <3>2
  <2>4. CASE Bit(n, l) # 1
    <3>1. S(l) = S(l + 1)
      BY <1>1, <1>3, <2>4
    <3> HIDE DEF S
    <3> QED BY <1>2, <2>1, <2>2, <2>4, <3>1
  <2> QED BY <2>1, <2>3, <2>4
<1>4. ASSUME \A b \in l..WordBits : Bit(n, b) # 1 PROVE Ones(n, l) = 0
  <2>1. S(l) = {}
    BY <1>4
  <2> HIDE DEF S
  <2> QED BY <1>2, <2>1, FS_EmptySet
<1>5. ASSUME NEW k \in l..WordBits, Bit(n, k) = 1 PROVE Ones(n, k) \in 1..Ones(n, l)
  <2>1. k \in Nat /\ S(k) \subseteq S(l) /\ k \in S(k)
    BY <1>1, <1>5
  <2>2. /\ IsFiniteSet(S(k)) /\ IsFiniteSet(S(l)) /\ Ones(n, k) = Cardinality(S(k))
        /\ Ones(n, l) = Cardinality(S(l)) /\ Ones(n, k) \in Nat /\ Ones(n, l) \in Nat
    BY <1>2, <2>1
  <2> HIDE DEF S
  <2>3. Cardinality(S(k)) <= Cardinality(S(l))
    BY <2>1, <2>2, FS_Subset
  <2>4. Cardinality(S(k)) # 0
    BY <2>1, <2>2, FS_EmptySet
  <2> QED BY <2>2, <2>3, <2>4
<1>6. l > WordBits => \A b \in l..WordBits : Bit(n, b) # 1
  BY <1>1
<1> QED BY <1>2, <1>3, <1>4, <1>5, <1>6

\* Every count up to the number of ones is that from one of them on.
LEMMA OnesReached ==
  ASSUME NEW n \in Nat, NEW i \in 1..Ones(n, 0)
  PROVE  \E l \in 0..WordBits : Bit(n, l) = 1 /\ Ones(n, l) = i
<1> DEFINE S == {l \in Nat : Ones(n, l) < i}
<1>1. WordBits \in Nat /\ 0 \in Nat /\ Ones(n, 0) \in Nat /\ i \in Nat
  BY WidthTypes, OnesAre
<1>2. WordBits + 1 \in S
  BY <1>1, OnesAre
<1>3. PICK l \in S : \A k \in S : l <= k
  <2> HIDE DEF S
  <2> S \in SUBSET Nat BY DEF S
  <2> QED BY <1>2, LeastNumber
<1>4. l # 0
  BY <1>1, <1>3
<1>5. PICK k \in Nat : l = k + 1
  <2> l - 1 \in Nat /\ l = (l - 1) + 1 BY <1>3, <1>4
  <2> QED OBVIOUS
<1>6. ~(Ones(n, k) < i) /\ k <= WordBits
  BY <1>1, <1>2, <1>3, <1>5
<1>7. Ones(n, k) = Ones(n, k + 1) + Bit(n, k) /\ Bit(n, k) \in {0, 1}
  BY <1>6, OnesAre
<1>8. Ones(n, k) \in Nat /\ Ones(n, k + 1) \in Nat /\ Ones(n, k + 1) < i
  BY <1>3, <1>5, OnesAre
<1>9. Ones(n, k) = i /\ Bit(n, k) = 1
  BY <1>1, <1>6, <1>7, <1>8
<1> QED BY <1>1, <1>6, <1>9

\* The subroots of a range: the last nodes of its odd rows, from the top one down
IsSubroots(sub, nodes, n) ==
  /\ IsSeq(sub) /\ Len(sub) = Ones(n, 0)
  /\ \A l \in 0..WordBits : Bit(n, l) = 1 => sub[Ones(n, l)] = nodes[l + 1][Up(n, l)]

\* A range has one sequence of subroots.
LEMMA SubrootsUnique ==
  ASSUME NEW n \in Nat, NEW nodes, NEW s, NEW t, IsSubroots(s, nodes, n), IsSubroots(t, nodes, n)
  PROVE  s = t
<1>1. IsSeq(s) /\ IsSeq(t) /\ Len(s) = Ones(n, 0) /\ Len(t) = Ones(n, 0)
  BY DEF IsSubroots
<1>2. ASSUME NEW i \in 1..Len(s) PROVE s[i] = t[i]
  <2>1. PICK l \in 0..WordBits : Bit(n, l) = 1 /\ Ones(n, l) = i
    BY <1>1, OnesReached
  <2> QED BY <2>1 DEF IsSubroots
<1> QED BY <1>1, <1>2, SeqSame

\* How high a range of u32 many leaves is.
LEMMA RangeHeight ==
  ASSUME NEW f, NEW n \in Nat, n < U32, NEW nodes, IsRange(nodes, f, n)
  PROVE  /\ Len(nodes) \in 1..(WordBits + 1)
         /\ \A l \in Nat : l >= Len(nodes) => Up(n, l) = 0 /\ Bit(n, l) = 0
         /\ \A l \in Nat : Up(n, l) # 0 => l + 1 \in 1..Len(nodes)
<1> DEFINE D == Len(nodes)
<1>1. /\ D \in Nat /\ D >= 1 /\ D - 1 \in Nat /\ D - 1 + 1 = D /\ WordBits \in Nat
      /\ Up(n, D - 1) <= 1 /\ (D > 1 => Up(n, D - 1) = 1)
  BY LenIs, WidthTypes DEF IsRange
<1> HIDE DEF D
<1>2. Up(n, D) = 0
  <2>1. Up(n, D - 1) \in Nat /\ Up(n, D - 1 + 1) = Up(n, D - 1) \div 2
    BY <1>1, UpIs
  <2>2. Up(n, D - 1) \in {0, 1}
    BY <1>1, <2>1
  <2> QED BY <1>1, <2>1, <2>2
<1>3. ASSUME NEW l \in Nat, l >= D PROVE Up(n, l) = 0 /\ Bit(n, l) = 0
  <2>1. Up(n, l) = 0
    BY <1>1, <1>2, <1>3, UpNothing
  <2>2. Bit(n, l) = Up(n, l) % 2
    BY UpIs
  <2> QED BY <2>1, <2>2
<1>4. D <= WordBits + 1
  <2>1. Up(n, WordBits) = 0
    BY <1>1, UpZero DEF U32
  <2>2. ASSUME D > WordBits + 1 PROVE FALSE
    <3>1. D - 1 >= WordBits /\ Up(n, D - 1) = 1
      BY <1>1, <2>2
    <3>2. Up(n, D - 1) = 0
      BY <1>1, <2>1, <3>1, UpNothing
    <3> QED BY <3>1, <3>2
  <2> QED BY <1>1, <2>2
<1>5. ASSUME NEW l \in Nat, Up(n, l) # 0 PROVE l + 1 \in 1..D
  <2>1. ~(l >= D)
    BY <1>3, <1>5
  <2> QED BY <1>1, <2>1
<1> QED BY <1>1, <1>3, <1>4, <1>5 DEF D

\* get_subroots gives the subroots.
LEMMA HostSubroots ==
  ASSUME NEW f, NEW n \in Nat, n < U32, NEW nodes, IsRange(nodes, f, n)
  PROVE  IsSubroots(get_subroots(nodes), nodes, n)
<1> DEFINE D == Len(nodes)
           R == Subroots(nodes)
           Ok(j) == /\ IsSeq(R[j]) /\ Len(R[j]) = Ones(n, D - j)
                    /\ \A b \in (D - j)..WordBits :
                         Bit(n, b) = 1 => R[j][Ones(n, b)] = nodes[b + 1][Up(n, b)]
           bad == {j \in Nat : j \in 0..D /\ ~Ok(j)}
<1>1. D \in Nat /\ D >= 1 /\ D <= WordBits + 1 /\ WordBits \in Nat
  BY RangeHeight, WidthTypes
<1>2. \A l \in 1..D : IsSeq(nodes[l]) /\ Len(nodes[l]) = Up(n, l - 1)
  BY DEF IsRange
<1>3. /\ R[0] = <<>>
      /\ \A k \in 1..D : R[k] = LET row == nodes[D + 1 - k]
                                IN IF Len(row) % 2 = 1 THEN Append(R[k - 1], row[Len(row)]) ELSE R[k - 1]
  BY <1>1, SubrootsAre DEF SubrootsNext
<1>4. \A b \in Nat : b >= D => Bit(n, b) = 0
  BY RangeHeight
<1> HIDE DEF R
<1>5. Ok(0)
  <2>1. IsSeq(R[0]) /\ Len(R[0]) = 0
    <3> <<>> \in Seq({}) /\ Len(<<>>) = 0 OBVIOUS
    <3> QED BY <1>3, SeqOf
  <2>2. \A b \in D..WordBits : Bit(n, b) = 0
    BY <1>1, <1>4
  <2>3. Ones(n, D) = 0
    <3>1. PICK d \in Nat : d = D
      BY <1>1
    <3>2. \A b \in d..WordBits : Bit(n, b) # 1
      BY <2>2, <3>1
    <3>3. Ones(n, d) = 0
      BY <3>2, OnesAre
    <3> QED BY <3>1, <3>3
  <2> QED BY <1>1, <2>1, <2>2, <2>3
<1>6. ASSUME NEW j \in 1..D, Ok(j - 1) PROVE Ok(j)
  <2>1. PICK b \in Nat : b = D - j /\ D - (j - 1) = b + 1 /\ D + 1 - j = b + 1
         /\ b <= WordBits /\ b + 1 \in 1..D
    <3> D - j \in Nat /\ D - (j - 1) = (D - j) + 1 /\ D + 1 - j = (D - j) + 1 /\ D - j <= WordBits
        /\ (D - j) + 1 \in 1..D
      BY <1>1
    <3> QED OBVIOUS
  <2> DEFINE row == nodes[b + 1]
             before == R[j - 1]
  <2>2. /\ IsSeq(before) /\ Len(before) = Ones(n, b + 1)
        /\ \A c \in (b + 1)..WordBits :
             Bit(n, c) = 1 => before[Ones(n, c)] = nodes[c + 1][Up(n, c)]
    BY <1>6, <2>1
  <2>3. R[j] = IF Len(row) % 2 = 1 THEN Append(before, row[Len(row)]) ELSE before
    BY <1>3, <2>1
  <2>4. Len(row) = Up(n, b) /\ Bit(n, b) = Up(n, b) % 2
    <3>1. Len(row) = Up(n, b + 1 - 1) /\ b + 1 - 1 = b
      BY <1>2, <2>1
    <3> QED BY <3>1, UpIs
  <2>5. Ones(n, b) = Ones(n, b + 1) + Bit(n, b) /\ Bit(n, b) \in {0, 1} /\ Ones(n, b + 1) \in Nat
    <3> b + 1 \in Nat OBVIOUS
    <3> QED BY <2>1, OnesAre
  <2>6. ASSUME NEW c \in (b + 1)..WordBits, Bit(n, c) = 1 PROVE Ones(n, c) \in 1..Len(before)
    <3> b + 1 \in Nat OBVIOUS
    <3> QED BY <2>2, <2>6, OnesAre
  <2> HIDE DEF before, row
  <2>7. CASE Bit(n, b) = 1
    <3>1. R[j] = Append(before, row[Len(row)])
      BY <2>3, <2>4, <2>7
    <3>2. /\ IsSeq(R[j]) /\ Len(R[j]) = Len(before) + 1
          /\ \A i \in 1..Len(before) : R[j][i] = before[i]
          /\ R[j][Len(before) + 1] = row[Len(row)]
      BY <2>2, <3>1, AppendIs
    <3>3. ASSUME NEW c \in b..WordBits, Bit(n, c) = 1 PROVE R[j][Ones(n, c)] = nodes[c + 1][Up(n, c)]
      <4>1. CASE c = b
        BY <2>2, <2>4, <2>5, <2>7, <3>2, <4>1 DEF row
      <4>2. CASE c # b
        <5>1. c \in (b + 1)..WordBits
          BY <4>2
        <5> QED BY <2>2, <2>6, <3>2, <3>3, <5>1
      <4> QED BY <4>1, <4>2
    <3> QED BY <2>1, <2>2, <2>5, <2>7, <3>2, <3>3
  <2>8. CASE Bit(n, b) # 1
    <3>1. R[j] = before /\ Ones(n, b) = Ones(n, b + 1)
      BY <2>3, <2>4, <2>5, <2>8
    <3>2. ASSUME NEW c \in b..WordBits, Bit(n, c) = 1 PROVE R[j][Ones(n, c)] = nodes[c + 1][Up(n, c)]
      <4> c \in (b + 1)..WordBits BY <2>8, <3>2
      <4> QED BY <2>2, <3>1, <3>2
    <3> QED BY <2>1, <2>2, <3>1, <3>2
  <2> QED BY <2>7, <2>8
<1>7. \A j \in 0..D : Ok(j)
  <2> SUFFICES ASSUME bad # {} PROVE FALSE
    BY <1>1
  <2>1. PICK j \in bad : \A k \in bad : j <= k
    <3> HIDE DEF bad
    <3> bad \in SUBSET Nat BY DEF bad
    <3> QED BY LeastNumber
  <2>2. j # 0
    BY <1>5, <2>1
  <2>3. j \in 1..D /\ j - 1 \in Nat /\ j - 1 \in 0..D /\ ~(j <= j - 1)
    BY <1>1, <2>1, <2>2
  <2>4. Ok(j - 1)
    BY <2>1, <2>3
  <2>5. Ok(j)
    <3> HIDE DEF Ok
    <3> QED BY <1>6, <2>3, <2>4
  <2> QED BY <2>1, <2>5
<1>8. Ok(D) /\ D - D = 0 /\ get_subroots(nodes) = R[D]
  <2>1. Ok(D) BY <1>1, <1>7
  <2>2. get_subroots(nodes) = R[D] BY DEF get_subroots, R
  <2> QED BY <1>1, <2>1, <2>2
<1> QED BY <1>8 DEF IsSubroots

\* Merges counts the trailing ones.
LEMMA MergesIs ==
  ASSUME NEW n \in Nat, n < U32
  PROVE  /\ Merges(n) \in 0..WordBits /\ Bit(n, Merges(n)) = 0
         /\ \A j \in Nat : j < Merges(n) => Bit(n, j) = 1
<1> DEFINE S == {k \in 0..WordBits : Bit(n, k) = 0}
<1>1. WordBits \in Nat /\ WordBits \in S
  <2>1. WordBits \in Nat
    BY WidthTypes
  <2>2. Up(n, WordBits) = 0
    BY <2>1, UpZero DEF U32
  <2> QED BY <2>1, <2>2, UpIs
<1>2. PICK k \in S : \A j \in S : k <= j
  <2>1. S \in SUBSET Nat
    BY <1>1
  <2> HIDE DEF S
  <2> QED BY <1>1, <2>1, LeastNumber
<1>3. Merges(n) = k
  <2>1. Merges(n) = Min(S)
    BY DEF Merges
  <2>2. S \subseteq Nat
    BY <1>1
  <2> HIDE DEF S
  <2>3. \A x \in S : (\A y \in S : x <= y) => x = k
    BY <1>2, <2>2
  <2> QED BY <1>2, <2>1, <2>3 DEF Min
<1>4. ASSUME NEW j \in Nat, j < k PROVE Bit(n, j) = 1
  <2>1. j \notin S /\ j \in 0..WordBits
    BY <1>1, <1>2, <1>4
  <2>2. Bit(n, j) \in {0, 1}
    BY UpIs
  <2> QED BY <2>1, <2>2
<1> QED BY <1>2, <1>3, <1>4

\* The bits of the successor: the trailing ones are gone, and the zero is a one.
LEMMA CarryTo ==
  ASSUME NEW n \in Nat, NEW k \in Nat, Bit(n, k) = 0, \A j \in Nat : j < k => Bit(n, j) = 1
  PROVE  /\ \A l \in 0..k : Up(n + 1, l) = Up(n, l) + 1
         /\ \A l \in Nat : l > k => Up(n + 1, l) = Up(n, l) /\ Bit(n + 1, l) = Bit(n, l)
         /\ Bit(n + 1, k) = 1 /\ \A l \in Nat : l < k => Bit(n + 1, l) = 0
<1> DEFINE bad == {l \in Nat : l <= k /\ Up(n + 1, l) # Up(n, l) + 1}
<1>1. n + 1 \in Nat
  OBVIOUS
<1>2. \A l \in Nat : /\ Up(n, l) \in Nat /\ Up(n + 1, l) \in Nat
                     /\ Bit(n, l) = Up(n, l) % 2 /\ Bit(n + 1, l) = Up(n + 1, l) % 2
  BY <1>1, UpIs
<1>3. ASSUME bad # {} PROVE FALSE
  <2>1. PICK l \in bad : \A j \in bad : l <= j
    <3> HIDE DEF bad
    <3> bad \in SUBSET Nat BY DEF bad
    <3> QED BY <1>3, LeastNumber
  <2>2. l # 0
    <3> 0 \in Nat OBVIOUS
    <3> Up(n, 0) = n /\ Up(n + 1, 0) = n + 1 BY <1>1, UpIs
    <3> QED BY <2>1
  <2>3. PICK j \in Nat : l = j + 1
    <3> l - 1 \in Nat /\ l = (l - 1) + 1 BY <2>1, <2>2
    <3> QED OBVIOUS
  <2>4. Up(n + 1, j) = Up(n, j) + 1 /\ j < k
    BY <2>1, <2>3
  <2>5. Up(n, j) % 2 = 1
    BY <1>2, <2>4
  <2>6. Up(n + 1, j) % 2 = 0
    BY <1>2, <2>4, <2>5
  <2>7. Up(n + 1, j + 1) = Up(n, j + 1) + 1
    BY <2>4, <2>6, CarryIs
  <2> QED BY <2>1, <2>3, <2>7
<1>4. \A l \in 0..k : Up(n + 1, l) = Up(n, l) + 1
  BY <1>3
<1>5. Bit(n + 1, k) = 1 /\ Up(n + 1, k + 1) = Up(n, k + 1)
  <2>1. Up(n + 1, k) = Up(n, k) + 1
    BY <1>4
  <2>2. Up(n, k) % 2 = 0
    BY <1>2
  <2>3. Up(n + 1, k) % 2 = 1
    <3> Up(n, k) \in Nat BY <1>2
    <3> QED BY <2>1, <2>2
  <2> QED BY <1>2, <2>1, <2>3, CarryIs
<1>6. ASSUME NEW l \in Nat, l > k PROVE Up(n + 1, l) = Up(n, l) /\ Bit(n + 1, l) = Bit(n, l)
  <2> k + 1 \in Nat /\ l >= k + 1 BY <1>6
  <2> Up(n + 1, l) = Up(n, l) BY <1>1, <1>5, UpTogether
  <2> QED BY <1>2
<1>7. ASSUME NEW l \in Nat, l < k PROVE Bit(n + 1, l) = 0
  <2>1. Up(n + 1, l) = Up(n, l) + 1 /\ Up(n, l) % 2 = 1
    BY <1>2, <1>4, <1>7
  <2> QED BY <1>2, <2>1
<1> QED BY <1>4, <1>5, <1>6, <1>7

\* The ones of a number and of its successor, where k is the first zero.
LEMMA OnesCarry ==
  ASSUME NEW n \in Nat, NEW k \in 0..WordBits, Bit(n, k) = 0, \A j \in Nat : j < k => Bit(n, j) = 1
  PROVE  /\ \A l \in Nat : l > k => Ones(n + 1, l) = Ones(n, l)
         /\ \A l \in 0..k : Ones(n, 0) = Ones(n, l) + l /\ Ones(n + 1, 0) = Ones(n + 1, l)
         /\ Ones(n, k) = Ones(n, k + 1) /\ Ones(n + 1, k) = Ones(n, k + 1) + 1
<1>1. WordBits \in Nat /\ k \in Nat /\ n + 1 \in Nat /\ k + 1 \in Nat /\ k <= WordBits
  BY WidthTypes
<1>2. /\ \A l \in Nat : l > k => Bit(n + 1, l) = Bit(n, l)
      /\ Bit(n + 1, k) = 1 /\ \A l \in Nat : l < k => Bit(n + 1, l) = 0
  BY <1>1, CarryTo
<1>3. ASSUME NEW l \in Nat, l > k PROVE Ones(n + 1, l) = Ones(n, l)
  <2> \A b \in l..WordBits : Bit(n + 1, b) = Bit(n, b)
    BY <1>1, <1>2, <1>3
  <2> {b \in l..WordBits : Bit(n + 1, b) = 1} = {b \in l..WordBits : Bit(n, b) = 1}
    OBVIOUS
  <2> QED BY DEF Ones
<1>4. \A l \in Nat : l <= WordBits => /\ Ones(n, l) = Ones(n, l + 1) + Bit(n, l)
                                      /\ Ones(n + 1, l) = Ones(n + 1, l + 1) + Bit(n + 1, l)
  BY <1>1, OnesAre
<1>5. \A l \in Nat : Ones(n, l) \in Nat /\ Ones(n + 1, l) \in Nat
  BY <1>1, OnesAre
<1> DEFINE bad == {l \in Nat : l <= k /\ ~(Ones(n, 0) = Ones(n, l) + l /\ Ones(n + 1, 0) = Ones(n + 1, l))}
<1>6. ASSUME bad # {} PROVE FALSE
  <2>1. PICK l \in bad : \A j \in bad : l <= j
    <3> HIDE DEF bad
    <3> bad \in SUBSET Nat BY DEF bad
    <3> QED BY <1>6, LeastNumber
  <2>2. l # 0
    BY <1>5, <2>1
  <2>3. PICK j \in Nat : l = j + 1
    <3> l - 1 \in Nat /\ l = (l - 1) + 1 BY <2>1, <2>2
    <3> QED OBVIOUS
  <2>4. Ones(n, 0) = Ones(n, j) + j /\ Ones(n + 1, 0) = Ones(n + 1, j) /\ j < k
    BY <2>1, <2>3
  <2>5. Ones(n, j) = Ones(n, j + 1) + 1 /\ Ones(n + 1, j) = Ones(n + 1, j + 1) + 0
    BY <1>1, <1>2, <1>4, <2>4
  <2> QED BY <1>5, <2>1, <2>3, <2>4, <2>5
<1>7. Ones(n, k) = Ones(n, k + 1) + 0 /\ Ones(n + 1, k) = Ones(n + 1, k + 1) + 1
  BY <1>1, <1>2, <1>4
<1>8. Ones(n, k) = Ones(n, k + 1) /\ Ones(n + 1, k) = Ones(n, k + 1) + 1
  BY <1>1, <1>3, <1>5, <1>7
<1>9. \A l \in 0..k : Ones(n, 0) = Ones(n, l) + l /\ Ones(n + 1, 0) = Ones(n + 1, l)
  BY <1>6
<1> QED BY <1>3, <1>8, <1>9

\* The subroots that a new leaf merges with, the last one first
IsSiblings(siblings, sub, n) ==
  siblings = [j \in 1..Merges(n) |-> sub[Len(sub) + 1 - j]]

\* The subroot that a new leaf ends in, after merging with the last ones.
LEMMA LeafClimbs ==
  ASSUME NEW f, NEW n \in Nat, n + 1 < U32, NEW nodes, IsRange(nodes, f, n),
         NEW more, IsRange(more, f, n + 1), Extends(more, nodes, n),
         NEW sub, IsSubroots(sub, nodes, n),
         NEW siblings, IsSiblings(siblings, sub, n), NEW leaf, leaf = f[n + 1]
  PROVE  Climb(leaf, siblings, n)[Merges(n)] = more[Merges(n) + 1][Up(n + 1, Merges(n))]
<1> DEFINE k == Merges(n)
           C == Climb(leaf, siblings, n)
           bad == {j \in Nat : j <= k /\ C[j] # more[j + 1][Up(n + 1, j)]}
<1>1. n + 1 \in Nat /\ n < U32 /\ U32 \in Nat
  <2> U32 \in Nat BY WordTypes
  <2> QED OBVIOUS
<1>2. k \in 0..WordBits /\ k \in Nat /\ Bit(n, k) = 0 /\ (\A j \in Nat : j < k => Bit(n, j) = 1)
  BY <1>1, MergesIs
<1> HIDE DEF k
<1>3. Len(siblings) = k
  <2> siblings \in [1..k -> {sub[i] : i \in Int}]
    <3> \A j \in 1..k : Len(sub) + 1 - j \in Int
      BY LenIs DEF IsSubroots
    <3> QED BY DEF k, IsSiblings
  <2> QED BY <1>2, SeqOf
<1>4. /\ C[0] = leaf
      /\ \A j \in 1..k : C[j] = IF Bit(n, j - 1) = 1 THEN hash_pair(siblings[j], C[j - 1])
                                ELSE hash_pair(C[j - 1], siblings[j])
  BY <1>2, <1>3, ClimbAre DEF ClimbNext
<1> HIDE DEF C
<1>5. /\ \A l \in 0..k : Up(n + 1, l) = Up(n, l) + 1
      /\ Bit(n + 1, k) = 1 /\ \A l \in Nat : l < k => Bit(n + 1, l) = 0
  BY <1>2, CarryTo
<1>6. \A l \in 0..k : Ones(n, 0) = Ones(n, l) + l
  BY <1>2, OnesCarry
<1>7. SUFFICES ASSUME bad # {} PROVE FALSE
  BY <1>2 DEF C, k
<1>8. PICK j \in bad : \A i \in bad : j <= i
  <2> HIDE DEF bad
  <2> bad \in SUBSET Nat BY DEF bad
  <2> QED BY <1>7, LeastNumber
<1>9. j # 0
  <2>1. Up(n + 1, 0) = n + 1
    <3> 0 \in Nat OBVIOUS
    <3> QED BY <1>1, UpIs
  <2>2. more[1][n + 1] = f[n + 1]
    BY DEF IsRange
  <2> QED BY <1>4, <1>8, <2>1, <2>2
<1>10. PICK i \in Nat : j = i + 1 /\ i < k /\ i \in 0..k /\ j \in 0..k /\ j \in 1..k /\ j - 1 = i
  <2> j - 1 \in Nat /\ j = (j - 1) + 1 /\ j - 1 < k /\ j - 1 \in 0..k /\ j \in 0..k /\ j \in 1..k
    BY <1>2, <1>8, <1>9
  <2> QED OBVIOUS
<1>11. C[i] = more[i + 1][Up(n + 1, i)]
  BY <1>8, <1>10
<1>12. C[j] = hash_pair(siblings[j], C[i])
  BY <1>2, <1>4, <1>10
<1>13. siblings[j] = more[j][Up(n, i)]
  <2>1. Len(sub) = Ones(n, 0) /\ Ones(n, i) \in Nat /\ Ones(n, 0) = Ones(n, i) + i
    <3> Len(sub) = Ones(n, 0) BY DEF IsSubroots
    <3> Ones(n, i) \in Nat BY OnesAre
    <3> QED BY <1>6, <1>10
  <2>2. Len(sub) + 1 - j = Ones(n, i)
    BY <1>10, <2>1
  <2>3. siblings[j] = sub[Ones(n, i)]
    BY <1>10, <2>2 DEF k, IsSiblings
  <2>4. i \in 0..WordBits /\ Bit(n, i) = 1
    BY <1>2, <1>10, WidthTypes
  <2>5. sub[Ones(n, i)] = nodes[i + 1][Up(n, i)]
    BY <2>4 DEF IsSubroots
  <2>6. Up(n, i) \in Nat /\ Up(n, i) # 0
    <3> Up(n, i) \in Nat /\ Bit(n, i) = Up(n, i) % 2 BY UpIs
    <3> QED BY <2>4
  <2>7. j \in 1..Len(nodes) /\ j - 1 = i
    <3> i + 1 \in 1..Len(nodes) BY <1>1, <2>6, RangeHeight
    <3> QED BY <1>10
  <2>8. Up(n, i) \in 1..Up(n, j - 1)
    BY <2>6, <2>7
  <2>9. more[j][Up(n, i)] = nodes[j][Up(n, i)]
    BY <2>7, <2>8 DEF Extends
  <2> QED BY <1>10, <2>3, <2>5, <2>9
<1>14. /\ Up(n + 1, j) \in Nat /\ Up(n + 1, j) # 0 /\ Up(n + 1, i) = 2 * Up(n + 1, j)
       /\ Up(n, i) = 2 * Up(n + 1, j) - 1
  <2>1. /\ Up(n + 1, i) = 2 * Up(n + 1, i + 1) + (Up(n + 1, i) % 2) /\ Bit(n + 1, i) = Up(n + 1, i) % 2
        /\ Up(n + 1, i) \in Nat
    BY <1>1, UpIs
  <2>2. Bit(n + 1, i) = 0
    BY <1>5, <1>10
  <2>3. Up(n + 1, j) \in Nat /\ Up(n, j) \in Nat /\ Up(n, i) \in Nat
    BY <1>1, <1>8, UpIs
  <2>4. Up(n + 1, j) = Up(n, j) + 1 /\ Up(n + 1, i) = Up(n, i) + 1
    BY <1>5, <1>10
  <2>5. Up(n + 1, i) = 2 * Up(n + 1, j)
    BY <1>10, <2>1, <2>2, <2>3
  <2> QED BY <2>3, <2>4, <2>5
<1>15. j \in 1..(Len(more) - 1)
  <2>1. j + 1 \in 1..Len(more) /\ Len(more) \in Nat
    <3> j \in Nat BY <1>8
    <3> Len(more) \in Nat BY LenIs DEF IsRange
    <3> QED BY <1>1, <1>14, RangeHeight
  <2> QED BY <1>8, <1>10, <2>1
<1>16. more[j + 1][Up(n + 1, j)] = hash_pair(more[j][2 * Up(n + 1, j) - 1], more[j][2 * Up(n + 1, j)])
  <2> Up(n + 1, j) \in 1..Up(n + 1, j) BY <1>14
  <2> QED BY <1>15 DEF IsRange
<1> QED BY <1>8, <1>10, <1>11, <1>12, <1>13, <1>14, <1>16

\* The guest's append gives the subroots of the host's range.
LEMMA GuestAppends ==
  ASSUME NEW f, NEW n \in Nat, n + 1 < U32, NEW nodes, IsRange(nodes, f, n),
         NEW more, IsRange(more, f, n + 1), Extends(more, nodes, n),
         NEW mmr, mmr.size = n, IsSubroots(mmr.subroots, nodes, n)
  PROVE  IsSubroots(GuestAppend(mmr, f[n + 1]).subroots, more, n + 1)
<1> DEFINE k == Merges(n)
           sub == mmr.subroots
           siblings == [j \in 1..k |-> sub[Len(sub) + 1 - j]]
           leaf == f[n + 1]
           node == Climb(leaf, siblings, n)[k]
           kept == SubSeq(sub, 1, Len(sub) - k)
           next == GuestAppend(mmr, f[n + 1]).subroots
<1>1. n + 1 \in Nat /\ n < U32 /\ U32 \in Nat /\ WordBits \in Nat
  <2> U32 \in Nat /\ WordBits \in Nat BY WordTypes, WidthTypes
  <2> QED OBVIOUS
<1>2. k \in 0..WordBits /\ k \in Nat /\ Bit(n, k) = 0 /\ (\A j \in Nat : j < k => Bit(n, j) = 1)
  BY <1>1, MergesIs
<1>3. node = more[k + 1][Up(n + 1, k)]
  <2>1. IsSiblings(siblings, sub, n) /\ IsSubroots(sub, nodes, n) /\ leaf = f[n + 1]
    BY DEF IsSiblings
  <2> HIDE DEF siblings, sub, leaf
  <2> QED BY <2>1, LeafClimbs
<1>4. next = Append(kept, node)
  BY DEF GuestAppend
<1>5. IsSeq(sub) /\ Len(sub) = Ones(n, 0)
  BY DEF IsSubroots
<1> HIDE DEF k, next, node, siblings
<1>6. /\ \A l \in Nat : l > k => Ones(n + 1, l) = Ones(n, l)
      /\ Ones(n, 0) = Ones(n, k + 1) + k /\ Ones(n + 1, 0) = Ones(n, k + 1) + 1
      /\ Ones(n + 1, k) = Ones(n, k + 1) + 1 /\ Ones(n, k + 1) \in Nat
  <2>1. /\ \A l \in Nat : l > k => Ones(n + 1, l) = Ones(n, l)
        /\ \A l \in 0..k : Ones(n, 0) = Ones(n, l) + l /\ Ones(n + 1, 0) = Ones(n + 1, l)
        /\ Ones(n, k) = Ones(n, k + 1) /\ Ones(n + 1, k) = Ones(n, k + 1) + 1
    BY <1>2, OnesCarry
  <2>2. k + 1 \in Nat /\ k \in 0..k
    BY <1>2
  <2>3. Ones(n, k + 1) \in Nat
    BY <2>2, OnesAre
  <2> QED BY <2>1, <2>2, <2>3
<1>7. /\ IsSeq(kept) /\ Len(kept) = Ones(n, k + 1)
      /\ \A i \in 1..Ones(n, k + 1) : kept[i] = sub[i]
  <2> Len(sub) - k = Ones(n, k + 1) /\ Len(sub) - k \in 0..Len(sub)
    BY <1>2, <1>5, <1>6
  <2> QED BY <1>5, SubSeqIs
<1> HIDE DEF kept, sub
<1>8. /\ IsSeq(next) /\ Len(next) = Ones(n + 1, 0)
      /\ \A i \in 1..Ones(n, k + 1) : next[i] = sub[i]
      /\ next[Ones(n + 1, k)] = node
  <2> /\ IsSeq(next) /\ Len(next) = Len(kept) + 1
      /\ \A i \in 1..Len(kept) : next[i] = kept[i]
      /\ next[Len(kept) + 1] = node
    BY <1>4, <1>7, AppendIs
  <2> QED BY <1>6, <1>7
<1>9. /\ \A l \in Nat : l > k => Up(n + 1, l) = Up(n, l) /\ Bit(n + 1, l) = Bit(n, l)
      /\ Bit(n + 1, k) = 1 /\ \A l \in Nat : l < k => Bit(n + 1, l) = 0
  BY <1>2, CarryTo
<1>10. ASSUME NEW l \in 0..WordBits, Bit(n + 1, l) = 1
       PROVE  next[Ones(n + 1, l)] = more[l + 1][Up(n + 1, l)]
  <2>1. l \in Nat
    BY <1>1
  <2>2. CASE l < k
    BY <1>9, <1>10, <2>1, <2>2
  <2>3. CASE l = k
    BY <1>3, <1>8, <2>3
  <2>4. CASE l > k
    <3>1. Up(n + 1, l) = Up(n, l) /\ Bit(n, l) = 1 /\ Ones(n + 1, l) = Ones(n, l)
      BY <1>6, <1>9, <1>10, <2>1, <2>4
    <3>2. sub[Ones(n, l)] = nodes[l + 1][Up(n, l)]
      BY <3>1 DEF IsSubroots, sub
    <3>3. Ones(n, l) \in 1..Ones(n, k + 1)
      <4> k + 1 \in Nat /\ l \in (k + 1)..WordBits BY <1>1, <1>2, <2>4
      <4> QED BY <3>1, OnesAre
    <3>4. Up(n, l) \in Nat /\ Up(n, l) # 0
      <4> Up(n, l) \in Nat /\ Bit(n, l) = Up(n, l) % 2 BY <2>1, UpIs
      <4> QED BY <3>1
    <3>5. more[l + 1][Up(n, l)] = nodes[l + 1][Up(n, l)]
      <4>1. PICK m \in 1..Len(nodes) : m = l + 1 /\ m - 1 = l
        <5> l + 1 \in 1..Len(nodes) /\ l + 1 - 1 = l BY <1>1, <2>1, <3>4, RangeHeight
        <5> QED OBVIOUS
      <4>2. Up(n, l) \in 1..Up(n, m - 1)
        BY <3>4, <4>1
      <4> QED BY <4>1, <4>2 DEF Extends
    <3> QED BY <1>8, <3>1, <3>2, <3>3, <3>5
  <2> QED BY <1>2, <2>1, <2>2, <2>3, <2>4
<1> QED BY <1>8, <1>10 DEF IsSubroots, next

\* The leaves of a range: the hashes of the blocks
Leaves(hs) == [i \in 1..Len(hs) |-> compute_block_hash(hs[i])]

\* The host's range after n blocks is the range over n hashes.
LEMMA HostRanges ==
  ASSUME NEW hs, Len(hs) \in Nat
  PROVE  \A n \in 0..Len(hs) : IsRange(HostMmrs(hs)[n], Leaves(hs), n)
<1> DEFINE H == HostMmrs(hs)
           f == Leaves(hs)
           bad == {n \in Nat : n \in 0..Len(hs) /\ ~IsRange(H[n], f, n)}
<1>1. /\ H[0] = NativeNew
      /\ \A n \in 1..Len(hs) : H[n] = NativeAppend(H[n - 1], compute_block_hash(hs[n]))
  BY HostMmrsAre DEF HostMmrsNext
<1>2. \A n \in 1..Len(hs) : f[n] = compute_block_hash(hs[n])
  BY DEF Leaves
<1> HIDE DEF H, f
<1> SUFFICES ASSUME bad # {} PROVE FALSE
  BY DEF H, f
<1>3. PICK n \in bad : \A m \in bad : n <= m
  <2> HIDE DEF bad
  <2> bad \in SUBSET Nat BY DEF bad
  <2> QED BY LeastNumber
<1>4. n # 0
  BY <1>1, <1>3, RangeStarts
<1>5. PICK m \in Nat : n = m + 1 /\ n - 1 = m /\ m \in 0..Len(hs) /\ n \in 1..Len(hs)
  <2> n - 1 \in Nat /\ n = (n - 1) + 1 /\ n - 1 \in 0..Len(hs) /\ n \in 1..Len(hs)
    BY <1>3, <1>4
  <2> QED OBVIOUS
<1>6. IsRange(H[m], f, m)
  BY <1>3, <1>5
<1>7. H[n] = NativeAppend(H[m], f[m + 1])
  BY <1>1, <1>2, <1>5
<1>8. IsRange(NativeAppend(H[m], f[m + 1]), f, m + 1)
  BY <1>6, RangeAppends
<1> QED BY <1>3, <1>5, <1>7, <1>8

\* The host's range over the first blocks does not depend on the others.
LEMMA HostOfPrefix ==
  ASSUME NEW hs, NEW more, Len(hs) \in Nat, Len(more) \in Nat, Len(hs) <= Len(more),
         \A k \in 1..Len(hs) : hs[k] = more[k]
  PROVE  \A k \in 0..Len(hs) : HostMmrs(hs)[k] = HostMmrs(more)[k]
<1> DEFINE G == HostMmrs(hs)
           H == HostMmrs(more)
           bad == {k \in Nat : k \in 0..Len(hs) /\ G[k] # H[k]}
<1>1. /\ G[0] = NativeNew
      /\ \A n \in 1..Len(hs) : G[n] = NativeAppend(G[n - 1], compute_block_hash(hs[n]))
  BY HostMmrsAre DEF HostMmrsNext
<1>2. /\ H[0] = NativeNew
      /\ \A n \in 1..Len(more) : H[n] = NativeAppend(H[n - 1], compute_block_hash(more[n]))
  BY HostMmrsAre DEF HostMmrsNext
<1> HIDE DEF G, H
<1> SUFFICES ASSUME bad # {} PROVE FALSE
  BY DEF G, H
<1>3. PICK k \in bad : \A m \in bad : k <= m
  <2> HIDE DEF bad
  <2> bad \in SUBSET Nat BY DEF bad
  <2> QED BY LeastNumber
<1>4. k # 0
  BY <1>1, <1>2, <1>3
<1>5. k - 1 \in Nat /\ k - 1 \in 0..Len(hs) /\ k \in 1..Len(hs) /\ k \in 1..Len(more)
  BY <1>3, <1>4
<1>6. G[k - 1] = H[k - 1]
  BY <1>3, <1>5
<1> QED BY <1>1, <1>2, <1>3, <1>5, <1>6

\* The guest's subroots, after any number of blocks, are those of the host.
LEMMA MountainStep ==
  ASSUME NEW hs, Len(hs) \in Nat, Len(hs) < U32, NEW n \in 0..(Len(hs) - 1),
         NEW mmr, mmr.size = n, mmr.subroots = get_subroots(HostMmrs(hs)[n])
  PROVE  /\ GuestAppend(mmr, compute_block_hash(hs[n + 1])).subroots
              = get_subroots(HostMmrs(hs)[n + 1])
         /\ GuestAppend(mmr, compute_block_hash(hs[n + 1])).size = n + 1
<1> DEFINE H == HostMmrs(hs)
           f == Leaves(hs)
           more == NativeAppend(H[n], f[n + 1])
           next == GuestAppend(mmr, f[n + 1])
<1>1. n \in Nat /\ n + 1 \in Nat /\ n \in 0..Len(hs) /\ n + 1 \in 0..Len(hs) /\ n + 1 \in 1..Len(hs)
      /\ n + 1 - 1 = n /\ U32 \in Nat
  BY WordTypes
<1>2. n < U32 /\ n + 1 < U32
  BY <1>1
<1>3. f[n + 1] = compute_block_hash(hs[n + 1])
  BY <1>1 DEF Leaves
<1>4. H[n + 1] = more
  BY <1>1, <1>3, HostMmrsAre DEF HostMmrsNext
<1>5. IsRange(H[n], f, n)
  BY <1>1, HostRanges
<1> HIDE DEF H, f
<1>6. IsRange(more, f, n + 1) /\ Extends(more, H[n], n)
  BY <1>1, <1>5, RangeAppends
<1> HIDE DEF more
<1>7. IsSubroots(get_subroots(H[n]), H[n], n)
  BY <1>1, <1>2, <1>5, HostSubroots
<1>8. IsSubroots(mmr.subroots, H[n], n)
  BY <1>7 DEF H
<1>9. IsSubroots(next.subroots, more, n + 1)
  BY <1>1, <1>2, <1>5, <1>6, <1>8, GuestAppends
<1>10. IsSubroots(get_subroots(more), more, n + 1)
  BY <1>1, <1>2, <1>6, HostSubroots
<1>11. next.subroots = get_subroots(more)
  BY <1>1, <1>9, <1>10, SubrootsUnique
<1>12. next.size = n + 1
  BY DEF GuestAppend
<1> QED BY <1>3, <1>4, <1>11, <1>12 DEF H

-----------------------------------------------------------------------------
(* Inclusion proofs.                                                        *)

\* Different nodes have different parents.
LEMMA PairsDiffer ==
  ASSUME NEW a, NEW b, NEW c, NEW d, hash_pair(a, b) = hash_pair(c, d)
  PROVE  a = c /\ b = d
<1> DEFINE x == hash_pair(a, b)
           y == hash_pair(c, d)
<1>1. x.sha256.left = a /\ x.sha256.right = b
  BY DEF hash_pair, calculate_sha256, Concat
<1>2. y.sha256.left = c /\ y.sha256.right = d
  BY DEF hash_pair, calculate_sha256, Concat
<1>3. x = y
  OBVIOUS
<1> HIDE DEF x, y
<1> QED BY <1>1, <1>2, <1>3

\* Different leaves climb to different nodes.
LEMMA ClimbsDiffer ==
  ASSUME NEW a, NEW b, NEW siblings, Len(siblings) \in Nat, NEW index,
         NEW n \in 0..Len(siblings), Climb(a, siblings, index)[n] = Climb(b, siblings, index)[n]
  PROVE  a = b
<1> DEFINE A == Climb(a, siblings, index)
           B == Climb(b, siblings, index)
           same == {j \in Nat : j \in 0..Len(siblings) /\ A[j] = B[j]}
<1>1. /\ A[0] = a
      /\ \A k \in 1..Len(siblings) : A[k] = IF Bit(index, k - 1) = 1 THEN hash_pair(siblings[k], A[k - 1])
                                            ELSE hash_pair(A[k - 1], siblings[k])
  BY ClimbAre DEF ClimbNext
<1>2. /\ B[0] = b
      /\ \A k \in 1..Len(siblings) : B[k] = IF Bit(index, k - 1) = 1 THEN hash_pair(siblings[k], B[k - 1])
                                            ELSE hash_pair(B[k - 1], siblings[k])
  BY ClimbAre DEF ClimbNext
<1> HIDE DEF A, B
<1>3. n \in same
  BY DEF A, B
<1>4. PICK j \in same : \A k \in same : j <= k
  <2> HIDE DEF same
  <2> same \in SUBSET Nat BY DEF same
  <2> QED BY <1>3, LeastNumber
<1>5. ASSUME j # 0 PROVE FALSE
  <2>1. j \in 1..Len(siblings) /\ j - 1 \in Nat /\ j - 1 \in 0..Len(siblings) /\ ~(j <= j - 1)
    BY <1>4, <1>5
  <2>2. A[j - 1] = B[j - 1]
    <3>1. CASE Bit(index, j - 1) = 1
      <4> hash_pair(siblings[j], A[j - 1]) = hash_pair(siblings[j], B[j - 1])
        BY <1>1, <1>2, <1>4, <2>1, <3>1
      <4> QED BY PairsDiffer
    <3>2. CASE Bit(index, j - 1) # 1
      <4> hash_pair(A[j - 1], siblings[j]) = hash_pair(B[j - 1], siblings[j])
        BY <1>1, <1>2, <1>4, <2>1, <3>2
      <4> QED BY PairsDiffer
    <3> QED BY <3>1, <3>2
  <2> QED BY <1>4, <2>1, <2>2
<1>6. A[0] = B[0]
  BY <1>4, <1>5
<1> QED BY <1>1, <1>2, <1>6

\* A number is below the power of two of it.
LEMMA BelowPow2 == \A x \in Nat : x < Pow2[x]
<1> DEFINE bad == {x \in Nat : ~(x < Pow2[x])}
<1> SUFFICES ASSUME bad # {} PROVE FALSE
  OBVIOUS
<1>1. PICK x \in bad : \A y \in bad : x <= y
  <2> HIDE DEF bad
  <2> bad \in SUBSET Nat BY DEF bad
  <2> QED BY LeastNumber
<1>2. x # 0
  BY <1>1, Pow2Is
<1>3. PICK y \in Nat : x = y + 1
  <2> x - 1 \in Nat /\ x = (x - 1) + 1 BY <1>1, <1>2
  <2> QED OBVIOUS
<1>4. y < Pow2[y] /\ Pow2[y] \in Nat /\ Pow2[y + 1] = 2 * Pow2[y]
  BY <1>1, <1>3, Pow2Is
<1> QED BY <1>1, <1>3, <1>4

\* The level of the subtree of the leaf i: where its node is the lone last one
IsTop(t, i, n) ==
  /\ Up(n, t) = Up(i, t) + 1 /\ Bit(n, t) = 1 /\ Bit(i, t) = 0
  /\ \A l \in Nat : l > t => Up(n, l) = Up(i, l) /\ Bit(n, l) = Bit(i, l)
  /\ \A l \in Nat : l <= t => Up(i, l) < Up(n, l)

\* Every leaf is in a subtree.
LEMMA TopExists ==
  ASSUME NEW n \in Nat, NEW i \in Nat, i < n
  PROVE  \E t \in Nat : IsTop(t, i, n)
<1> DEFINE S == {l \in Nat : Up(n, l) = Up(i, l)}
<1>1. \A l \in Nat : /\ Up(n, l) \in Nat /\ Up(i, l) \in Nat /\ Up(i, l) <= Up(n, l)
                     /\ Bit(n, l) = Up(n, l) % 2 /\ Bit(i, l) = Up(i, l) % 2
  BY UpIs, UpTogether
<1>2. \E l \in Nat : l \in S
  <2>1. \A x \in Nat : x < Pow2[x]
    BY BelowPow2
  <2>2. n < Pow2[n] /\ i < Pow2[n] /\ Pow2[n] \in Nat
    BY <2>1, Pow2Is
  <2>3. Up(n, n) = 0 /\ Up(i, n) = 0
    BY <2>2, UpZero
  <2> QED BY <2>3
<1>3. PICK l \in S : \A k \in S : l <= k
  <2> HIDE DEF S
  <2> S \in SUBSET Nat BY DEF S
  <2> QED BY <1>2, LeastNumber
<1>4. l # 0
  <2> 0 \in Nat OBVIOUS
  <2> Up(n, 0) = n /\ Up(i, 0) = i BY UpIs
  <2> QED BY <1>3
<1>5. PICK t \in Nat : l = t + 1
  <2> l - 1 \in Nat /\ l = (l - 1) + 1 BY <1>3, <1>4
  <2> QED OBVIOUS
<1>6. ASSUME NEW k \in Nat, k <= t PROVE Up(i, k) < Up(n, k)
  <2>1. Up(n, k) # Up(i, k)
    BY <1>3, <1>5, <1>6
  <2>2. Up(n, k) \in Nat /\ Up(i, k) \in Nat /\ Up(i, k) <= Up(n, k)
    BY <1>1
  <2> QED BY <2>1, <2>2
<1>7. Up(n, t) = Up(i, t) + 1 /\ Bit(n, t) = 1 /\ Bit(i, t) = 0
  <2>1. /\ Up(n, t) = 2 * Up(n, t + 1) + (Up(n, t) % 2) /\ Up(n, t) % 2 \in {0, 1}
        /\ Up(n, t + 1) \in Nat
    <3> t + 1 \in Nat OBVIOUS
    <3> QED BY UpIs
  <2>2. Up(i, t) = 2 * Up(i, t + 1) + (Up(i, t) % 2) /\ Up(i, t) % 2 \in {0, 1}
    BY UpIs
  <2>3. Up(n, t + 1) = Up(i, t + 1)
    BY <1>3, <1>5
  <2>4. Up(i, t) < Up(n, t)
    BY <1>6
  <2> QED BY <1>1, <2>1, <2>2, <2>3, <2>4
<1>8. ASSUME NEW k \in Nat, k > t PROVE Up(n, k) = Up(i, k) /\ Bit(n, k) = Bit(i, k)
  <2>1. k >= l /\ l \in Nat
    BY <1>5, <1>8
  <2>2. Up(n, k) = Up(i, k)
    BY <1>3, <2>1, UpTogether
  <2> QED BY <1>1, <2>2
<1> QED BY <1>6, <1>7, <1>8 DEF IsTop

\* MmrProof takes the siblings up to that level, and places the leaf.
LEMMA MmrProofIs ==
  ASSUME NEW f, NEW n \in Nat, n < U32, NEW nodes, IsRange(nodes, f, n),
         NEW i \in Nat, i < n, NEW t \in Nat, IsTop(t, i, n)
  PROVE  LET proof == MmrProof(nodes, i)
         IN /\ Len(proof.inclusion_proof) = t
            /\ \A l \in 1..t : proof.inclusion_proof[l] = nodes[l][Sibling(Up(i, l - 1)) + 1]
            /\ proof.at.subroot_idx = Ones(n, t + 1)
            /\ proof.at.internal_idx = i % Pow2[t]
            /\ t + 1 \in 1..Len(nodes) /\ t \in 0..WordBits
<1> DEFINE D == Len(nodes)
           Lone == {l \in 1..D : /\ i \div Pow2[l - 1] = Len(nodes[l]) - 1
                                 /\ Len(nodes[l]) % 2 = 1}
           Differ == {b \in 0..WordBits : Bit(Len(nodes[1]), b) # Bit(i, b)}
           path == [l \in 1..(Min(Lone) - 1) |-> nodes[l][Sibling(i \div Pow2[l - 1]) + 1]]
           proof == MmrProof(nodes, i)
<1>1. /\ D \in Nat /\ D >= 1 /\ D <= WordBits + 1 /\ WordBits \in Nat /\ 1 \in 1..D
      /\ \A l \in 1..D : Len(nodes[l]) = Up(n, l - 1)
  <2>1. \A l \in 1..D : Len(nodes[l]) = Up(n, l - 1)
    BY DEF IsRange
  <2>2. D \in Nat /\ D >= 1
    BY LenIs DEF IsRange
  <2>3. D <= WordBits + 1 /\ WordBits \in Nat
    <3>1. D \in 1..(WordBits + 1)
      BY RangeHeight
    <3>2. WordBits \in Nat
      BY WidthTypes
    <3> HIDE DEF D
    <3> QED BY <3>1, <3>2
  <2> HIDE DEF D
  <2> QED BY <2>1, <2>2, <2>3
<1>2. \A l \in Nat : /\ Up(n, l) \in Nat /\ Up(i, l) \in Nat
                     /\ Bit(n, l) = Up(n, l) % 2 /\ Bit(i, l) = Up(i, l) % 2
                     /\ Up(n, l + 1) = Up(n, l) \div 2 /\ Up(i, l + 1) = Up(i, l) \div 2
  BY UpIs
<1>3. Len(nodes[1]) = n
  <2> Up(n, 0) = n /\ 1 - 1 = 0 BY UpIs
  <2> QED BY <1>1
<1>4. t + 1 \in 1..D /\ t \in 0..WordBits
  <2>1. Up(n, t) # 0
    <3> Up(n, t) = Up(i, t) + 1 /\ Up(i, t) \in Nat BY <1>2 DEF IsTop
    <3> QED OBVIOUS
  <2>2. t + 1 \in 1..D
    BY <2>1, RangeHeight
  <2> QED BY <1>1, <2>2
<1>5. Min(Lone) = t + 1
  <2>1. t + 1 \in Lone
    <3>1. Len(nodes[t + 1]) = Up(n, t) /\ t + 1 - 1 = t
      <4> t + 1 - 1 = t OBVIOUS
      <4> QED BY <1>1, <1>4
    <3>2. Up(n, t) = Up(i, t) + 1 /\ Up(n, t) % 2 = 1 /\ Up(i, t) \in Nat
      BY <1>2 DEF IsTop
    <3>3. i \div Pow2[t] = Up(i, t)
      BY DEF Up
    <3>4. PICK q \in 1..D : q = t + 1 /\ q - 1 = t
      BY <1>4
    <3>5. Len(nodes[q]) = Up(n, t)
      BY <3>1, <3>4
    <3>6. i \div Pow2[q - 1] = Len(nodes[q]) - 1
      BY <3>2, <3>3, <3>4, <3>5
    <3>7. Len(nodes[q]) % 2 = 1
      BY <3>2, <3>5
    <3> HIDE DEF D
    <3> QED BY <3>4, <3>6, <3>7
  <2>2. ASSUME NEW l \in Lone PROVE t + 1 <= l /\ l \in Nat
    <3>1. PICK k \in Nat : l = k + 1 /\ l - 1 = k /\ l \in 1..D
      <4> l - 1 \in Nat /\ l = (l - 1) + 1 BY <1>1
      <4> QED OBVIOUS
    <3>2. Up(i, k) = Up(n, k) - 1 /\ Up(n, k) % 2 = 1
      BY <1>1, <3>1 DEF Up
    <3>3. ASSUME k < t PROVE FALSE
      <4>1. Up(n, k) \in Nat /\ Up(i, k) \in Nat /\ Up(n, k + 1) = Up(n, k) \div 2
             /\ Up(i, k + 1) = Up(i, k) \div 2
        BY <1>2
      <4>2. Up(n, k + 1) = Up(i, k + 1)
        <5>1. \A x \in Nat : x % 2 = 1 => x \div 2 = (x - 1) \div 2
          OBVIOUS
        <5>2. Up(n, k) \div 2 = (Up(n, k) - 1) \div 2
          BY <3>2, <4>1, <5>1
        <5> QED BY <3>2, <4>1, <5>2
      <4>3. Up(i, k + 1) < Up(n, k + 1) /\ Up(n, k + 1) \in Nat
        <5> k + 1 \in Nat /\ k + 1 <= t BY <3>3
        <5> QED BY <1>2 DEF IsTop
      <4> QED BY <4>2, <4>3
    <3> QED BY <3>1, <3>3
  <2> HIDE DEF Lone
  <2>3. \A x \in Lone : (\A y \in Lone : x <= y) => x = t + 1
    BY <2>1, <2>2
  <2> QED BY <2>1, <2>2, <2>3 DEF Min
<1>6. Max(Differ) = t
  <2>1. t \in Differ
    BY <1>3, <1>4 DEF IsTop
  <2>2. ASSUME NEW b \in Differ PROVE b <= t /\ b \in Nat
    <3>1. b \in Nat /\ Bit(n, b) # Bit(i, b)
      BY <1>1, <1>3
    <3>2. ~(b > t)
      BY <3>1 DEF IsTop
    <3> QED BY <3>1, <3>2
  <2> HIDE DEF Differ
  <2>3. \A x \in Differ : (\A y \in Differ : x >= y) => x = t
    BY <2>1, <2>2
  <2> QED BY <2>1, <2>2, <2>3 DEF Max
<1>7. /\ proof.inclusion_proof = path
      /\ proof.at.subroot_idx = Cardinality({b \in (Max(Differ) + 1)..WordBits : Bit(Len(nodes[1]), b) = 1})
      /\ proof.at.internal_idx = i % Pow2[Max(Differ)]
  BY DEF MmrProof, get_helpers_from_index
<1>8. proof.at.subroot_idx = Ones(n, t + 1) /\ proof.at.internal_idx = i % Pow2[t]
  BY <1>3, <1>6, <1>7, Zenon DEF Ones
<1>9. path = [l \in 1..t |-> nodes[l][Sibling(Up(i, l - 1)) + 1]]
  <2>1. Min(Lone) - 1 = t
    BY <1>5
  <2> HIDE DEF Lone
  <2> QED BY <2>1 DEF Up
<1>10. Len(path) = t /\ \A l \in 1..t : path[l] = nodes[l][Sibling(Up(i, l - 1)) + 1]
  <2> DEFINE p == [l \in 1..t |-> nodes[l][Sibling(Up(i, l - 1)) + 1]]
  <2>1. p \in [1..t -> {p[l] : l \in 1..t}]
    OBVIOUS
  <2>2. \A l \in 1..t : p[l] = nodes[l][Sibling(Up(i, l - 1)) + 1]
    OBVIOUS
  <2>3. path = p
    BY <1>9
  <2> HIDE DEF p, path
  <2>4. Len(p) = t
    BY <2>1, SeqOf
  <2> QED BY <2>2, <2>3, <2>4
<1> HIDE DEF proof, path
<1> QED BY <1>4, <1>7, <1>8, <1>10 DEF proof

\* A leaf climbs along its path.
LEMMA PathClimbs ==
  ASSUME NEW f, NEW n \in Nat, n < U32, NEW nodes, IsRange(nodes, f, n),
         NEW i \in Nat, i < n, NEW t \in Nat, IsTop(t, i, n), t + 1 \in 1..Len(nodes),
         NEW path, Len(path) = t, \A l \in 1..t : path[l] = nodes[l][Sibling(Up(i, l - 1)) + 1],
         NEW index, index = i % Pow2[t], NEW leaf, leaf = f[i + 1]
  PROVE  Climb(leaf, path, index)[t] = nodes[t + 1][Up(n, t)]
<1> DEFINE C == Climb(leaf, path, index)
           bad == {j \in Nat : j <= t /\ C[j] # nodes[j + 1][Up(i, j) + 1]}
<1>1. /\ C[0] = leaf
      /\ \A k \in 1..t : C[k] = IF Bit(index, k - 1) = 1 THEN hash_pair(path[k], C[k - 1])
                                ELSE hash_pair(C[k - 1], path[k])
  BY ClimbAre DEF ClimbNext
<1> HIDE DEF C
<1>2. SUFFICES ASSUME bad # {} PROVE FALSE
  <2> t \notin bad /\ Up(n, t) = Up(i, t) + 1 BY <1>2 DEF IsTop
  <2> QED BY DEF C
<1>3. PICK j \in bad : \A k \in bad : j <= k
  <2> HIDE DEF bad
  <2> bad \in SUBSET Nat BY DEF bad
  <2> QED BY <1>2, LeastNumber
<1>4. j # 0
  <2>1. Up(i, 0) = i /\ i + 1 \in 1..n
    <3> 0 \in Nat OBVIOUS
    <3> QED BY UpIs
  <2>2. nodes[1][i + 1] = f[i + 1]
    BY <2>1 DEF IsRange
  <2> QED BY <1>1, <1>3, <2>1, <2>2
<1>5. PICK k \in Nat : j = k + 1 /\ j - 1 = k /\ j \in 1..t /\ k < t
  <2> j - 1 \in Nat /\ j = (j - 1) + 1 /\ j \in 1..t /\ j - 1 < t BY <1>3, <1>4
  <2> QED OBVIOUS
<1>6. C[k] = nodes[j][Up(i, k) + 1]
  BY <1>3, <1>5
<1>7. /\ Up(i, k) = 2 * Up(i, j) + Bit(i, k) /\ Bit(i, k) \in {0, 1} /\ Up(i, j) \in Nat
      /\ Up(n, j) \in Nat /\ Up(i, j) < Up(n, j)
  <2>1. Up(i, k) = 2 * Up(i, k + 1) + (Up(i, k) % 2) /\ Bit(i, k) = Up(i, k) % 2
         /\ Up(i, k) % 2 \in {0, 1}
    BY UpIs
  <2>2. j \in Nat /\ j <= t
    BY <1>3
  <2>3. Up(i, j) \in Nat /\ Up(n, j) \in Nat
    BY <2>2, UpIs
  <2> QED BY <1>5, <2>1, <2>2, <2>3 DEF IsTop
<1>8. Bit(index, k) = Bit(i, k)
  BY <1>5, BitOfRemainder
<1>9. path[j] = nodes[j][Sibling(Up(i, k)) + 1]
  BY <1>5
<1>10. nodes[j + 1][Up(i, j) + 1] = hash_pair(nodes[j][2 * Up(i, j) + 1], nodes[j][2 * Up(i, j) + 2])
  <2>1. j \in 1..(Len(nodes) - 1) /\ Up(i, j) + 1 \in 1..Up(n, j)
    <3> Len(nodes) \in Nat BY LenIs DEF IsRange
    <3> QED BY <1>5, <1>7
  <2>2. 2 * (Up(i, j) + 1) - 1 = 2 * Up(i, j) + 1 /\ 2 * (Up(i, j) + 1) = 2 * Up(i, j) + 2
    <3>1. \A x \in Nat : 2 * (x + 1) - 1 = 2 * x + 1 /\ 2 * (x + 1) = 2 * x + 2
      OBVIOUS
    <3> QED BY <1>7, <3>1, Zenon
  <2>3. nodes[j + 1][Up(i, j) + 1]
        = hash_pair(nodes[j][2 * (Up(i, j) + 1) - 1], nodes[j][2 * (Up(i, j) + 1)])
    BY <2>1 DEF IsRange
  <2> QED BY <2>2, <2>3
<1>11. CASE Bit(i, k) = 1
  <2>1. Up(i, k) = 2 * Up(i, j) + 1
    BY <1>7, <1>11
  <2>2. Up(i, k) % 2 = 1
    BY <1>7, <2>1
  <2>3. Sibling(Up(i, k)) + 1 = 2 * Up(i, j) + 1 /\ Up(i, k) + 1 = 2 * Up(i, j) + 2
    BY <1>7, <2>1, <2>2 DEF Sibling
  <2>4. C[j] = hash_pair(path[j], C[k])
    BY <1>1, <1>5, <1>8, <1>11
  <2> QED BY <1>3, <1>6, <1>9, <1>10, <2>3, <2>4
<1>12. CASE Bit(i, k) # 1
  <2>1. Up(i, k) = 2 * Up(i, j)
    BY <1>7, <1>12
  <2>2. Up(i, k) % 2 = 0
    BY <1>7, <2>1
  <2>3. Sibling(Up(i, k)) + 1 = 2 * Up(i, j) + 2 /\ Up(i, k) + 1 = 2 * Up(i, j) + 1
    BY <1>7, <2>1, <2>2 DEF Sibling
  <2>4. C[j] = hash_pair(C[k], path[j])
    BY <1>1, <1>5, <1>8, <1>12
  <2> QED BY <1>3, <1>6, <1>9, <1>10, <2>3, <2>4
<1> QED BY <1>11, <1>12

\* A proof that the host generates verifies for its own leaf, and no other.
LEMMA MmrProofWorks ==
  ASSUME NEW f, NEW n \in Nat, n < U32, NEW nodes, IsRange(nodes, f, n),
         NEW sub, IsSubroots(sub, nodes, n), NEW i \in Nat, i < n, NEW leaf
  PROVE  LET proof == MmrProof(nodes, i)
         IN /\ proof.at.subroot_idx < Len(sub)
            /\ sub[proof.at.subroot_idx + 1] = get_subroot(proof, leaf) <=> leaf = f[i + 1]
<1> DEFINE proof == MmrProof(nodes, i)
           path == proof.inclusion_proof
           index == proof.at.internal_idx
           own == f[i + 1]
<1>1. PICK t \in Nat : IsTop(t, i, n)
  BY TopExists
<1>2. /\ Len(path) = t
      /\ \A l \in 1..t : path[l] = nodes[l][Sibling(Up(i, l - 1)) + 1]
      /\ proof.at.subroot_idx = Ones(n, t + 1) /\ index = i % Pow2[t]
      /\ t + 1 \in 1..Len(nodes) /\ t \in 0..WordBits
  BY <1>1, MmrProofIs
<1>3. \A x : get_subroot(proof, x) = Climb(x, path, index)[t]
  BY <1>2 DEF get_subroot
<1> HIDE DEF proof, path, index, own
<1>4. Climb(own, path, index)[t] = nodes[t + 1][Up(n, t)]
  BY <1>1, <1>2, PathClimbs DEF own
<1>5. Bit(n, t) = 1 /\ WordBits \in Nat
  BY <1>1, WidthTypes DEF IsTop
<1>6. Ones(n, t) = Ones(n, t + 1) + 1 /\ Ones(n, t) \in 1..Len(sub) /\ Ones(n, t + 1) \in Nat
  <2>1. Ones(n, t) = Ones(n, t + 1) + Bit(n, t)
    BY <1>2, OnesAre
  <2>2. 0 \in Nat /\ t \in 0..WordBits /\ t + 1 \in Nat
    BY <1>2
  <2>3. Ones(n, t) \in 1..Ones(n, 0)
    BY <1>5, <2>2, OnesAre
  <2>4. Len(sub) = Ones(n, 0)
    BY DEF IsSubroots
  <2>5. Ones(n, t + 1) \in Nat
    BY <2>2, OnesAre
  <2> QED BY <1>5, <2>1, <2>3, <2>4, <2>5
<1>7. sub[Ones(n, t)] = nodes[t + 1][Up(n, t)]
  BY <1>2, <1>5 DEF IsSubroots
<1>8. proof.at.subroot_idx + 1 = Ones(n, t) /\ proof.at.subroot_idx < Len(sub)
  <2> Len(sub) \in Nat BY LenIs DEF IsSubroots
  <2> QED BY <1>2, <1>6
<1>9. Climb(own, path, index)[t] = Climb(leaf, path, index)[t] => own = leaf
  <2> Len(path) \in Nat /\ t \in 0..Len(path) BY <1>2
  <2> QED BY ClimbsDiffer
<1>10. sub[proof.at.subroot_idx + 1] = get_subroot(proof, leaf) <=> leaf = own
  BY <1>3, <1>4, <1>7, <1>8, <1>9
<1> QED BY <1>8, <1>10 DEF proof, own


\* An empty range has no subroots.
LEMMA RangesStart ==
  ASSUME NEW hs, Len(hs) \in Nat
  PROVE  get_subroots(HostMmrs(hs)[0]) = <<>>
<1> DEFINE nodes == HostMmrs(hs)[0]
<1>1. nodes = << <<>> >>
  BY HostMmrsAre DEF HostMmrsNext, NativeNew
<1>2. Len(nodes) = 1 /\ nodes[1] = <<>> /\ Len(nodes[1]) = 0 /\ 1 + 1 - 1 = 1
  BY <1>1
<1> HIDE DEF nodes
<1>3. /\ Subroots(nodes)[0] = <<>>
      /\ Subroots(nodes)[1] = Subroots(nodes)[0]
  <2>1. Len(nodes) \in Nat /\ 1 \in 1..Len(nodes) /\ 1 - 1 = 0 /\ Len(nodes) + 1 - 1 = 1
    BY <1>2
  <2>2. Len(nodes[1]) % 2 # 1
    BY <1>2
  <2> QED BY <2>1, <2>2, SubrootsAre DEF SubrootsNext
<1> QED BY <1>2, <1>3 DEF get_subroots, nodes


-----------------------------------------------------------------------------
(* Merkle trees of transactions.                                            *)

\* BitcoinMerkleTree::new adds a row to k rows.
StandardRowsNext(p, k) ==
  Append(p, Hashed(Hashed(Pairs(p[k]))))

\* f lists the rows of a Merkle tree up to n levels above the leaves.
IsStandardRows(f, leaves, n) ==
  f = [k \in 0..n |-> IF k = 0 THEN <<leaves>>
                      ELSE StandardRowsNext(f[k - 1], k)]

\* BitcoinMerkleTree::new builds any number of rows.
LEMMA StandardRowsExist ==
  ASSUME NEW leaves
  PROVE  \A n \in Nat : \E f : IsStandardRows(f, leaves, n)
<1> DEFINE bad == {n \in Nat : ~ \E f : IsStandardRows(f, leaves, n)}
           first == <<leaves>>
<1> SUFFICES ASSUME bad # {} PROVE FALSE
  OBVIOUS
<1>1. PICK n \in bad : \A m \in bad : n <= m
  <2> HIDE DEF bad
  <2> bad \in SUBSET Nat BY DEF bad
  <2> QED BY LeastNumber
<1>2. CASE n = 0
  <2> IsStandardRows([z \in 0..0 |-> first], leaves, 0)
    BY DEF IsStandardRows
  <2> QED BY <1>2
<1>3. CASE n # 0
  <2>1. n \in Nat /\ n - 1 \in Nat /\ ~(n <= n - 1)
    BY <1>3
  <2>2. PICK f : IsStandardRows(f, leaves, n - 1)
    BY <1>1, <2>1
  <2> DEFINE h == [k \in 0..n |-> IF k = n THEN StandardRowsNext(f[n - 1], n)
                                  ELSE f[k]]
  <2>3. \A k \in 0..(n - 1) : f[k] = IF k = 0 THEN first
                                    ELSE StandardRowsNext(f[k - 1], k)
    BY <2>2 DEF IsStandardRows
  <2> HIDE DEF first
  <2>4. ASSUME NEW k \in 0..n
        PROVE  h[k] = IF k = 0 THEN first ELSE StandardRowsNext(h[k - 1], k)
    BY <2>1, <2>3, <1>3
  <2>5. h = [k \in 0..n |-> IF k = 0 THEN first ELSE StandardRowsNext(h[k - 1], k)]
    BY <2>4
  <2> HIDE DEF h
  <2>6. IsStandardRows(h, leaves, n)
    BY <2>5, Zenon DEF IsStandardRows, first
  <2> QED BY <2>6
<1> QED BY <1>2, <1>3

\* The rows of a Merkle tree after each level.
LEMMA StandardRowsAre ==
  ASSUME NEW leaves, TreeDepth(Len(leaves)) \in Nat
  PROVE  LET f == StandardRows(leaves)
         IN /\ f[0] = <<leaves>>
            /\ \A k \in 1..TreeDepth(Len(leaves)) : f[k] = StandardRowsNext(f[k - 1], k)
<1> DEFINE n == TreeDepth(Len(leaves))
           f == CHOOSE f : IsStandardRows(f, leaves, n)
           first == <<leaves>>
<1>1. IsStandardRows(f, leaves, n)
  <2> \E g : IsStandardRows(g, leaves, n) BY StandardRowsExist
  <2> QED OBVIOUS
<1>2. StandardRows(leaves) = f
  BY DEF StandardRows, IsStandardRows, StandardRowsNext
<1> HIDE DEF f, n, first
<1>3. f = [k \in 0..n |-> IF k = 0 THEN first ELSE StandardRowsNext(f[k - 1], k)]
  BY <1>1, Zenon DEF IsStandardRows, first
<1>4. f[0] = first /\ \A k \in 1..n : f[k] = StandardRowsNext(f[k - 1], k)
  <2> n \in Nat BY DEF n
  <2> 0 \in 0..n /\ \A k \in 1..n : k \in 0..n /\ k # 0 OBVIOUS
  <2> QED BY <1>3
<1> QED BY <1>2, <1>4, Zenon DEF n, first

\* The leaves of the tree of first digests
Digests(txs) == [i \in 1..Len(txs) |-> mid_state_txid(txs[i])]

\* new_mid_state adds a row to k rows.
MidRowsNext(p, k) ==
  Append(p, Hashed(Pairs(Hashed(p[k]))))

\* f lists the rows of a tree of first digests up to n levels above the leaves.
IsMidRows(f, txs, n) ==
  f = [k \in 0..n |-> IF k = 0 THEN <<Digests(txs)>>
                      ELSE MidRowsNext(f[k - 1], k)]

\* new_mid_state builds any number of rows.
LEMMA MidRowsExist ==
  ASSUME NEW txs
  PROVE  \A n \in Nat : \E f : IsMidRows(f, txs, n)
<1> DEFINE bad == {n \in Nat : ~ \E f : IsMidRows(f, txs, n)}
           first == <<Digests(txs)>>
<1> SUFFICES ASSUME bad # {} PROVE FALSE
  OBVIOUS
<1>1. PICK n \in bad : \A m \in bad : n <= m
  <2> HIDE DEF bad
  <2> bad \in SUBSET Nat BY DEF bad
  <2> QED BY LeastNumber
<1>2. CASE n = 0
  <2> IsMidRows([z \in 0..0 |-> first], txs, 0)
    BY DEF IsMidRows
  <2> QED BY <1>2
<1>3. CASE n # 0
  <2>1. n \in Nat /\ n - 1 \in Nat /\ ~(n <= n - 1)
    BY <1>3
  <2>2. PICK f : IsMidRows(f, txs, n - 1)
    BY <1>1, <2>1
  <2> DEFINE h == [k \in 0..n |-> IF k = n THEN MidRowsNext(f[n - 1], n)
                                  ELSE f[k]]
  <2>3. \A k \in 0..(n - 1) : f[k] = IF k = 0 THEN first
                                    ELSE MidRowsNext(f[k - 1], k)
    BY <2>2 DEF IsMidRows
  <2> HIDE DEF first
  <2>4. ASSUME NEW k \in 0..n
        PROVE  h[k] = IF k = 0 THEN first ELSE MidRowsNext(h[k - 1], k)
    BY <2>1, <2>3, <1>3
  <2>5. h = [k \in 0..n |-> IF k = 0 THEN first ELSE MidRowsNext(h[k - 1], k)]
    BY <2>4
  <2> HIDE DEF h
  <2>6. IsMidRows(h, txs, n)
    BY <2>5, Zenon DEF IsMidRows, first
  <2> QED BY <2>6
<1> QED BY <1>2, <1>3

\* The rows of a tree of first digests after each level.
LEMMA MidRowsAre ==
  ASSUME NEW txs, TreeDepth(Len(txs)) \in Nat
  PROVE  LET f == MidRows(txs)
         IN /\ f[0] = <<Digests(txs)>>
            /\ \A k \in 1..TreeDepth(Len(txs)) : f[k] = MidRowsNext(f[k - 1], k)
<1> DEFINE n == TreeDepth(Len(txs))
           f == CHOOSE f : IsMidRows(f, txs, n)
           first == <<Digests(txs)>>
<1>1. IsMidRows(f, txs, n)
  <2> \E g : IsMidRows(g, txs, n) BY MidRowsExist
  <2> QED OBVIOUS
<1>2. MidRows(txs) = f
  BY DEF MidRows, IsMidRows, MidRowsNext, Digests
<1> HIDE DEF f, n, first
<1>3. f = [k \in 0..n |-> IF k = 0 THEN first ELSE MidRowsNext(f[k - 1], k)]
  BY <1>1, Zenon DEF IsMidRows, first
<1>4. f[0] = first /\ \A k \in 1..n : f[k] = MidRowsNext(f[k - 1], k)
  <2> n \in Nat BY DEF n
  <2> 0 \in 0..n /\ \A k \in 1..n : k \in 0..n /\ k # 0 OBVIOUS
  <2> QED BY <1>3
<1> QED BY <1>2, <1>4, Zenon DEF n, first

\* get_root at the k-th level.
PathHashesNext(proof, p, k) ==
  LET sibling == calculate_sha256(proof.merkle_proof[k])
  IN calculate_double_sha256(IF Bit(proof.idx, k - 1) = 0 THEN Concat(p, sibling)
                             ELSE Concat(sibling, p))

\* f lists the hashes of get_root up to n levels.
IsPathHashes(f, proof, id, n) ==
  f = [k \in 0..n |-> IF k = 0 THEN id
                      ELSE PathHashesNext(proof, f[k - 1], k)]

\* get_root goes through any number of levels.
LEMMA PathHashesExist ==
  ASSUME NEW proof, NEW id
  PROVE  \A n \in Nat : \E f : IsPathHashes(f, proof, id, n)
<1> DEFINE bad == {n \in Nat : ~ \E f : IsPathHashes(f, proof, id, n)}
           first == id
<1> SUFFICES ASSUME bad # {} PROVE FALSE
  OBVIOUS
<1>1. PICK n \in bad : \A m \in bad : n <= m
  <2> HIDE DEF bad
  <2> bad \in SUBSET Nat BY DEF bad
  <2> QED BY LeastNumber
<1>2. CASE n = 0
  <2> IsPathHashes([z \in 0..0 |-> first], proof, id, 0)
    BY DEF IsPathHashes
  <2> QED BY <1>2
<1>3. CASE n # 0
  <2>1. n \in Nat /\ n - 1 \in Nat /\ ~(n <= n - 1)
    BY <1>3
  <2>2. PICK f : IsPathHashes(f, proof, id, n - 1)
    BY <1>1, <2>1
  <2> DEFINE h == [k \in 0..n |-> IF k = n THEN PathHashesNext(proof, f[n - 1], n)
                                  ELSE f[k]]
  <2>3. \A k \in 0..(n - 1) : f[k] = IF k = 0 THEN first
                                    ELSE PathHashesNext(proof, f[k - 1], k)
    BY <2>2 DEF IsPathHashes
  <2> HIDE DEF first
  <2>4. ASSUME NEW k \in 0..n
        PROVE  h[k] = IF k = 0 THEN first ELSE PathHashesNext(proof, h[k - 1], k)
    BY <2>1, <2>3, <1>3
  <2>5. h = [k \in 0..n |-> IF k = 0 THEN first ELSE PathHashesNext(proof, h[k - 1], k)]
    BY <2>4
  <2> HIDE DEF h
  <2>6. IsPathHashes(h, proof, id, n)
    BY <2>5, Zenon DEF IsPathHashes, first
  <2> QED BY <2>6
<1> QED BY <1>2, <1>3

\* The hash of get_root after each level.
LEMMA PathHashesAre ==
  ASSUME NEW proof, NEW id, Len(proof.merkle_proof) \in Nat
  PROVE  LET f == PathHashes(proof, id)
         IN /\ f[0] = id
            /\ \A k \in 1..Len(proof.merkle_proof) : f[k] = PathHashesNext(proof, f[k - 1], k)
<1> DEFINE n == Len(proof.merkle_proof)
           f == CHOOSE f : IsPathHashes(f, proof, id, n)
           first == id
<1>1. IsPathHashes(f, proof, id, n)
  <2> \E g : IsPathHashes(g, proof, id, n) BY PathHashesExist
  <2> QED OBVIOUS
<1>2. PathHashes(proof, id) = f
  BY DEF PathHashes, IsPathHashes, PathHashesNext
<1> HIDE DEF f, n, first
<1>3. f = [k \in 0..n |-> IF k = 0 THEN first ELSE PathHashesNext(proof, f[k - 1], k)]
  BY <1>1, Zenon DEF IsPathHashes, first
<1>4. f[0] = first /\ \A k \in 1..n : f[k] = PathHashesNext(proof, f[k - 1], k)
  <2> n \in Nat BY DEF n
  <2> 0 \in 0..n /\ \A k \in 1..n : k \in 0..n /\ k # 0 OBVIOUS
  <2> QED BY <1>3
<1> QED BY <1>2, <1>4, Zenon DEF n, first

\* The number of nodes of a row l levels above n leaves
Width(n, l) == Up(n - 1, l) + 1

\* The place of the right one of a pair of nodes, in a row of w: the last of an
\* odd row is its own
RightOf(i, w) == IF 2 * i <= w THEN 2 * i ELSE 2 * i - 1

\* A row above another has half as many nodes.
LEMMA WidthIs ==
  ASSUME NEW n \in Nat \ {0}, NEW l \in Nat
  PROVE  /\ Width(n, l) \in Nat \ {0} /\ Width(n, 0) = n
         /\ Width(n, l + 1) = (Width(n, l) + 1) \div 2
<1>1. n - 1 \in Nat
  OBVIOUS
<1>2. PICK u \in Nat : u = Up(n - 1, l) /\ Up(n - 1, l + 1) = u \div 2 /\ Up(n - 1, 0) = n - 1
  BY <1>1, UpIs
<1>3. (u + 1 + 1) \div 2 = u \div 2 + 1
  OBVIOUS
<1> QED BY <1>2, <1>3 DEF Width

\* The nodes of a row in pairs.
LEMMA PairsAre ==
  ASSUME NEW row, IsSeq(row)
  PROVE  /\ IsSeq(Pairs(row)) /\ Len(Pairs(row)) = (Len(row) + 1) \div 2
         /\ \A i \in 1..((Len(row) + 1) \div 2) :
              Pairs(row)[i] = Concat(row[2 * i - 1], row[RightOf(i, Len(row))])
<1> DEFINE m == (Len(row) + 1) \div 2
           p == [i \in 1..m |->
                  Concat(row[2 * i - 1], IF 2 * i <= Len(row) THEN row[2 * i] ELSE row[2 * i - 1])]
<1>1. Pairs(row) = p
  BY DEF Pairs
<1>2. m \in Nat
  <2> Len(row) \in Nat BY LenIs
  <2> QED OBVIOUS
<1> HIDE DEF m
<1>3. p \in [1..m -> {p[i] : i \in 1..m}]
  OBVIOUS
<1>4. ASSUME NEW i \in 1..m PROVE p[i] = Concat(row[2 * i - 1], row[RightOf(i, Len(row))])
  BY <1>4 DEF RightOf
<1> HIDE DEF p
<1>5. IsSeq(p) /\ Len(p) = m
  BY <1>2, <1>3, SeqOf
<1> QED BY <1>1, <1>4, <1>5 DEF m

\* A row of hashes.
LEMMA HashedIs ==
  ASSUME NEW row, IsSeq(row)
  PROVE  /\ IsSeq(Hashed(row)) /\ Len(Hashed(row)) = Len(row)
         /\ \A i \in 1..Len(row) : Hashed(row)[i] = calculate_sha256(row[i])
<1> DEFINE p == [i \in 1..Len(row) |-> calculate_sha256(row[i])]
<1>1. Hashed(row) = p /\ Len(row) \in Nat
  BY LenIs DEF Hashed
<1>2. p \in [1..Len(row) -> {p[i] : i \in 1..Len(row)}] /\ \A i \in 1..Len(row) : p[i] = calculate_sha256(row[i])
  OBVIOUS
<1> HIDE DEF p
<1>3. IsSeq(p) /\ Len(p) = Len(row)
  BY <1>1, <1>2, SeqOf
<1> QED BY <1>1, <1>2, <1>3

\* A row of the tree and the same row of the tree of first digests: s hashes m
SameRow(s, m, w) ==
  /\ IsSeq(s) /\ Len(s) = w /\ IsSeq(m) /\ Len(m) = w
  /\ \A i \in 1..w : s[i] = calculate_sha256(m[i])

\* The row above s
IsAbove(t, s, w) ==
  \A i \in 1..((w + 1) \div 2) :
    t[i] = calculate_double_sha256(Concat(s[2 * i - 1], s[RightOf(i, w)]))

\* Hashing the digests of both pairwise gives such rows again.
LEMMA RowsAbove ==
  ASSUME NEW s, NEW m, NEW w \in Nat, SameRow(s, m, w)
  PROVE  LET t == Hashed(Hashed(Pairs(s)))
             n == Hashed(Pairs(Hashed(m)))
         IN SameRow(t, n, (w + 1) \div 2) /\ IsAbove(t, s, w)
<1> DEFINE t == Hashed(Hashed(Pairs(s)))
           n == Hashed(Pairs(Hashed(m)))
           v == (w + 1) \div 2
<1>1. Hashed(m) = s
  <2>1. IsSeq(Hashed(m)) /\ Len(Hashed(m)) = w /\ \A i \in 1..w : Hashed(m)[i] = s[i]
    BY HashedIs DEF SameRow
  <2> QED BY <2>1, SeqSame DEF SameRow
<1>2. /\ IsSeq(Pairs(s)) /\ Len(Pairs(s)) = v
      /\ \A i \in 1..v : Pairs(s)[i] = Concat(s[2 * i - 1], s[RightOf(i, w)])
  BY PairsAre DEF SameRow
<1>3. /\ IsSeq(n) /\ Len(n) = v
      /\ \A i \in 1..v : n[i] = calculate_sha256(Pairs(s)[i])
  BY <1>1, <1>2, HashedIs
<1>4. t = Hashed(n)
  BY <1>1
<1> HIDE DEF n, t, v
<1>5. /\ IsSeq(t) /\ Len(t) = v
      /\ \A i \in 1..v : t[i] = calculate_sha256(n[i])
  BY <1>3, <1>4, HashedIs
<1>6. SameRow(t, n, v)
  BY <1>3, <1>5 DEF SameRow
<1>7. IsAbove(t, s, w)
  BY <1>2, <1>3, <1>5, Zenon DEF IsAbove, calculate_double_sha256, v
<1> QED BY <1>6, <1>7 DEF t, n, v

\* The depth of a tree is that of a single root.
LEMMA DepthIs ==
  ASSUME NEW n \in Nat \ {0}
  PROVE  TreeDepth(n) \in Nat /\ Width(n, TreeDepth(n)) = 1
<1> DEFINE S == {d \in 0..n : n <= Pow2[d]}
<1>1. n < Pow2[n] /\ Pow2[n] \in Nat
  BY BelowPow2, Pow2Is
<1>2. n \in S
  BY <1>1
<1>3. S \in SUBSET Nat
  OBVIOUS
<1>4. \E d \in S : \A l \in S : d <= l
  <2> HIDE DEF S
  <2> QED BY <1>2, <1>3, LeastNumber
<1>5. TreeDepth(n) \in S
  <2> HIDE DEF S
  <2>1. Min(S) \in S
    BY <1>4 DEF Min
  <2> QED BY <2>1 DEF TreeDepth, S
<1>6. PICK d \in Nat : d = TreeDepth(n) /\ n <= Pow2[d]
  BY <1>3, <1>5
<1>7. Up(n - 1, d) = 0
  <2>1. n - 1 \in Nat /\ n - 1 < Pow2[d]
    <3> Pow2[d] \in Nat BY Pow2Is
    <3> QED BY <1>6
  <2> QED BY <2>1, UpZero
<1> QED BY <1>6, <1>7 DEF Width


\* The rows of the tree of txs, up to l levels above its leaves, and those of the
\* tree of first digests
TreesOk(s, m, leaves, l) ==
  /\ IsSeq(s) /\ Len(s) = l + 1 /\ s[1] = leaves
  /\ IsSeq(m) /\ Len(m) = l + 1
  /\ \A k \in 1..(l + 1) : SameRow(s[k], m[k], Width(Len(leaves), k - 1))
  /\ \A k \in 1..l : IsAbove(s[k + 1], s[k], Width(Len(leaves), k - 1))

\* One row more.
LEMMA TreesStep ==
  ASSUME NEW leaves, Len(leaves) \in Nat \ {0}, NEW l \in Nat, NEW s, NEW m, TreesOk(s, m, leaves, l)
  PROVE  TreesOk(Append(s, Hashed(Hashed(Pairs(s[l + 1])))),
                 Append(m, Hashed(Pairs(Hashed(m[l + 1])))), leaves, l + 1)
<1> DEFINE t == Hashed(Hashed(Pairs(s[l + 1])))
           n == Hashed(Pairs(Hashed(m[l + 1])))
           s2 == Append(s, t)
           m2 == Append(m, n)
           w == Width(Len(leaves), l)
<1>1. w \in Nat /\ Width(Len(leaves), l + 1) = (w + 1) \div 2
  BY WidthIs
<1>2. SameRow(s[l + 1], m[l + 1], w)
  <2>1. l + 1 \in 1..(l + 1) /\ l + 1 - 1 = l
    OBVIOUS
  <2> QED BY <2>1 DEF TreesOk
<1>3. SameRow(t, n, (w + 1) \div 2) /\ IsAbove(t, s[l + 1], w)
  BY <1>1, <1>2, RowsAbove
<1> HIDE DEF t, n
<1>4. /\ IsSeq(s2) /\ Len(s2) = l + 2 /\ s2[l + 2] = t /\ \A k \in 1..(l + 1) : s2[k] = s[k]
      /\ IsSeq(m2) /\ Len(m2) = l + 2 /\ m2[l + 2] = n /\ \A k \in 1..(l + 1) : m2[k] = m[k]
  <2>1. IsSeq(s) /\ Len(s) = l + 1 /\ IsSeq(m) /\ Len(m) = l + 1 /\ l + 1 + 1 = l + 2
    BY DEF TreesOk
  <2> QED BY <2>1, AppendIs
<1> HIDE DEF s2, m2
<1>5. ASSUME NEW k \in 1..(l + 2) PROVE SameRow(s2[k], m2[k], Width(Len(leaves), k - 1))
  <2>1. CASE k = l + 2
    <3> k - 1 = l + 1 BY <2>1
    <3> QED BY <1>1, <1>3, <1>4, <2>1 DEF w
  <2>2. CASE k # l + 2
    <3>1. k \in 1..(l + 1)
      BY <2>2
    <3> QED BY <1>4, <3>1 DEF TreesOk
  <2> QED BY <2>1, <2>2
<1>6. ASSUME NEW k \in 1..(l + 1) PROVE IsAbove(s2[k + 1], s2[k], Width(Len(leaves), k - 1))
  <2>1. CASE k = l + 1
    <3> k + 1 = l + 2 /\ k - 1 = l BY <2>1
    <3> QED BY <1>3, <1>4, <2>1 DEF w
  <2>2. CASE k # l + 1
    <3>1. k \in 1..l /\ k + 1 \in 1..(l + 1)
      BY <2>2
    <3> QED BY <1>4, <3>1 DEF TreesOk
  <2> QED BY <2>1, <2>2
<1>7. s2[1] = leaves
  <2> 1 \in 1..(l + 1) OBVIOUS
  <2> QED BY <1>4 DEF TreesOk
<1>8. l + 1 + 1 = l + 2
  OBVIOUS
<1>9. TreesOk(s2, m2, leaves, l + 1)
  BY <1>4, <1>5, <1>6, <1>7, <1>8 DEF TreesOk
<1> QED BY <1>9 DEF s2, m2, t, n

\* The tree over the transactions' ids, and that over their first digests.
LEMMA TreesAre ==
  ASSUME NEW txs, Len(txs) \in Nat \ {0}, NEW leaves, IsSeq(leaves), Len(leaves) = Len(txs),
         \A i \in 1..Len(txs) : leaves[i] = txid(txs[i])
  PROVE  TreesOk(StandardTree(leaves), new_mid_state(txs), leaves, TreeDepth(Len(txs)))
<1> DEFINE d == TreeDepth(Len(txs))
           S == StandardRows(leaves)
           M == MidRows(txs)
           digests == Digests(txs)
           bad == {l \in Nat : l <= d /\ ~TreesOk(S[l], M[l], leaves, l)}
<1>1. d \in Nat
  BY DepthIs
<1>2. /\ S[0] = <<leaves>>
      /\ \A k \in 1..d : S[k] = Append(S[k - 1], Hashed(Hashed(Pairs(S[k - 1][k]))))
  BY <1>1, StandardRowsAre DEF StandardRowsNext
<1>3. /\ M[0] = <<digests>>
      /\ \A k \in 1..d : M[k] = Append(M[k - 1], Hashed(Pairs(Hashed(M[k - 1][k]))))
  BY <1>1, MidRowsAre DEF MidRowsNext
<1>4. SameRow(leaves, digests, Len(leaves))
  <2>1. digests \in [1..Len(txs) -> {digests[i] : i \in 1..Len(txs)}]
        /\ \A i \in 1..Len(txs) : digests[i] = mid_state_txid(txs[i])
    BY DEF Digests
  <2> HIDE DEF digests
  <2>2. IsSeq(digests) /\ Len(digests) = Len(txs)
    BY <2>1, SeqOf
  <2> QED BY <2>1, <2>2 DEF SameRow, txid
<1> HIDE DEF d, S, M, digests
<1> SUFFICES ASSUME bad # {} PROVE FALSE
  BY <1>1 DEF StandardTree, new_mid_state, d, S, M
<1>5. PICK l \in bad : \A k \in bad : l <= k
  <2> HIDE DEF bad
  <2> bad \in SUBSET Nat BY DEF bad
  <2> QED BY LeastNumber
<1>6. TreesOk(S[0], M[0], leaves, 0)
  <2>1. /\ IsSeq(<<leaves>>) /\ Len(<<leaves>>) = 1 /\ <<leaves>>[1] = leaves
        /\ IsSeq(<<digests>>) /\ Len(<<digests>>) = 1 /\ <<digests>>[1] = digests
    BY OneElement
  <2>2. Width(Len(leaves), 0) = Len(leaves)
    BY WidthIs
  <2>3. \A k \in 1..(0 + 1) : k = 1 /\ k - 1 = 0
    OBVIOUS
  <2>4. 1..0 = {}
    OBVIOUS
  <2> QED BY <1>2, <1>3, <1>4, <2>1, <2>2, <2>3, <2>4 DEF TreesOk
<1>7. PICK k \in Nat : l = k + 1 /\ l - 1 = k /\ l \in 1..d /\ k \notin bad /\ k <= d
  <2> l # 0 BY <1>5, <1>6
  <2> l - 1 \in Nat /\ l = (l - 1) + 1 /\ l \in 1..d /\ ~(l <= l - 1) /\ l - 1 <= d
    BY <1>1, <1>5
  <2> QED BY <1>5
<1>8. TreesOk(S[k], M[k], leaves, k)
  BY <1>7
<1>9. TreesOk(Append(S[k], Hashed(Hashed(Pairs(S[k][k + 1])))),
              Append(M[k], Hashed(Pairs(Hashed(M[k][k + 1])))), leaves, k + 1)
  BY <1>8, TreesStep
<1>10. /\ S[l] = Append(S[k], Hashed(Hashed(Pairs(S[k][k + 1]))))
       /\ M[l] = Append(M[k], Hashed(Pairs(Hashed(M[k][k + 1]))))
  BY <1>2, <1>3, <1>7
<1> QED BY <1>5, <1>7, <1>9, <1>10


\* A leaf's path leads to the root, row by row.
LEMMA PathFinds ==
  ASSUME NEW leaves, Len(leaves) \in Nat \ {0}, NEW d \in Nat, NEW s, NEW m, TreesOk(s, m, leaves, d),
         NEW i \in Nat, i < Len(leaves)
  PROVE  LET proof == generate_proof(m, i)
         IN /\ Len(proof.merkle_proof) = d
            /\ \A l \in 0..d : PathHashes(proof, leaves[i + 1])[l] = s[l + 1][Up(i, l) + 1]
<1> DEFINE proof == generate_proof(m, i)
           path == proof.merkle_proof
           id == leaves[i + 1]
           H == PathHashes(proof, id)
           W(l) == Width(Len(leaves), l)
           at(l) == IF Up(i, l - 1) % 2 = 0 /\ Up(i, l - 1) = W(l - 1) - 1 THEN Up(i, l - 1) + 1
                    ELSE Sibling(Up(i, l - 1)) + 1
           bad == {l \in Nat : l <= d /\ H[l] # s[l + 1][Up(i, l) + 1]}
<1>1. Len(m) = d + 1 /\ s[1] = leaves /\ \A k \in 1..(d + 1) : SameRow(s[k], m[k], W(k - 1))
  BY DEF TreesOk
<1>2. /\ Len(path) = d
      /\ \A l \in 1..d : path[l] = m[l][at(l)]
  <2> DEFINE p == [l \in 1..d |-> m[l][IF Up(i, l - 1) % 2 = 0 /\ Up(i, l - 1) = Len(m[l]) - 1
                                       THEN Up(i, l - 1) + 1 ELSE Sibling(Up(i, l - 1)) + 1]]
  <2>1. path = p
    <3> Len(m) - 1 = d BY <1>1
    <3> QED BY DEF generate_proof, get_idx_path, Up
  <2>2. ASSUME NEW l \in 1..d PROVE p[l] = m[l][at(l)]
    <3> l \in 1..(d + 1) OBVIOUS
    <3>1. Len(m[l]) = W(l - 1)
      BY <1>1 DEF SameRow
    <3> HIDE DEF W
    <3> QED BY <3>1
  <2>3. p \in [1..d -> {p[l] : l \in 1..d}]
    OBVIOUS
  <2> HIDE DEF p, at, path
  <2>4. Len(p) = d
    BY <2>3, SeqOf
  <2> QED BY <2>1, <2>2, <2>4
<1>3. proof.idx = i
  BY DEF generate_proof
<1> HIDE DEF proof, path, id, W, at
<1>4. /\ H[0] = id
      /\ \A l \in 1..d :
           H[l] = calculate_double_sha256(IF Bit(i, l - 1) = 0
                                          THEN Concat(H[l - 1], calculate_sha256(path[l]))
                                          ELSE Concat(calculate_sha256(path[l]), H[l - 1]))
  <2> Len(proof.merkle_proof) = d /\ d \in Nat BY <1>2 DEF path
  <2> QED BY <1>3, PathHashesAre DEF path, PathHashesNext
<1> HIDE DEF H
<1>5. bad = {}
  <2> SUFFICES ASSUME bad # {} PROVE FALSE
    OBVIOUS
  <2>1. PICK l \in bad : \A k \in bad : l <= k
    <3> HIDE DEF bad
    <3> bad \in SUBSET Nat BY DEF bad
    <3> QED BY LeastNumber
  <2>2. l # 0
    <3> Up(i, 0) = i BY UpIs
    <3> H[0] = s[0 + 1][Up(i, 0) + 1] BY <1>1, <1>4 DEF id
    <3> QED BY <2>1
  <2>3. PICK k \in Nat : l = k + 1 /\ l - 1 = k /\ l \in 1..d /\ l \in 1..(d + 1)
         /\ k \notin bad /\ k <= d
    <3> l - 1 \in Nat /\ l = (l - 1) + 1 /\ l \in 1..d /\ l \in 1..(d + 1) /\ ~(l <= l - 1) /\ l - 1 <= d
      BY <2>1, <2>2
    <3> QED BY <2>1
  <2>4. PICK u \in Nat, v \in Nat, b \in 0..1, w \in Nat :
          /\ u = Up(i, k) /\ v = Up(i, l) /\ b = Bit(i, k) /\ w = W(k)
          /\ u = 2 * v + b /\ u + 1 <= w
    <3>1. /\ Up(i, k) \in Nat /\ Up(i, l) \in Nat /\ Bit(i, k) \in {0, 1}
          /\ Up(i, k) = 2 * Up(i, l) + Bit(i, k)
      BY <2>3, UpIs
    <3>2. i <= Len(leaves) - 1 /\ Len(leaves) - 1 \in Nat
      OBVIOUS
    <3>3. Up(i, k) <= Up(Len(leaves) - 1, k) /\ Up(Len(leaves) - 1, k) \in Nat
      BY <3>2, UpTogether, UpIs
    <3> QED BY <3>1, <3>3 DEF W, Width
  <2>12. u = 2 * v + b /\ u + 1 <= w
    BY <2>4, Zenon
  <2>5. H[k] = s[l][u + 1]
    BY <2>3, <2>4
  <2>6. SameRow(s[l], m[l], w)
    BY <1>1, <2>3, <2>4
  <2>7. s[l + 1][v + 1] = calculate_double_sha256(Concat(s[l][2 * v + 1], s[l][RightOf(v + 1, w)]))
    <3>1. IsAbove(s[l + 1], s[l], w)
      BY <2>3, <2>4 DEF TreesOk, W
    <3>2. v + 1 \in 1..((w + 1) \div 2) /\ 2 * (v + 1) - 1 = 2 * v + 1
      <4>1. 2 * (v + 1) <= w + 1
        BY <2>12
      <4>2. \A x \in Nat, y \in Nat : 2 * x <= y => x <= y \div 2
        OBVIOUS
      <4> QED BY <4>1, <4>2
    <3> QED BY <3>1, <3>2 DEF IsAbove
  <2>8. u % 2 = b
    <3>1. \A x \in Nat, c \in 0..1 : (2 * x + c) % 2 = c
      OBVIOUS
    <3> QED BY <2>12, <3>1
  <2>9. H[l] # s[l + 1][v + 1]
    BY <2>1, <2>4
  <2>10. CASE b = 0
    <3>1. u = 2 * v /\ u % 2 = 0
      BY <2>4, <2>8, <2>10
    <3>2. at(l) = RightOf(v + 1, w) /\ at(l) \in 1..w
      <4>1. at(l) = IF u = w - 1 THEN u + 1 ELSE u + 1 + 1
        BY <2>3, <2>4, <3>1 DEF at, Sibling
      <4> QED BY <2>12, <3>1, <4>1 DEF RightOf
    <3>3. calculate_sha256(path[l]) = s[l][RightOf(v + 1, w)]
      BY <1>2, <2>3, <2>6, <3>2 DEF SameRow
    <3>4. H[l] = calculate_double_sha256(Concat(H[k], calculate_sha256(path[l])))
      BY <1>4, <2>3, <2>4, <2>10
    <3> QED BY <2>5, <2>7, <2>9, <3>1, <3>3, <3>4
  <2>11. CASE b = 1
    <3>1. u = 2 * v + 1 /\ u % 2 # 0
      BY <2>4, <2>8, <2>11
    <3>2. at(l) = u /\ u \in 1..w /\ RightOf(v + 1, w) = u + 1
      <4>1. at(l) = u - 1 + 1
        BY <2>3, <2>4, <3>1 DEF at, Sibling
      <4> QED BY <2>12, <3>1, <4>1 DEF RightOf
    <3>3. calculate_sha256(path[l]) = s[l][u]
      BY <1>2, <2>3, <2>6, <3>2 DEF SameRow
    <3>4. H[l] = calculate_double_sha256(Concat(calculate_sha256(path[l]), H[k]))
      <4>1. Bit(i, k) = b
        BY <2>4, Zenon
      <4>2. b # 0
        BY <2>11
      <4>3. Bit(i, l - 1) # 0
        BY <2>3, <4>1, <4>2
      <4> QED BY <1>4, <2>3, <4>3
    <3> QED BY <2>5, <2>7, <2>9, <3>1, <3>2, <3>3, <3>4
  <2> QED BY <2>4, <2>10, <2>11
<1> QED BY <1>2, <1>5 DEF H, proof, path, id

\* The path of a transaction gives the root of the tree of ids.
LEMMA RootFound ==
  ASSUME NEW txs, Len(txs) \in Nat \ {0}, NEW leaves, IsSeq(leaves), Len(leaves) = Len(txs),
         \A i \in 1..Len(txs) : leaves[i] = txid(txs[i]), NEW k \in 1..Len(txs)
  PROVE  LET proof == generate_proof(new_mid_state(txs), k - 1)
         IN /\ Len(proof.merkle_proof) \in Nat
            /\ get_root(proof, txid(txs[k])) = root(StandardTree(leaves))
<1> DEFINE d == TreeDepth(Len(txs))
           s == StandardTree(leaves)
           m == new_mid_state(txs)
           proof == generate_proof(m, k - 1)
<1>1. d \in Nat /\ Width(Len(leaves), d) = 1
  BY DepthIs
<1>2. TreesOk(s, m, leaves, d)
  BY TreesAre
<1> HIDE DEF d, s, m
<1>3. k - 1 \in Nat /\ k - 1 < Len(leaves) /\ k - 1 + 1 = k /\ d \in 0..d
  BY <1>1
<1>4. /\ Len(proof.merkle_proof) = d
      /\ PathHashes(proof, leaves[k])[d] = s[d + 1][Up(k - 1, d) + 1]
  BY <1>1, <1>2, <1>3, PathFinds
<1>5. Up(k - 1, d) = 0
  <2>1. Up(k - 1, d) \in Nat /\ Up(Len(leaves) - 1, d) \in Nat /\ Up(k - 1, d) <= Up(Len(leaves) - 1, d)
    <3> Len(leaves) - 1 \in Nat /\ k - 1 <= Len(leaves) - 1 OBVIOUS
    <3> QED BY <1>1, <1>3, UpIs, UpTogether
  <2> QED BY <1>1, <2>1 DEF Width
<1>6. Len(s) = d + 1
  BY <1>2 DEF TreesOk
<1> HIDE DEF proof
<1>7. get_root(proof, txid(txs[k])) = s[d + 1][1]
  BY <1>4, <1>5 DEF get_root
<1> QED BY <1>1, <1>4, <1>6, <1>7 DEF root, proof, s, m

\* SHA-256 is injective in the model.
LEMMA ShaDiffers ==
  \A x, y : calculate_sha256(x) = calculate_sha256(y) => x = y
<1>1. \A x : calculate_sha256(x).sha256 = x
  BY DEF calculate_sha256
<1>2. ASSUME NEW x, NEW y, calculate_sha256(x) = calculate_sha256(y) PROVE x = y
  <2>1. calculate_sha256(x).sha256 = calculate_sha256(y).sha256
    BY <1>2, Zenon
  <2> QED BY <1>1, <2>1
<1> QED BY <1>2

\* Different pairs have different digests.
LEMMA DigestsDiffer ==
  ASSUME NEW a, NEW b, NEW c, NEW d,
         calculate_double_sha256(Concat(a, b)) = calculate_double_sha256(Concat(c, d))
  PROVE  a = c /\ b = d
<1>1. Concat(a, b) = Concat(c, d)
  BY ShaDiffers DEF calculate_double_sha256
<1>2. Concat(a, b).left = a /\ Concat(a, b).right = b /\ Concat(c, d).left = c /\ Concat(c, d).right = d
  BY DEF Concat
<1> QED BY <1>1, <1>2

\* Different ids lead to different roots along one path.
LEMMA RootsDiffer ==
  ASSUME NEW proof, Len(proof.merkle_proof) \in Nat, NEW a, NEW b,
         get_root(proof, a) = get_root(proof, b)
  PROVE  a = b
<1> DEFINE A == PathHashes(proof, a)
           B == PathHashes(proof, b)
           n == Len(proof.merkle_proof)
           sibling(k) == calculate_sha256(proof.merkle_proof[k])
           same == {j \in Nat : j <= n /\ A[j] = B[j]}
<1>1. /\ A[0] = a
      /\ \A k \in 1..n : A[k] = calculate_double_sha256(IF Bit(proof.idx, k - 1) = 0
                                  THEN Concat(A[k - 1], sibling(k)) ELSE Concat(sibling(k), A[k - 1]))
  BY PathHashesAre DEF PathHashesNext
<1>2. /\ B[0] = b
      /\ \A k \in 1..n : B[k] = calculate_double_sha256(IF Bit(proof.idx, k - 1) = 0
                                  THEN Concat(B[k - 1], sibling(k)) ELSE Concat(sibling(k), B[k - 1]))
  BY PathHashesAre DEF PathHashesNext
<1>3. n \in same
  BY DEF get_root
<1> HIDE DEF A, B, sibling
<1>4. PICK j \in same : \A k \in same : j <= k
  <2> HIDE DEF same
  <2> same \in SUBSET Nat BY DEF same
  <2> QED BY <1>3, LeastNumber
<1>5. ASSUME j # 0 PROVE FALSE
  <2>1. j \in 1..n /\ j - 1 \in Nat /\ j - 1 <= n /\ ~(j <= j - 1)
    BY <1>4, <1>5
  <2>2. A[j - 1] = B[j - 1]
    <3>1. CASE Bit(proof.idx, j - 1) = 0
      <4> calculate_double_sha256(Concat(A[j - 1], sibling(j)))
          = calculate_double_sha256(Concat(B[j - 1], sibling(j)))
        BY <1>1, <1>2, <1>4, <2>1, <3>1
      <4> QED BY DigestsDiffer
    <3>2. CASE Bit(proof.idx, j - 1) # 0
      <4> calculate_double_sha256(Concat(sibling(j), A[j - 1]))
          = calculate_double_sha256(Concat(sibling(j), B[j - 1]))
        BY <1>1, <1>2, <1>4, <2>1, <3>2
      <4> QED BY DigestsDiffer
    <3> QED BY <3>1, <3>2
  <2> QED BY <1>4, <2>1, <2>2
<1>6. A[0] = B[0]
  BY <1>4, <1>5
<1> QED BY <1>1, <1>2, <1>6
=============================================================================
