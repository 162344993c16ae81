-------------------------- MODULE PegInSigningProofs --------------------------
(***************************************************************************)
(* Theorems about PegInSigning, for any set of verifiers, any window and   *)
(* any number of restarts.                                                 *)
(***************************************************************************)
EXTENDS PegInSigning, LeastNumber

-----------------------------------------------------------------------------
(* Merging files one after the other. *)

\* f lists the intermediate results of merging the first n named files.
IsMerging(f, c, names, n) ==
  f = [i \in 0..n |-> IF i = 0 THEN c ELSE merge(f[i - 1], files[names[i]])]

\* The recursion of process_files has a solution for any number of files.
LEMMA MergingExists ==
  ASSUME NEW c, NEW names
  PROVE  \A n \in Nat : \E f : IsMerging(f, c, names, n)
<1> DEFINE bad == {n \in Nat : ~ \E f : IsMerging(f, c, names, n)}
<1> SUFFICES ASSUME bad # {} PROVE FALSE
  OBVIOUS
<1>1. PICK n \in bad : \A m \in bad : n <= m
  BY LeastNumber
<1>2. CASE n = 0
  <2> DEFINE h == [i \in 0..0 |-> c]
  <2> IsMerging(h, c, names, 0)
    BY DEF IsMerging
  <2> QED BY <1>2
<1>3. CASE n # 0
  <2>1. n \in Nat /\ n - 1 \in Nat /\ ~(n <= n - 1)
    BY <1>3
  <2>2. PICK f : IsMerging(f, c, names, n - 1)
    BY <1>1, <2>1
  <2> DEFINE h == [i \in 0..n |-> IF i = n THEN merge(f[n - 1], files[names[n]])
                                           ELSE f[i]]
  <2>3. ASSUME NEW i \in 0..n
        PROVE  h[i] = IF i = 0 THEN c ELSE merge(h[i - 1], files[names[i]])
    BY <2>1, <2>2, <1>3 DEF IsMerging
  <2>4. IsMerging(h, c, names, n)
    BY <2>3 DEF IsMerging
  <2> QED BY <2>4
<1> QED BY <1>2, <1>3

\* So process_files returns the last intermediate result.
LEMMA ProcessFilesIs ==
  ASSUME NEW c, NEW names, Len(names) \in Nat
  PROVE  \E f : /\ IsMerging(f, c, names, Len(names))
                /\ process_files(c, names) = f[Len(names)]
<1> DEFINE f == CHOOSE f : IsMerging(f, c, names, Len(names))
<1>1. IsMerging(f, c, names, Len(names))
  <2> \E g : IsMerging(g, c, names, Len(names)) BY MergingExists
  <2> QED OBVIOUS
<1>2. process_files(c, names) = f[Len(names)]
  BY DEF process_files, IsMerging
<1> QED BY <1>1, <1>2

\* A merge of two consistent copies is one.
LEMMA MergeConsistent ==
  ASSUME NEW a \in Copies, NEW b \in Copies, secret \in Nonces,
         Consistent(a), Consistent(b)
  PROVE  /\ merge(a, b) \in Copies
         /\ Consistent(merge(a, b))
         /\ \A u \in Verifiers :
              merge(a, b).nonces[u] = 0 <=> a.nonces[u] = 0 /\ b.nonces[u] = 0
<1> DEFINE c == merge(a, b)
<1>1. \A u \in Verifiers :
         /\ c.nonces[u] = IF b.nonces[u] # 0 THEN b.nonces[u] ELSE a.nonces[u]
         /\ c.signatures[u] = IF b.signatures[u] # {} THEN b.signatures[u]
                                                      ELSE a.signatures[u]
  BY DEF merge
<1>2. c.witness = IF a.witness < b.witness THEN b.witness ELSE a.witness
  BY DEF merge
<1>3. a.witness \in 0..2 /\ b.witness \in 0..2
  BY DEF Copies
<1>4. c \in Copies
  <2>1. \A u \in Verifiers :
          /\ a.nonces[u] \in 0..MaxNonce /\ b.nonces[u] \in 0..MaxNonce
          /\ a.signatures[u] \in SUBSET Nonces /\ b.signatures[u] \in SUBSET Nonces
    BY DEF Copies, Nonces
  <2>2. [v \in Verifiers |-> IF b.nonces[v] # 0 THEN b.nonces[v] ELSE a.nonces[v]]
          \in Nonces
    BY <2>1 DEF Nonces
  <2>3. [v \in Verifiers |-> IF b.signatures[v] # {} THEN b.signatures[v]
                                                     ELSE a.signatures[v]]
          \in [Verifiers -> SUBSET Nonces]
    BY <2>1
  <2>4. (IF a.witness < b.witness THEN b.witness ELSE a.witness) \in 0..2
    BY <1>3
  <2> QED BY <2>2, <2>3, <2>4 DEF Copies, merge
<1>5. \A u \in Verifiers : c.nonces[u] = 0 <=> a.nonces[u] = 0 /\ b.nonces[u] = 0
  BY <1>1
<1>6. Consistent(c)
  <2> HIDE DEF c
  <2>1. \A u \in Verifiers : /\ c.nonces[u] \in {0, secret[u]}
                             /\ c.signatures[u] \in {{}, {secret}}
    BY <1>1 DEF Consistent
  <2>2. (\E u \in Verifiers : c.signatures[u] # {}) =>
          has_all_nonces(c) /\ \A u \in Verifiers : Filed(u)
    BY <1>1, <1>5 DEF Consistent, has_all_nonces
  <2>3. c.witness # 0 => has_all_signatures(c)
    BY <1>1, <1>2, <1>3 DEF Consistent, has_all_signatures
  <2>4. c.witness <= 1
    BY <1>2, <1>3 DEF Consistent
  <2> QED BY <2>1, <2>2, <2>3, <2>4 DEF Consistent
<1> QED BY <1>4, <1>5, <1>6

\* So is what process_files returns; it has a nonce of u exactly when the copy
\* or one of the files does.
LEMMA ProcessConsistent ==
  ASSUME SigningInv, NEW v \in Verifiers, NEW names \in Seq(1..Len(files))
  PROVE  LET r == process_files(copy[v], names) IN
         /\ r \in Copies
         /\ Consistent(r)
         /\ \A u \in Verifiers :
              r.nonces[u] # 0 <=> \/ copy[v].nonces[u] # 0
                                  \/ \E i \in 1..Len(names) : files[names[i]].nonces[u] # 0
<1> DEFINE c == copy[v]
           N == Len(names)
<1>1. PICK f : IsMerging(f, c, names, N) /\ process_files(c, names) = f[N]
  <2> Len(names) \in Nat OBVIOUS
  <2> QED BY ProcessFilesIs
<1> DEFINE Good(n) == /\ f[n] \in Copies
                      /\ Consistent(f[n])
                      /\ \A u \in Verifiers :
                           f[n].nonces[u] # 0 <=>
                             \/ c.nonces[u] # 0
                             \/ \E i \in 1..n : files[names[i]].nonces[u] # 0
           bad == {n \in 0..N : ~Good(n)}
<1>2. c \in Copies /\ Consistent(c) /\ secret \in Nonces
  BY DEF SigningInv, SigningTypeOK, Nonces
<1>3. \A i \in 1..N : files[names[i]] \in Copies /\ Consistent(files[names[i]])
  <2>1. \A i \in 1..N : names[i] \in 1..Len(files)
    OBVIOUS
  <2>2. \A k \in 1..Len(files) : files[k] \in Copies /\ Consistent(files[k])
    BY DEF SigningInv, SigningTypeOK
  <2> HIDE DEF N
  <2> QED BY <2>1, <2>2
<1>4. /\ N \in Nat /\ f[0] = c
      /\ \A n \in 1..N : f[n] = merge(f[n - 1], files[names[n]])
  <2>1. N \in Nat
    OBVIOUS
  <2> HIDE DEF N
  <2> QED BY <1>1, <2>1 DEF IsMerging
<1> HIDE DEF N
<1>5. bad = {}
  <2> SUFFICES ASSUME bad # {} PROVE FALSE
    OBVIOUS
  <2>1. PICK n \in bad : \A m \in bad : n <= m
    <3> bad \in SUBSET Nat BY <1>4
    <3> HIDE DEF bad
    <3> QED BY LeastNumber
  <2>2. n # 0
    <3> Good(0) BY <1>2, <1>4
    <3> QED BY <2>1
  <2>3. n \in 1..N /\ n - 1 \in 0..N /\ ~(n <= n - 1)
    BY <1>4, <2>2
  <2>4. Good(n - 1)
    BY <2>1, <2>3
  <2> DEFINE d == files[names[n]]
  <2>5. d \in Copies /\ Consistent(d) /\ f[n] = merge(f[n - 1], d)
    BY <1>3, <1>4, <2>3
  <2>6. /\ f[n] \in Copies
        /\ Consistent(f[n])
        /\ \A u \in Verifiers :
             f[n].nonces[u] = 0 <=> f[n - 1].nonces[u] = 0 /\ d.nonces[u] = 0
    <3> HIDE DEF d
    <3> QED BY <1>2, <2>4, <2>5, MergeConsistent
  <2>7. \A u \in Verifiers :
          (\E i \in 1..n : files[names[i]].nonces[u] # 0) <=>
            \/ \E i \in 1..(n - 1) : files[names[i]].nonces[u] # 0
            \/ d.nonces[u] # 0
    BY <2>3
  <2>8. Good(n)
    BY <2>4, <2>6, <2>7
  <2> QED BY <2>8
<1>6. Good(N)
  BY <1>4, <1>5
<1> QED BY <1>1, <1>6 DEF N

-----------------------------------------------------------------------------
(* The invariant. *)

\* The depositor's file and the new copies are unsigned.
LEMMA InitSigning == Init => SigningInv
<1> SUFFICES ASSUME Init PROVE SigningInv
  OBVIOUS
<1> USE BoundsAssumption DEF Init
<1>1. MaxNonce \in Nat \ {0}
  BY DEF MaxNonce
<1>2. Unsigned \in Copies
  BY <1>1 DEF Unsigned, Copies, Nonces
<1>3. SigningTypeOK
  <2>1. files \in Seq(Copies) /\ Len(files) = 1
    BY <1>2
  <2>2. copy \in [Verifiers -> Copies] /\ latest \in [Verifiers -> 0..Len(files)]
    BY <1>2, <2>1
  <2>3. pc \in [Verifiers -> {"sync", "process", "flush", "push"}]
    OBVIOUS
  <2>4. secret \in [Verifiers -> 0..MaxNonce] /\ restarts \in 0..MaxRestarts
    BY <1>1
  <2>5. signed \in [Verifiers -> SUBSET (Nat \X Nonces)] /\ confirmed \in BOOLEAN
    OBVIOUS
  <2> QED BY <2>1, <2>2, <2>3, <2>4, <2>5 DEF SigningTypeOK
<1>4. Consistent(Unsigned)
  BY DEF Consistent, Unsigned
<1>5. \A i \in 1..Len(files) : files[i] = Unsigned
  OBVIOUS
<1>6. \A v \in Verifiers : OwnNonceKept(v) /\ NoncesFiled(v) /\ SignedOnce(v)
  BY <1>5 DEF OwnNonceKept, NoncesFiled, SignedOnce, Unsigned, Filed
<1> QED BY <1>3, <1>4, <1>5, <1>6 DEF SigningInv

\* While the secrets stay and the store only grows, what is in the store
\* stays there and what is consistent stays consistent.
LEMMA ConsistentKept ==
  ASSUME SigningInv, UNCHANGED secret,
         files' = files \/ \E v \in Verifiers : files' = Append(files, copy[v])
  PROVE  /\ files' \in Seq(Copies) /\ Len(files') >= Len(files)
         /\ \A i \in 1..Len(files) : files'[i] = files[i]
         /\ \A u \in Verifiers : Filed(u) => Filed(u)'
         /\ \A c : Consistent(c) => Consistent(c)'
<1>1. /\ files' \in Seq(Copies) /\ Len(files') >= Len(files) /\ Len(files) \in Nat
      /\ \A i \in 1..Len(files) : files'[i] = files[i]
  <2>1. files \in Seq(Copies) /\ \A v \in Verifiers : copy[v] \in Copies
    BY DEF SigningInv, SigningTypeOK
  <2>2. CASE files' = files
    BY <2>1, <2>2
  <2>3. ASSUME NEW v \in Verifiers, files' = Append(files, copy[v]) PROVE <1>1
    BY <2>1, <2>3
  <2> QED BY <2>2, <2>3
<1>2. \A u \in Verifiers : Filed(u) => Filed(u)'
  BY <1>1 DEF Filed
<1>3. ASSUME NEW c, Consistent(c) PROVE Consistent(c)'
  BY <1>2, <1>3 DEF Consistent, has_all_nonces, has_all_signatures
<1> QED BY <1>1, <1>2, <1>3

\* Reading files.  A client that merges every file it has not read holds
\* every nonce of the store that it held or that is in those files.
LEMMA MergeStep ==
  ASSUME SigningInv, NEW v \in Verifiers, NEW names \in Seq(1..Len(files)),
         copy' = [copy EXCEPT ![v] = process_files(@, names)],
         UNCHANGED <<files, secret, signed, confirmed, restarts>>
  PROVE  /\ copy' \in [Verifiers -> Copies]
         /\ \A i \in 1..Len(files) : Consistent(files[i])'
         /\ \A w \in Verifiers : Consistent(copy[w])' /\ SignedOnce(w)'
         /\ \A w \in Verifiers : w # v => copy'[w] = copy[w]
         /\ \A u \in Verifiers :
              copy'[v].nonces[u] # 0 <=>
                \/ copy[v].nonces[u] # 0
                \/ \E i \in 1..Len(names) : files[names[i]].nonces[u] # 0
<1> DEFINE r == process_files(copy[v], names)
<1>1. /\ r \in Copies
      /\ Consistent(r)
      /\ \A u \in Verifiers :
           r.nonces[u] # 0 <=> \/ copy[v].nonces[u] # 0
                               \/ \E i \in 1..Len(names) : files[names[i]].nonces[u] # 0
  BY ProcessConsistent
<1>2. copy' = [copy EXCEPT ![v] = r] /\ copy \in [Verifiers -> Copies]
  BY DEF SigningInv, SigningTypeOK
<1> HIDE DEF r
<1>3. copy'[v] = r /\ \A w \in Verifiers : w # v => copy'[w] = copy[w]
  BY <1>2
<1>4. \A w \in Verifiers : SignedOnce(w)'
  BY DEF SigningInv, SignedOnce, Filed
<1>5. \A i \in 1..Len(files) : Consistent(files[i])'
  BY DEF SigningInv, Consistent, Filed, has_all_nonces, has_all_signatures
<1>6. ASSUME NEW w \in Verifiers PROVE Consistent(copy[w])'
  <2>1. Consistent(copy'[w])
    BY <1>1, <1>3 DEF SigningInv
  <2> QED BY <2>1 DEF Consistent, Filed, has_all_nonces, has_all_signatures
<1> QED BY <1>1, <1>2, <1>3, <1>4, <1>5, <1>6

\* A sync: nothing is outside the window, so the own nonce comes back.
LEMMA SyncStep ==
  ASSUME SigningInv, WithinWindow, NEW v \in Verifiers, Sync(v)
  PROVE  SigningInv'
<1> DEFINE names == OldestFirst(latest[v] + 1)
           L == Len(files)
<1>1. latest[v] \in 0..L /\ L \in Nat /\ files \in Seq(Copies)
  BY DEF SigningInv, SigningTypeOK
<1>2. FirstInWindow(v) = latest[v] + 1
  BY <1>1, BoundsAssumption DEF FirstInWindow, WithinWindow, Sync
<1>3. /\ names \in Seq(1..L) /\ Len(names) = L - latest[v]
      /\ \A i \in 1..Len(names) : names[i] = latest[v] + i
  <2>1. names = [i \in 1..(L - latest[v]) |-> latest[v] + i]
    BY <1>1 DEF OldestFirst
  <2>2. \A i \in 1..(L - latest[v]) : latest[v] + i \in 1..L
    BY <1>1
  <2>3. L - latest[v] \in Nat
    BY <1>1
  <2> QED BY <2>1, <2>2, <2>3
<1> HIDE DEF names
<1>4. /\ copy' \in [Verifiers -> Copies]
      /\ \A i \in 1..Len(files) : Consistent(files[i])'
      /\ \A w \in Verifiers : Consistent(copy[w])' /\ SignedOnce(w)'
      /\ \A w \in Verifiers : w # v => copy'[w] = copy[w]
      /\ \A u \in Verifiers :
           copy'[v].nonces[u] # 0 <=>
             \/ copy[v].nonces[u] # 0
             \/ \E i \in 1..Len(names) : files[names[i]].nonces[u] # 0
  BY <1>2, <1>3, MergeStep DEF Sync, names
<1>5. SigningTypeOK'
  BY <1>1, <1>4 DEF Sync, Goto, SigningInv, SigningTypeOK
<1>6. \A u \in Verifiers :
        copy'[v].nonces[u] # 0 <=>
             \/ copy[v].nonces[u] # 0
             \/ \E i \in (latest[v] + 1)..L : files[i].nonces[u] # 0
  <2>1. ASSUME NEW i \in (latest[v] + 1)..L
        PROVE  i - latest[v] \in 1..Len(names) /\ names[i - latest[v]] = i
    <3>1. i \in Nat /\ latest[v] \in Nat /\ latest[v] < i /\ i <= L
      BY <1>1
    <3>2. i - latest[v] \in 1..(L - latest[v])
      BY <1>1, <3>1
    <3>3. latest[v] + (i - latest[v]) = i
      BY <3>1
    <3> QED BY <1>3, <3>2, <3>3
  <2>2. ASSUME NEW i \in 1..Len(names) PROVE names[i] \in (latest[v] + 1)..L
    <3>1. i \in 1..(L - latest[v]) /\ names[i] = latest[v] + i
      BY <1>3
    <3> QED BY <1>1, <3>1
  <2> QED BY <1>4, <2>1, <2>2
<1>7. /\ pc' = [pc EXCEPT ![v] = "process"] /\ latest' = [latest EXCEPT ![v] = L]
      /\ UNCHANGED <<files, secret, signed, confirmed, restarts>>
      /\ pc[v] = "sync"
      /\ pc \in [Verifiers -> {"sync", "process", "flush", "push"}]
      /\ latest \in [Verifiers -> 0..L]
  BY DEF Sync, Goto, SigningInv, SigningTypeOK
<1>8. OwnNonceKept(v)' /\ NoncesFiled(v)'
  <2>1. Filed(v) => copy'[v].nonces[v] # 0
    BY <1>1, <1>6 DEF SigningInv, OwnNonceKept, Filed
  <2>2. copy'[v].nonces[v] = 0 => copy[v].nonces[v] = 0
    BY <1>6
  <2>3. \A u \in Verifiers : copy'[v].nonces[u] # 0 => Filed(u)
    BY <1>1, <1>6, <1>7 DEF SigningInv, NoncesFiled, Filed
  <2> QED BY <1>7, <2>1, <2>2, <2>3 DEF SigningInv, OwnNonceKept, NoncesFiled, Filed
<1>9. ASSUME NEW w \in Verifiers, w # v PROVE OwnNonceKept(w)' /\ NoncesFiled(w)'
  BY <1>4, <1>7, <1>9 DEF SigningInv, OwnNonceKept, NoncesFiled, Filed
<1> QED BY <1>4, <1>5, <1>7, <1>8, <1>9 DEF SigningInv

\* The first half of a flush: the client has its nonce, and gets others.
LEMMA FlushMergeStep ==
  ASSUME SigningInv, NEW v \in Verifiers, FlushMerge(v)
  PROVE  SigningInv'
<1> DEFINE names == NewestFirst(latest[v] + 1)
           L == Len(files)
<1>1. latest[v] \in 0..L /\ L \in Nat /\ files \in Seq(Copies)
  BY DEF SigningInv, SigningTypeOK
<1>2. names \in Seq(1..L) /\ \A i \in 1..Len(names) : names[i] \in 1..L
  <2>1. names = [i \in 1..(L - latest[v]) |-> L + 1 - i]
    BY <1>1 DEF NewestFirst
  <2>2. \A i \in 1..(L - latest[v]) : L + 1 - i \in 1..L
    BY <1>1
  <2>3. L - latest[v] \in Nat
    BY <1>1
  <2> QED BY <2>1, <2>2, <2>3
<1> HIDE DEF names
<1>3. /\ copy' \in [Verifiers -> Copies]
      /\ \A i \in 1..Len(files) : Consistent(files[i])'
      /\ \A w \in Verifiers : Consistent(copy[w])' /\ SignedOnce(w)'
      /\ \A w \in Verifiers : w # v => copy'[w] = copy[w]
      /\ \A u \in Verifiers :
           copy'[v].nonces[u] # 0 <=>
             \/ copy[v].nonces[u] # 0
             \/ \E i \in 1..Len(names) : files[names[i]].nonces[u] # 0
  BY <1>2, MergeStep DEF FlushMerge, names
<1>4. SigningTypeOK'
  BY <1>1, <1>3 DEF FlushMerge, Goto, SigningInv, SigningTypeOK
<1>5. /\ pc' = [pc EXCEPT ![v] = "push"] /\ pc[v] = "flush"
      /\ UNCHANGED <<files, latest, secret, signed, confirmed, restarts>>
      /\ pc \in [Verifiers -> {"sync", "process", "flush", "push"}]
  BY DEF FlushMerge, Goto, SigningInv, SigningTypeOK
<1>6. OwnNonceKept(v)' /\ NoncesFiled(v)'
  <2>1. copy[v].nonces[v] # 0 /\ copy'[v].nonces[v] # 0
    BY <1>3, <1>5 DEF SigningInv, OwnNonceKept
  <2>2. \A u \in Verifiers : u # v /\ copy'[v].nonces[u] # 0 => Filed(u)
    BY <1>2, <1>3 DEF SigningInv, NoncesFiled, Filed
  <2> QED BY <1>5, <2>1, <2>2 DEF SigningInv, OwnNonceKept, NoncesFiled, Filed
<1>7. ASSUME NEW w \in Verifiers, w # v PROVE OwnNonceKept(w)' /\ NoncesFiled(w)'
  BY <1>3, <1>5, <1>7 DEF SigningInv, OwnNonceKept, NoncesFiled, Filed
<1> QED BY <1>3, <1>4, <1>5, <1>6, <1>7 DEF SigningInv

\* A new nonce: no file and no copy has an older one, and nobody has signed.
LEMMA NonceStep ==
  ASSUME SigningInv, NEW v \in Verifiers, push_verifier_nonces(v)
  PROVE  SigningInv'
<1>1. pc[v] = "process" /\ copy[v].nonces[v] = 0
  BY DEF push_verifier_nonces, verifier_status
<1>2. ~Filed(v)
  BY <1>1 DEF SigningInv, OwnNonceKept
<1>3. \A i \in 1..Len(files) : files[i].nonces[v] = 0
  BY <1>2 DEF Filed
<1>4. \A w \in Verifiers : copy[w].nonces[v] = 0
  BY <1>1, <1>2 DEF SigningInv, NoncesFiled
<1>5. /\ \A i \in 1..Len(files), u \in Verifiers : files[i].signatures[u] = {}
      /\ \A w \in Verifiers, u \in Verifiers : copy[w].signatures[u] = {}
      /\ \A w \in Verifiers : signed[w] = {}
  BY <1>2 DEF SigningInv, Consistent, SignedOnce
<1>6. /\ secret' = [secret EXCEPT ![v] = @ + 1]
      /\ copy' = [copy EXCEPT ![v].nonces[v] = secret[v] + 1]
      /\ pc' = [pc EXCEPT ![v] = "flush"]
      /\ UNCHANGED <<files, latest, signed, confirmed, restarts>>
  BY DEF push_verifier_nonces, Goto
<1>7. /\ secret[v] \in Nat /\ secret[v] <= restarts /\ restarts \in 0..MaxRestarts
      /\ secret \in [Verifiers -> 0..MaxNonce]
      /\ copy \in [Verifiers -> Copies]
      /\ pc \in [Verifiers -> {"sync", "process", "flush", "push"}]
  BY <1>1 DEF SigningInv, SigningTypeOK, OwnNonceKept
<1>8. secret[v] + 1 \in 1..MaxNonce
  BY <1>7, BoundsAssumption DEF MaxNonce
<1>9. /\ copy' \in [Verifiers -> Copies]
      /\ copy'[v] = [copy[v] EXCEPT !.nonces = [@ EXCEPT ![v] = secret[v] + 1]]
      /\ \A w \in Verifiers : w # v => copy'[w] = copy[w]
      /\ secret' \in [Verifiers -> 0..MaxNonce]
      /\ secret'[v] = secret[v] + 1
      /\ \A w \in Verifiers : w # v => secret'[w] = secret[w]
  <2>1. copy[v].nonces \in [Verifiers -> 0..MaxNonce] /\ copy[v] \in Copies
    BY <1>7 DEF Copies, Nonces
  <2>2. [copy[v].nonces EXCEPT ![v] = secret[v] + 1] \in [Verifiers -> 0..MaxNonce]
    BY <1>8, <2>1
  <2>3. [copy[v] EXCEPT !.nonces = [@ EXCEPT ![v] = secret[v] + 1]] \in Copies
    BY <2>1, <2>2 DEF Copies, Nonces
  <2> QED BY <1>6, <1>7, <1>8, <2>3
<1>10. SigningTypeOK'
  BY <1>6, <1>7, <1>9 DEF SigningInv, SigningTypeOK
<1>11. \A i \in 1..Len(files) : Consistent(files[i])'
  BY <1>3, <1>5, <1>6, <1>9
     DEF SigningInv, Consistent, has_all_nonces, has_all_signatures
<1>12. \A w \in Verifiers :
         /\ copy'[w].signatures = copy[w].signatures
         /\ copy'[w].witness = copy[w].witness
         /\ \A u \in Verifiers : u # v => copy'[w].nonces[u] = copy[w].nonces[u]
         /\ copy'[w].nonces[v] = IF w = v THEN secret[v] + 1 ELSE 0
  <2>1. copy[v].nonces \in [Verifiers -> 0..MaxNonce] /\ copy[v] \in Copies
    BY <1>7 DEF Copies, Nonces
  <2>2. copy'[v].signatures = copy[v].signatures /\ copy'[v].witness = copy[v].witness
        /\ copy'[v].nonces = [copy[v].nonces EXCEPT ![v] = secret[v] + 1]
    BY <1>9, <2>1 DEF Copies
  <2>3. ASSUME NEW w \in Verifiers, w # v
        PROVE  copy'[w] = copy[w] /\ copy'[w].nonces[v] = 0
    BY <1>4, <1>9, <2>3
  <2>4. /\ \A u \in Verifiers : u # v => copy'[v].nonces[u] = copy[v].nonces[u]
        /\ copy'[v].nonces[v] = secret[v] + 1
    BY <2>1, <2>2
  <2> QED BY <2>2, <2>3, <2>4
<1>13. \A w \in Verifiers : Consistent(copy[w])'
  BY <1>5, <1>6, <1>9, <1>12
     DEF SigningInv, Consistent, has_all_nonces, has_all_signatures
<1>14. \A u \in Verifiers : Filed(u)' <=> Filed(u)
  BY <1>6 DEF Filed
<1>15. \A w \in Verifiers : OwnNonceKept(w)'
  BY <1>2, <1>6, <1>7, <1>9, <1>12, <1>14 DEF SigningInv, OwnNonceKept
<1>16. \A w \in Verifiers : NoncesFiled(w)'
  BY <1>6, <1>7, <1>12, <1>14 DEF SigningInv, NoncesFiled
<1>17. \A w \in Verifiers : SignedOnce(w)'
  BY <1>5, <1>6 DEF SignedOnce
<1> QED BY <1>6, <1>10, <1>11, <1>13, <1>15, <1>16, <1>17 DEF SigningInv

\* A verifier about to sign holds the nonces of all secrets, and they are all
\* in the store; neither its signature nor the aggregate fails.
LEMMA ReadyToSign ==
  ASSUME SigningInv, NEW v \in Verifiers, push_verifier_signature(v)
  PROVE  /\ copy[v].nonces = secret
         /\ \A u \in Verifiers : Filed(u)
         /\ ~Panics(v, [copy[v].signatures EXCEPT ![v] = {copy[v].nonces}])
         /\ copy[v].signatures[v] = {} /\ copy[v].witness = 0
         /\ pc[v] = "process"
<1>1. /\ pc[v] = "process"
      /\ has_all_nonces(copy[v])
      /\ copy[v].signatures[v] = {}
  BY DEF push_verifier_signature, verifier_status
<1>2. /\ copy[v].nonces \in [Verifiers -> 0..MaxNonce]
      /\ secret \in [Verifiers -> 0..MaxNonce]
      /\ copy[v].signatures \in [Verifiers -> SUBSET Nonces]
      /\ copy[v].witness \in 0..2
  BY DEF SigningInv, SigningTypeOK, Copies, Nonces
<1>3. \A u \in Verifiers : copy[v].nonces[u] = secret[u]
  BY <1>1 DEF SigningInv, Consistent, has_all_nonces
<1>4. copy[v].nonces = secret
  BY <1>2, <1>3
<1>5. \A u \in Verifiers : Filed(u)
  BY <1>1 DEF SigningInv, NoncesFiled, has_all_nonces
<1>6. ~Panics(v, [copy[v].signatures EXCEPT ![v] = {copy[v].nonces}])
  <2>1. \A u \in Verifiers : copy[v].signatures[u] \in {{}, {secret}}
    BY DEF SigningInv, Consistent
  <2> QED BY <1>2, <1>3, <1>4, <2>1 DEF Panics
<1>7. copy[v].witness = 0
  BY <1>1, <1>2 DEF SigningInv, Consistent, has_all_signatures
<1> QED BY <1>1, <1>4, <1>5, <1>6, <1>7

\* A signature is made with the secret nonces, and the input finalised at
\* most once.
LEMMA SignatureStep ==
  ASSUME SigningInv, NEW v \in Verifiers, push_verifier_signature(v)
  PROVE  SigningInv'
<1> DEFINE sigs == [copy[v].signatures EXCEPT ![v] = {copy[v].nonces}]
           all  == \A u \in Verifiers : sigs[u] # {}
           new  == [copy[v] EXCEPT !.signatures = sigs,
                                   !.witness = IF all THEN 1 ELSE 0]
<1>1. /\ copy[v].nonces = secret
      /\ \A u \in Verifiers : Filed(u)
      /\ ~Panics(v, sigs)
      /\ copy[v].signatures[v] = {} /\ copy[v].witness = 0
      /\ pc[v] = "process"
  BY ReadyToSign
<1>2. /\ copy \in [Verifiers -> Copies]
      /\ copy[v] \in Copies
      /\ copy[v].signatures \in [Verifiers -> SUBSET Nonces]
      /\ copy[v].nonces \in Nonces
      /\ pc \in [Verifiers -> {"sync", "process", "flush", "push"}]
      /\ signed \in [Verifiers -> SUBSET (Nat \X Nonces)]
      /\ secret \in Nonces /\ secret[v] \in Nat
  BY DEF SigningInv, SigningTypeOK, Copies, Nonces
<1>3. /\ copy' = [copy EXCEPT ![v].signatures = sigs,
                             ![v].witness = IF all /\ @ < 2 THEN @ + 1 ELSE @]
      /\ signed' = [signed EXCEPT ![v] = @ \cup {<<secret[v], secret>>}]
      /\ pc' = [pc EXCEPT ![v] = "flush"]
      /\ UNCHANGED <<files, latest, secret, confirmed, restarts>>
  BY <1>1 DEF push_verifier_signature, Goto
<1>4. copy' = [copy EXCEPT ![v] = new]
  <2> HIDE DEF sigs, all
  <2>1. PICK n : n = IF all /\ copy[v].witness < 2 THEN copy[v].witness + 1
                                                  ELSE copy[v].witness
    OBVIOUS
  <2>2. n = IF all THEN 1 ELSE 0
    BY <1>1, <2>1
  <2> QED BY <1>2, <1>3, <2>1, <2>2
<1>5. /\ new \in Copies
      /\ new.nonces = secret /\ new.signatures = sigs
      /\ new.witness = IF all THEN 1 ELSE 0
  <2>1. sigs \in [Verifiers -> SUBSET Nonces] BY <1>1, <1>2
  <2>2. PICK n \in 0..2 : n = IF all THEN 1 ELSE 0
    OBVIOUS
  <2> HIDE DEF sigs, all
  <2> QED BY <1>1, <1>2, <2>1, <2>2 DEF Copies
<1>6. \A u \in Verifiers : sigs[u] \in {{}, {secret}}
  BY <1>1, <1>2 DEF SigningInv, Consistent
<1>7. Consistent(new)
  <2>1. has_all_nonces(new)
    BY <1>1, <1>5 DEF has_all_nonces, push_verifier_signature, verifier_status
  <2> QED BY <1>1, <1>5, <1>6, <2>1 DEF Consistent, has_all_signatures
<1> HIDE DEF new
<1>8. /\ copy'[v] = new /\ copy' \in [Verifiers -> Copies]
      /\ \A w \in Verifiers : w # v => copy'[w] = copy[w]
  BY <1>2, <1>4, <1>5
<1>9. SigningTypeOK'
  <2>1. signed' \in [Verifiers -> SUBSET (Nat \X Nonces)]
    BY <1>2, <1>3
  <2>2. pc' \in [Verifiers -> {"sync", "process", "flush", "push"}]
    BY <1>2, <1>3
  <2> QED BY <1>3, <1>8, <2>1, <2>2 DEF SigningInv, SigningTypeOK
<1>10. \A i \in 1..Len(files) : Consistent(files[i])'
  BY <1>3, ConsistentKept DEF SigningInv
<1>11. ASSUME NEW w \in Verifiers PROVE Consistent(copy[w])'
  <2> Consistent(copy'[w]) BY <1>7, <1>8 DEF SigningInv
  <2> QED BY <1>3 DEF Consistent, Filed, has_all_nonces, has_all_signatures
<1>12. \A w \in Verifiers : copy'[w].nonces = copy[w].nonces
  BY <1>1, <1>5, <1>8
<1>13. \A w \in Verifiers : OwnNonceKept(w)'
  <2>1. copy[v].nonces[v] # 0
    BY DEF push_verifier_signature, verifier_status
  <2> QED BY <1>2, <1>3, <1>12, <2>1 DEF SigningInv, OwnNonceKept, Filed
<1>14. \A w \in Verifiers : NoncesFiled(w)'
  BY <1>1, <1>3 DEF NoncesFiled, Filed
<1>15. \A w \in Verifiers : SignedOnce(w)'
  BY <1>1, <1>2, <1>3 DEF SigningInv, SignedOnce, Filed
<1> QED BY <1>3, <1>9, <1>10, <1>11, <1>13, <1>14, <1>15 DEF SigningInv

\* Steps that change nothing but where the client is.
LEMMA IdleStep ==
  ASSUME SigningInv, NEW v \in Verifiers,
         Wait(v) \/ broadcast_peg_in_confirm(v)
  PROVE  SigningInv'
<1>1. /\ pc[v] = "process" /\ pc' = [pc EXCEPT ![v] = "sync"]
      /\ UNCHANGED <<files, copy, latest, secret, signed, restarts>>
      /\ confirmed' \in BOOLEAN
  BY DEF Wait, broadcast_peg_in_confirm, Goto, SigningInv, SigningTypeOK
<1>2. SigningTypeOK'
  BY <1>1 DEF SigningInv, SigningTypeOK
<1>3. \A u \in Verifiers : Filed(u)' <=> Filed(u)
  BY <1>1 DEF Filed
<1>4. /\ \A i \in 1..Len(files) : Consistent(files[i])'
      /\ \A w \in Verifiers : Consistent(copy[w])'
  BY <1>1, <1>3 DEF SigningInv, Consistent, has_all_nonces, has_all_signatures
<1>5. pc \in [Verifiers -> {"sync", "process", "flush", "push"}]
  BY DEF SigningInv, SigningTypeOK
<1>6. \A w \in Verifiers : OwnNonceKept(w)' /\ NoncesFiled(w)' /\ SignedOnce(w)'
  BY <1>1, <1>3, <1>5 DEF SigningInv, OwnNonceKept, NoncesFiled, SignedOnce
<1> QED BY <1>1, <1>2, <1>4, <1>6 DEF SigningInv

\* The second half of a flush: the client's nonces get into the store, and no
\* nonce of another client that was not there before.
LEMMA FlushPushStep ==
  ASSUME SigningInv, NEW v \in Verifiers, FlushPush(v)
  PROVE  SigningInv'
<1> DEFINE L == Len(files)
<1>1. /\ pc[v] = "push" /\ pc' = [pc EXCEPT ![v] = "sync"]
      /\ files' = Append(files, copy[v])
      /\ latest' = [latest EXCEPT ![v] = L + 1]
      /\ UNCHANGED <<copy, secret, signed, confirmed, restarts>>
  BY DEF FlushPush, Goto
<1>2. /\ files \in Seq(Copies) /\ L \in Nat /\ copy[v] \in Copies
      /\ latest \in [Verifiers -> 0..L]
      /\ pc \in [Verifiers -> {"sync", "process", "flush", "push"}]
      /\ copy[v].nonces[v] # 0
  BY <1>1 DEF SigningInv, SigningTypeOK, OwnNonceKept
<1>3. /\ files' \in Seq(Copies) /\ Len(files') = L + 1
      /\ files'[L + 1] = copy[v] /\ \A i \in 1..L : files'[i] = files[i]
  BY <1>1, <1>2
<1>4. latest' \in [Verifiers -> 0..Len(files')]
  BY <1>1, <1>2, <1>3
<1>5. SigningTypeOK'
  BY <1>1, <1>2, <1>3, <1>4 DEF SigningInv, SigningTypeOK
<1>6. /\ \A u \in Verifiers : Filed(u) => Filed(u)'
      /\ \A c : Consistent(c) => Consistent(c)'
  BY <1>1, ConsistentKept
<1>7. \A u \in Verifiers : Filed(u)' => Filed(u) \/ copy[v].nonces[u] # 0
  BY <1>2, <1>3 DEF Filed
<1>8. \A u \in Verifiers : u # v => (Filed(u)' <=> Filed(u))
  BY <1>6, <1>7 DEF SigningInv, NoncesFiled
<1>9. \A u \in Verifiers : copy[v].nonces[u] # 0 => Filed(u)'
  BY <1>2, <1>3 DEF Filed
<1>10. ASSUME NEW i \in 1..Len(files') PROVE Consistent(files[i])'
  <2> PICK c : c = files'[i]
    OBVIOUS
  <2> Consistent(c)
    BY <1>2, <1>3 DEF SigningInv
  <2> Consistent(c)'
    BY <1>6
  <2> QED BY DEF Consistent, has_all_nonces, has_all_signatures
<1>11. \A w \in Verifiers : Consistent(copy[w])'
  BY <1>1, <1>6 DEF SigningInv
<1>12. \A w \in Verifiers : OwnNonceKept(w)'
  BY <1>1, <1>2, <1>3, <1>8 DEF SigningInv, OwnNonceKept
<1>13. \A w \in Verifiers : NoncesFiled(w)'
  BY <1>1, <1>2, <1>6, <1>9 DEF SigningInv, NoncesFiled
<1>14. \A w \in Verifiers : SignedOnce(w)'
  BY <1>1, <1>6 DEF SigningInv, SignedOnce
<1> QED BY <1>5, <1>10, <1>11, <1>12, <1>13, <1>14 DEF SigningInv

\* A restart: the client forgets its copy, and which files it has read.
LEMMA RestartStep ==
  ASSUME SigningInv, NEW v \in Verifiers, Restart(v)
  PROVE  SigningInv'
<1>1. /\ copy' = [copy EXCEPT ![v] = Unsigned]
      /\ latest' = [latest EXCEPT ![v] = 0]
      /\ pc' = [pc EXCEPT ![v] = "sync"]
      /\ restarts' = restarts + 1 /\ restarts < MaxRestarts
      /\ UNCHANGED <<files, secret, signed, confirmed>>
  BY DEF Restart, Die, Goto
<1>2. /\ copy \in [Verifiers -> Copies] /\ latest \in [Verifiers -> 0..Len(files)]
      /\ pc \in [Verifiers -> {"sync", "process", "flush", "push"}]
      /\ secret \in [Verifiers -> 0..MaxNonce] /\ restarts \in 0..MaxRestarts
      /\ files \in Seq(Copies) /\ MaxNonce \in Nat
  BY BoundsAssumption DEF SigningInv, SigningTypeOK, MaxNonce
<1>3. Unsigned \in Copies /\ Consistent(Unsigned)
  BY <1>2 DEF Unsigned, Copies, Nonces, Consistent
<1>4. /\ copy' \in [Verifiers -> Copies] /\ copy'[v] = Unsigned
      /\ \A w \in Verifiers : w # v => copy'[w] = copy[w]
  BY <1>1, <1>2, <1>3
<1>5. latest' \in [Verifiers -> 0..Len(files)] /\ restarts' \in 0..MaxRestarts
  BY <1>1, <1>2, BoundsAssumption
<1>6. SigningTypeOK'
  BY <1>1, <1>2, <1>4, <1>5 DEF SigningInv, SigningTypeOK
<1>7. \A u \in Verifiers : Filed(u)' <=> Filed(u)
  BY <1>1 DEF Filed
<1>8. \A i \in 1..Len(files) : Consistent(files[i])'
  BY <1>1, <1>7 DEF SigningInv, Consistent, has_all_nonces, has_all_signatures
<1>9. ASSUME NEW w \in Verifiers PROVE Consistent(copy[w])'
  <2> Consistent(copy'[w]) BY <1>3, <1>4 DEF SigningInv
  <2> QED BY <1>1, <1>7 DEF Consistent, has_all_nonces, has_all_signatures
<1>10. \A w \in Verifiers : OwnNonceKept(w)'
  BY <1>1, <1>2, <1>4, <1>7 DEF SigningInv, OwnNonceKept, Unsigned
<1>11. \A w \in Verifiers : NoncesFiled(w)'
  BY <1>1, <1>2, <1>4, <1>7 DEF SigningInv, NoncesFiled, Unsigned
<1>12. \A w \in Verifiers : SignedOnce(w)'
  BY <1>1, <1>7 DEF SigningInv, SignedOnce
<1> QED BY <1>1, <1>6, <1>8, <1>9, <1>10, <1>11, <1>12 DEF SigningInv

\* Every step keeps the invariant.
LEMMA NextSigning ==
  SigningInv /\ WithinWindow /\ [Next]_signVars => SigningInv'
<1> SUFFICES ASSUME SigningInv, WithinWindow, [Next]_signVars PROVE SigningInv'
  OBVIOUS
<1>1. ASSUME NEW v \in Verifiers, Step(v) \/ Restart(v) PROVE SigningInv'
  BY <1>1, SyncStep, NonceStep, SignatureStep, IdleStep, FlushMergeStep,
     FlushPushStep, RestartStep DEF Step
<1>2. CASE UNCHANGED signVars
  <2>1. UNCHANGED <<files, copy, latest, pc, secret, signed, confirmed, restarts>>
    BY <1>2 DEF signVars
  <2>2. \A u \in Verifiers : Filed(u)' <=> Filed(u)
    BY <2>1 DEF Filed
  <2>3. SigningTypeOK'
    BY <2>1 DEF SigningInv, SigningTypeOK
  <2>4. /\ \A i \in 1..Len(files) : Consistent(files[i])'
        /\ \A w \in Verifiers : Consistent(copy[w])'
    BY <2>1, <2>2 DEF SigningInv, Consistent, has_all_nonces, has_all_signatures
  <2>5. \A w \in Verifiers : OwnNonceKept(w)' /\ NoncesFiled(w)' /\ SignedOnce(w)'
    BY <2>1, <2>2 DEF SigningInv, OwnNonceKept, NoncesFiled, SignedOnce
  <2> QED BY <2>1, <2>3, <2>4, <2>5 DEF SigningInv
<1> QED BY <1>1, <1>2 DEF Next

-----------------------------------------------------------------------------
(***************************************************************************)
(* As long as no client falls so far behind that its sync leaves files     *)
(* out, restarts, races of flushes and overlooked files do no harm.        *)
(***************************************************************************)

\* Nonces, signatures and secrets agree in every copy and every file that
\* syncs and flushes produce.
THEOREM SigningInvHolds == Spec /\ []WithinWindow => []SigningInv
BY InitSigning, NextSigning, PTL DEF Spec

\* No secret nonce signs twice with different public nonces, however often
\* the verifiers are restarted and whatever files they read.
THEOREM NonceSafe == Spec /\ []WithinWindow => []NonceUsedOnce
<1>1. SigningInv => NonceUsedOnce
  BY DEF SigningInv, SignedOnce, NonceUsedOnce
<1> QED BY <1>1, SigningInvHolds, PTL

\* The signatures in a complete copy were made with the nonces in that copy,
\* so push_verifier_signature's aggregation does not fail.
THEOREM SignaturesValid == Spec /\ []WithinWindow => []SignaturesAgree
<1>1. SigningInv => SignaturesAgree
  <2> SUFFICES ASSUME SigningInv, NEW v \in Verifiers, has_all_signatures(copy[v]),
                      NEW u \in Verifiers
               PROVE  copy[v].signatures[u] = {copy[v].nonces}
    BY DEF SignaturesAgree
  <2>1. copy[v].signatures[u] = {secret} /\ has_all_nonces(copy[v])
    BY DEF SigningInv, Consistent, has_all_signatures
  <2>2. \A w \in Verifiers : copy[v].nonces[w] = secret[w]
    BY <2>1 DEF SigningInv, Consistent, has_all_nonces
  <2>3. copy[v].nonces = secret
    BY <2>2 DEF SigningInv, SigningTypeOK, Copies, Nonces
  <2> QED BY <2>1, <2>3
<1> QED BY <1>1, SigningInvHolds, PTL

\* The input of peg_in_confirm is finalised at most once in any copy.
THEOREM FinalisedSafe == Spec /\ []WithinWindow => []FinalisedOnce
<1>1. SigningInv => FinalisedOnce
  BY DEF SigningInv, Consistent, FinalisedOnce
<1> QED BY <1>1, SigningInvHolds, PTL
=============================================================================
