-------------------------- MODULE LightClientProofs --------------------------
(***************************************************************************)
(* Theorems about LightClient, for any networks, widths, epochs, numbers of *)
(* timestamps, headers and batches.                                         *)
(***************************************************************************)
EXTENDS MerkleProofs

-----------------------------------------------------------------------------
(* The loop of apply_blocks.                                                *)

\* f lists the loop's variables up to the n-th header.
IsTurns(f, start, hs, n) ==
  f = [k \in 0..n |-> IF k = 0 THEN start ELSE ApplyBlock(f[k - 1], hs[k])]

\* The loop runs over any number of headers.
LEMMA TurnsExist ==
  ASSUME NEW start, NEW hs
  PROVE  \A n \in Nat : \E f : IsTurns(f, start, hs, n)
<1> DEFINE bad == {n \in Nat : ~ \E f : IsTurns(f, start, hs, n)}
<1> SUFFICES ASSUME bad # {} PROVE FALSE
  OBVIOUS
<1>1. PICK n \in bad : \A m \in bad : n <= m
  <2> HIDE DEF bad
  <2> bad \in SUBSET Nat BY DEF bad
  <2> QED BY LeastNumber
<1>2. CASE n = 0
  <2> DEFINE h == [i \in 0..0 |-> start]
  <2> IsTurns(h, start, hs, 0)
    BY DEF IsTurns
  <2> QED BY <1>2
<1>3. CASE n # 0
  <2>1. n \in Nat /\ n - 1 \in Nat /\ ~(n <= n - 1)
    BY <1>3
  <2>2. PICK f : IsTurns(f, start, hs, n - 1)
    BY <1>1, <2>1
  <2> DEFINE next(acc, k) == ApplyBlock(acc, hs[k])
             h == [k \in 0..n |-> IF k = n THEN next(f[n - 1], n) ELSE f[k]]
  <2> HIDE DEF next
  <2>3. ASSUME NEW k \in 0..n
        PROVE  h[k] = IF k = 0 THEN start ELSE next(h[k - 1], k)
    BY <2>1, <2>2, <1>3 DEF IsTurns, next
  <2>4. h = [k \in 0..n |-> IF k = 0 THEN start ELSE next(h[k - 1], k)]
    BY <2>3
  <2>5. IsTurns(h, start, hs, n)
    BY <2>4, Zenon DEF IsTurns, next
  <2> QED BY <2>5
<1> QED BY <1>2, <1>3

\* Turns lists the loop's variables from the start, one header after the other.
LEMMA TurnsAre ==
  ASSUME NEW start, NEW hs, Len(hs) \in Nat
  PROVE  /\ Turns(start, hs)[0] = start
         /\ \A k \in 1..Len(hs) : Turns(start, hs)[k] = ApplyBlock(Turns(start, hs)[k - 1], hs[k])
<1> DEFINE f == CHOOSE f : IsTurns(f, start, hs, Len(hs))
<1>1. IsTurns(f, start, hs, Len(hs))
  <2> \E g : IsTurns(g, start, hs, Len(hs)) BY TurnsExist
  <2> QED OBVIOUS
<1>2. Turns(start, hs) = f
  BY DEF Turns, IsTurns
<1> HIDE DEF f
<1>3. f[0] = start
  BY <1>1 DEF IsTurns
<1>4. ASSUME NEW k \in 1..Len(hs) PROVE f[k] = ApplyBlock(f[k - 1], hs[k])
  <2> k \in 0..Len(hs) /\ k # 0 OBVIOUS
  <2> QED BY <1>1, Zenon DEF IsTurns
<1> QED BY <1>2, <1>3, <1>4

\* The loop's variables depend on the headers before only.
LEMMA TurnsOfPrefix ==
  ASSUME NEW start, NEW hs, NEW more, Len(hs) \in Nat, Len(more) \in Nat, Len(hs) <= Len(more),
         \A k \in 1..Len(hs) : hs[k] = more[k]
  PROVE  \A k \in 0..Len(hs) : Turns(start, hs)[k] = Turns(start, more)[k]
<1> DEFINE f == Turns(start, hs)
           g == Turns(start, more)
           bad == {k \in Nat : k \in 0..Len(hs) /\ f[k] # g[k]}
<1> HIDE DEF f, g
<1> SUFFICES ASSUME bad # {} PROVE FALSE
  BY DEF f, g
<1>1. PICK k \in bad : \A m \in bad : k <= m
  <2> HIDE DEF bad
  <2> bad \in SUBSET Nat BY DEF bad
  <2> QED BY LeastNumber
<1>2. k # 0
  BY <1>1, TurnsAre DEF f, g
<1>3. k - 1 \in Nat /\ k - 1 \in 0..Len(hs) /\ k \in 1..Len(hs) /\ k \in 1..Len(more)
  BY <1>1, <1>2
<1>4. f[k - 1] = g[k - 1]
  BY <1>1, <1>3
<1>5. f[k] = ApplyBlock(f[k - 1], hs[k]) /\ g[k] = ApplyBlock(g[k - 1], more[k])
  BY <1>3, TurnsAre DEF f, g
<1> QED BY <1>1, <1>3, <1>4, <1>5

-----------------------------------------------------------------------------
(* Epochs.                                                                  *)

\* The first header of an epoch, and the header after any other.
LEMMA Epochs ==
  ASSUME NEW n \in Nat
  PROVE  /\ FirstOf(n + 1) \in 1..(n + 1)
         /\ EpochOf(n + 1) \in Nat /\ EpochOf(FirstOf(n + 1)) = EpochOf(n + 1)
         /\ (FirstOf(n + 1) - 1) % BLOCKS_PER_EPOCH = 0
         /\ n % BLOCKS_PER_EPOCH = 0 => FirstOf(n + 1) = n + 1
         /\ n % BLOCKS_PER_EPOCH # 0 => n >= 1 /\ FirstOf(n + 1) = FirstOf(n)
<1> DEFINE B == BLOCKS_PER_EPOCH
           e == n \div B
           r == n % B
<1>1. B \in Nat /\ B >= 1
  BY WidthTypes
<1>2. n = B * e + r /\ e \in Nat /\ r \in Nat /\ r < B
  BY <1>1
<1>3. EpochOf(n + 1) = e /\ FirstOf(n + 1) = e * B + 1
  <2> n + 1 - 1 = n OBVIOUS
  <2> QED BY DEF EpochOf, FirstOf
<1> HIDE DEF e, r
<1>4. B * e = e * B /\ e * B \in Nat
  BY <1>1, <1>2
<1>5. FirstOf(n + 1) \in 1..(n + 1) /\ FirstOf(n + 1) - 1 = B * e
  BY <1>2, <1>3, <1>4
<1>6. (B * e) % B = 0 /\ (B * e) \div B = e
  BY <1>1, <1>2
<1>7. EpochOf(FirstOf(n + 1)) = e
  BY <1>5, <1>6 DEF EpochOf
<1>8. r = 0 => FirstOf(n + 1) = n + 1
  BY <1>2, <1>3, <1>4
<1>9. ASSUME r # 0 PROVE n >= 1 /\ FirstOf(n + 1) = FirstOf(n)
  <2>1. PICK p \in Nat : p = B * e
    BY <1>4
  <2>2. n - 1 = p + (r - 1) /\ r - 1 >= 0 /\ r - 1 < B /\ n >= 1
    <3>1. n = p + r /\ r \in Nat /\ r < B /\ r # 0
      BY <1>2, <1>9, <2>1
    <3> QED BY <1>1, <3>1
  <2>3. (B * e + (r - 1)) \div B = e
    BY <1>1, <1>2, <2>2
  <2>4. EpochOf(n) = e
    BY <2>1, <2>2, <2>3 DEF EpochOf
  <2> QED BY <1>3, <2>2, <2>4 DEF FirstOf
<1> QED BY <1>2, <1>3, <1>5, <1>6, <1>7, <1>8, <1>9 DEF r

\* The header after one that ends its epoch, and the header after any other.
LEMMA NextEpoch ==
  ASSUME NEW n \in Nat
  PROVE  /\ n % BLOCKS_PER_EPOCH = BLOCKS_PER_EPOCH - 1 =>
              /\ EpochOf(n + 2) # 0 /\ FirstOf(n + 2) = n + 2
              /\ FirstOf(n + 2) - BLOCKS_PER_EPOCH = FirstOf(n + 1)
         /\ n % BLOCKS_PER_EPOCH # BLOCKS_PER_EPOCH - 1 => EpochOf(n + 2) = EpochOf(n + 1)
<1> DEFINE B == BLOCKS_PER_EPOCH
           e == n \div B
           r == n % B
<1>1. B \in Nat /\ B >= 1
  BY WidthTypes
<1>2. n = B * e + r /\ e \in Nat /\ r \in Nat /\ r < B
  BY <1>1
<1>3. EpochOf(n + 1) = e /\ FirstOf(n + 1) = e * B + 1
  <2> n + 1 - 1 = n OBVIOUS
  <2> QED BY DEF EpochOf, FirstOf
<1>4. EpochOf(n + 2) = (n + 1) \div B
  <2> n + 2 - 1 = n + 1 OBVIOUS
  <2> QED BY DEF EpochOf
<1> HIDE DEF e, r
<1>5. PICK p \in Nat : p = B * e /\ p = e * B
  BY <1>1, <1>2
<1>6. ASSUME r = B - 1
      PROVE  /\ EpochOf(n + 2) # 0 /\ FirstOf(n + 2) = n + 2
             /\ FirstOf(n + 2) - B = FirstOf(n + 1)
  <2>1. n + 1 = p + B
    BY <1>1, <1>2, <1>5, <1>6
  <2>2. n + 1 = B * (e + 1)
    BY <1>1, <1>2, <1>5, <2>1
  <2>3. (B * (e + 1)) \div B = e + 1
    BY <1>1, <1>2
  <2>4. EpochOf(n + 2) = e + 1
    BY <1>4, <2>2, <2>3
  <2>5. (e + 1) * B = p + B
    BY <1>1, <1>2, <1>5
  <2>6. FirstOf(n + 2) = p + B + 1
    BY <2>4, <2>5 DEF FirstOf
  <2> QED BY <1>1, <1>2, <1>3, <1>5, <2>1, <2>4, <2>6
<1>7. ASSUME r # B - 1 PROVE EpochOf(n + 2) = EpochOf(n + 1)
  <2>1. n + 1 = p + (r + 1) /\ r + 1 < B
    BY <1>1, <1>2, <1>5, <1>7
  <2>2. (B * e + (r + 1)) \div B = e
    BY <1>1, <1>2, <2>1
  <2> QED BY <1>3, <1>4, <1>5, <2>1, <2>2
<1> QED BY <1>6, <1>7 DEF r

-----------------------------------------------------------------------------
(* The chain state, from the positions of the headers.                      *)

\* A chain of headers that fits into the heights
IsChain(hs) ==
  /\ \E S : hs \in Seq(S)
  /\ Len(hs) <= Len(TxCounts)
  /\ \A n \in 1..Len(hs) : hs[n].time \in Times /\ hs[n].pow \in Nat

\* The target of an epoch, in full and in compact form
TargetOk(due) ==
  /\ due.full \in 1..max_target
  /\ bits_to_target(due.bits) \in 1..due.full

\* The ring has the last timestamps
RingTracks(ring, hs, n) ==
  /\ ring \in [Slots -> {0} \cup Times]
  /\ \A i \in 1..TimestampCount : ring[(n - i) % TimestampCount] = TimeBefore(hs, n + 1, i)

\* What the chain state is after n headers
StateTracks(s, hs, n) ==
  /\ s.block_height = (n - 1) % U32
  /\ s.best_block_hash = IF n = 0 THEN NoHash ELSE compute_block_hash(hs[n])
  /\ s.current_target_bits = EpochTarget(hs, n + 1).bits
  /\ ~Regtest /\ n > 0 => s.epoch_start_time = hs[FirstOf(n)].time
  /\ s.block_hashes_mmr.size = n
  /\ s.block_hashes_mmr.subroots = get_subroots(HostMmrs(hs)[n])
  /\ s.total_work \in 0..(U256 - 1)
  /\ RingTracks(s.prev_11_timestamps, hs, n)

\* The loop's variables are a record
IsTurn(acc) ==
  acc = [ok |-> acc.ok, target |-> acc.target, last_block_time |-> acc.last_block_time,
         state |-> acc.state]

\* What the loop's variables are after n headers
Tracks(acc, hs, n) ==
  /\ IsTurn(acc) /\ acc.ok = TRUE
  /\ StateTracks(acc.state, hs, n)
  /\ TargetOk(EpochTarget(hs, n + 1))
  /\ acc.target \in {EpochTarget(hs, n + 1).full, bits_to_target(EpochTarget(hs, n + 1).bits)}
  /\ acc.last_block_time = IF n = 0 THEN 0 ELSE hs[n].time

\* The first n headers follow the rules
RulesTo(hs, n) == \A m \in 1..n : Follows(hs, m) /\ hs[m].pow <= Due(hs, m).full

\* A turn that fails leaves its mark, one that does not had its assertions hold.
LEMMA TurnResult ==
  ASSUME NEW acc, NEW h, IsTurn(acc), acc.ok \in BOOLEAN
  PROVE  LET next == ApplyBlock(acc, h)
         IN /\ IsTurn(next) /\ next.ok \in BOOLEAN
            /\ next.ok <=> Accepts(acc, h)
            /\ Accepts(acc, h) => /\ next.ok = TRUE
                                  /\ next.target = NextTarget(acc, h.time)
                                  /\ next.last_block_time = h.time
                                  /\ next.state = NextState(acc, h)
<1> DEFINE next == ApplyBlock(acc, h)
<1>1. CASE Accepts(acc, h)
  <2>1. next = [ok |-> TRUE, target |-> NextTarget(acc, h.time), last_block_time |-> h.time,
                state |-> NextState(acc, h)]
    BY <1>1 DEF ApplyBlock
  <2> HIDE DEF next
  <2> QED BY <1>1, <2>1 DEF IsTurn, next
<1>2. CASE ~Accepts(acc, h)
  <2>1. next = [acc EXCEPT !.ok = FALSE]
    BY <1>2 DEF ApplyBlock
  <2>2. next = [ok |-> FALSE, target |-> acc.target, last_block_time |-> acc.last_block_time,
                state |-> acc.state]
    BY <2>1 DEF IsTurn
  <2> HIDE DEF next
  <2> QED BY <1>2, <2>2 DEF IsTurn, next
<1> QED BY <1>1, <1>2

\* The headers of a chain have the numbers of the heights.
LEMMA ChainTypes ==
  ASSUME NEW hs, IsChain(hs)
  PROVE  /\ Len(hs) \in Nat /\ Len(hs) < U32 /\ U32 \in Nat
         /\ \A n \in 1..Len(hs) : hs[n].time \in Nat /\ hs[n].time >= 1 /\ hs[n].time <= U32
<1>1. Len(hs) \in Nat
  BY DEF IsChain
<1>2. Len(hs) < U32 /\ U32 \in Nat
  BY <1>1, WordTypes DEF IsChain
<1>3. ASSUME NEW n \in 1..Len(hs)
      PROVE  hs[n].time \in Nat /\ hs[n].time >= 1 /\ hs[n].time <= U32
  <2>1. hs[n].time \in Times
    BY DEF IsChain
  <2>2. hs[n].time \in 1..(U32 - 1 - MinDifficultyGap)
    BY <2>1, LightClientAssumption
  <2> QED BY <2>2, <1>2, WidthTypes
<1> QED BY <1>1, <1>2, <1>3

\* The first header of an epoch cannot be an easy one: it has the epoch's bits.
LEMMA FirstBits ==
  ASSUME NEW hs, NEW n \in Nat, Follows(hs, FirstOf(n + 1))
  PROVE  hs[FirstOf(n + 1)].bits = EpochTarget(hs, n + 1).bits
<1> DEFINE f == FirstOf(n + 1)
<1>1. (f - 1) % BLOCKS_PER_EPOCH = 0 /\ EpochOf(f) = EpochOf(n + 1)
  BY Epochs
<1>2. Due(hs, f) = EpochTarget(hs, f)
  BY <1>1 DEF Due, Eased
<1>3. EpochTarget(hs, f) = EpochTarget(hs, n + 1)
  BY <1>1, Zenon DEF EpochTarget, FirstOf
<1> QED BY <1>2, <1>3 DEF Follows

\* At the end of an epoch, NextTarget gives the target of the next one.
LEMMA TargetAfter ==
  ASSUME NEW hs, NEW n \in Nat, NEW bits, hs[FirstOf(n + 1)].bits = bits
  PROVE  LET full == calculate_new_difficulty(hs[FirstOf(n + 1)].time, hs[n + 1].time, bits)
         IN /\ ~Regtest /\ n % BLOCKS_PER_EPOCH = BLOCKS_PER_EPOCH - 1 =>
                 EpochTarget(hs, n + 2) = [bits |-> target_to_bits(full), full |-> full]
            /\ Regtest \/ n % BLOCKS_PER_EPOCH # BLOCKS_PER_EPOCH - 1 =>
                 EpochTarget(hs, n + 2) = EpochTarget(hs, n + 1)
<1>1. ASSUME ~Regtest, n % BLOCKS_PER_EPOCH = BLOCKS_PER_EPOCH - 1
      PROVE  LET full == calculate_new_difficulty(hs[FirstOf(n + 1)].time, hs[n + 1].time, bits)
             IN EpochTarget(hs, n + 2) = [bits |-> target_to_bits(full), full |-> full]
  <2>1. /\ EpochOf(n + 2) # 0 /\ FirstOf(n + 2) = n + 2
        /\ FirstOf(n + 2) - BLOCKS_PER_EPOCH = FirstOf(n + 1)
    BY <1>1, NextEpoch
  <2>2. FirstOf(n + 2) - 1 = n + 1
    BY <2>1
  <2> QED BY <1>1, <2>1, <2>2, Zenon DEF EpochTarget
<1>2. ASSUME Regtest \/ n % BLOCKS_PER_EPOCH # BLOCKS_PER_EPOCH - 1
      PROVE  EpochTarget(hs, n + 2) = EpochTarget(hs, n + 1)
  <2>1. CASE Regtest
    BY <2>1 DEF EpochTarget
  <2>2. CASE n % BLOCKS_PER_EPOCH # BLOCKS_PER_EPOCH - 1
    <3> EpochOf(n + 2) = EpochOf(n + 1) BY <2>2, NextEpoch
    <3> QED BY Zenon DEF EpochTarget, FirstOf
  <2> QED BY <1>2, <2>1, <2>2
<1> QED BY <1>1, <1>2

\* The state after n headers puts the next one at height n.
LEMMA HeightIs ==
  ASSUME NEW hs, IsChain(hs), NEW n \in 0..Len(hs), NEW s, StateTracks(s, hs, n)
  PROVE  /\ NextHeight(s) = n
         /\ n > 0 => s.block_height = n - 1
         /\ n = 0 => s.block_height = U32 - 1
<1>1. n \in Nat /\ n < U32 /\ U32 \in Nat
  BY ChainTypes
<1>2. s.block_height = (n - 1) % U32
  BY DEF StateTracks
<1>3. CASE n = 0
  <2>1. (0 - 1) % U32 = U32 - 1
    <3> PICK w \in Nat : w = U32 /\ w > 0 BY <1>1, <1>3
    <3> (0 - 1) % w = w - 1 OBVIOUS
    <3> QED OBVIOUS
  <2>2. s.block_height + 1 = U32
    BY <2>1, <1>1, <1>2, <1>3
  <2>3. (U32) % (U32) = 0
    <3> PICK w \in Nat : w = U32 /\ w > 0 BY <1>1, <1>3
    <3> w % w = 0 OBVIOUS
    <3> QED OBVIOUS
  <2> QED BY <2>1, <2>2, <2>3, <1>2, <1>3 DEF NextHeight
<1>4. CASE n # 0
  <2>1. s.block_height = n - 1
    BY <1>1, <1>2, <1>4
  <2>2. s.block_height + 1 = n
    BY <2>1, <1>1
  <2>3. n % U32 = n
    BY <1>1
  <2> QED BY <2>1, <2>2, <2>3, <1>4 DEF NextHeight
<1> QED BY <1>3, <1>4

\* The easy blocks of the loop are those of the rules.
LEMMA EasedIs ==
  ASSUME NEW hs, IsChain(hs), NEW n \in 0..(Len(hs) - 1), NEW acc, Tracks(acc, hs, n)
  PROVE  Expected(acc, hs[n + 1].time) =
           IF Eased(hs, n + 1)
           THEN [target |-> max_target, bits |-> Due(hs, n + 1).bits, work |-> calculate_work(max_target)]
           ELSE [target |-> acc.target, bits |-> Due(hs, n + 1).bits, work |-> calculate_work(acc.target)]
<1> DEFINE time == hs[n + 1].time
           easy == /\ Testnet
                   /\ time > acc.last_block_time + MinDifficultyGap
                   /\ n % BLOCKS_PER_EPOCH # 0
<1>1. n \in Nat /\ n \in 0..Len(hs) /\ n + 1 - 1 = n /\ Len(hs) \in Nat
  BY ChainTypes
<1>2. NextHeight(acc.state) = n
  BY <1>1, HeightIs DEF Tracks
<1>3. easy <=> Eased(hs, n + 1)
  <2>1. CASE n % BLOCKS_PER_EPOCH = 0
    BY <2>1, <1>1 DEF Eased
  <2>2. CASE n % BLOCKS_PER_EPOCH # 0
    <3>1. n # 0
      BY <2>2, <1>1, Epochs
    <3>2. acc.last_block_time = hs[n].time
      BY <3>1 DEF Tracks
    <3> QED BY <3>2, <1>1 DEF Eased
  <2> QED BY <2>1, <2>2
<1>4. acc.state.current_target_bits = EpochTarget(hs, n + 1).bits
  BY DEF Tracks, StateTracks
<1>5. Regtest => EpochTarget(hs, n + 1).bits = max_bits
  BY DEF EpochTarget
<1>6. Expected(acc, time) =
        IF easy THEN [target |-> max_target, bits |-> max_bits, work |-> calculate_work(max_target)]
        ELSE [target |-> acc.target, bits |-> EpochTarget(hs, n + 1).bits,
              work |-> calculate_work(acc.target)]
  BY <1>2, <1>4, <1>5, Zenon DEF Expected
<1> HIDE DEF easy, time
<1>7. CASE Eased(hs, n + 1)
  <2> Due(hs, n + 1).bits = max_bits BY <1>7 DEF Due
  <2> QED BY <1>3, <1>6, <1>7 DEF time
<1>8. CASE ~Eased(hs, n + 1)
  <2> Due(hs, n + 1) = EpochTarget(hs, n + 1) BY <1>8 DEF Due
  <2> QED BY <1>3, <1>6, <1>8 DEF time
<1> QED BY <1>7, <1>8

\* The ring's median is the median of the last timestamps.
LEMMA TimestampIs ==
  ASSUME NEW hs, IsChain(hs), NEW n \in 0..(Len(hs) - 1), NEW ring, RingTracks(ring, hs, n)
  PROVE  validate_timestamp(hs[n + 1].time, ring) <=> LaterThanMost(hs, n + 1)
<1> DEFINE time == hs[n + 1].time
           last == [i \in 1..TimestampCount |-> TimeBefore(hs, n + 1, i)]
<1>1. n \in Nat /\ n + 1 \in 1..Len(hs) /\ Len(hs) \in Nat /\ U32 \in Nat
  BY ChainTypes
<1>2. time \in Nat
  BY <1>1, ChainTypes
<1>3. Times \subseteq Nat /\ \A t \in Times : t <= U32
  BY <1>1, WidthTypes, LightClientAssumption
<1>4. ring \in [Slots -> Nat] /\ \A j \in Slots : ring[j] <= U32
  <2> ASSUME NEW j \in Slots PROVE ring[j] \in Nat /\ ring[j] <= U32
    <3>1. ring[j] \in {0} \cup Times BY DEF RingTracks
    <3>2. PICK w \in Nat : w = U32 BY <1>1
    <3>3. CASE ring[j] = 0 BY <3>2, <3>3
    <3>4. CASE ring[j] \in Times BY <3>4, <1>3
    <3> QED BY <3>1, <3>3, <3>4
  <2> QED BY DEF RingTracks
<1>5. last \in [1..TimestampCount -> Nat]
  <2> ASSUME NEW i \in 1..TimestampCount PROVE TimeBefore(hs, n + 1, i) \in Nat
    <3>1. CASE n + 1 - i >= 1
      <4> n + 1 - i \in 1..Len(hs) BY <3>1, <1>1, WidthTypes
      <4> QED BY <3>1, ChainTypes DEF TimeBefore
    <3>2. CASE ~(n + 1 - i >= 1)
      BY <3>2 DEF TimeBefore
    <3> QED BY <3>1, <3>2
  <2> QED OBVIOUS
<1>6. \A i \in 1..TimestampCount : ring[(n - i) % TimestampCount] = last[i]
  BY DEF RingTracks
<1> HIDE DEF time
<1>7. Cardinality({j \in Slots : ring[j] < time})
        = Cardinality({i \in 1..TimestampCount : last[i] < time})
  <2> HIDE DEF last
  <2> QED BY <1>1, <1>2, <1>4, <1>5, <1>6, RingCounts
<1>8. {i \in 1..TimestampCount : last[i] < time}
        = {i \in 1..TimestampCount : TimeBefore(hs, n + 1, i) < time}
  OBVIOUS
<1>9. validate_timestamp(time, ring) <=> 2 * Cardinality({j \in Slots : ring[j] < time}) > TimestampCount
  BY <1>1, <1>2, <1>4, MedianIs
<1> QED BY <1>7, <1>8, <1>9 DEF LaterThanMost, time

\* The loop accepts what follows the rules and reaches the target in use.
LEMMA AcceptsIs ==
  ASSUME NEW hs, IsChain(hs), NEW n \in 0..(Len(hs) - 1), NEW acc, Tracks(acc, hs, n)
  PROVE  Accepts(acc, hs[n + 1]) <=>
           /\ Follows(hs, n + 1)
           /\ hs[n + 1].pow <= IF Eased(hs, n + 1) THEN max_target ELSE acc.target
           /\ EndsEpoch(acc.state) => Compact(NextTarget(acc, hs[n + 1].time))
<1> DEFINE h == hs[n + 1]
<1>1. n \in Nat /\ n + 1 - 1 = n /\ (n + 1 = 1 <=> n = 0)
  BY ChainTypes
<1>2. /\ Expected(acc, h.time).bits = Due(hs, n + 1).bits
      /\ Expected(acc, h.time).target = IF Eased(hs, n + 1) THEN max_target ELSE acc.target
  <2>1. CASE Eased(hs, n + 1)
    <3>1. Expected(acc, h.time) =
            [target |-> max_target, bits |-> Due(hs, n + 1).bits, work |-> calculate_work(max_target)]
      BY <2>1, EasedIs
    <3> QED BY <2>1, <3>1
  <2>2. CASE ~Eased(hs, n + 1)
    <3>1. Expected(acc, h.time) =
            [target |-> acc.target, bits |-> Due(hs, n + 1).bits, work |-> calculate_work(acc.target)]
      BY <2>2, EasedIs
    <3> QED BY <2>2, <3>1
  <2> QED BY <2>1, <2>2
<1>4. validate_timestamp(h.time, acc.state.prev_11_timestamps) <=> LaterThanMost(hs, n + 1)
  BY TimestampIs DEF Tracks, StateTracks
<1>5. acc.state.best_block_hash = IF n + 1 = 1 THEN NoHash ELSE compute_block_hash(hs[n])
  BY <1>1 DEF Tracks, StateTracks
<1>6. acc.ok
  BY DEF Tracks
<1>7. Accepts(acc, h) <=>
        /\ h.prev_block_hash = acc.state.best_block_hash
        /\ h.bits = Due(hs, n + 1).bits
        /\ h.pow <= IF Eased(hs, n + 1) THEN max_target ELSE acc.target
        /\ LaterThanMost(hs, n + 1)
        /\ EndsEpoch(acc.state) => Compact(NextTarget(acc, h.time))
  BY <1>2, <1>4, <1>6 DEF Accepts
<1>8. Follows(hs, n + 1) <=>
        /\ h.prev_block_hash = acc.state.best_block_hash
        /\ h.bits = Due(hs, n + 1).bits
        /\ LaterThanMost(hs, n + 1)
  BY <1>1, <1>5 DEF Follows
<1> HIDE DEF h
<1> QED BY <1>7, <1>8 DEF h

\* The loop's own bookkeeping of epochs is that of the positions.
LEMMA NextTargetIs ==
  ASSUME NEW hs, IsChain(hs), NEW n \in 0..(Len(hs) - 1), NEW acc, Tracks(acc, hs, n),
         hs[FirstOf(n + 1)].bits = EpochTarget(hs, n + 1).bits
  PROVE  LET next == NextTarget(acc, hs[n + 1].time)
         IN /\ EndsEpoch(acc.state) <=> ~Regtest /\ n % BLOCKS_PER_EPOCH = BLOCKS_PER_EPOCH - 1
            /\ EndsEpoch(acc.state) =>
                 /\ next = EpochTarget(hs, n + 2).full
                 /\ target_to_bits(next) = EpochTarget(hs, n + 2).bits
                 /\ next \in 0..max_target
            /\ ~EndsEpoch(acc.state) =>
                 next = acc.target /\ EpochTarget(hs, n + 2) = EpochTarget(hs, n + 1)
            /\ ~Regtest => EpochStart(acc.state, hs[n + 1].time) = hs[FirstOf(n + 1)].time
<1> DEFINE time == hs[n + 1].time
           s == acc.state
           bits == EpochTarget(hs, n + 1).bits
           full == calculate_new_difficulty(hs[FirstOf(n + 1)].time, time, bits)
<1>1. n \in Nat /\ n \in 0..Len(hs) /\ n + 1 \in 1..Len(hs) /\ Len(hs) \in Nat
  BY ChainTypes
<1>2. NextHeight(s) = n
  BY <1>1, HeightIs DEF Tracks
<1>3. EndsEpoch(s) <=> ~Regtest /\ n % BLOCKS_PER_EPOCH = BLOCKS_PER_EPOCH - 1
  BY <1>2 DEF EndsEpoch
<1>4. ASSUME ~Regtest PROVE EpochStart(s, time) = hs[FirstOf(n + 1)].time
  <2>1. CASE n % BLOCKS_PER_EPOCH = 0
    BY <2>1, <1>1, <1>2, <1>4, Epochs DEF EpochStart
  <2>2. CASE n % BLOCKS_PER_EPOCH # 0
    <3>1. n > 0 /\ FirstOf(n + 1) = FirstOf(n)
      BY <2>2, <1>1, Epochs
    <3>2. s.epoch_start_time = hs[FirstOf(n)].time
      BY <3>1, <1>4 DEF Tracks, StateTracks
    <3> QED BY <2>2, <3>1, <3>2, <1>2 DEF EpochStart
  <2> QED BY <2>1, <2>2
<1>5. s.current_target_bits = bits
  BY DEF Tracks, StateTracks
<1>6. ASSUME EndsEpoch(s)
      PROVE  /\ NextTarget(acc, time) = full
             /\ EpochTarget(hs, n + 2) = [bits |-> target_to_bits(full), full |-> full]
             /\ full \in 0..max_target
  <2>1. NextTarget(acc, time) = full
    BY <1>3, <1>4, <1>5, <1>6 DEF NextTarget
  <2>2. EpochTarget(hs, n + 2) = [bits |-> target_to_bits(full), full |-> full]
    BY <1>1, <1>3, <1>6, TargetAfter
  <2>3. hs[FirstOf(n + 1)].time \in Int /\ time \in Int
    <3> FirstOf(n + 1) \in 1..Len(hs) BY <1>1, Epochs
    <3> QED BY <1>1, ChainTypes
  <2>4. bits_to_target(bits) \in Int
    BY MaxTarget DEF Tracks, TargetOk
  <2>5. full \in 0..max_target
    BY <2>3, <2>4, NewDifficulty
  <2> QED BY <2>1, <2>2, <2>5
<1>7. ASSUME ~EndsEpoch(s)
      PROVE  NextTarget(acc, time) = acc.target /\ EpochTarget(hs, n + 2) = EpochTarget(hs, n + 1)
  BY <1>1, <1>3, <1>7, TargetAfter DEF NextTarget
<1> HIDE DEF full, bits, s, time
<1>8. EndsEpoch(s) =>
        /\ NextTarget(acc, time) = EpochTarget(hs, n + 2).full
        /\ target_to_bits(NextTarget(acc, time)) = EpochTarget(hs, n + 2).bits
        /\ NextTarget(acc, time) \in 0..max_target
  BY <1>6
<1> QED BY <1>3, <1>4, <1>7, <1>8 DEF s, time

\* The ring after one more header.
LEMMA RingStep ==
  ASSUME NEW hs, IsChain(hs), NEW n \in 0..(Len(hs) - 1), NEW ring, RingTracks(ring, hs, n)
  PROVE  RingTracks([ring EXCEPT ![n % TimestampCount] = hs[n + 1].time], hs, n + 1)
<1> DEFINE C == TimestampCount
           new == [ring EXCEPT ![n % C] = hs[n + 1].time]
<1>1. n \in Nat /\ n + 1 \in 1..Len(hs) /\ C \in Nat /\ C >= 1
  BY ChainTypes, WidthTypes
<1>2. hs[n + 1].time \in Times
  BY <1>1 DEF IsChain
<1>3. n % C \in Slots
  BY <1>1 DEF Slots
<1>4. new \in [Slots -> {0} \cup Times]
  BY <1>2 DEF RingTracks
<1>5. ASSUME NEW i \in 1..C PROVE new[(n + 1 - i) % C] = TimeBefore(hs, n + 2, i)
  <2>1. (n + 1 - i) % C \in Slots
    BY <1>1 DEF Slots
  <2>2. CASE i = 1
    <3>1. n + 1 - i = n /\ n + 2 - i = n + 1
      BY <2>2, <1>1
    <3>2. TimeBefore(hs, n + 2, i) = hs[n + 1].time
      BY <3>1, <1>1 DEF TimeBefore
    <3>3. new[n % C] = hs[n + 1].time
      BY <1>3 DEF RingTracks
    <3> QED BY <3>1, <3>2, <3>3
  <2>3. CASE i # 1
    <3>1. i - 1 \in 1..C /\ n - (i - 1) = n + 1 - i /\ n + 2 - i = n + 1 - (i - 1)
      BY <2>3, <1>1
    <3>2. ring[(n + 1 - i) % C] = TimeBefore(hs, n + 1, i - 1)
      BY <3>1 DEF RingTracks
    <3>3. TimeBefore(hs, n + 1, i - 1) = TimeBefore(hs, n + 2, i)
      BY <3>1 DEF TimeBefore
    <3>4. (n + 1 - i) % C # n % C
      <4> DEFINE j == i - 1
      <4>1. j \in Int /\ 0 < j /\ j < C
        BY <2>3, <1>1
      <4> HIDE DEF j
      <4>2. (n - j) % C # n % C
        <5> DEFINE a == n \div C
                   x == n % C
        <5>1. n = C * a + x /\ a \in Int /\ x \in Int /\ 0 <= x /\ x < C
          BY <1>1
        <5> HIDE DEF a, x
        <5>2. CASE j <= x
          <6>1. PICK p \in Int : p = C * a
            BY <1>1, <5>1
          <6>2. PICK y \in Int : y = x - j
            BY <4>1, <5>1
          <6>3. n - j = C * a + y /\ 0 <= y /\ y < C
            <7>1. n = p + x BY <5>1, <6>1
            <7>2. n - j = p + y BY <1>1, <4>1, <5>1, <6>2, <7>1
            <7> QED BY <1>1, <4>1, <5>1, <5>2, <6>1, <6>2, <7>2
          <6>4. (n - j) % C = y
            <7> C \in Nat \ {0} BY <1>1
            <7> HIDE DEF C
            <7> QED BY <5>1, <6>3, RemainderIs
          <6> QED BY <4>1, <5>1, <6>2, <6>4 DEF x
        <5>3. CASE ~(j <= x)
          <6>1. PICK p \in Int : p = C * a
            BY <1>1, <5>1
          <6>2. C * (a - 1) = p - C
            BY <1>1, <5>1, <6>1
          <6>3. n - j = C * (a - 1) + (x + C - j) /\ 0 <= x + C - j /\ x + C - j < C
                 /\ x + C - j \in Int
            BY <1>1, <4>1, <5>1, <5>3, <6>1, <6>2
          <6>4. (n - j) % C = x + C - j
            <7> C \in Nat \ {0} /\ a - 1 \in Int BY <1>1, <5>1
            <7> HIDE DEF C
            <7> QED BY <6>3, RemainderIs
          <6> QED BY <1>1, <4>1, <5>1, <6>4 DEF x
        <5> QED BY <5>2, <5>3
      <4>3. n - j = n + 1 - i
        BY <1>1 DEF j
      <4> QED BY <4>2, <4>3
    <3>5. new[(n + 1 - i) % C] = ring[(n + 1 - i) % C]
      BY <2>1, <3>4 DEF RingTracks
    <3> QED BY <3>2, <3>3, <3>5
  <2> QED BY <2>2, <2>3
<1>6. n + 1 + 1 = n + 2
  BY <1>1
<1> HIDE DEF new
<1>7. RingTracks(new, hs, n + 1)
  BY <1>4, <1>5, <1>6 DEF RingTracks
<1> QED BY <1>7 DEF new

\* The first header of the next header's epoch has the epoch's bits.
LEMMA FirstBitsTo ==
  ASSUME NEW hs, IsChain(hs), NEW n \in 0..(Len(hs) - 1), RulesTo(hs, n), Follows(hs, n + 1)
  PROVE  hs[FirstOf(n + 1)].bits = EpochTarget(hs, n + 1).bits
<1>1. n \in Nat /\ FirstOf(n + 1) \in 1..(n + 1)
  BY ChainTypes, Epochs
<1>2. FirstOf(n + 1) = n + 1 \/ FirstOf(n + 1) \in 1..n
  BY <1>1
<1>3. Follows(hs, FirstOf(n + 1))
  BY <1>2 DEF RulesTo
<1> QED BY <1>1, <1>3, FirstBits

\* The target in use is one that a block may be asked to reach.
LEMMA TargetInUse ==
  ASSUME NEW hs, NEW n, NEW acc, Tracks(acc, hs, n)
  PROVE  /\ acc.target \in 1..max_target
         /\ acc.target <= EpochTarget(hs, n + 1).full
         /\ bits_to_target(EpochTarget(hs, n + 1).bits) <= acc.target
         /\ max_target \in Nat
BY MaxTarget DEF Tracks, TargetOk

\* One header more, accepted: the loop's variables are what they should be, and
\* the header follows the rules.
LEMMA TracksStep ==
  ASSUME NEW hs, IsChain(hs), NEW n \in 0..(Len(hs) - 1), NEW acc, Tracks(acc, hs, n),
         RulesTo(hs, n), Accepts(acc, hs[n + 1])
  PROVE  Tracks(ApplyBlock(acc, hs[n + 1]), hs, n + 1) /\ RulesTo(hs, n + 1)
<1> DEFINE h == hs[n + 1]
           s == acc.state
           next == NextTarget(acc, h.time)
           new == ApplyBlock(acc, h)
           t == NextState(acc, h)
<1>1. n \in Nat /\ n \in 0..Len(hs) /\ n + 1 \in 1..Len(hs) /\ n + 1 + 1 = n + 2
       /\ n + 1 - 1 = n /\ n + 1 > 0
  BY ChainTypes
<1>2. /\ Follows(hs, n + 1)
      /\ h.pow <= IF Eased(hs, n + 1) THEN max_target ELSE acc.target
      /\ EndsEpoch(s) => Compact(next)
  BY AcceptsIs
<1>3. hs[FirstOf(n + 1)].bits = EpochTarget(hs, n + 1).bits
  BY <1>2, FirstBitsTo
<1>4. RulesTo(hs, n + 1)
  <2>1. h.pow <= Due(hs, n + 1).full
    <3>1. CASE Eased(hs, n + 1)
      BY <3>1, <1>2 DEF Due
    <3>2. CASE ~Eased(hs, n + 1)
      <4>1. h.pow <= acc.target /\ h.pow \in Nat
        BY <3>2, <1>1, <1>2 DEF IsChain
      <4>2. EpochTarget(hs, n + 1).full \in Int
        BY MaxTarget DEF Tracks, TargetOk
      <4>3. h.pow <= EpochTarget(hs, n + 1).full
        BY <4>1, <4>2, TargetInUse
      <4> QED BY <3>2, <4>3 DEF Due
    <3> QED BY <3>1, <3>2
  <2>2. ASSUME NEW m \in 1..(n + 1) PROVE Follows(hs, m) /\ hs[m].pow <= Due(hs, m).full
    <3>1. m = n + 1 \/ m \in 1..n
      BY <1>1
    <3> QED BY <3>1, <2>1, <1>2 DEF RulesTo
  <2> QED BY <2>2 DEF RulesTo
<1>5. /\ IsTurn(new) /\ new.ok = TRUE
      /\ new.target = next /\ new.last_block_time = h.time /\ new.state = t
  BY TurnResult DEF Tracks
<1>6. TargetOk(EpochTarget(hs, n + 2))
  <2>1. CASE EndsEpoch(s)
    <3>1. /\ next = EpochTarget(hs, n + 2).full
          /\ target_to_bits(next) = EpochTarget(hs, n + 2).bits
          /\ next \in 0..max_target
      BY <2>1, <1>3, NextTargetIs
    <3>2. next \in 0..(U256 - 1) /\ next \in Nat
      BY <3>1, MaxTarget
    <3>3. bits_to_target(target_to_bits(next)) \in 1..next
      BY <3>2, <2>1, <1>2, CompactRounds
    <3>4. next \in 1..max_target
      BY <3>1, <3>2, <3>3, MaxTarget
    <3> HIDE DEF next
    <3> QED BY <3>1, <3>3, <3>4 DEF TargetOk
  <2>2. CASE ~EndsEpoch(s)
    BY <2>2, <1>3, NextTargetIs DEF Tracks
  <2> QED BY <2>1, <2>2
<1>7. new.target \in {EpochTarget(hs, n + 2).full, bits_to_target(EpochTarget(hs, n + 2).bits)}
  <2>1. CASE EndsEpoch(s)
    BY <2>1, <1>3, <1>5, NextTargetIs
  <2>2. CASE ~EndsEpoch(s)
    BY <2>2, <1>3, <1>5, NextTargetIs DEF Tracks
  <2> QED BY <2>1, <2>2
<1>8. StateTracks(t, hs, n + 1)
  <2>1. NextHeight(s) = n /\ n < U32 /\ U32 \in Nat
    BY <1>1, HeightIs, ChainTypes DEF Tracks
  <2>2. t.block_height = (n + 1 - 1) % U32
    <3> n % U32 = n BY <1>1, <2>1
    <3> QED BY <1>1, <2>1 DEF NextState
  <2>3. t.best_block_hash = IF n + 1 = 0 THEN NoHash ELSE compute_block_hash(h)
    BY <1>1 DEF NextState
  <2>4. t.current_target_bits = EpochTarget(hs, n + 2).bits
    <3>1. CASE EndsEpoch(s)
      BY <3>1, <1>3, NextTargetIs DEF NextState
    <3>2. CASE ~EndsEpoch(s)
      BY <3>2, <1>3, NextTargetIs DEF NextState, Tracks, StateTracks
    <3> QED BY <3>1, <3>2
  <2>5. ~Regtest => t.epoch_start_time = hs[FirstOf(n + 1)].time
    BY <1>3, NextTargetIs DEF NextState
  <2>6. /\ t.block_hashes_mmr.size = n + 1
        /\ t.block_hashes_mmr.subroots = get_subroots(HostMmrs(hs)[n + 1])
    <3>1. t.block_hashes_mmr = GuestAppend(s.block_hashes_mmr, compute_block_hash(h))
      BY DEF NextState
    <3>2. /\ s.block_hashes_mmr.size = n
          /\ s.block_hashes_mmr.subroots = get_subroots(HostMmrs(hs)[n])
      BY DEF Tracks, StateTracks
    <3>3. Len(hs) \in Nat /\ Len(hs) < U32
      BY ChainTypes
    <3> HIDE DEF s, t, h
    <3>4. n \in 0..(Len(hs) - 1) /\ h = hs[n + 1]
      BY DEF h
    <3> DEFINE g == GuestAppend(s.block_hashes_mmr, compute_block_hash(hs[n + 1]))
    <3>5. g.size = n + 1 /\ g.subroots = get_subroots(HostMmrs(hs)[n + 1])
      <4> DEFINE mmr == s.block_hashes_mmr
      <4>1. mmr.size = n /\ mmr.subroots = get_subroots(HostMmrs(hs)[n])
        BY <3>2
      <4> HIDE DEF mmr
      <4>2. /\ GuestAppend(mmr, compute_block_hash(hs[n + 1])).size = n + 1
            /\ GuestAppend(mmr, compute_block_hash(hs[n + 1])).subroots
                 = get_subroots(HostMmrs(hs)[n + 1])
        BY <3>3, <3>4, <4>1, MountainStep
      <4> QED BY <4>2 DEF mmr
    <3>6. t.block_hashes_mmr = g
      BY <3>1, <3>4
    <3> QED BY <3>5, <3>6
  <2>7. t.total_work \in 0..(U256 - 1)
    <3>1. Expected(acc, h.time).work \in Nat
      <4>1. acc.target \in Nat /\ max_target \in Nat
        BY TargetInUse
      <4>2. calculate_work(acc.target) \in Nat /\ calculate_work(max_target) \in Nat
        <5>1. ASSUME NEW u \in Nat PROVE calculate_work(u) \in Nat
          <6> u <= u OBVIOUS
          <6> QED BY WorkFalls
        <5> QED BY <4>1, <5>1
      <4>3. CASE Eased(hs, n + 1)
        <5> Expected(acc, h.time) =
              [target |-> max_target, bits |-> Due(hs, n + 1).bits, work |-> calculate_work(max_target)]
          BY <4>3, EasedIs
        <5> QED BY <4>2
      <4>4. CASE ~Eased(hs, n + 1)
        <5> Expected(acc, h.time) =
              [target |-> acc.target, bits |-> Due(hs, n + 1).bits, work |-> calculate_work(acc.target)]
          BY <4>4, EasedIs
        <5> QED BY <4>2
      <4> QED BY <4>3, <4>4
    <3>2. s.total_work \in Nat
      BY MaxTarget DEF Tracks, StateTracks
    <3>3. PICK w \in Nat : w = s.total_work + Expected(acc, h.time).work
      BY <3>1, <3>2
    <3>4. t.total_work = w % U256
      BY <3>3 DEF NextState
    <3> QED BY <3>3, <3>4, MaxTarget
  <2>8. RingTracks(t.prev_11_timestamps, hs, n + 1)
    <3>1. t.prev_11_timestamps = [s.prev_11_timestamps EXCEPT ![n % TimestampCount] = h.time]
      BY <2>1 DEF NextState
    <3>2. RingTracks(s.prev_11_timestamps, hs, n)
      BY DEF Tracks, StateTracks
    <3> QED BY <3>1, <3>2, RingStep
  <2> HIDE DEF t
  <2> QED BY <1>1, <2>2, <2>3, <2>4, <2>5, <2>6, <2>7, <2>8 DEF StateTracks
<1>9. new.last_block_time = IF n + 1 = 0 THEN 0 ELSE hs[n + 1].time
  BY <1>1, <1>5
<1> HIDE DEF new
<1>10. Tracks(new, hs, n + 1)
  BY <1>1, <1>5, <1>6, <1>7, <1>8, <1>9 DEF Tracks
<1> QED BY <1>4, <1>10 DEF new

\* Before the first header, and with a new chain state.
LEMMA TracksStart ==
  ASSUME NEW hs, IsChain(hs)
  PROVE  Tracks(StartOf(NewChainState), hs, 0)
<1> DEFINE s == NewChainState
           start == StartOf(s)
<1>1. U256 \in Nat /\ U256 >= 1 /\ max_target \in 1..(U256 - 1) /\ U32 \in Nat
  BY MaxTarget, WordTypes
<1>2. EpochTarget(hs, 0 + 1) = [bits |-> max_bits, full |-> max_target]
  <2> EpochOf(1) = 0
    <3> (1 - 1) \div BLOCKS_PER_EPOCH = 0 BY WidthTypes
    <3> QED BY DEF EpochOf
  <2> QED BY DEF EpochTarget
<1>3. bits_to_target(max_bits) = max_target
  BY DEF max_target
<1>4. TargetOk(EpochTarget(hs, 0 + 1))
  BY <1>1, <1>2, <1>3 DEF TargetOk
<1>5. start = [ok |-> TRUE, target |-> max_target, last_block_time |-> 0, state |-> s]
  <2> s.block_height = U32 - 1 /\ s.current_target_bits = max_bits
    BY DEF NewChainState
  <2> HIDE DEF s
  <2> QED BY <1>3, Zenon DEF StartOf, Start
<1>6. StateTracks(s, hs, 0)
  <2>1. s.block_height = (0 - 1) % U32
    <3>1. PICK w \in Nat : w = U32 /\ w > 0
      BY WordTypes
    <3>2. (0 - 1) % w = w - 1
      BY <3>1
    <3> QED BY <3>1, <3>2 DEF NewChainState
  <2>2. RingTracks(s.prev_11_timestamps, hs, 0)
    <3>1. s.prev_11_timestamps = [i \in Slots |-> 0]
      BY DEF NewChainState, Slots
    <3>2. ASSUME NEW i \in 1..TimestampCount
          PROVE  s.prev_11_timestamps[(0 - i) % TimestampCount] = TimeBefore(hs, 0 + 1, i)
      <4>1. (0 - i) % TimestampCount \in Slots
        BY WidthTypes DEF Slots
      <4>2. ~(0 + 1 - i >= 1)
        BY WidthTypes
      <4> HIDE DEF s
      <4> QED BY <3>1, <4>1, <4>2 DEF TimeBefore
    <3> HIDE DEF s
    <3> QED BY <3>1, <3>2 DEF RingTracks
  <2>3. /\ s.best_block_hash = NoHash
        /\ s.current_target_bits = EpochTarget(hs, 0 + 1).bits
        /\ s.block_hashes_mmr.size = 0 /\ s.block_hashes_mmr.subroots = <<>>
        /\ s.total_work \in 0..(U256 - 1)
    BY <1>1, <1>2 DEF NewChainState, GuestNew
  <2>4. get_subroots(HostMmrs(hs)[0]) = <<>>
    <3> Len(hs) \in Nat BY ChainTypes
    <3> QED BY RangesStart
  <2> HIDE DEF s
  <2> QED BY <2>1, <2>2, <2>3, <2>4 DEF StateTracks
<1> HIDE DEF start, s
<1>7. IsTurn(start) /\ start.ok = TRUE /\ start.target = max_target
       /\ start.last_block_time = 0 /\ start.state = s
  BY <1>5 DEF IsTurn
<1>8. Tracks(start, hs, 0)
  BY <1>2, <1>4, <1>6, <1>7 DEF Tracks
<1> QED BY <1>8 DEF start, s
-----------------------------------------------------------------------------
(* Whole chains and batches.                                                *)

\* The batch bs has the headers of the chain after the n-th
IsBatch(bs, hs, n) ==
  /\ Len(bs) \in Nat /\ n + Len(bs) <= Len(hs)
  /\ \A j \in 1..Len(bs) : bs[j] = hs[n + j]

\* As long as no assertion of a batch fails, the loop's variables are what they
\* should be, and its headers follow the rules.
LEMMA LoopTracks ==
  ASSUME NEW hs, IsChain(hs), NEW n \in 0..Len(hs), NEW bs, IsBatch(bs, hs, n),
         NEW start, Tracks(start, hs, n), RulesTo(hs, n)
  PROVE  \A j \in 0..Len(bs) :
           LET acc == Turns(start, bs)[j]
           IN /\ IsTurn(acc) /\ acc.ok \in BOOLEAN
              /\ acc.ok => Tracks(acc, hs, n + j) /\ RulesTo(hs, n + j)
<1> DEFINE f == Turns(start, bs)
           Good(j) == /\ IsTurn(f[j]) /\ f[j].ok \in BOOLEAN
                      /\ f[j].ok => Tracks(f[j], hs, n + j) /\ RulesTo(hs, n + j)
           bad == {j \in Nat : j \in 0..Len(bs) /\ ~Good(j)}
<1>1. Len(bs) \in Nat /\ n \in Nat /\ n + Len(bs) <= Len(hs) /\ Len(hs) \in Nat
  BY ChainTypes DEF IsBatch
<1>2. f[0] = start /\ \A k \in 1..Len(bs) : f[k] = ApplyBlock(f[k - 1], bs[k])
  BY <1>1, TurnsAre
<1>3. Good(0)
  <2> n + 0 = n BY <1>1
  <2> HIDE DEF f
  <2> QED BY <1>2 DEF Tracks
<1> HIDE DEF f
<1>4. ASSUME NEW j \in 1..Len(bs), Good(j - 1) PROVE Good(j)
  <2>1. /\ j - 1 \in 0..Len(bs) /\ n + (j - 1) \in 0..(Len(hs) - 1)
        /\ n + (j - 1) + 1 = n + j
    BY <1>1
  <2>2. bs[j] = hs[n + (j - 1) + 1]
    BY <2>1 DEF IsBatch
  <2>3. f[j] = ApplyBlock(f[j - 1], hs[n + (j - 1) + 1])
    BY <1>2, <2>2
  <2>4. /\ IsTurn(f[j]) /\ f[j].ok \in BOOLEAN
        /\ f[j].ok <=> Accepts(f[j - 1], hs[n + (j - 1) + 1])
    BY <1>4, <2>3, TurnResult
  <2>5. ASSUME f[j].ok PROVE Tracks(f[j], hs, n + j) /\ RulesTo(hs, n + j)
    <3>1. Accepts(f[j - 1], hs[n + (j - 1) + 1]) /\ f[j - 1].ok
      BY <2>4, <2>5 DEF Accepts
    <3>2. Tracks(f[j - 1], hs, n + (j - 1)) /\ RulesTo(hs, n + (j - 1))
      BY <1>4, <3>1
    <3>3. Tracks(f[j], hs, n + (j - 1) + 1) /\ RulesTo(hs, n + (j - 1) + 1)
      BY <2>1, <2>3, <3>1, <3>2, TracksStep
    <3> QED BY <2>1, <3>3
  <2> QED BY <2>4, <2>5
<1> SUFFICES ASSUME bad # {} PROVE FALSE
  <2> \A j \in 0..Len(bs) : j \in Nat OBVIOUS
  <2> QED BY DEF f
<1>5. PICK j \in bad : \A m \in bad : j <= m
  <2> HIDE DEF bad
  <2> bad \in SUBSET Nat BY DEF bad
  <2> QED BY LeastNumber
<1> HIDE DEF Good
<1>6. j # 0
  BY <1>3, <1>5
<1>7. j - 1 \in Nat /\ j - 1 \in 0..Len(bs) /\ j \in 1..Len(bs) /\ ~(j <= j - 1)
  BY <1>1, <1>5, <1>6
<1>8. Good(j - 1)
  BY <1>5, <1>7
<1> QED BY <1>4, <1>5, <1>7, <1>8

\* A chain can be read as one batch.
LEMMA WholeTracks ==
  ASSUME NEW hs, IsChain(hs)
  PROVE  \A n \in 0..Len(hs) :
           LET acc == Turns(StartOf(NewChainState), hs)[n]
           IN /\ IsTurn(acc) /\ acc.ok \in BOOLEAN
              /\ acc.ok => Tracks(acc, hs, n) /\ RulesTo(hs, n)
<1>1. Len(hs) \in Nat /\ 0 \in 0..Len(hs)
  BY ChainTypes
<1>2. IsBatch(hs, hs, 0)
  <2> \A j \in 1..Len(hs) : 0 + j = j OBVIOUS
  <2> QED BY <1>1 DEF IsBatch
<1>3. Tracks(StartOf(NewChainState), hs, 0)
  BY TracksStart
<1>4. RulesTo(hs, 0)
  BY DEF RulesTo
<1>5. \A n \in 0..Len(hs) : 0 + n = n
  OBVIOUS
<1> DEFINE f == Turns(StartOf(NewChainState), hs)
<1>6. \A j \in 0..Len(hs) :
        /\ IsTurn(f[j]) /\ f[j].ok \in BOOLEAN
        /\ f[j].ok => Tracks(f[j], hs, 0 + j) /\ RulesTo(hs, 0 + j)
  BY <1>1, <1>2, <1>3, <1>4, LoopTracks
<1> HIDE DEF f
<1>7. \A n \in 0..Len(hs) :
        /\ IsTurn(f[n]) /\ f[n].ok \in BOOLEAN
        /\ f[n].ok => Tracks(f[n], hs, n) /\ RulesTo(hs, n)
  BY <1>5, <1>6
<1> QED BY <1>7 DEF f

\* The two states hand on the same, but for the work.
LEMMA ButWorkIs ==
  ASSUME NEW s, NEW t
  PROVE  ButWork(s) = ButWork(t) <=>
           /\ s.block_height = t.block_height
           /\ s.best_block_hash = t.best_block_hash
           /\ s.current_target_bits = t.current_target_bits
           /\ s.epoch_start_time = t.epoch_start_time
           /\ s.prev_11_timestamps = t.prev_11_timestamps
           /\ s.block_hashes_mmr = t.block_hashes_mmr
BY DEF ButWork

\* Every one of the first n headers has work of at most M, and the sum fits
Bounded(hs, n, M) ==
  /\ n * M <= U256 - 1
  /\ \A i \in 1..n : calculate_work(bits_to_target(hs[i].bits)) <= M

\* The work of a chain in one batch and in several, where it does not wrap
WorkAgrees(whole, batched, hs, n) ==
  \A M \in Nat : Bounded(hs, n, M) => /\ batched.total_work <= n * M
                                      /\ whole.total_work <= batched.total_work

\* The loop in one batch, and in the last one of several, after n headers
Agrees(whole, batched, hs, n) ==
  /\ ButWork(whole.state) = ButWork(batched.state)
  /\ batched.target <= whole.target
  /\ WorkAgrees(whole.state, batched.state, hs, n)

\* A batch begins where the chain is after n headers, but for its work and for
\* the precision of the target.
LEMMA BatchStart ==
  ASSUME NEW hs, IsChain(hs), NEW n \in 0..Len(hs), NEW w, Tracks(w, hs, n),
         NEW s, ButWork(w.state) = ButWork(s), s.total_work \in 0..(U256 - 1)
  PROVE  /\ Tracks(StartOf(s), hs, n)
         /\ StartOf(s).state = s /\ StartOf(s).target <= w.target
<1> DEFINE start == StartOf(s)
           time == IF s.block_height = U32 - 1 THEN 0
                   ELSE s.prev_11_timestamps[s.block_height % TimestampCount]
           goal == IF Regtest THEN max_target ELSE bits_to_target(s.current_target_bits)
<1>1. n \in Nat /\ n < U32 /\ U32 \in Nat
  BY ChainTypes
<1>2. StateTracks(s, hs, n)
  BY ButWorkIs DEF Tracks, StateTracks
<1>3. start = [ok |-> TRUE, target |-> goal, last_block_time |-> time, state |-> s]
  BY Zenon DEF StartOf, Start
<1>4. time = IF n = 0 THEN 0 ELSE hs[n].time
  <2>1. CASE n = 0
    BY <2>1, <1>2, HeightIs
  <2>2. CASE n # 0
    <3>1. s.block_height = n - 1 /\ s.block_height # U32 - 1
      BY <2>2, <1>1, <1>2, HeightIs
    <3>2. 1 \in 1..TimestampCount
      BY WidthTypes
    <3>3. s.prev_11_timestamps[(n - 1) % TimestampCount] = TimeBefore(hs, n + 1, 1)
      BY <3>2, <1>2 DEF StateTracks, RingTracks
    <3>4. TimeBefore(hs, n + 1, 1) = hs[n].time
      <4> n + 1 - 1 = n /\ n >= 1 BY <1>1, <2>2
      <4> QED BY DEF TimeBefore
    <3> QED BY <2>2, <3>1, <3>3, <3>4
  <2> QED BY <2>1, <2>2
<1>5. goal \in {EpochTarget(hs, n + 1).full, bits_to_target(EpochTarget(hs, n + 1).bits)}
      /\ goal <= w.target
  <2>1. CASE Regtest
    <3>1. EpochTarget(hs, n + 1) = [bits |-> max_bits, full |-> max_target]
      BY <2>1 DEF EpochTarget
    <3>2. w.target = max_target
      BY <3>1 DEF Tracks, max_target
    <3> QED BY <2>1, <3>1, <3>2, MaxTarget
  <2>2. CASE ~Regtest
    BY <2>2, <1>2, TargetInUse DEF StateTracks
  <2> QED BY <2>1, <2>2
<1> HIDE DEF start, time, goal
<1>6. /\ IsTurn(start) /\ start.ok = TRUE /\ start.target = goal
      /\ start.last_block_time = time /\ start.state = s
  BY <1>3 DEF IsTurn
<1>7. Tracks(start, hs, n)
  BY <1>2, <1>4, <1>5, <1>6 DEF Tracks
<1> QED BY <1>5, <1>6, <1>7 DEF start

\* The work that the loop adds for a header is at most that of the header's bits.
LEMMA WorkAdded ==
  ASSUME NEW hs, IsChain(hs), NEW n \in 0..(Len(hs) - 1), NEW acc, Tracks(acc, hs, n),
         hs[n + 1].bits = Due(hs, n + 1).bits
  PROVE  /\ Expected(acc, hs[n + 1].time).work
              = calculate_work(IF Eased(hs, n + 1) THEN max_target ELSE acc.target)
         /\ Expected(acc, hs[n + 1].time).work \in Nat
         /\ Expected(acc, hs[n + 1].time).work <= calculate_work(bits_to_target(hs[n + 1].bits))
<1> DEFINE e == Expected(acc, hs[n + 1].time)
           bits == hs[n + 1].bits
           used == IF Eased(hs, n + 1) THEN max_target ELSE acc.target
<1>1. e.work = calculate_work(used) /\ used \in Nat /\ bits_to_target(bits) \in Nat
      /\ bits_to_target(bits) <= used
  <2>1. CASE Eased(hs, n + 1)
    <3>1. e = [target |-> max_target, bits |-> Due(hs, n + 1).bits, work |-> calculate_work(max_target)]
      BY <2>1, EasedIs
    <3>2. Due(hs, n + 1).bits = max_bits
      BY <2>1 DEF Due
    <3>3. bits_to_target(bits) = max_target
      BY <3>2 DEF max_target
    <3> QED BY <2>1, <3>1, <3>3, MaxTarget
  <2>2. CASE ~Eased(hs, n + 1)
    <3>1. e = [target |-> acc.target, bits |-> Due(hs, n + 1).bits, work |-> calculate_work(acc.target)]
      BY <2>2, EasedIs
    <3>2. Due(hs, n + 1) = EpochTarget(hs, n + 1)
      BY <2>2 DEF Due
    <3>3. bits_to_target(EpochTarget(hs, n + 1).bits) \in Nat
      BY MaxTarget DEF Tracks, TargetOk
    <3>4. acc.target \in Nat
      BY TargetInUse
    <3> QED BY <2>2, <3>1, <3>2, <3>3, <3>4, TargetInUse
  <2> QED BY <2>1, <2>2
<1> HIDE DEF e, used, bits
<1> QED BY <1>1, WorkFalls DEF e, used, bits

\* A header that the last of several batches accepts is accepted in one batch too,
\* and both go on agreeing.
LEMMA AgreeStep ==
  ASSUME NEW hs, IsChain(hs), NEW n \in 0..(Len(hs) - 1), RulesTo(hs, n),
         NEW w, Tracks(w, hs, n), NEW b, Tracks(b, hs, n), Agrees(w, b, hs, n),
         Accepts(b, hs[n + 1])
  PROVE  /\ Accepts(w, hs[n + 1])
         /\ Agrees(ApplyBlock(w, hs[n + 1]), ApplyBlock(b, hs[n + 1]), hs, n + 1)
<1> DEFINE h == hs[n + 1]
           w2 == ApplyBlock(w, h)
           b2 == ApplyBlock(b, h)
<1>1. n \in Nat /\ n + 1 \in 1..Len(hs) /\ Len(hs) \in Nat /\ n \in 0..Len(hs)
  BY ChainTypes
<1>2. /\ Follows(hs, n + 1)
      /\ h.pow <= IF Eased(hs, n + 1) THEN max_target ELSE b.target
      /\ EndsEpoch(b.state) => Compact(NextTarget(b, h.time))
  BY AcceptsIs
<1>3. hs[FirstOf(n + 1)].bits = EpochTarget(hs, n + 1).bits
  BY <1>2, FirstBitsTo
<1>4. NextHeight(w.state) = n /\ NextHeight(b.state) = n
  BY <1>1, HeightIs DEF Tracks
<1>5. EndsEpoch(w.state) <=> EndsEpoch(b.state)
  BY <1>4 DEF EndsEpoch
<1>6. /\ NextTarget(b, h.time) <= NextTarget(w, h.time)
      /\ EndsEpoch(b.state) => NextTarget(b, h.time) = NextTarget(w, h.time)
  <2>1. CASE EndsEpoch(b.state)
    <3>1. NextTarget(b, h.time) = NextTarget(w, h.time) /\ NextTarget(b, h.time) \in 0..max_target
      BY <2>1, <1>3, <1>5, NextTargetIs
    <3> QED BY <3>1, MaxTarget
  <2>2. CASE ~EndsEpoch(b.state)
    <3>1. NextTarget(b, h.time) = b.target /\ NextTarget(w, h.time) = w.target
      BY <2>2, <1>3, <1>5, NextTargetIs
    <3> QED BY <2>2, <3>1 DEF Agrees
  <2> QED BY <2>1, <2>2
<1>7. Accepts(w, h)
  <2>1. h.pow \in Nat /\ b.target \in Nat /\ w.target \in Nat /\ b.target <= w.target
    BY <1>1, TargetInUse DEF IsChain, Agrees
  <2>2. h.pow <= IF Eased(hs, n + 1) THEN max_target ELSE w.target
    BY <1>2, <2>1
  <2> QED BY <1>2, <1>5, <1>6, <2>2, AcceptsIs
<1>8. /\ w2.target = NextTarget(w, h.time) /\ w2.state = NextState(w, h)
      /\ b2.target = NextTarget(b, h.time) /\ b2.state = NextState(b, h)
  BY <1>7, TurnResult DEF Tracks
<1>9. ButWork(NextState(w, h)) = ButWork(NextState(b, h))
  <2> DEFINE s == w.state
             t == b.state
             s2 == NextState(w, h)
             t2 == NextState(b, h)
  <2>1. /\ s.epoch_start_time = t.epoch_start_time
        /\ s.current_target_bits = t.current_target_bits
        /\ s.prev_11_timestamps = t.prev_11_timestamps
        /\ s.block_hashes_mmr = t.block_hashes_mmr
    BY ButWorkIs DEF Agrees
  <2>2. EpochStart(s, h.time) = EpochStart(t, h.time)
    BY <1>4, <2>1 DEF EpochStart
  <2>3. s2.current_target_bits = t2.current_target_bits
    <3>1. CASE EndsEpoch(t)
      BY <3>1, <1>5, <1>6 DEF NextState
    <3>2. CASE ~EndsEpoch(t)
      BY <3>2, <1>5, <2>1 DEF NextState
    <3> QED BY <3>1, <3>2
  <2>4. /\ s2.block_height = t2.block_height
        /\ s2.best_block_hash = t2.best_block_hash
        /\ s2.epoch_start_time = t2.epoch_start_time
        /\ s2.prev_11_timestamps = t2.prev_11_timestamps
        /\ s2.block_hashes_mmr = t2.block_hashes_mmr
    BY <1>4, <2>1, <2>2 DEF NextState
  <2> HIDE DEF s2, t2
  <2>5. ButWork(s2) = ButWork(t2)
    BY <2>3, <2>4, ButWorkIs
  <2> QED BY <2>5 DEF s2, t2
<1>10. WorkAgrees(NextState(w, h), NextState(b, h), hs, n + 1)
  <2> DEFINE ew == Expected(w, h.time).work
             eb == Expected(b, h.time).work
             tw == w.state.total_work
             tb == b.state.total_work
  <2>1. h.bits = Due(hs, n + 1).bits
    BY <1>2 DEF Follows
  <2>2. /\ ew \in Nat /\ eb \in Nat /\ eb <= calculate_work(bits_to_target(h.bits))
        /\ ew <= eb
    <3>1. /\ ew = calculate_work(IF Eased(hs, n + 1) THEN max_target ELSE w.target) /\ ew \in Nat
          /\ eb = calculate_work(IF Eased(hs, n + 1) THEN max_target ELSE b.target) /\ eb \in Nat
          /\ eb <= calculate_work(bits_to_target(h.bits))
      BY <2>1, WorkAdded
    <3>2. w.target \in Nat /\ b.target \in Nat /\ b.target <= w.target
      BY TargetInUse DEF Agrees
    <3>3. calculate_work(w.target) <= calculate_work(b.target)
      BY <3>2, WorkFalls
    <3> QED BY <3>1, <3>3
  <2>3. tw \in Nat /\ tb \in Nat /\ U256 \in Nat
    BY MaxTarget DEF Tracks, StateTracks
  <2>4. calculate_work(bits_to_target(h.bits)) \in Nat
    <3>1. bits_to_target(h.bits) \in Nat
      <4>1. CASE Eased(hs, n + 1)
        <5> bits_to_target(h.bits) = max_target BY <4>1, <2>1 DEF Due, max_target
        <5> QED BY MaxTarget
      <4>2. CASE ~Eased(hs, n + 1)
        <5> Due(hs, n + 1) = EpochTarget(hs, n + 1) BY <4>2 DEF Due
        <5> QED BY <2>1, MaxTarget DEF Tracks, TargetOk
      <4> QED BY <4>1, <4>2
    <3>2. bits_to_target(h.bits) <= bits_to_target(h.bits)
      BY <3>1
    <3> QED BY <3>1, <3>2, WorkFalls
  <2>5. /\ NextState(w, h).total_work = (tw + ew) % U256
        /\ NextState(b, h).total_work = (tb + eb) % U256
    BY DEF NextState
  <2>6. ASSUME NEW M \in Nat, Bounded(hs, n + 1, M)
        PROVE  /\ NextState(b, h).total_work <= (n + 1) * M
               /\ NextState(w, h).total_work <= NextState(b, h).total_work
    <3>1. PICK p \in Nat : p = n * M
      BY <1>1
    <3>2. (n + 1) * M = p + M /\ p + M <= U256 - 1
      BY <1>1, <2>6, <3>1 DEF Bounded
    <3>3. Bounded(hs, n, M)
      <4>1. n * M <= U256 - 1
        BY <2>3, <3>1, <3>2
      <4>2. ASSUME NEW i \in 1..n PROVE calculate_work(bits_to_target(hs[i].bits)) <= M
        <5> i \in 1..(n + 1) BY <1>1
        <5> QED BY <2>6 DEF Bounded
      <4> QED BY <4>1, <4>2 DEF Bounded
    <3>4. tb <= p /\ tw <= tb
      BY <3>1, <3>3 DEF Agrees, WorkAgrees
    <3>5. calculate_work(bits_to_target(h.bits)) <= M
      <4> n + 1 \in 1..(n + 1) BY <1>1
      <4> QED BY <2>6 DEF Bounded
    <3> HIDE DEF ew, eb, tw, tb
    <3>6. eb <= M
      BY <2>2, <2>4, <3>5
    <3>7. /\ tw + ew \in Nat /\ tb + eb \in Nat
          /\ tw + ew <= tb + eb /\ tb + eb <= p + M /\ tb + eb < U256 /\ tw + ew < U256
      BY <2>2, <2>3, <3>2, <3>4, <3>6
    <3>8. (tw + ew) % U256 = tw + ew /\ (tb + eb) % U256 = tb + eb
      <4>1. PICK x \in Nat : x = tw + ew
        BY <3>7
      <4>2. PICK y \in Nat : y = tb + eb
        BY <3>7
      <4>3. x < U256 /\ y < U256 /\ U256 \in Nat \ {0}
        BY <2>3, <3>7, <4>1, <4>2
      <4>4. x % U256 = x /\ y % U256 = y
        BY <4>3, SmallRemainder
      <4> QED BY <4>1, <4>2, <4>4
    <3> QED BY <2>5, <3>2, <3>7, <3>8
  <2> QED BY <2>6 DEF WorkAgrees
<1> HIDE DEF w2, b2
<1>11. Agrees(w2, b2, hs, n + 1)
  BY <1>6, <1>8, <1>9, <1>10 DEF Agrees
<1> QED BY <1>7, <1>11 DEF w2, b2

\* What one of several batches accepts, and what it leads to, is what the whole
\* chain in one batch does.
LEMMA BatchAgrees ==
  ASSUME NEW hs, IsChain(hs), NEW n \in 0..Len(hs), NEW bs, IsBatch(bs, hs, n),
         NEW s, LET w == Turns(StartOf(NewChainState), hs)[n]
                IN /\ w.ok /\ ButWork(w.state) = ButWork(s)
                   /\ WorkAgrees(w.state, s, hs, n),
         s.total_work \in 0..(U256 - 1)
  PROVE  \A j \in 0..Len(bs) :
           LET w == Turns(StartOf(NewChainState), hs)[n + j]
               b == Turns(StartOf(s), bs)[j]
           IN b.ok => /\ w.ok /\ Tracks(w, hs, n + j) /\ Tracks(b, hs, n + j)
                      /\ RulesTo(hs, n + j) /\ Agrees(w, b, hs, n + j)
<1> DEFINE W == Turns(StartOf(NewChainState), hs)
           B == Turns(StartOf(s), bs)
           Good(j) == B[j].ok => /\ W[n + j].ok /\ Tracks(W[n + j], hs, n + j) /\ Tracks(B[j], hs, n + j)
                                 /\ RulesTo(hs, n + j) /\ Agrees(W[n + j], B[j], hs, n + j)
           bad == {j \in Nat : j \in 0..Len(bs) /\ ~Good(j)}
<1>1. Len(bs) \in Nat /\ n \in Nat /\ n + Len(bs) <= Len(hs) /\ Len(hs) \in Nat
  BY ChainTypes DEF IsBatch
<1>2. /\ W[0] = StartOf(NewChainState) /\ \A k \in 1..Len(hs) : W[k] = ApplyBlock(W[k - 1], hs[k])
      /\ B[0] = StartOf(s) /\ \A k \in 1..Len(bs) : B[k] = ApplyBlock(B[k - 1], bs[k])
  BY <1>1, TurnsAre
<1>3. \A k \in 0..Len(hs) : /\ IsTurn(W[k]) /\ W[k].ok \in BOOLEAN
                            /\ W[k].ok => Tracks(W[k], hs, k) /\ RulesTo(hs, k)
  BY WholeTracks
<1>4. W[n].ok /\ ButWork(W[n].state) = ButWork(s) /\ WorkAgrees(W[n].state, s, hs, n)
  OBVIOUS
<1> HIDE DEF W
<1>5. Tracks(W[n], hs, n) /\ RulesTo(hs, n)
  BY <1>3, <1>4
<1>6. Tracks(B[0], hs, n) /\ B[0].state = s /\ B[0].target <= W[n].target
  BY <1>2, <1>4, <1>5, BatchStart
<1>7. \A j \in 0..Len(bs) : /\ IsTurn(B[j]) /\ B[j].ok \in BOOLEAN
                            /\ B[j].ok => Tracks(B[j], hs, n + j) /\ RulesTo(hs, n + j)
  BY <1>2, <1>5, <1>6, LoopTracks
<1> HIDE DEF B
<1>8. Good(0)
  <2>1. n + 0 = n
    BY <1>1
  <2>2. Agrees(W[n], B[0], hs, n)
    BY <1>4, <1>6 DEF Agrees
  <2> QED BY <2>1, <2>2, <1>4, <1>5, <1>6
<1>9. ASSUME NEW j \in 1..Len(bs), Good(j - 1) PROVE Good(j)
  <2> SUFFICES ASSUME B[j].ok
               PROVE  /\ W[n + j].ok /\ Tracks(W[n + j], hs, n + j) /\ Tracks(B[j], hs, n + j)
                      /\ RulesTo(hs, n + j) /\ Agrees(W[n + j], B[j], hs, n + j)
    OBVIOUS
  <2> DEFINE m == n + (j - 1)
  <2>1. /\ j - 1 \in 0..Len(bs) /\ j \in 0..Len(bs) /\ m \in 0..(Len(hs) - 1)
        /\ m + 1 = n + j /\ m + 1 \in 1..Len(hs) /\ m + 1 - 1 = m /\ m + 1 \in 0..Len(hs)
        /\ m \in 0..Len(hs)
    BY <1>1
  <2> HIDE DEF m
  <2>2. bs[j] = hs[m + 1]
    BY <2>1 DEF IsBatch
  <2>3. B[j] = ApplyBlock(B[j - 1], hs[m + 1]) /\ W[m + 1] = ApplyBlock(W[m], hs[m + 1])
    BY <1>2, <2>1, <2>2
  <2>4. Accepts(B[j - 1], hs[m + 1]) /\ B[j - 1].ok
    <3> Accepts(B[j - 1], hs[m + 1]) BY <1>7, <2>1, <2>3, TurnResult
    <3> QED BY DEF Accepts
  <2>5. /\ W[m].ok /\ Tracks(W[m], hs, m) /\ Tracks(B[j - 1], hs, m)
        /\ RulesTo(hs, m) /\ Agrees(W[m], B[j - 1], hs, m)
    BY <1>9, <2>4 DEF m
  <2>6. Accepts(W[m], hs[m + 1]) /\ Agrees(W[m + 1], B[j], hs, m + 1)
    BY <2>1, <2>3, <2>4, <2>5, AgreeStep
  <2>7. W[m + 1].ok
    BY <1>3, <2>1, <2>3, <2>6, TurnResult
  <2>8. Tracks(W[m + 1], hs, m + 1) /\ RulesTo(hs, m + 1)
    BY <1>3, <2>1, <2>7
  <2>9. Tracks(B[j], hs, m + 1)
    BY <1>7, <2>1
  <2> QED BY <2>1, <2>6, <2>7, <2>8, <2>9
<1> SUFFICES ASSUME bad # {} PROVE FALSE
  <2> \A j \in 0..Len(bs) : j \in Nat OBVIOUS
  <2> QED BY DEF W, B
<1>10. PICK j \in bad : \A m \in bad : j <= m
  <2> HIDE DEF bad
  <2> bad \in SUBSET Nat BY DEF bad
  <2> QED BY LeastNumber
<1> HIDE DEF Good
<1>11. j # 0
  BY <1>8, <1>10
<1>12. j - 1 \in Nat /\ j - 1 \in 0..Len(bs) /\ j \in 1..Len(bs) /\ ~(j <= j - 1)
  BY <1>1, <1>10, <1>11
<1>13. Good(j - 1)
  BY <1>10, <1>12
<1> QED BY <1>9, <1>10, <1>12, <1>13

\* The first n headers follow the rules, have hashes below the compact targets,
\* and retargets give targets that have a compact form
ValidTo(hs, n) ==
  \A m \in 1..n :
    /\ Follows(hs, m) /\ hs[m].pow <= bits_to_target(Due(hs, m).bits)
    /\ m % BLOCKS_PER_EPOCH = 0 /\ ~Regtest => Compact(EpochTarget(hs, m + 1).full)

\* A header of a valid chain is accepted.
LEMMA ValidAccepted ==
  ASSUME NEW hs, IsChain(hs), ValidTo(hs, Len(hs)), NEW n \in 0..(Len(hs) - 1), NEW acc,
         Tracks(acc, hs, n), RulesTo(hs, n)
  PROVE  Accepts(acc, hs[n + 1])
<1> DEFINE h == hs[n + 1]
<1>1. n \in Nat /\ n + 1 \in 1..Len(hs) /\ Len(hs) \in Nat /\ n + 1 + 1 = n + 2
  BY ChainTypes
<1>2. /\ Follows(hs, n + 1) /\ h.pow <= bits_to_target(Due(hs, n + 1).bits)
      /\ (n + 1) % BLOCKS_PER_EPOCH = 0 /\ ~Regtest => Compact(EpochTarget(hs, n + 2).full)
  BY <1>1 DEF ValidTo
<1>3. h.pow <= IF Eased(hs, n + 1) THEN max_target ELSE acc.target
  <2>1. CASE Eased(hs, n + 1)
    BY <2>1, <1>2 DEF Due, max_target
  <2>2. CASE ~Eased(hs, n + 1)
    <3>1. h.pow \in Nat /\ h.pow <= bits_to_target(EpochTarget(hs, n + 1).bits)
      BY <2>2, <1>1, <1>2 DEF Due, IsChain
    <3>2. /\ bits_to_target(EpochTarget(hs, n + 1).bits) \in Int /\ acc.target \in Int
          /\ bits_to_target(EpochTarget(hs, n + 1).bits) <= acc.target
      BY TargetInUse, MaxTarget DEF Tracks, TargetOk
    <3>3. h.pow <= acc.target
      BY <3>1, <3>2
    <3> QED BY <2>2, <3>3
  <2> QED BY <2>1, <2>2
<1>4. hs[FirstOf(n + 1)].bits = EpochTarget(hs, n + 1).bits
  BY <1>2, FirstBitsTo
<1>5. ASSUME EndsEpoch(acc.state) PROVE Compact(NextTarget(acc, h.time))
  <2>1. ~Regtest /\ n % BLOCKS_PER_EPOCH = BLOCKS_PER_EPOCH - 1
    BY <1>4, <1>5, NextTargetIs
  <2>2. (n + 1) % BLOCKS_PER_EPOCH = 0
    <3>1. PICK c \in Nat : c = BLOCKS_PER_EPOCH /\ c >= 1
      BY WidthTypes
    <3>2. PICK q \in Int : q = n \div c
      BY <1>1, <3>1
    <3>3. n = c * q + (c - 1)
      BY <1>1, <2>1, <3>1, <3>2
    <3>4. n + 1 = c * (q + 1)
      BY <3>1, <3>2, <3>3
    <3>5. (c * (q + 1)) % c = 0
      BY <3>1, <3>2
    <3> QED BY <3>1, <3>4, <3>5
  <2>3. NextTarget(acc, h.time) = EpochTarget(hs, n + 2).full
    BY <1>4, <1>5, NextTargetIs
  <2> QED BY <1>2, <2>1, <2>2, <2>3
<1> QED BY <1>2, <1>3, <1>5, AcceptsIs

\* A batch of a valid chain is proved.
LEMMA ValidBatch ==
  ASSUME NEW hs, IsChain(hs), ValidTo(hs, Len(hs)), NEW n \in 0..Len(hs),
         NEW bs, IsBatch(bs, hs, n), NEW start, Tracks(start, hs, n), RulesTo(hs, n)
  PROVE  Turns(start, bs)[Len(bs)].ok
<1> DEFINE f == Turns(start, bs)
           bad == {j \in Nat : j \in 0..Len(bs) /\ ~f[j].ok}
<1>1. Len(bs) \in Nat /\ n \in Nat /\ n + Len(bs) <= Len(hs) /\ Len(hs) \in Nat
  BY ChainTypes DEF IsBatch
<1>2. f[0] = start /\ \A k \in 1..Len(bs) : f[k] = ApplyBlock(f[k - 1], bs[k])
  BY <1>1, TurnsAre
<1>3. \A j \in 0..Len(bs) : /\ IsTurn(f[j]) /\ f[j].ok \in BOOLEAN
                            /\ f[j].ok => Tracks(f[j], hs, n + j) /\ RulesTo(hs, n + j)
  BY LoopTracks
<1> HIDE DEF f
<1> SUFFICES ASSUME bad # {} PROVE FALSE
  BY <1>1 DEF f
<1>4. PICK j \in bad : \A m \in bad : j <= m
  <2> HIDE DEF bad
  <2> bad \in SUBSET Nat BY DEF bad
  <2> QED BY LeastNumber
<1>5. j # 0
  BY <1>2, <1>4 DEF Tracks
<1>6. /\ j - 1 \in Nat /\ j - 1 \in 0..Len(bs) /\ j \in 1..Len(bs) /\ ~(j <= j - 1)
      /\ n + (j - 1) \in 0..(Len(hs) - 1) /\ n + (j - 1) + 1 = n + j
  BY <1>1, <1>4, <1>5
<1>7. f[j - 1].ok
  BY <1>4, <1>6
<1>8. Tracks(f[j - 1], hs, n + (j - 1)) /\ RulesTo(hs, n + (j - 1))
  BY <1>3, <1>6, <1>7
<1>9. Accepts(f[j - 1], hs[n + j])
  BY <1>6, <1>8, ValidAccepted
<1>10. f[j] = ApplyBlock(f[j - 1], hs[n + j])
  BY <1>2, <1>6 DEF IsBatch
<1>11. f[j].ok
  BY <1>3, <1>6, <1>9, <1>10, TurnResult
<1> QED BY <1>4, <1>11

\* The rules for a header depend on the headers before it only.
LEMMA RulesOfPrefix ==
  ASSUME NEW hs, NEW more, NEW n \in Nat, \A k \in 1..n : hs[k] = more[k], NEW m \in 1..n
  PROVE  Due(hs, m) = Due(more, m) /\ (Follows(hs, m) <=> Follows(more, m))
<1>1. hs[m] = more[m] /\ (m # 1 => hs[m - 1] = more[m - 1]) /\ m \in Nat /\ m - 1 \in Nat
       /\ m - 1 + 1 = m
  OBVIOUS
<1>2. EpochTarget(hs, m) = EpochTarget(more, m)
  <2>1. CASE EpochOf(m) = 0 \/ Regtest
    BY <2>1 DEF EpochTarget
  <2>2. CASE ~(EpochOf(m) = 0 \/ Regtest)
    <3> DEFINE B == BLOCKS_PER_EPOCH
    <3>1. EpochOf(m) \in Nat /\ EpochOf(m) >= 1 /\ FirstOf(m) \in 1..m
      BY <1>1, <2>2, Epochs
    <3>2. B \in Nat /\ B >= 1
      BY WidthTypes
    <3>3. FirstOf(m) >= B + 1
      <4>1. PICK e \in Nat : e = EpochOf(m)
        BY <3>1
      <4>2. e >= 1
        BY <3>1, <4>1
      <4>3. PICK d \in Nat : e = d + 1
        <5> e - 1 \in Nat /\ e = (e - 1) + 1 BY <4>2
        <5> QED OBVIOUS
      <4>4. PICK p \in Nat : p = d * B
        BY <3>2
      <4>5. e * B = p + B
        BY <3>2, <4>3, <4>4
      <4>6. FirstOf(m) = p + B + 1
        BY <4>1, <4>5 DEF FirstOf
      <4> QED BY <3>2, <4>4, <4>6
    <3>4. FirstOf(m) - B \in 1..n /\ FirstOf(m) - 1 \in 1..n
      BY <3>1, <3>2, <3>3
    <3>5. hs[FirstOf(m) - B] = more[FirstOf(m) - B] /\ hs[FirstOf(m) - 1] = more[FirstOf(m) - 1]
      BY <3>4
    <3> QED BY <3>5, Zenon DEF EpochTarget
  <2> QED BY <2>1, <2>2
<1>3. Eased(hs, m) <=> Eased(more, m)
  <2>1. CASE m = 1
    <3> 1 - 1 = 0 OBVIOUS
    <3> 0 % BLOCKS_PER_EPOCH = 0 BY WidthTypes
    <3> QED BY <2>1 DEF Eased
  <2>2. CASE m # 1
    BY <1>1, <2>2 DEF Eased
  <2> QED BY <2>1, <2>2
<1>4. Due(hs, m) = Due(more, m)
  BY <1>2, <1>3 DEF Due
<1>5. LaterThanMost(hs, m) <=> LaterThanMost(more, m)
  <2>1. ASSUME NEW i \in 1..TimestampCount PROVE TimeBefore(hs, m, i) = TimeBefore(more, m, i)
    <3> TimestampCount \in Nat BY WidthTypes
    <3>1. CASE m - i >= 1
      <4> m - i \in 1..n BY <3>1
      <4> QED BY <3>1 DEF TimeBefore
    <3>2. CASE ~(m - i >= 1)
      BY <3>2 DEF TimeBefore
    <3> QED BY <3>1, <3>2
  <2>2. {i \in 1..TimestampCount : TimeBefore(hs, m, i) < hs[m].time}
          = {i \in 1..TimestampCount : TimeBefore(more, m, i) < more[m].time}
    BY <1>1, <2>1
  <2> QED BY <2>2 DEF LaterThanMost
<1> QED BY <1>1, <1>4, <1>5 DEF Follows

-----------------------------------------------------------------------------
(* The inductive invariant.                                                 *)

\* The state that the next batch begins with, and the number of proven headers
StateOf(out)  == IF out = NoProof THEN NewChainState ELSE out.chain_state
HeightOf(out) == IF out = NoProof THEN 0 ELSE out.chain_state.block_height + 1

\* The chain is accepted in one batch up to the proven headers, and with the
\* state of the proof, but for the work
ProofOk(hs, out) ==
  LET n == HeightOf(out)
      w == Turns(StartOf(NewChainState), hs)[n]
  IN /\ IsChain(hs)
     /\ n \in 0..Len(hs) /\ (out # NoProof => n >= 1)
     /\ w.ok /\ ButWork(w.state) = ButWork(StateOf(out))
     /\ StateOf(out).total_work \in 0..(U256 - 1)
     /\ WorkAgrees(w.state, StateOf(out), hs, n)

\* The ids of the transactions of the n-th block
Ids(n) == [j \in 1..TxCounts[n] |-> txid(Transactions(n)[j])]

\* Every header has the root of the tree over the ids of its transactions
RootsOk(hs) == \A n \in 1..Len(hs) : hs[n].merkle_root = root(StandardTree(Ids(n)))

LightInv == network \in Networks /\ ProofOk(headers, output) /\ RootsOk(headers)

\* The operators of the loop depend on the network, which does not change.
LEMMA SameNetwork ==
  ASSUME network' = network
  PROVE  /\ Regtest' <=> Regtest
         /\ Testnet' <=> Testnet
BY DEF Regtest, Testnet

\* Neither do the parts of a turn.
LEMMA SameParts ==
  ASSUME network' = network
  PROVE  /\ \A acc, time : Expected(acc, time)' = Expected(acc, time)
         /\ \A s, time : EpochStart(s, time)' = EpochStart(s, time)
         /\ \A s : EndsEpoch(s)' <=> EndsEpoch(s)
         /\ \A s, time : Start(s, time)' = Start(s, time)
BY SameNetwork DEF Expected, EpochStart, EndsEpoch, Start

\* Nor the target after a turn.
LEMMA SameTarget ==
  ASSUME network' = network
  PROVE  /\ \A acc, time : NextTarget(acc, time)' = NextTarget(acc, time)
         /\ \A s : StartOf(s)' = StartOf(s)
BY SameParts DEF NextTarget, StartOf

\* Nor its assertions, and the state it leads to.
LEMMA SameTurn ==
  ASSUME network' = network
  PROVE  \A acc, h : ApplyBlock(acc, h)' = ApplyBlock(acc, h)
<1>1. \A acc, h : Accepts(acc, h)' <=> Accepts(acc, h)
  BY SameParts, SameTarget DEF Accepts
<1>2. \A acc, h : NextState(acc, h)' = NextState(acc, h)
  BY SameParts, SameTarget DEF NextState
<1> QED BY <1>1, <1>2, SameTarget DEF ApplyBlock

\* Nor the whole loop.
LEMMA SameTurns ==
  ASSUME network' = network
  PROVE  \A start, hs : Turns(start, hs)' = Turns(start, hs)
BY SameTurn DEF Turns

\* The invariant is about the headers and the proof, for a network that does not
\* change.
LEMMA SameProof ==
  ASSUME network' = network, NEW hs, NEW out
  PROVE  ProofOk(hs, out)' <=> ProofOk(hs, out)
BY SameTurns, SameTarget DEF ProofOk

\* The invariant, at the state before a step and at the one after it.
LEMMA SameInv ==
  ASSUME network' = network
  PROVE  LightInv' <=> network \in Networks /\ ProofOk(headers', output') /\ RootsOk(headers')
BY SameTurns, SameTarget DEF LightInv, ProofOk, RootsOk

\* A new chain state is that of no headers.
LEMMA InvStarts ==
  ASSUME NEW hs, hs = <<>>
  PROVE  ProofOk(hs, NoProof)
<1> DEFINE w == Turns(StartOf(NewChainState), hs)[0]
           s == NewChainState
<1>1. Len(hs) = 0 /\ hs \in Seq({})
  OBVIOUS
<1>2. IsChain(hs)
  BY <1>1, WordTypes DEF IsChain
<1>3. w = StartOf(s)
  BY <1>1, TurnsAre
<1>4. w.ok = TRUE
  BY <1>2, <1>3, TracksStart DEF Tracks
<1>5. w.state = s
  BY <1>3 DEF StartOf, Start
<1>6. s.total_work = 0
  BY DEF NewChainState
<1>7. StateOf(NoProof) = s /\ HeightOf(NoProof) = 0
  BY DEF StateOf, HeightOf
<1> HIDE DEF w, s
<1>8. WorkAgrees(w.state, s, hs, 0)
  BY <1>5, <1>6 DEF WorkAgrees
<1>9. s.total_work \in 0..(U256 - 1)
  BY <1>6, MaxTarget
<1> QED BY <1>1, <1>2, <1>4, <1>5, <1>7, <1>8, <1>9 DEF ProofOk, w, s

\* A header more on the host leaves the proof as good as it was.
LEMMA InvFetches ==
  ASSUME NEW hs, NEW out, ProofOk(hs, out), NEW h, h.time \in Times, h.pow \in Nat,
         Len(hs) < Len(TxCounts)
  PROVE  ProofOk(Append(hs, h), out)
<1> DEFINE more == Append(hs, h)
           start == StartOf(NewChainState)
           n == HeightOf(out)
           s == StateOf(out)
<1>1. IsChain(hs) /\ Len(hs) \in Nat /\ Len(TxCounts) \in Nat
  BY ChainTypes, WordTypes DEF ProofOk
<1>2. PICK S : hs \in Seq(S)
  BY <1>1 DEF IsChain
<1>3. /\ Len(more) = Len(hs) + 1 /\ more \in Seq(S \cup {h})
      /\ \A k \in 1..Len(hs) : more[k] = hs[k]
      /\ more[Len(hs) + 1] = h
  <2> hs \in Seq(S \cup {h}) /\ h \in S \cup {h} BY <1>2
  <2> QED BY AppendProperties
<1> HIDE DEF more
<1>4. IsChain(more)
  <2>1. Len(more) <= Len(TxCounts)
    BY <1>1, <1>3
  <2>2. ASSUME NEW k \in 1..Len(more) PROVE more[k].time \in Times /\ more[k].pow \in Nat
    <3>1. CASE k = Len(hs) + 1
      BY <3>1, <1>3
    <3>2. CASE k # Len(hs) + 1
      <4> k \in 1..Len(hs) BY <3>2, <1>1, <1>3
      <4> QED BY <1>1, <1>3 DEF IsChain
    <3> QED BY <3>1, <3>2
  <2> QED BY <1>3, <2>1, <2>2 DEF IsChain
<1>5. n \in 0..Len(hs) /\ n \in 0..Len(more)
  BY <1>1, <1>3 DEF ProofOk
<1>6. Turns(start, hs)[n] = Turns(start, more)[n]
  <2> \A k \in 1..Len(hs) : hs[k] = more[k] BY <1>3
  <2> Len(more) \in Nat /\ Len(hs) <= Len(more) BY <1>1, <1>3
  <2> HIDE DEF start
  <2> QED BY <1>1, <1>5, TurnsOfPrefix
<1>7. ASSUME NEW M, Bounded(more, n, M) PROVE Bounded(hs, n, M)
  <2> \A i \in 1..n : i \in 1..Len(hs) BY <1>1, <1>5
  <2> QED BY <1>3, <1>7 DEF Bounded
<1> DEFINE w == Turns(start, hs)[n]
<1>8. /\ w.ok /\ ButWork(w.state) = ButWork(s) /\ s.total_work \in 0..(U256 - 1)
      /\ WorkAgrees(w.state, s, hs, n) /\ (out # NoProof => n >= 1)
  BY DEF ProofOk
<1> HIDE DEF w, n, s
<1>9. WorkAgrees(w.state, s, more, n)
  BY <1>7, <1>8 DEF WorkAgrees
<1>10. w = Turns(start, more)[n]
  BY <1>6 DEF w
<1> QED BY <1>4, <1>5, <1>8, <1>9, <1>10 DEF ProofOk, more, n, s

\* The batch that prove takes, and what the circuit does on it.
LEMMA BatchIs ==
  ASSUME ProofOk(headers, output), NEW size \in Nat
  PROVE  /\ IsBatch(Batch(size), headers, HeightOf(output))
         /\ \A bs : Circuit(bs) = Turns(StartOf(StateOf(output)), bs)[Len(bs)]
<1> DEFINE n == HeightOf(output)
           L == Len(headers)
           to == Min({n + size, L})
<1>1. n \in 0..L /\ L \in Nat /\ n \in Nat /\ n < U32 /\ U32 \in Nat
  BY ChainTypes DEF ProofOk
<1>2. Batch(size) = SubSeq(headers, n + 1, to)
  <2>1. CASE output = NoProof
    BY <2>1 DEF Batch, HeightOf
  <2>2. CASE output # NoProof
    <3>1. n = output.chain_state.block_height + 1
      BY <2>2 DEF HeightOf
    <3>2. n % U32 = n
      BY <1>1
    <3> QED BY <2>2, <3>1, <3>2 DEF Batch
  <2> QED BY <2>1, <2>2
<1>3. to \in Nat /\ to <= L /\ n <= to
  <2>1. \E m \in {n + size, L} : \A k \in {n + size, L} : m <= k
    <3>1. CASE n + size <= L
      BY <3>1, <1>1
    <3>2. CASE ~(n + size <= L)
      BY <3>2, <1>1
    <3> QED BY <3>1, <3>2
  <2>2. to \in {n + size, L} /\ \A k \in {n + size, L} : to <= k
    BY <2>1 DEF Min
  <2> QED BY <1>1, <2>2
<1> HIDE DEF n, to, L
<1>4. PICK S : headers \in Seq(S)
  BY DEF ProofOk, IsChain
<1>5. /\ Len(SubSeq(headers, n + 1, to)) = IF n + 1 <= to THEN to - (n + 1) + 1 ELSE 0
      /\ \A i \in 1..(to - (n + 1) + 1) : SubSeq(headers, n + 1, to)[i] = headers[n + 1 + i - 1]
  <2>1. \A i \in (n + 1)..to : headers[i] \in S
    BY <1>1, <1>3, <1>4 DEF L
  <2> QED BY <2>1, <1>1, <1>3, SubSeqProperties
<1>6. Len(SubSeq(headers, n + 1, to)) = to - n
  BY <1>1, <1>3, <1>5
<1>7. \A i \in 1..(to - n) : SubSeq(headers, n + 1, to)[i] = headers[n + i]
  <2> ASSUME NEW i \in 1..(to - n) PROVE SubSeq(headers, n + 1, to)[i] = headers[n + i]
    <3>1. i \in 1..(to - (n + 1) + 1) /\ n + 1 + i - 1 = n + i
      BY <1>1, <1>3
    <3> QED BY <1>5, <3>1
  <2> QED OBVIOUS
<1>8. IsBatch(Batch(size), headers, n)
  BY <1>1, <1>2, <1>3, <1>6, <1>7 DEF IsBatch, L
<1>9. \A bs : Circuit(bs) = Turns(StartOf(StateOf(output)), bs)[Len(bs)]
  BY DEF Circuit, apply_blocks, StateOf
<1> QED BY <1>8, <1>9 DEF n

\* What the invariant says of the chain and of the state that the proof is at.
LEMMA InvTracks ==
  ASSUME NEW hs, NEW out, ProofOk(hs, out)
  PROVE  LET n == HeightOf(out)
             w == Turns(StartOf(NewChainState), hs)[n]
         IN /\ Tracks(w, hs, n) /\ RulesTo(hs, n) /\ w.ok = TRUE
            /\ StateTracks(StateOf(out), hs, n) /\ Tracks(StartOf(StateOf(out)), hs, n)
<1> DEFINE n == HeightOf(out)
           s == StateOf(out)
           w == Turns(StartOf(NewChainState), hs)[n]
<1>1. /\ IsChain(hs) /\ n \in 0..Len(hs) /\ w.ok /\ ButWork(w.state) = ButWork(s)
      /\ s.total_work \in 0..(U256 - 1)
  BY DEF ProofOk
<1>2. Tracks(w, hs, n) /\ RulesTo(hs, n)
  BY <1>1, WholeTracks
<1> HIDE DEF n, s, w
<1>3. StateTracks(s, hs, n)
  BY <1>1, <1>2, ButWorkIs DEF Tracks, StateTracks
<1>4. Tracks(StartOf(s), hs, n)
  BY <1>1, <1>2, BatchStart
<1>5. w.ok = TRUE
  BY <1>2 DEF Tracks
<1> QED BY <1>2, <1>3, <1>4, <1>5 DEF n, s, w

\* A proof of the next batch is as good as the one it builds on.
LEMMA InvProves ==
  ASSUME ProofOk(headers, output), NEW size \in 1..MaxBatch, Len(Batch(size)) = size,
         Circuit(Batch(size)).ok,
         NEW out, out = [method_id |-> "header_chain", chain_state |-> Circuit(Batch(size)).state]
  PROVE  ProofOk(headers, out)
<1> DEFINE hs == headers
           n == HeightOf(output)
           s == StateOf(output)
           bs == Batch(size)
           W == Turns(StartOf(NewChainState), hs)
           b == Turns(StartOf(s), bs)[size]
<1>1. size \in Nat /\ size >= 1
  BY WidthTypes
<1>2. IsBatch(bs, hs, n) /\ Circuit(bs) = b
  BY <1>1, BatchIs
<1>3. /\ IsChain(hs) /\ n \in 0..Len(hs) /\ W[n].ok /\ ButWork(W[n].state) = ButWork(s)
      /\ WorkAgrees(W[n].state, s, hs, n) /\ s.total_work \in 0..(U256 - 1)
  BY DEF ProofOk
<1>4. Len(bs) = size /\ b.ok /\ size \in 0..Len(bs)
  BY <1>1, <1>2
<1> HIDE DEF n, s, bs
<1>5. /\ W[n + size].ok /\ Tracks(b, hs, n + size) /\ Agrees(W[n + size], b, hs, n + size)
  BY <1>2, <1>3, <1>4, BatchAgrees
<1> HIDE DEF b, W
<1>6. n + size \in 0..Len(hs) /\ n + size > 0 /\ n + size \in Int
  BY <1>1, <1>2, <1>3, <1>4, ChainTypes DEF IsBatch
<1>7. b.state.block_height = n + size - 1 /\ b.state.total_work \in 0..(U256 - 1)
  <2>1. StateTracks(b.state, hs, n + size)
    BY <1>5 DEF Tracks
  <2> QED BY <1>3, <1>6, <2>1, HeightIs DEF StateTracks
<1>8. out # NoProof /\ out.chain_state = b.state
  BY <1>2 DEF NoProof, bs
<1>9. StateOf(out) = b.state /\ HeightOf(out) = n + size
  <2>1. n + size - 1 + 1 = n + size
    BY <1>1, <1>3, ChainTypes
  <2>2. StateOf(out) = b.state
    BY <1>8 DEF StateOf
  <2>3. HeightOf(out) = b.state.block_height + 1
    BY <1>8 DEF HeightOf
  <2> QED BY <1>7, <2>1, <2>2, <2>3
<1>10. ButWork(W[n + size].state) = ButWork(b.state)
       /\ WorkAgrees(W[n + size].state, b.state, hs, n + size)
  BY <1>5 DEF Agrees
<1> QED BY <1>3, <1>5, <1>6, <1>7, <1>9, <1>10 DEF ProofOk, W

\* A header more has the root of its transactions, like the others.
LEMMA RootsFetch ==
  ASSUME NEW hs, IsChain(hs), RootsOk(hs), NEW h,
         h.merkle_root = root(StandardTree(Ids(Len(hs) + 1)))
  PROVE  RootsOk(Append(hs, h))
<1> DEFINE more == Append(hs, h)
<1>1. PICK S : hs \in Seq(S)
  BY DEF IsChain
<1>2. /\ Len(more) = Len(hs) + 1 /\ Len(hs) \in Nat
      /\ \A k \in 1..Len(hs) : more[k] = hs[k]
      /\ more[Len(hs) + 1] = h
  <2> hs \in Seq(S \cup {h}) /\ h \in S \cup {h} BY <1>1
  <2> QED BY AppendProperties, LenProperties
<1> HIDE DEF more
<1>3. ASSUME NEW n \in 1..Len(more) PROVE more[n].merkle_root = root(StandardTree(Ids(n)))
  <2>1. CASE n = Len(hs) + 1
    BY <2>1, <1>2
  <2>2. CASE n # Len(hs) + 1
    <3> n \in 1..Len(hs) BY <2>2, <1>2
    <3> QED BY <1>2 DEF RootsOk
  <2> QED BY <2>1, <2>2
<1> QED BY <1>3 DEF RootsOk, more

\* LightInv holds in every state: the proof in hand is that of the headers so
\* far, whatever the batches it was made in.
THEOREM LightInvHolds == Spec => []LightInv
<1>1. Init => LightInv
  <2> SUFFICES ASSUME Init PROVE LightInv
    OBVIOUS
  <2>1. network \in Networks /\ ProofOk(headers, output)
    BY InvStarts DEF Init
  <2>2. headers = <<>> /\ Len(headers) = 0
    BY DEF Init
  <2>3. RootsOk(headers)
    BY <2>2 DEF RootsOk
  <2> QED BY <2>1, <2>3 DEF LightInv
<1>2. ASSUME LightInv, [Next]_vars PROVE LightInv'
  <2>1. ASSUME Fetch PROVE LightInv'
    <3>1. PICK h \in NextHeaders : headers' = Append(headers, h)
      BY <2>1 DEF Fetch
    <3>2. network' = network /\ output' = output /\ Len(headers) < Len(TxCounts)
      BY <2>1 DEF Fetch
    <3>3. h.time \in Times /\ h.pow \in Nat
      <4> h.time \in Times /\ h.pow \in Pows BY <3>1 DEF NextHeaders
      <4> QED BY LightClientAssumption
    <3>4. ProofOk(Append(headers, h), output)
      BY <1>2, <3>2, <3>3, InvFetches DEF LightInv
    <3>5. h.merkle_root = root(StandardTree(Ids(Len(headers) + 1)))
      BY <3>1 DEF NextHeaders, Ids
    <3>6. RootsOk(Append(headers, h))
      BY <1>2, <3>5, RootsFetch DEF LightInv, ProofOk
    <3> QED BY <1>2, <3>1, <3>2, <3>4, <3>6, SameInv DEF LightInv
  <2>2. ASSUME NEW size \in 1..MaxBatch, Prove(size) PROVE LightInv'
    <3>1. /\ network' = network /\ headers' = headers
          /\ Len(Batch(size)) = size /\ Circuit(Batch(size)).ok
          /\ output' = [method_id |-> "header_chain", chain_state |-> Circuit(Batch(size)).state]
      BY <2>2 DEF Prove
    <3>2. ProofOk(headers, output')
      BY <1>2, <3>1, InvProves DEF LightInv
    <3> QED BY <1>2, <3>1, <3>2, SameInv DEF LightInv
  <2>3. CASE UNCHANGED vars
    <3>1. network' = network /\ headers' = headers /\ output' = output
      BY <2>3 DEF vars
    <3> QED BY <1>2, <3>1, SameInv DEF LightInv
  <2> QED BY <1>2, <2>1, <2>2, <2>3 DEF Next
<1> QED BY <1>1, <1>2, PTL DEF Spec

-----------------------------------------------------------------------------
(* What the invariant implies.                                              *)

\* The headers that are proven are the first ones of the host.
LEMMA ProvenIs ==
  ASSUME ProofOk(headers, output)
  PROVE  /\ Len(Proven) = HeightOf(output)
         /\ IsChain(Proven)
         /\ \A k \in 1..Len(Proven) : Proven[k] = headers[k]
<1> DEFINE n == HeightOf(output)
<1>1. IsChain(headers) /\ n \in 0..Len(headers) /\ n \in Int /\ Len(headers) \in Nat
  BY ChainTypes DEF ProofOk
<1>2. PICK S : headers \in Seq(S)
  BY <1>1 DEF IsChain
<1>3. /\ Len(Proven) = n /\ Proven \in Seq(S)
      /\ \A k \in 1..Len(Proven) : Proven[k] = headers[k]
  <2>1. CASE output = NoProof
    <3>1. Proven = <<>> /\ n = 0
      BY <2>1 DEF Proven, HeightOf
    <3> QED BY <3>1
  <2>2. CASE output # NoProof
    <3>1. Proven = SubSeq(headers, 1, n) /\ n >= 1
      BY <2>2 DEF Proven, HeightOf, ProofOk
    <3> HIDE DEF n
    <3>2. \A i \in 1..n : headers[i] \in S
      BY <1>1, <1>2
    <3>3. /\ SubSeq(headers, 1, n) \in Seq(S)
          /\ Len(SubSeq(headers, 1, n)) = IF 1 <= n THEN n - 1 + 1 ELSE 0
          /\ \A i \in 1..(n - 1 + 1) : SubSeq(headers, 1, n)[i] = headers[1 + i - 1]
      BY <1>1, <3>2, SubSeqProperties
    <3>4. Len(Proven) = n
      BY <1>1, <3>1, <3>3
    <3>5. ASSUME NEW k \in 1..n PROVE Proven[k] = headers[k]
      <4> k \in 1..(n - 1 + 1) /\ 1 + k - 1 = k BY <1>1
      <4> QED BY <3>1, <3>3
    <3> QED BY <3>1, <3>3, <3>4, <3>5
  <2> QED BY <2>1, <2>2
<1> HIDE DEF n
<1>4. IsChain(Proven)
  <2>1. Len(Proven) <= Len(TxCounts)
    BY <1>1, <1>3, WordTypes DEF IsChain
  <2>2. \A k \in 1..Len(Proven) : k \in 1..Len(headers)
    BY <1>1, <1>3
  <2> QED BY <1>1, <1>3, <2>1, <2>2 DEF IsChain
<1> QED BY <1>3, <1>4 DEF n

\* LightTypeOK: the values of the chain state are in range, a retarget never
\* gives a target of zero or one that is too easy, and the range of block hashes
\* is as long as the chain.
THEOREM LightTypes == Spec => []LightTypeOK
<1>1. ASSUME LightInv PROVE LightTypeOK
  <2> DEFINE n == HeightOf(output)
             s == output.chain_state
  <2>1. ProofOk(headers, output) /\ IsChain(headers) /\ n \in 0..Len(headers)
    BY <1>1 DEF LightInv, ProofOk
  <2>2. Len(headers) \in 0..Len(TxCounts)
    BY <2>1, ChainTypes, WordTypes DEF IsChain
  <2>3. ASSUME output # NoProof
        PROVE  /\ s.block_height \in 0..(Len(headers) - 1)
               /\ s.total_work \in 0..(U256 - 1)
               /\ bits_to_target(s.current_target_bits) \in 1..max_target
               /\ s.prev_11_timestamps \in [0..(TimestampCount - 1) -> {0} \cup Times]
               /\ s.block_hashes_mmr.size = s.block_height + 1
    <3>1. StateOf(output) = s /\ n = s.block_height + 1 /\ n >= 1
      BY <2>1, <2>3 DEF StateOf, HeightOf, ProofOk
    <3>2. StateTracks(s, headers, n) /\ TargetOk(EpochTarget(headers, n + 1))
      BY <2>1, <3>1, InvTracks DEF Tracks
    <3> HIDE DEF n, s
    <3>3. n \in Nat /\ n <= Len(headers) /\ Len(headers) \in Nat
      BY <2>1, ChainTypes
    <3>4. s.block_height = n - 1
      BY <2>1, <3>1, <3>2, <3>3, HeightIs
    <3>5. bits_to_target(s.current_target_bits) \in 1..max_target
      BY <3>2, MaxTarget DEF StateTracks, TargetOk
    <3>6. s.block_height \in 0..(Len(headers) - 1) /\ n = s.block_height + 1
      BY <3>1, <3>3, <3>4
    <3> QED BY <3>2, <3>5, <3>6 DEF StateTracks, RingTracks, Slots
  <2> QED BY <1>1, <2>2, <2>3 DEF LightTypeOK, LightInv
<1> QED BY <1>1, LightInvHolds, PTL

\* RulesHold: every block of a proven chain extends the one before, is later than
\* the median, names the target of its epoch and reaches it.
THEOREM RulesAlwaysHold == Spec => []RulesHold
<1>1. ASSUME LightInv PROVE RulesHold
  <2>1. ProofOk(headers, output)
    BY <1>1 DEF LightInv
  <2>2. /\ Len(Proven) = HeightOf(output) /\ Len(Proven) \in Nat
        /\ \A k \in 1..Len(Proven) : Proven[k] = headers[k]
    BY <2>1, ProvenIs, ChainTypes
  <2>3. RulesTo(headers, Len(Proven))
    BY <2>1, <2>2, InvTracks
  <2>4. ASSUME NEW m \in 1..Len(Proven)
        PROVE  Follows(Proven, m) /\ Proven[m].pow <= Due(Proven, m).full
    <3>1. Due(Proven, m) = Due(headers, m) /\ (Follows(Proven, m) <=> Follows(headers, m))
      BY <2>2, RulesOfPrefix
    <3> QED BY <2>2, <2>3, <3>1 DEF RulesTo
  <2> QED BY <2>4 DEF RulesHold
<1> QED BY <1>1, LightInvHolds, PTL

\* BatchesAgree: a chain proven in batches is one that can be proven at once, and
\* ends in the same state, but for the work, which is not less.
THEOREM BatchesAlwaysAgree == Spec => []BatchesAgree
<1>1. ASSUME LightInv PROVE BatchesAgree
  <2> SUFFICES ASSUME output # NoProof
               PROVE  LET whole == apply_blocks(NewChainState, Proven)
                          s     == output.chain_state
                      IN /\ whole.ok
                         /\ ButWork(whole.state) = ButWork(s)
                         /\ WorkFits => whole.state.total_work <= s.total_work
    BY DEF BatchesAgree
  <2> DEFINE n == HeightOf(output)
             s == output.chain_state
             start == StartOf(NewChainState)
             w == Turns(start, headers)[n]
  <2>1. ProofOk(headers, output)
    BY <1>1 DEF LightInv
  <2>2. /\ IsChain(headers) /\ n \in 0..Len(headers) /\ n >= 1
        /\ w.ok /\ ButWork(w.state) = ButWork(s) /\ WorkAgrees(w.state, s, headers, n)
    BY <2>1 DEF ProofOk, StateOf
  <2>3. /\ Len(Proven) = n
        /\ \A k \in 1..Len(Proven) : Proven[k] = headers[k]
    BY <2>1, ProvenIs
  <2> HIDE DEF n, start, s
  <2>4. n \in Nat /\ Len(headers) \in Nat /\ n <= Len(headers) /\ n \in 0..n
    BY <2>2, ChainTypes
  <2>5. Turns(start, Proven)[n] = w
    <3>1. \A k \in 0..Len(Proven) : Turns(start, Proven)[k] = Turns(start, headers)[k]
      BY <2>3, <2>4, TurnsOfPrefix
    <3> QED BY <2>3, <2>4, <3>1
  <2>6. apply_blocks(NewChainState, Proven) = w
    BY <2>3, <2>5 DEF apply_blocks, start
  <2> HIDE DEF w
  <2>7. ASSUME WorkFits PROVE w.state.total_work <= s.total_work
    <3>1. PICK M \in Nat : M = (U256 - 1) \div n
      BY <2>2, <2>4, MaxTarget
    <3>2. n * M <= U256 - 1
      <4>1. PICK u \in Nat : u = U256 - 1
        BY MaxTarget
      <4>2. n * (u \div n) <= u
        BY <2>2, <2>4, <4>1
      <4> QED BY <3>1, <4>1, <4>2
    <3>3. ASSUME NEW i \in 1..n PROVE calculate_work(bits_to_target(headers[i].bits)) <= M
      BY <2>3, <2>7, <3>1 DEF WorkFits
    <3>4. Bounded(headers, n, M)
      BY <3>2, <3>3 DEF Bounded
    <3> QED BY <2>2, <3>4 DEF WorkAgrees
  <2> QED BY <2>2, <2>6, <2>7 DEF s
<1> QED BY <1>1, LightInvHolds, PTL

\* ValidChainsProved: the circuit accepts every batch of a chain that follows the
\* rules.
THEOREM ValidChainsAlwaysProved == Spec => []ValidChainsProved
<1>1. ASSUME LightInv PROVE ValidChainsProved
  <2> SUFFICES ASSUME /\ \A n \in 1..Len(headers) :
                           /\ Follows(headers, n)
                           /\ headers[n].pow <= bits_to_target(Due(headers, n).bits)
                      /\ Retargets,
                      NEW size \in 1..MaxBatch
               PROVE  Circuit(Batch(size)).ok
    BY DEF ValidChainsProved
  <2> DEFINE n == HeightOf(output)
             start == StartOf(StateOf(output))
             bs == Batch(size)
  <2>1. ProofOk(headers, output) /\ IsChain(headers) /\ n \in 0..Len(headers)
    BY <1>1 DEF LightInv, ProofOk
  <2>2. size \in Nat
    BY WidthTypes
  <2>3. IsBatch(bs, headers, n) /\ Circuit(bs) = Turns(start, bs)[Len(bs)]
    BY <2>1, <2>2, BatchIs
  <2>4. ValidTo(headers, Len(headers))
    BY DEF ValidTo, Retargets
  <2>5. Tracks(start, headers, n) /\ RulesTo(headers, n)
    BY <2>1, InvTracks
  <2> HIDE DEF n, start, bs
  <2>6. Turns(start, bs)[Len(bs)].ok
    BY <2>1, <2>3, <2>4, <2>5, ValidBatch
  <2> QED BY <2>3, <2>6 DEF bs
<1> QED BY <1>1, LightInvHolds, PTL

\* A hash is not that of two headers, and none is the hash of no block.
LEMMA HashesDiffer ==
  ASSUME NEW h, NEW g
  PROVE  /\ compute_block_hash(h) = compute_block_hash(g) => h = g
         /\ compute_block_hash(h) # NoHash
<1>1. \A x, y : calculate_sha256(x) = calculate_sha256(y) => x = y
  BY ShaDiffers
<1>2. ASSUME NEW x PROVE calculate_sha256(x) # NoHash
  <2>1. DOMAIN calculate_sha256(x) = {"sha256"} /\ DOMAIN NoHash = {"zeros"}
    BY DEF calculate_sha256, NoHash
  <2>2. "sha256" # "zeros"
    OBVIOUS
  <2> QED BY <2>1, <2>2
<1> QED BY <1>1, <1>2, Zenon DEF compute_block_hash, calculate_double_sha256

\* Blocks that extend one another have different hashes.
LEMMA BlocksDiffer ==
  ASSUME NEW hs, IsChain(hs), NEW n \in 0..Len(hs), RulesTo(hs, n)
  PROVE  \A i, j \in 1..n : compute_block_hash(hs[i]) = compute_block_hash(hs[j]) => i = j
<1> DEFINE bad == {i \in Nat : /\ i \in 1..n
                               /\ \E j \in 1..n : /\ j > i
                                                   /\ compute_block_hash(hs[i]) = compute_block_hash(hs[j])}
<1>1. n \in Nat /\ \A m \in 1..n : hs[m].prev_block_hash = IF m = 1 THEN NoHash ELSE compute_block_hash(hs[m - 1])
  BY ChainTypes DEF RulesTo, Follows
<1>2. bad = {}
  <2> SUFFICES ASSUME bad # {} PROVE FALSE
    OBVIOUS
  <2>1. PICK i \in bad : \A m \in bad : i <= m
    <3> HIDE DEF bad
    <3> bad \in SUBSET Nat BY DEF bad
    <3> QED BY LeastNumber
  <2>2. PICK j \in 1..n : j > i /\ compute_block_hash(hs[i]) = compute_block_hash(hs[j])
    BY <2>1
  <2>3. hs[i] = hs[j]
    BY <2>2, HashesDiffer
  <2>4. i \in 1..n /\ j # 1 /\ j - 1 \in 1..n
    BY <1>1, <2>1, <2>2
  <2>5. hs[j].prev_block_hash = compute_block_hash(hs[j - 1])
    BY <1>1, <2>4
  <2>6. i # 1
    BY <1>1, <2>3, <2>4, <2>5, HashesDiffer
  <2>7. i - 1 \in 1..n /\ i - 1 \in Nat /\ j - 1 > i - 1 /\ ~(i <= i - 1)
    BY <1>1, <2>2, <2>4, <2>6
  <2>8. hs[i].prev_block_hash = compute_block_hash(hs[i - 1])
    BY <1>1, <2>4, <2>6
  <2>9. compute_block_hash(hs[i - 1]) = compute_block_hash(hs[j - 1])
    BY <2>3, <2>5, <2>8
  <2> QED BY <2>1, <2>4, <2>7, <2>9
<1>3. ASSUME NEW i \in 1..n, NEW j \in 1..n, compute_block_hash(hs[i]) = compute_block_hash(hs[j])
      PROVE  i = j
  <2>1. i \in Nat /\ j \in Nat
    BY <1>1
  <2>2. i \notin bad /\ j \notin bad
    BY <1>2
  <2>3. ~(i > j) /\ ~(j > i)
    BY <1>3, <2>1, <2>2
  <2> QED BY <2>1, <2>3
<1> QED BY <1>3

\* The host's range over the proven headers has the guest's subroots, and its
\* proofs are exact in both.
LEMMA PlacesExact ==
  ASSUME ProofOk(headers, output), output # NoProof
  PROVE  LET mmr == output.chain_state.block_hashes_mmr
             n   == HeightOf(output)
         IN /\ n \in 1..Len(headers) /\ Len(Proven) = n
            /\ get_subroots(HostMmr) = mmr.subroots
            /\ \A i, j \in 1..n :
                 LET leaf  == compute_block_hash(headers[j])
                     proof == MmrProof(HostMmr, i - 1)
                 IN /\ GuestVerify(mmr, leaf, proof) <=> i = j
                    /\ NativeVerify(HostMmr, leaf, proof) <=> i = j
<1> DEFINE mmr == output.chain_state.block_hashes_mmr
           n == HeightOf(output)
           host == HostMmrs(headers)[n]
           f == Leaves(headers)
<1>1. IsChain(headers) /\ n \in 1..Len(headers) /\ n \in Nat /\ Len(headers) \in Nat
      /\ n < U32 /\ n \in 0..Len(headers)
  <2>1. IsChain(headers) /\ n \in 0..Len(headers) /\ n >= 1
    BY DEF ProofOk
  <2> HIDE DEF n
  <2> QED BY <2>1, ChainTypes
<1>2. RulesTo(headers, n) /\ mmr.subroots = get_subroots(host)
  <2> StateOf(output) = output.chain_state BY DEF StateOf
  <2> QED BY InvTracks DEF StateTracks
<1>3. Len(Proven) = n /\ \A k \in 1..Len(Proven) : Proven[k] = headers[k]
  BY ProvenIs
<1> HIDE DEF n, mmr
<1>4. HostMmr = host
  <2>1. \A k \in 0..Len(Proven) : HostMmrs(Proven)[k] = HostMmrs(headers)[k]
    BY <1>1, <1>3, HostOfPrefix
  <2>2. n \in 0..Len(Proven)
    BY <1>1, <1>3
  <2> QED BY <1>3, <2>1, <2>2 DEF HostMmr
<1>5. IsRange(host, f, n)
  BY <1>1, HostRanges
<1>6. \A i, j \in 1..n : f[i] = compute_block_hash(headers[i]) /\ (f[i] = f[j] <=> i = j)
  <2>1. \A i \in 1..n : f[i] = compute_block_hash(headers[i])
    <3> \A i \in 1..n : i \in 1..Len(headers) BY <1>1
    <3> QED BY DEF Leaves
  <2> HIDE DEF f
  <2> QED BY <1>1, <1>2, <2>1, BlocksDiffer
<1> HIDE DEF host, f
<1>7. IsSubroots(get_subroots(host), host, n)
  BY <1>1, <1>5, HostSubroots
<1>8. ASSUME NEW i \in 1..n, NEW j \in 1..n
      PROVE  LET leaf  == compute_block_hash(headers[j])
                 proof == MmrProof(HostMmr, i - 1)
             IN /\ GuestVerify(mmr, leaf, proof) <=> i = j
                /\ NativeVerify(HostMmr, leaf, proof) <=> i = j
  <2> DEFINE proof == MmrProof(host, i - 1)
             leaf == f[j]
  <2>1. i - 1 \in Nat /\ i - 1 < n /\ i - 1 + 1 = i
    BY <1>1
  <2>2. /\ proof.at.subroot_idx < Len(get_subroots(host))
        /\ get_subroots(host)[proof.at.subroot_idx + 1] = get_subroot(proof, leaf) <=> leaf = f[i]
    BY <1>1, <1>5, <1>7, <2>1, MmrProofWorks
  <2>3. leaf = f[i] <=> i = j
    BY <1>6
  <2>4. leaf = compute_block_hash(headers[j])
    BY <1>6
  <2> HIDE DEF proof, leaf
  <2>5. /\ GuestVerify(mmr, leaf, proof) <=> i = j
        /\ NativeVerify(host, leaf, proof) <=> i = j
    BY <1>2, <2>2, <2>3 DEF GuestVerify, NativeVerify
  <2> QED BY <1>4, <2>4, <2>5 DEF proof
<1> QED BY <1>1, <1>2, <1>3, <1>4, <1>8 DEF n, mmr

\* MmrExact: the guest's subroots are those of the host's range, and a proof of
\* inclusion verifies for its own block and no other.
THEOREM MmrAlwaysExact == Spec => []MmrExact
<1>1. ASSUME LightInv PROVE MmrExact
  <2> SUFFICES ASSUME output # NoProof
               PROVE  LET mmr   == output.chain_state.block_hashes_mmr
                          host  == HostMmr
                          proof == [i \in 1..Len(Proven) |-> MmrProof(host, i - 1)]
                      IN /\ get_subroots(host) = mmr.subroots
                         /\ \A i, j \in 1..Len(Proven) :
                              LET leaf == compute_block_hash(headers[j])
                              IN /\ GuestVerify(mmr, leaf, proof[i]) <=> i = j
                                 /\ NativeVerify(host, leaf, proof[i]) <=> i = j
    BY DEF MmrExact
  <2>1. ProofOk(headers, output)
    BY <1>1 DEF LightInv
  <2> QED BY <2>1, PlacesExact
<1> QED BY <1>1, LightInvHolds, PTL

\* A block's transactions are as many as TxCounts says, and no two in the chain have
\* the same id.
LEMMA TransactionsAre ==
  ASSUME NEW n \in 1..Len(TxCounts)
  PROVE  /\ Len(Transactions(n)) = TxCounts[n] /\ TxCounts[n] \in Nat \ {0}
         /\ IsSeq(Ids(n)) /\ Len(Ids(n)) = TxCounts[n]
         /\ \A i \in 1..TxCounts[n] : Ids(n)[i] = txid(Transactions(n)[i])
         /\ \A b \in 1..Len(TxCounts), k \in 1..TxCounts[n] : \A j \in 1..TxCounts[b] :
              txid(Transactions(b)[j]) = txid(Transactions(n)[k]) <=> b = n /\ j = k
<1> DEFINE place(b, j) == [block |-> b, position |-> j]
           t == [j \in 1..TxCounts[n] |-> [content |-> place(n, j)]]
<1>1. \A b \in 1..Len(TxCounts) : TxCounts[b] \in Nat \ {0}
  BY LightClientAssumption
<1>2. t = Transactions(n) /\ t \in [1..TxCounts[n] -> {t[j] : j \in 1..TxCounts[n]}]
  BY DEF Transactions
<1>3. Ids(n) \in [1..TxCounts[n] -> {Ids(n)[j] : j \in 1..TxCounts[n]}]
      /\ \A i \in 1..TxCounts[n] : Ids(n)[i] = txid(Transactions(n)[i])
  BY DEF Ids
<1>4. ASSUME NEW b \in 1..Len(TxCounts), NEW k \in 1..TxCounts[n], NEW j \in 1..TxCounts[b],
             txid(Transactions(b)[j]) = txid(Transactions(n)[k])
      PROVE  b = n /\ j = k
  <2>1. Transactions(b)[j].content = place(b, j) /\ Transactions(n)[k].content = place(n, k)
    BY DEF Transactions
  <2>2. Transactions(b)[j].content = Transactions(n)[k].content
    BY <1>4, ShaDiffers DEF txid, mid_state_txid
  <2>3. place(b, j).block = b /\ place(b, j).position = j /\ place(n, k).block = n
         /\ place(n, k).position = k
    OBVIOUS
  <2> HIDE DEF place
  <2> QED BY <2>1, <2>2, <2>3
<1> HIDE DEF t
<1>5. Len(t) = TxCounts[n]
  BY <1>1, <1>2, SeqOf
<1>6. IsSeq(Ids(n)) /\ Len(Ids(n)) = TxCounts[n]
  BY <1>1, <1>3, SeqOf
<1> QED BY <1>1, <1>2, <1>3, <1>4, <1>5, <1>6

\* SpvExact: of a transaction with the path of the newest block and the place of a
\* block, SPV::verify accepts those that belong together.
THEOREM SpvAlwaysExact == Spec => []SpvExact
<1>1. ASSUME LightInv PROVE SpvExact
  <2> DEFINE n == HeightOf(output)
             mmr == output.chain_state.block_hashes_mmr
             tree == new_mid_state(Transactions(n))
             spv(b, j, k, m) == [transaction |-> Transactions(b)[j],
                                 block_inclusion_proof |-> generate_proof(tree, k - 1),
                                 block_header |-> headers[n],
                                 mmr_inclusion_proof |-> MmrProof(HostMmr, m - 1)]
  <2> SUFFICES ASSUME output # NoProof PROVE SpvExact
    BY DEF SpvExact
  <2>1. ProofOk(headers, output) /\ RootsOk(headers) /\ IsChain(headers)
    BY <1>1 DEF LightInv, ProofOk
  <2>2. /\ n \in 1..Len(headers) /\ Len(Proven) = n
        /\ \A m \in 1..n : GuestVerify(mmr, compute_block_hash(headers[n]), MmrProof(HostMmr, m - 1)) <=> m = n
    <3>1. n \in 1..Len(headers) /\ Len(Proven) = n
      BY <2>1, PlacesExact
    <3>2. n \in 1..n
      BY <3>1
    <3>3. \A i, j \in 1..n :
            GuestVerify(mmr, compute_block_hash(headers[j]), MmrProof(HostMmr, i - 1)) <=> i = j
      BY <2>1, PlacesExact
    <3> HIDE DEF n, mmr
    <3> QED BY <3>1, <3>2, <3>3
  <2> HIDE DEF n, mmr, tree
  <2>3. n \in 1..Len(TxCounts) /\ Len(headers) \in Nat /\ Len(TxCounts) \in Nat /\ n <= Len(TxCounts)
    BY <2>1, <2>2, ChainTypes, WordTypes DEF IsChain
  <2>4. headers[n].merkle_root = root(StandardTree(Ids(n)))
    BY <2>1, <2>2 DEF RootsOk
  <2>5. ASSUME NEW b \in 1..n, NEW m \in 1..n, NEW k \in 1..TxCounts[n], NEW j \in 1..TxCounts[b]
        PROVE  SpvVerify(spv(b, j, k, m), mmr) = (b = n /\ m = n /\ j = k)
    <3> DEFINE path == generate_proof(tree, k - 1)
               id == txid(Transactions(b)[j])
    <3>1. b \in 1..Len(TxCounts)
      BY <2>3
    <3>2. /\ Len(path.merkle_proof) \in Nat
          /\ get_root(path, txid(Transactions(n)[k])) = root(StandardTree(Ids(n)))
      <4>1. /\ Len(Transactions(n)) \in Nat \ {0} /\ k \in 1..Len(Transactions(n))
            /\ IsSeq(Ids(n)) /\ Len(Ids(n)) = Len(Transactions(n))
            /\ \A i \in 1..Len(Transactions(n)) : Ids(n)[i] = txid(Transactions(n)[i])
        BY <2>3, TransactionsAre
      <4>2. tree = new_mid_state(Transactions(n))
        BY DEF tree
      <4> QED BY <4>1, <4>2, RootFound
    <3>3. id = txid(Transactions(n)[k]) <=> b = n /\ j = k
      BY <2>3, <3>1, TransactionsAre
    <3>4. get_root(path, id) = headers[n].merkle_root <=> b = n /\ j = k
      BY <2>4, <3>2, <3>3, RootsDiffer
    <3>5. SpvAsserts(spv(b, j, k, m)) <=> get_root(path, id) = headers[n].merkle_root
      BY DEF SpvAsserts
    <3>6. SpvVerify(spv(b, j, k, m), mmr) <=>
            /\ SpvAsserts(spv(b, j, k, m))
            /\ GuestVerify(mmr, compute_block_hash(headers[n]), MmrProof(HostMmr, m - 1))
      BY DEF SpvVerify
    <3>7. SpvVerify(spv(b, j, k, m), mmr) \in BOOLEAN
      BY DEF SpvVerify, SpvAsserts, GuestVerify
    <3> HIDE DEF spv, path, id
    <3>8. SpvVerify(spv(b, j, k, m), mmr) <=> b = n /\ m = n /\ j = k
      BY <2>2, <3>4, <3>5, <3>6
    <3> QED BY <3>7, <3>8
  <2> QED BY <2>2, <2>5 DEF SpvExact, mmr, tree
<1> QED BY <1>1, LightInvHolds, PTL
=============================================================================
