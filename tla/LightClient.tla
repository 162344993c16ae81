---------------------------- MODULE LightClient ----------------------------
(***************************************************************************)
(* The light client of the bridge: the header chain circuit, which proves  *)
(* that a sequence of Bitcoin headers follows the rules of work, batch by   *)
(* batch, each batch on top of the proof of the one before; the Merkle      *)
(* mountain range of the block hashes; and the SPV proof that a             *)
(* transaction is in a block of the chain.                                  *)
(*                                                                         *)
(* A number of 256 bits is one of Digits digits of DigitBits bits, so that  *)
(* the compact form of a target (an exponent and a mantissa of three        *)
(* digits) loses precision as it does in Bitcoin.  SHA-256 is injective.    *)
(***************************************************************************)
EXTENDS Integers, Sequences, FiniteSets, FiniteSetsExt

CONSTANTS
  Networks,               \* the networks the circuit is built for
  DigitBits, Digits,      \* width of a target
  MaxExponent,            \* exponent of the easiest target
  WordBits,               \* width of u32: heights and times
  TimestampCount,         \* length of prev_11_timestamps, odd
  BLOCKS_PER_EPOCH,
  EXPECTED_EPOCH_TIMESPAN,
  MinDifficultyGap,       \* 1200 seconds, testnet4
  Times, Pows,            \* times and hashes (as numbers) of the headers
  TxCounts,               \* number of transactions of the n-th block
  MaxBatch                \* bound on the headers proved at once

\* Powers of two, as a function that theorems can be about
Pow2[n \in Nat] == IF n = 0 THEN 1 ELSE 2 * Pow2[n - 1]

U32 == Pow2[WordBits]

ASSUME LightClientAssumption ==
  /\ Networks \subseteq {"mainnet", "testnet4", "signet", "regtest"}
  /\ {DigitBits, Digits, MaxExponent, WordBits, TimestampCount, BLOCKS_PER_EPOCH,
      EXPECTED_EPOCH_TIMESPAN, MinDifficultyGap, MaxBatch} \subseteq Nat \ {0}
  /\ TimestampCount % 2 = 1
  /\ MaxExponent \in 3..Digits
  /\ Times \subseteq 1..(U32 - 1 - MinDifficultyGap)   \* last_block_time + 1200 fits
  /\ Pows \subseteq Nat
  /\ TxCounts \in Seq(Nat \ {0})

\* No chain reaches the height that stands for no block
ASSUME HeightAssumption == Len(TxCounts) < U32

VARIABLES
  network,   \* BITCOIN_NETWORK of the build
  headers,   \* the headers of the host, from the genesis block on
  output     \* the proof in hand: BlockHeaderCircuitOutput, or NoProof

vars == <<network, headers, output>>

-----------------------------------------------------------------------------
(* Targets.                                                                 *)

U256 == Pow2[DigitBits * Digits]

\* The i-th of the digits of a number, the first the most significant
DigitOf(n, i) == (n \div Pow2[DigitBits * (Digits - i)]) % Pow2[DigitBits]

Mantissas == Pow2[3 * DigitBits]

bits_to_target(bits) ==
  LET size     == bits \div Mantissas
      mantissa == bits % Mantissas
  IN IF size <= 3 THEN mantissa \div Pow2[DigitBits * (3 - size)]
     ELSE (mantissa * Pow2[DigitBits * (size - 3)]) % U256

BitLength(n) == Min({b \in 0..(DigitBits * Digits) : n < Pow2[b]})

\* A target that does not fill two digits indexes past the end and panics
Compact(target) == BitLength(target) >= 2 * DigitBits

target_to_bits(target) ==
  LET size == (DigitBits * Digits + DigitBits - 1 - BitLength(target)) \div DigitBits
  IN (Digits + 1 - size) * Mantissas
       + DigitOf(target, size) * Pow2[2 * DigitBits]
       + DigitOf(target, size + 1) * Pow2[DigitBits]
       + DigitOf(target, size + 2)

max_bits == MaxExponent * Mantissas + Pow2[2 * DigitBits] - 1

max_target == bits_to_target(max_bits)

calculate_work(target) == (U256 - 1) \div (target + 1)

\* Mutant: the new target is not limited
NewDifficultyUnlimited(epoch_start_time, last_timestamp, bits) ==
  LET elapsed == (last_timestamp - epoch_start_time) % U32
      actual_timespan == CASE elapsed < EXPECTED_EPOCH_TIMESPAN \div 4 -> EXPECTED_EPOCH_TIMESPAN \div 4
                           [] elapsed > EXPECTED_EPOCH_TIMESPAN * 4 -> EXPECTED_EPOCH_TIMESPAN * 4
                           [] OTHER -> elapsed
  IN ((bits_to_target(bits) * actual_timespan) % U256) \div EXPECTED_EPOCH_TIMESPAN

\* The difference is one of u32: it wraps when the epoch ends before it starts
calculate_new_difficulty(epoch_start_time, last_timestamp, bits) ==
  LET elapsed == (last_timestamp - epoch_start_time) % U32
      actual_timespan == CASE elapsed < EXPECTED_EPOCH_TIMESPAN \div 4 -> EXPECTED_EPOCH_TIMESPAN \div 4
                           [] elapsed > EXPECTED_EPOCH_TIMESPAN * 4 -> EXPECTED_EPOCH_TIMESPAN * 4
                           [] OTHER -> elapsed
      new_target == ((bits_to_target(bits) * actual_timespan) % U256) \div EXPECTED_EPOCH_TIMESPAN
  IN IF new_target > max_target THEN max_target ELSE new_target

-----------------------------------------------------------------------------
(* Hashes.                                                                  *)

calculate_sha256(x) == [sha256 |-> x]

calculate_double_sha256(x) == calculate_sha256(calculate_sha256(x))

Concat(l, r) == [left |-> l, right |-> r]

hash_pair(l, r) == calculate_sha256(Concat(l, r))

\* The hash of a header; check_hash_valid reads it as the number h.pow
compute_block_hash(h) == calculate_double_sha256(h)

NoHash == [zeros |-> 32]

-----------------------------------------------------------------------------
(* Merkle mountain ranges: in the guest the subroots alone, in the host all *)
(* nodes, level by level from the leaves.                                   *)

Bit(n, i) == (n \div Pow2[i]) % 2

GuestNew == [subroots |-> <<>>, size |-> 0]

\* Number of subroots that a new leaf merges with: the trailing ones of size
Merges(size) == Min({k \in 0..WordBits : Bit(size, k) = 0})

\* A node after each merge with a sibling, which is the left one where index has
\* a one
Climb(leaf, siblings, index) ==
  LET node[j \in 0..Len(siblings)] ==
        IF j = 0 THEN leaf
        ELSE IF Bit(index, j - 1) = 1 THEN hash_pair(siblings[j], node[j - 1])
             ELSE hash_pair(node[j - 1], siblings[j])
  IN node

GuestAppend(mmr, leaf) ==
  LET n        == Len(mmr.subroots)
      k        == Merges(mmr.size)
      siblings == [j \in 1..k |-> mmr.subroots[n + 1 - j]]
  IN [subroots |-> Append(SubSeq(mmr.subroots, 1, n - k), Climb(leaf, siblings, mmr.size)[k]),
      size |-> mmr.size + 1]

NativeNew == << <<>> >>

\* One level of recalculate_peaks; done stops at the first odd level
Peak(acc, level) ==
  LET row == acc.nodes[level] IN
  IF acc.done \/ Len(row) % 2 = 1 THEN [acc EXCEPT !.done = TRUE]
  ELSE [acc EXCEPT !.nodes[level + 1] =
          Append(@, hash_pair(row[Len(row) - 1], row[Len(row)]))]

Peaks(nodes) ==
  LET acc[l \in 0..(Len(nodes) - 1)] ==
        IF l = 0 THEN [nodes |-> nodes, done |-> FALSE] ELSE Peak(acc[l - 1], l)
  IN acc

recalculate_peaks(nodes) ==
  LET depth == Len(nodes)
      kept  == Peaks(nodes)[depth - 1].nodes
      top   == kept[depth]
  IN IF Len(top) > 1 THEN Append(kept, <<hash_pair(top[1], top[2])>>) ELSE kept

NativeAppend(nodes, leaf) == recalculate_peaks([nodes EXCEPT ![1] = Append(@, leaf)])

\* The last nodes of the odd rows, from the top row down to each row
Subroots(nodes) ==
  LET from[l \in 0..Len(nodes)] ==   \* l rows from the top
        IF l = 0 THEN <<>>
        ELSE LET row == nodes[Len(nodes) + 1 - l]
             IN IF Len(row) % 2 = 1 THEN Append(from[l - 1], row[Len(row)]) ELSE from[l - 1]
  IN from

get_subroots(nodes) == Subroots(nodes)[Len(nodes)]

\* Mutant: the leaf's own subtree is counted among those before it
HelpersFromTop(nodes, index) ==
  LET len == Len(nodes[1])
      top == Max({b \in 0..WordBits : Bit(len, b) # Bit(index, b)})
  IN [subroot_idx |-> Cardinality({b \in top..WordBits : Bit(len, b) = 1}),
      internal_idx |-> index % Pow2[top]]

\* Of a leaf (from 0): its subtree, and its place in it
get_helpers_from_index(nodes, index) ==
  LET len == Len(nodes[1])
      top == Max({b \in 0..WordBits : Bit(len, b) # Bit(index, b)})
  IN [subroot_idx |-> Cardinality({b \in (top + 1)..WordBits : Bit(len, b) = 1}),
      internal_idx |-> index % Pow2[top]]

Sibling(i) == IF i % 2 = 0 THEN i + 1 ELSE i - 1

\* The siblings up to the first level at which the node is a lone last one
MmrProof(nodes, index) ==
  LET lone(l) == /\ index \div Pow2[l - 1] = Len(nodes[l]) - 1
                 /\ Len(nodes[l]) % 2 = 1
      height  == Min({l \in 1..Len(nodes) : lone(l)})
  IN [inclusion_proof |-> [l \in 1..(height - 1) |->
                             nodes[l][Sibling(index \div Pow2[l - 1]) + 1]],
      at |-> get_helpers_from_index(nodes, index)]

get_subroot(proof, leaf) ==
  Climb(leaf, proof.inclusion_proof, proof.at.internal_idx)[Len(proof.inclusion_proof)]

GuestVerify(mmr, leaf, proof) ==
  /\ proof.at.subroot_idx < Len(mmr.subroots)
  /\ mmr.subroots[proof.at.subroot_idx + 1] = get_subroot(proof, leaf)

NativeVerify(nodes, leaf, proof) ==
  get_subroots(nodes)[proof.at.subroot_idx + 1] = get_subroot(proof, leaf)

-----------------------------------------------------------------------------
(* Merkle trees of transactions, as functions from levels to rows.          *)

\* Transactions without their witness; the first digest, and the id
mid_state_txid(tx) == calculate_sha256(tx.content)

txid(tx) == calculate_sha256(mid_state_txid(tx))

TreeDepth(n) == Min({d \in 0..n : n <= Pow2[d]})

\* The nodes of a row in pairs, the last one alone with itself
Pairs(row) ==
  [i \in 1..((Len(row) + 1) \div 2) |->
     Concat(row[2 * i - 1], IF 2 * i <= Len(row) THEN row[2 * i] ELSE row[2 * i - 1])]

\* A row of hashes of a row
Hashed(row) == [i \in 1..Len(row) |-> calculate_sha256(row[i])]

\* BitcoinMerkleTree::new: the rows, level by level
StandardRows(leaves) ==
  LET rows[l \in 0..TreeDepth(Len(leaves))] ==
        IF l = 0 THEN <<leaves>>
        ELSE LET below == rows[l - 1] IN Append(below, Hashed(Hashed(Pairs(below[l]))))
  IN rows

StandardTree(leaves) == StandardRows(leaves)[TreeDepth(Len(leaves))]

\* The tree of first digests
MidRows(txs) ==
  LET rows[l \in 0..TreeDepth(Len(txs))] ==
        IF l = 0 THEN << [i \in 1..Len(txs) |-> mid_state_txid(txs[i])] >>
        ELSE LET below == rows[l - 1] IN Append(below, Hashed(Pairs(Hashed(below[l]))))
  IN rows

new_mid_state(txs) == MidRows(txs)[TreeDepth(Len(txs))]

root(rows) == rows[Len(rows)][1]

\* The path of the leaf idx (from 0): the last of an odd row is its own sibling
get_idx_path(rows, idx) ==
  [l \in 1..(Len(rows) - 1) |->
     LET i == idx \div Pow2[l - 1]
     IN rows[l][IF i % 2 = 0 /\ i = Len(rows[l]) - 1 THEN i + 1 ELSE Sibling(i) + 1]]

generate_proof(rows, idx) == [idx |-> idx, merkle_proof |-> get_idx_path(rows, idx)]

\* Mutant: the sibling is used as the tree of first digests has it
RootOfPlainSiblings(proof, id) ==
  LET combined[l \in 0..Len(proof.merkle_proof)] ==
        IF l = 0 THEN id
        ELSE calculate_double_sha256(IF Bit(proof.idx, l - 1) = 0
                                     THEN Concat(combined[l - 1], proof.merkle_proof[l])
                                     ELSE Concat(proof.merkle_proof[l], combined[l - 1]))
  IN combined[Len(proof.merkle_proof)]

\* The hash after each level of the loop of get_root
PathHashes(proof, id) ==
  LET combined[l \in 0..Len(proof.merkle_proof)] ==
        IF l = 0 THEN id
        ELSE LET sibling == calculate_sha256(proof.merkle_proof[l])
             IN calculate_double_sha256(IF Bit(proof.idx, l - 1) = 0
                                        THEN Concat(combined[l - 1], sibling)
                                        ELSE Concat(sibling, combined[l - 1]))
  IN combined

get_root(proof, id) == PathHashes(proof, id)[Len(proof.merkle_proof)]

\* SPV::verify; its first check is an assertion
SpvAsserts(spv) == get_root(spv.block_inclusion_proof, txid(spv.transaction)) = spv.block_header.merkle_root

SpvVerify(spv, mmr) ==
  /\ SpvAsserts(spv)
  /\ GuestVerify(mmr, compute_block_hash(spv.block_header), spv.mmr_inclusion_proof)

-----------------------------------------------------------------------------
(* The header chain circuit.                                                *)

Regtest == network = "regtest"
Testnet == network = "testnet4"

NewChainState ==
  [block_height |-> U32 - 1, total_work |-> 0, best_block_hash |-> NoHash,
   current_target_bits |-> max_bits, epoch_start_time |-> 0,
   prev_11_timestamps |-> [i \in 0..(TimestampCount - 1) |-> 0],
   block_hashes_mmr |-> GuestNew]

\* The k-th of the timestamps in ascending order
Sorted(times, k) ==
  CHOOSE m \in {times[i] : i \in 0..(TimestampCount - 1)} :
    /\ Cardinality({i \in 0..(TimestampCount - 1) : times[i] < m}) < k
    /\ Cardinality({i \in 0..(TimestampCount - 1) : times[i] <= m}) >= k

\* Mutant: the timestamp after the middle one
UpperMedian(times) == Sorted(times, (TimestampCount + 1) \div 2 + 1)

median(times) == Sorted(times, (TimestampCount + 1) \div 2)

\* Mutant: a header as late as the median passes
NotBeforeMedian(time, times) == time >= median(times)

validate_timestamp(time, times) == time > median(times)

NextHeight(s) == (s.block_height + 1) % U32

\* Target and bits that a header at the next height must meet, and its work
Expected(acc, time) ==
  LET s == acc.state IN
  IF /\ Testnet
     /\ time > acc.last_block_time + MinDifficultyGap
     /\ NextHeight(s) % BLOCKS_PER_EPOCH # 0
  THEN [target |-> max_target, bits |-> max_bits, work |-> calculate_work(max_target)]
  ELSE [target |-> acc.target,
        bits |-> IF Regtest THEN max_bits ELSE s.current_target_bits,
        work |-> calculate_work(acc.target)]

EpochStart(s, time) ==
  IF ~Regtest /\ NextHeight(s) % BLOCKS_PER_EPOCH = 0 THEN time ELSE s.epoch_start_time

EndsEpoch(s) == ~Regtest /\ NextHeight(s) % BLOCKS_PER_EPOCH = BLOCKS_PER_EPOCH - 1

\* The target in use is kept in full precision until the batch ends
NextTarget(acc, time) ==
  IF EndsEpoch(acc.state)
  THEN calculate_new_difficulty(EpochStart(acc.state, time), time, acc.state.current_target_bits)
  ELSE acc.target

\* The assertions of one turn of the loop
Accepts(acc, h) ==
  LET expected == Expected(acc, h.time) IN
  /\ acc.ok
  /\ h.prev_block_hash = acc.state.best_block_hash
  /\ h.bits = expected.bits
  /\ h.pow <= expected.target
  /\ validate_timestamp(h.time, acc.state.prev_11_timestamps)
  /\ EndsEpoch(acc.state) => Compact(NextTarget(acc, h.time))

NextState(acc, h) ==
  LET s      == acc.state
      height == NextHeight(s)
  IN [block_height |-> height,
      total_work |-> (s.total_work + Expected(acc, h.time).work) % U256,
      best_block_hash |-> compute_block_hash(h),
      current_target_bits |-> IF EndsEpoch(s) THEN target_to_bits(NextTarget(acc, h.time))
                              ELSE s.current_target_bits,
      epoch_start_time |-> EpochStart(s, h.time),
      prev_11_timestamps |-> [s.prev_11_timestamps EXCEPT ![height % TimestampCount] = h.time],
      block_hashes_mmr |-> GuestAppend(s.block_hashes_mmr, compute_block_hash(h))]

\* One turn of the loop of apply_blocks; ok is FALSE once an assertion failed
ApplyBlock(acc, h) ==
  IF Accepts(acc, h)
  THEN [ok |-> TRUE, target |-> NextTarget(acc, h.time), last_block_time |-> h.time,
        state |-> NextState(acc, h)]
  ELSE [acc EXCEPT !.ok = FALSE]

\* The loop's variables before each header and after the last one
Turns(start, block_headers) ==
  LET acc[n \in 0..Len(block_headers)] ==
        IF n = 0 THEN start ELSE ApplyBlock(acc[n - 1], block_headers[n])
  IN acc

\* The loop's variables before the first header
Start(s, last_block_time) ==
  [ok |-> TRUE,
   target |-> IF Regtest THEN max_target ELSE bits_to_target(s.current_target_bits),
   last_block_time |-> last_block_time,
   state |-> s]

\* Mutant: every batch begins as if no block came before
StartForgetful(s) == Start(s, 0)

StartOf(s) ==
  Start(s, IF s.block_height = U32 - 1 THEN 0
           ELSE s.prev_11_timestamps[s.block_height % TimestampCount])

apply_blocks(s, block_headers) == Turns(StartOf(s), block_headers)[Len(block_headers)]

-----------------------------------------------------------------------------
(* Blocks, and the prover of the host.                                      *)

NoProof == [method_id |-> "none"]

Transactions(n) == [j \in 1..TxCounts[n] |-> [content |-> [block |-> n, position |-> j]]]

\* Headers that may follow: the bits are the easiest ones or the expected ones
NextHeaders ==
  LET n    == Len(headers)
      prev == IF n = 0 THEN NoHash ELSE compute_block_hash(headers[n])
      s    == apply_blocks(NewChainState, headers).state
  IN [prev_block_hash : {prev}, pow : Pows, time : Times, bits : {max_bits, s.current_target_bits},
      merkle_root : {root(StandardTree([j \in 1..TxCounts[n + 1] |-> txid(Transactions(n + 1)[j])]))}]

Init ==
  /\ network \in Networks
  /\ headers = <<>>
  /\ output = NoProof

\* The host gets one more header, as long as the circuit accepts the others
Fetch ==
  /\ Len(headers) < Len(TxCounts)
  /\ apply_blocks(NewChainState, headers).ok
  /\ \E h \in NextHeaders : headers' = Append(headers, h)
  /\ UNCHANGED <<network, output>>

\* prove: the headers after the height of the proof in hand, if there is one
Batch(batch_size) ==
  LET start == IF output = NoProof THEN 0
               ELSE (output.chain_state.block_height + 1) % U32
  IN SubSeq(headers, start + 1, Min({start + batch_size, Len(headers)}))

\* header_chain_circuit on the batch
Circuit(block_headers) ==
  apply_blocks(IF output = NoProof THEN NewChainState ELSE output.chain_state, block_headers)

Prove(batch_size) ==
  LET result == Circuit(Batch(batch_size)) IN
  /\ Len(Batch(batch_size)) = batch_size   \* the slice panics otherwise
  /\ result.ok
  /\ output' = [method_id |-> "header_chain", chain_state |-> result.state]
  /\ UNCHANGED <<network, headers>>

Next ==
  \/ Fetch
  \/ \E n \in 1..MaxBatch : Prove(n)

Spec == Init /\ [][Next]_vars

-----------------------------------------------------------------------------
Proven == IF output = NoProof THEN <<>>
          ELSE SubSeq(headers, 1, output.chain_state.block_height + 1)

LightTypeOK ==
  /\ network \in Networks
  /\ Len(headers) \in 0..Len(TxCounts)
  /\ output # NoProof =>
       LET s == output.chain_state IN
       /\ s.block_height \in 0..(Len(headers) - 1)
       /\ s.total_work \in 0..(U256 - 1)
       /\ bits_to_target(s.current_target_bits) \in 1..max_target
       /\ s.prev_11_timestamps \in [0..(TimestampCount - 1) -> {0} \cup Times]
       /\ s.block_hashes_mmr.size = s.block_height + 1

\* What a batch hands on to the next one, but for the work
ButWork(s) ==
  <<s.block_height, s.best_block_hash, s.current_target_bits, s.epoch_start_time,
    s.prev_11_timestamps, s.block_hashes_mmr>>

\* The work of the proven headers fits into 256 bits
WorkFits ==
  \A n \in 1..Len(Proven) :
    calculate_work(bits_to_target(Proven[n].bits)) <= (U256 - 1) \div Len(Proven)

(* A chain proven in batches can be proven at once, and ends in the same   *)
(* state, however prove cut it.  Only the work may be more: apply_blocks    *)
(* rounds the target to its compact form when a batch ends, not when an     *)
(* epoch does.                                                              *)
BatchesAgree ==
  output # NoProof =>
    LET whole == apply_blocks(NewChainState, Proven)
        s     == output.chain_state
    IN /\ whole.ok
       /\ ButWork(whole.state) = ButWork(s)
       /\ WorkFits => whole.state.total_work <= s.total_work

(* The guest's subroots are those of the host's range over the proven       *)
(* blocks, and a proof the host generates for a block verifies in both for  *)
(* that block and for no other.                                             *)
HostMmrs(hs) ==
  LET mmr[n \in 0..Len(hs)] ==
        IF n = 0 THEN NativeNew ELSE NativeAppend(mmr[n - 1], compute_block_hash(hs[n]))
  IN mmr

HostMmr == HostMmrs(Proven)[Len(Proven)]

MmrExact ==
  output # NoProof =>
    LET mmr   == output.chain_state.block_hashes_mmr
        host  == HostMmr
        proof == [i \in 1..Len(Proven) |-> MmrProof(host, i - 1)]
    IN /\ get_subroots(host) = mmr.subroots
       /\ \A i, j \in 1..Len(Proven) :
            LET leaf == compute_block_hash(headers[j])
            IN /\ GuestVerify(mmr, leaf, proof[i]) <=> i = j
               /\ NativeVerify(host, leaf, proof[i]) <=> i = j

(* SPV::verify accepts a transaction with the path of the newest block and  *)
(* the place of a block in the chain exactly when all three belong          *)
(* together, for every number of transactions, odd rows included.           *)
SpvExact ==
  output # NoProof =>
    LET n     == Len(Proven)
        tree  == new_mid_state(Transactions(n))
        host  == HostMmr
        path  == [k \in 1..TxCounts[n] |-> generate_proof(tree, k - 1)]
        place == [m \in 1..n |-> MmrProof(host, m - 1)]
    IN \A b, m \in 1..n, k \in 1..TxCounts[n] : \A j \in 1..TxCounts[b] :
         m = n \/ (b = n /\ j = k) =>   \* at most one of the three is another's
         SpvVerify([transaction |-> Transactions(b)[j],
                    block_inclusion_proof |-> path[k],
                    block_header |-> headers[n],
                    mmr_inclusion_proof |-> place[m]],
                   output.chain_state.block_hashes_mmr)
         = (b = n /\ m = n /\ j = k)

\* The rules of the chain, from the positions of the headers alone (the n-th
\* header has height n - 1)
EpochOf(n) == (n - 1) \div BLOCKS_PER_EPOCH

FirstOf(n) == EpochOf(n) * BLOCKS_PER_EPOCH + 1

\* What an epoch before this one began and ended with gives its target
EpochTarget(hs, n) ==
  IF EpochOf(n) = 0 \/ Regtest THEN [bits |-> max_bits, full |-> max_target]
  ELSE LET first == hs[FirstOf(n) - BLOCKS_PER_EPOCH]
           full  == calculate_new_difficulty(first.time, hs[FirstOf(n) - 1].time, first.bits)
       IN [bits |-> target_to_bits(full), full |-> full]

Eased(hs, n) ==
  /\ Testnet
  /\ (n - 1) % BLOCKS_PER_EPOCH # 0
  /\ hs[n].time > hs[n - 1].time + MinDifficultyGap

Due(hs, n) == IF Eased(hs, n) THEN [bits |-> max_bits, full |-> max_target] ELSE EpochTarget(hs, n)

\* The time of the i-th header before the n-th
TimeBefore(hs, n, i) == IF n - i >= 1 THEN hs[n - i].time ELSE 0

\* Later than most of the timestamps before it
LaterThanMost(hs, n) ==
  2 * Cardinality({i \in 1..TimestampCount : TimeBefore(hs, n, i) < hs[n].time}) > TimestampCount

Follows(hs, n) ==
  /\ hs[n].prev_block_hash = IF n = 1 THEN NoHash ELSE compute_block_hash(hs[n - 1])
  /\ hs[n].bits = Due(hs, n).bits
  /\ LaterThanMost(hs, n)

(* Every block that apply_blocks accepted follows the rules: it extends the *)
(* block before, is later than the median of the times before it, names the *)
(* target of its epoch and reaches it, however the ring of timestamps, the  *)
(* wrapping height and the batches fall.                                    *)
RulesHold ==
  \A n \in 1..Len(Proven) : Follows(Proven, n) /\ Proven[n].pow <= Due(Proven, n).full

\* The targets that a retarget sets are ones that target_to_bits can write
Retargets ==
  \A n \in 1..Len(headers) :
    n % BLOCKS_PER_EPOCH = 0 /\ ~Regtest => Compact(EpochTarget(headers, n + 1).full)

(* A chain that follows the rules, with hashes below the compact targets as *)
(* Bitcoin requires, is never refused, whatever the batches.                *)
ValidChainsProved ==
  /\ \A n \in 1..Len(headers) :
       Follows(headers, n) /\ headers[n].pow <= bits_to_target(Due(headers, n).bits)
  /\ Retargets
  => \A size \in 1..MaxBatch : Circuit(Batch(size)).ok
=============================================================================
