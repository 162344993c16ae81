# BitVM bridge: a TLA+ model

This directory holds a verification project for the bridge (`bridge/`), the light
client behind its proofs (`header-chain/`, `final-spv/`, `prover/`) and the scripts
that decide its disputes (`bitvm/`): TLA+ modules translated from the source, TLC
configurations that check them on small instances, and TLAPS proofs of the
safety properties of the bridge, of its presigning, of its data store and of its
light client for every number of clients, files, graphs, headers and batches and
every choice of timelocks and epochs.

## 1. The system

A *depositor* locks coins on Bitcoin (peg-in) and receives wrapped coins on
another chain. An *operator* pays a *withdrawer* out of its own pocket (peg-out)
and then claims the locked coins. *Verifiers* presign everything n-of-n when
the peg-in is set up, challenge operators that claim without paying, and prove
them wrong on chain. The protocol is a fixed set of presigned Bitcoin
transactions; each client knows the whole set and broadcasts the next
transaction when its *status*, computed from the chain, allows it.

| Part (source) | State | Operations | How it interacts |
|---|---|---|---|
| Connectors (`connectors/`) | none | script leaves, timelocks | outputs that link transactions |
| Transactions (`transactions/`) | inputs, outputs, MuSig2 data | build, presign, fill in, merge, finalise | spend and create connectors |
| Peg-in graph (`graphs/peg_in.rs`) | 3 transactions, ids of peg-out graphs | deposit, confirm, refund, statuses, merge | reads Esplora |
| Peg-out graph (`graphs/peg_out.rs`) | 16 transactions, chain event | one operation per transaction, statuses, validate, merge | reads Esplora, commits via Winternitz keys |
| Client (`client/client.rs`) | public data, private data, latest file name | sync, flush, process peg-ins and peg-outs, broadcast | data store, Esplora, the other chain |
| Data store (`client/data_store/`) | list of files named by time | list, read, write | the only channel between clients |
| Chain adaptors (`client/chain/`) | none | fetch events | start a peg-out |
| Header chain (`header-chain/src/`) | chain state: target, work, eleven timestamps, Merkle mountain range | apply a batch of headers on top of a proof | its proof is the input of the next batch |
| Final SPV (`final-spv/src/`) | none | Merkle trees with mid-states, inclusion proofs | checks the peg-out against the header chain |
| Prover (`prover/src/`) | files of headers and proofs | prove a batch | runs the circuits |
| Script arithmetic (`bitvm/src/u4`, `u32`, `bigint`, `pseudo.rs`) | the Script stack | arithmetic, logic, tables, conversions | used by everything below |
| Hash functions (`bitvm/src/hash`) | the Script stack | SHA-256, BLAKE3 | commitments of the chunks, superblock hash |
| Winternitz signatures (`bitvm/src/signatures`) | one-time keys | sign, verify in script, return the message | the commitments of `connector_*` |
| Field, curves, pairing, Groth16 (`bitvm/src/bn254`, `groth16`) | the Script stack and hints | field towers, points, lines, multi-scalar multiplication | used by the chunks |
| Chunked verifier (`bitvm/src/chunk`) | segments, commitments | build segments, commit to a proof, find a disproving script | the disprove leaves of `connector_c` |

What is hard here: nobody coordinates the clients. They share a chain on which
any of several transactions may win an output, relative timelocks that open at
different heights, and files that they merge without locks and cannot always
download. Transactions that pay whoever broadcasts them change their id when they
are filled in, `start_time` when it is signed, and the other clients must learn
the new id. Below the bridge, algorithms with hundreds of
intermediate values are written for a stack machine without multiplication or
indexing: every operand is found by counting what lies above it, and every value
that the machine cannot compute is a hint of the party that wants to be believed.
`PROJECT.json` lists these hazards with
their lines and the properties that cover them.

## 2. The modules

| Module | Models |
|---|---|
| `Connectors` | each connector as a record: spending transaction -> relative timelock (`num_blocks_per_network` included) |
| `Transactions` | connectors spent and created by every transaction, those an operator can make itself included; blank and filled-in copies; `merge_transactions`, `validate_transaction` |
| `PegFunds` | abstract specification: what becomes of the deposit and of each claim |
| `BridgeGraph` | one peg-in, one peg-out graph per operator, the clients, the data store, the chain |
| `MCBridgeGraph` | instances of `BridgeGraph` for TLC, with a later starting state |
| `PegInSigning` | the MuSig2 rounds for `peg_in_confirm` over racing, restarting clients |
| `ClientData`, `MCClientData` | the clients' public data, the files they share, the five storage drivers, the operator's private data, L2 events |
| `LightClient`, `MCLightClient` | the header chain circuit over batches, both Merkle mountain ranges, Merkle trees, the SPV check, the prover's batches |
| `Script` | the Script machine (external) and `pseudo.rs` |
| `U4`, `U32`, `BigInt` | arithmetic on nibbles, on words of bytes, on multi-limb integers |
| `Sha256`, `Blake3` | the hash functions as scripts |
| `Winternitz` | one-time signatures: keys, signing, the verifiers and converters, compact signatures, connector leaves |
| `Tmul`, `Fq`, `Fq2`, `Fq6` | the prime field with its windowed multiplication, and its extensions of degree 2, 6 and 12 |
| `G1`, `G2` | points, lines, tables and multi-scalar multiplication on both curves |
| `Ark` | the arkworks arithmetic that the Rust code computes hints with (external) |
| `Pairing` | the affine Miller loop and the residue witness of the off-chain code |
| `Chunk` | the Groth16 verifier in segments, the operator's commitments, the disproving scripts |
| `MCBitvm` | the cases on which TLC runs all of the `bitvm` crate's modules |
| `BridgeGraphProofs` | lemmas: who creates and who spends a connector; theorems about `BridgeGraph` that no timing can break |
| `BridgeTimingProofs` | theorems about `BridgeGraph` in a synchronous network |
| `PegInSigningProofs`, `ClientDataProofs` | theorems about `PegInSigning` and `ClientData` |
| `TargetProofs` | lemmas: powers of two, compact targets, difficulty, work, the median, the ring of timestamps |
| `MerkleProofs` | lemmas: mountain ranges of host and guest, inclusion proofs, Merkle trees of transactions |
| `LightClientProofs` | theorems about `LightClient` |
| `LeastNumber` | the induction principle used for files and headers read one after the other |

### BridgeGraph

`mined[o]` and `mempool[o]` are the transactions of operator `o`'s graph on the
chain and in the pool, `pegIn` and `pegInPool` those of the peg-in. A block
height is kept as an age, so `block_height + timelock <= blockchain_height`
reads `timelock <= age`; ages saturate at the longest timelock. `event[o]` is
`peg_out_chain_event`. `superblock[o]` and `assertion[o]` are what `o` committed
to, abstracted to what the scripts decide on: heaviest or light, valid or
invalid. `built`, `published` and `known` follow the copies of the transactions
whose id changes: what the verifier's copy has in the form it is broadcast in,
what its last file that validates has, and what the operator's copy has. A client
sees such a transaction on the chain only if its copy has that form (`Sees`,
`VerifierSees`).

Six transactions change their id (`MutableTx`). The challenge gets inputs and an
output; merging appends them, so the id reaches the operator. The four reward
transactions get another output script, and `start_time` gets its lock time from
`sign` (start_time.rs:173) after it was presigned with zero: merging takes over
neither. So the operator alone sees its `start_time` mined, and `VerifierStatus`
answers `PegOutStartTimeTimeoutAvailable` from six hours after `kick_off_1` on and
never `PegOutChallengeAvailable` or `PegOutKickOffTimeoutAvailable`. There is one
way out: a verifier's client that starts again from a file of the operator clones
the operator's copy, lock time and witnesses included (`Load`); it forgets what it
had filled in, but for the challenge, which the model wants in every copy before a
verifier restarts.

Each operation of `peg_out.rs` and `peg_in.rs` is an action: its guards are the
operation's checks (`verify_if_not_mined`, preceding transactions confirmed,
timelock reached), its effect the broadcast. `OperatorStatus`, `VerifierStatus`
and `DepositorStatus` are the status functions. An operator in `Automatic` does
what `process_peg_outs` does in each status; one in `Deviating` runs other
software and broadcasts what the chain accepts: any transaction of the graph, and
transactions of its own (`OwnTx`) on the four contested outputs that have a leaf or
a key path for its key alone, in `connector_a`, `connector_1`, `connector_2` and
`connector_c`. Any other operator is a person at the command line who tries any
operation at any time. With `Vigilant` TRUE the verifiers challenge a claim without
a peg-out as soon as they see its `kick_off_1`, which is what a person behind the
client must do, since the status offers it too late or never; with FALSE they
challenge when their status says so. In everything else they follow their status,
wrong as it is about `start_time`. Reading the chain and
broadcasting are one step: confirmations are never undone in the model, so
what an operation checked stays true except for "not mined yet", which the
node checks again.

Blocks come in three steps. `Block` opens a block and raises the ages, `Mine`
puts one transaction of the pool into it, in any order the consensus rules
allow, `EndBlock` closes it. With `Synchronous` TRUE, clients act on their status
between two blocks and a transaction that can be mined waits `MaxLag` blocks at
most; with FALSE there is no timing assumption at all.

The node, the miners and the deviating operator are external to the
repository; they are modelled from the consensus rules that the code relies on
(outputs are spent once, OP_CSV, scripts) and are marked so in the map.

### PegInSigning

Each verifier runs `handle_automatic_command`: `Sync`, then the action its
`verifier_status` asks for, then a flush if its data changed. The flush is two
steps (`FlushMerge`, `FlushPush`), because another client may write a file
between listing and writing. A partial signature is known by the public nonces
it was made with, so that signatures over different nonces can be told apart;
the unwrapped verification failures are `Panics`. `Restart` drops the public
data and keeps the secret nonces, as `BitVMClient::new` does.

### ClientData

A command is a sync, a change and a flush; the flush is two steps, as above. A
file is a name (the writer's clock), whether its contents decompress and
validate, and the graphs in it. `read_from_data_store` takes the newest valid
file and those up to `Period` older when the client has processed none, and all
newer ones otherwise; `FlushMerge` reads from the newest back. A download that
fails comes back as a file that is not there (data_store.rs:139-146) and is skipped
like an invalid one: `Sync` and `FlushMerge` have the set of files that fail as a
parameter, and a listing that fails is one in which all do. A copy of a graph
separates what `PegOutGraph::merge` takes over (signatures) from what it does not
(the chain event, the peg-out transaction). Each driver is a record of what its
upload promises: whether it replaces a file of the same name, whether a short
write counts as success, whether a failed upload leaves a part behind; `Configured`
are the drivers the clients may have. Faults, bounded by `MaxFaults`, are restarts,
failed downloads and listings, failed and short uploads and flushes that overlap.

Four variables record what the code does not, so that the properties can say what
a failure costs (`watchVars`). `unread[c]`: the valid files that the flush of `c` under
way has not read and does not repeat from a later one. `overlooked`: the files that
some later file may lack for that reason, or that appeared under a name others had
gone past. `blind`: the operator's last sync missed a file later than all that it
read. `recreated`: it created a graph right after such a sync. No action's guard
depends on them.

`read_from_l2` goes through the graphs in any order and takes events out of a list in
which any of them may be repeated. The indices are collected first and removed one by
one with `swap_remove` (`remove_matches`): an index that has gone out of range panics
(`SyncL2Panics`), and a graph with several events takes none.

### LightClient

The state is the network, the host's headers and the proof in hand; `Fetch`
(external) extends the headers by any header of the instance, valid or not, and
`Prove` runs the circuit on the next one to `MaxBatch` headers on top of the chain
state of the previous proof. The mountain ranges of guest and host are compared
over the proven headers. `Turns` lists the variables of the loop of `apply_blocks`
before each header and after the last; `Accepts` has the assertions of one turn, and
`NextState` and `NextTarget` what it assigns. The rules that the properties compare it
with (`Follows`, `Due`) have no loop: they speak of the positions of the headers. A
256-bit number is one of six digits of two bits, so that the compact form of a
target, an exponent and three digits, loses precision as Bitcoin's does; a u32
is a number of `WordBits` bits and wraps. Hashes are terms. Every loop over hashes is
a recursive function of the number of turns made (`Climb`, `Peaks`, `Subroots`,
`StandardRows`, `MidRows`, `PathHashes`), and the result of the Rust function is its
last value. The trees have real numbers of transactions, odd rows included.

### The scripts of bitvm

A script is a sequence of opcodes, built by an operator that has the name of the
Rust function whose `script!` it stands for, with the same parameters; `Run`
executes it. Every pick and roll depth is the code's. A *hinted* function returns,
like the Rust one, the script and the hints it expects, and runs with the hints
at the bottom of the stack. The code that uses the StackTracker library, which
places variables by itself, is modelled as operators on values (most of
BLAKE3's rounds, `u4_*_stack`). The modules take the width, the limb size, the
prime, the curve and the window as constants: nothing in them is specific to the
small instances.

In `Winternitz` a digest is an integer and hashing adds one: a party that holds an
element of a chain has the later ones and no earlier one, which is all that a
one-time signature relies on.

### Pairing and Chunk

`Chunk` has the segments with the identifiers and types of their parameters, as
`groth16_generate_segments` lays them out, and each segment by what its script
computes on values; the arithmetic on the stack is the subject of `Fq` to `G2`. The
hash of a value is the value, so a commitment is a number, the value behind a
hash, or `Unknown` when nobody has a preimage. `groth16_generate_segments` is also
the runner: it stops at the first segment whose inputs are invalid or whose
result is not the one claimed. `Disproves` says whether the script of a segment
succeeds on the commitments for some witness. As in the code, an element of the
extension of degree 12 is taken up to a factor of degree 6, as one element of
degree 6.

## 3. Runs

| Run | Instance | Result |
|---|---|---|
| `graph` | one operator and a verifier that try anything at any time, regtest timelocks | `GraphInv` (with `TypeOK`); the graphs implement `PegFunds` from the deposit on |
| `race` | two automatic operators on one peg-in | `PaidOnce` |
| `dispute` | a deviating operator, vigilant verifiers | `DisputeInv`, `ReimbursedOnlyIfPaid`, `SlashedNeverReimbursed`, `ChallengeForcesAssertion` |
| `honest` | an automatic operator, verifiers that challenge at any time and send everything their status allows | `HonestInv`, `HonestNeverSlashed`, `StatusSound`, `HonestReimbursed` |
| `failure_reported` | a person as the operator, verifiers that follow their status | violation, see below |
| `start_time_reported` | an automatic operator, verifiers that follow their status | violation, see below |
| `signing` | two verifiers, four restarts, fairness | `SigningInv` (with `SigningTypeOK`), `SignaturesAgree`, `NonceUsedOnce`, `FinalisedOnce`, `SomeoneCompletes` |
| `ready_can_submit` | two verifiers | violation, see below |
| `client_data` | an operator, a verifier, two graphs, FTP, two faults | `ClientInv` (with `ClientTypeOK`), `NothingLost`, `SyncComplete`, `CopiesAgree`, `PaidTwiceOnlyAfterRestart`, `EventsMatched` |
| `secrets_for_all` | as `client_data` | violation, see below |
| `light_client` | chains over two epochs on three networks, every division into batches | `LightTypeOK`, `BatchesAgree`, `MmrExact`, `SpvExact`, `RulesHold`, `ValidChainsProved` |
| `bitvm` | one case per state: a suite and its inputs | the exactness of each module, see below |

**Bounds.** The periods 36, 144, 432 and 2016 blocks are scaled to 2, 2, 3 and 5
(3 for the last one in `race`; 1, 1, 2 and 3 in `dispute`), which keeps their order,
the gap between `kick_off_2` and `kick_off_timeout` larger than the lag, and two-week
periods longer than everything that must fit into them. `MaxLag = 1` lets rivals meet
in the pool and a transaction miss a block. `dispute` has no lag: rivals meet in the
pool between two blocks, and the theorems of `BridgeTimingProofs` have every lag. It
starts from the confirmed peg-in: the peg-in's own races are the subject of `graph`. On regtest and
testnet `num_blocks_per_network` gives every leaf two blocks, so `kick_off_2` and
`kick_off_timeout` mature together there and `HonestNeverSlashed` is a claim
about mainnet only. In `PegInSigning`, `Window = 99` lets a sync read every file;
with a window that skips files, as happens when a client is offline for ten
minutes while others write, `SomeoneCompletes` and `NonceUsedOnce` fail (a
hazard of the list). `MaxRestarts = 4` allows a restart at each stage of both
verifiers' rounds. Two verifiers are enough for flushes that overlook each other's
files; the theorems have any number.

In `client_data`, three ticks of the clock and a window of one let files fall out
of the window and two writers meet in one tick; two faults let a restart follow a
failed upload, or a failed download a restart. The driver is FTP, whose uploads can
go well and badly in every way there is: what comes of an upload with another driver
comes of one by FTP (a name that is refused is a failed upload); the theorems have
any drivers. The lists of events have one event more than there are graphs.

What the code gives and does not give shows in the exceptions of the properties.
`NothingLost` excepts `overlooked` files: a flush whose download of the newest file
fails does push a file that lacks it, and so does one that cannot list the store or
that overlaps another one; the loss stays with those files. `SyncComplete` has no
exception for failed downloads but the files later than the one the client names as
its latest: a file that is skipped is repeated by a later one that is read.
`CopiesAgree` also excepts an operator that created a graph after a sync which missed
the file with it: it then pushes a second graph under the same id.

 In `light_client`, epochs of two blocks,
three timestamps and three times for a header reach a retarget in both directions,
an epoch that ends before it starts, testnet4's easy blocks and a median of equal
times; blocks of 6, 5, 3, 2 and 1 transactions give rows of odd length at the leaves
and above. `BatchesAgree` leaves room for the work: a batch that starts
within an epoch takes the target from its bits, which are rounded down, and so
counts a little more work for the same headers than one batch over all of them. The
comparison is for chains whose work fits into 256 bits (`WorkFits`): a larger sum wraps.
`ValidChainsProved` asks that retargets give targets with a compact form (`Retargets`):
`target_to_bits` indexes past the end of a target below 16 bits and panics.

`bitvm` compares each script with a reference definition:

| Property | Cases |
|---|---|
| `U4Exact`, `U32Exact` | pairs of five 32-bit words with carries in every byte, all shifts and rotations in use; references on the bits of a word |
| `Sha256Exact`, `Blake3Exact` | messages at the lengths where padding changes, with junk under the stack; known answers |
| `BigIntExact`, `OverflowCaught` | all pairs of 5-bit integers in limbs of two; division by two and three at 8 and 17 bits |
| `LimbsConvert` | 36-bit integers between all pairs of six limb sizes from 1 to 29 |
| `OneMessagePerKey`, `MessageReturned` | every claim for a digit, above the base included; four signed two-digit messages and what can be made of their signatures by hashing on; messages of one to four bytes in bases of 4 to 8 bits through every verifier and converter |
| `FieldExact`, `CurveExact` | the prime 27631 in limbs of 11 bits (and 19 bits in three limbs), edge elements; points at infinity, equal and opposite; scalars with zero windows; wrong quotients, inverses and slopes must be refused |
| `DisproveExact` | nine proofs, and the commitments of a valid one with each of its 15 inputs changed or not below its modulus and each of its 50 results changed or unknown |

The curve y^2 = x^3 + 6 over 27631 is a Barreto-Naehrig curve (x = 5) of prime order
27481 with the same shape of towers and twist as the code's (its twist is with
respect to 9 + i, as the BETA constants of `g2.rs` show, so that their values are
powers of 1 / (9 + i)). Every prime in these instances is small enough that TLC's
32-bit integers hold all products; the structure of the algorithms, windows that
straddle two limbs, a short head limb and several chunks of a scalar, is kept.
The number of segments, checked on small loops, gives the code's 363 hash
commitments and one final segment for its own 65 digits. The scripts and suites
that take long to build are operator constants (`Sha256Script`, `FieldRuns`, ...) to
which `MCBitvm.cfg` assigns the definitions of the modules: TLC then evaluates them
only in the states that need them.

`CurveExact` and `DisproveExact` also record where building a script panics:
`hinted_check_add_prevent_degenerate` asserts that its points differ (g1.rs:176), so
a public input whose lowest window is zero makes the first addition, of infinity
to infinity, panic (msm.rs:233), and so does a sum equal or opposite to the first
point of the verifying key.

**Fairness.** Blocks keep coming and what is in the pool is mined (WF of `Block`,
`Mine`, `EndBlock`). Client steps get strong fairness: the automatic command is an
endless loop, and the model only interrupts it while it fills a block, which no
client notices. `HonestReimbursed` also needs a withdrawal request, the deposit
and the peg-in confirmation to happen. A verifier is fair about what its
status advises and about challenging an unpaid claim, and no more. In `PegInSigning` every client keeps looping (WF of `Step`);
restarts are never required.

**Findings.**

- `start_time_reported`: a verifier is asked `Start time timed out. Broadcast timeout
  transaction?` (peg_out.rs:117) of an operator whose `start_time` is on the chain.
  `sign` sets the lock time of the operator's copy only, `merge_transactions` never
  takes it over, and the status asks for the id of the verifier's own copy. The
  statuses behind the same check, `PegOutChallengeAvailable` and
  `PegOutKickOffTimeoutAvailable`, are therefore not offered, and
  `ReimbursedOnlyIfPaid` rests on verifiers who challenge without being told
  (`Vigilant`). Whoever follows the advice adds an output to its copy of
  `start_time_timeout`, which makes its whole file invalid for the others. A challenge
  that was not filed before then stays unknown to the operator (`Unheard`): its status
  says `PegOutTake1Available` for a `take_1` that the chain no longer accepts, and an
  operator that did pay is not reimbursed. `StatusSound` and `HonestReimbursed` except
  that case and no other.

- `failure_reported`: the operator status `PegOutFailed` is commented `timeouts or
  disproves executed` (peg_out.rs:138). Those transactions get their final
  output script from the verifier who broadcasts them. `merge_transactions` does
  not take over a changed output and `validate_transaction` rejects the file, so
  the operator keeps looking for an id that is not on the chain and its status
  never says that it failed.
- `ready_can_submit`: `ReadyToSubmit` is commented `all signatures collected, can
  now submit` (peg_in.rs:69). Only a verifier that finds all signatures in its
  copy right after adding its own builds the aggregate; merging does not. Two
  verifiers that sign at the same time leave every copy complete and nowhere
  finalised.
- `secrets_for_all`: the operator's private data is documented as `Operator
  Winternitz secrets for all the graphs.` (client.rs:106). `create_peg_out_graph`
  stores a new map with the secrets of the new graph alone; the operations of
  an older graph then index a missing entry and panic.

## 4. Proofs

`BridgeGraphProofs` proves, for any set of operators, any periods in the order of
`PeriodAssumption`, any network, with and without synchrony:

| Theorem | Statement |
|---|---|
| `TypeCorrect` | `Spec => []TypeOK` |
| `GraphInvHolds` | `Spec => []GraphInv` |
| `SlashedSafe` | `Spec => []SlashedNeverReimbursed` |
| `ChallengeSafe` | `Spec => []ChallengeForcesAssertion` |
| `PaidOnceSafe` | `Spec => []PaidOnce` |
| `Refinement` | `Spec => FundsRefined` |

The safety properties are not inductive: that `take_1` and `disprove_chain` are
never both mined follows from their sharing `connector_b`, and that a
challenged operator revealed its assertion from the chain of outputs that leads
to `take_2`. `GraphInv` states just that: every spent output was created by a
mined transaction (`Ancestry`), no output is spent twice (`NoDoubleSpend`), and
`connector_z` is spent once and after the deposit (`PegInSound`). Client actions
leave the chain alone; only `Confirm` and `ConfirmPegIn` extend it, and their
guards are what the invariant needs. The properties then follow from the wiring
in `Transactions`, by walking back from an input to the one transaction that has
it as an output (`CreatorOf`). The refinement uses the invariant of the state
before the step to show that a claim is open when a payout or a slashing is
mined.

### Timing

`BridgeTimingProofs` proves what depends on blocks coming later than the clients
and on rivals being mined in time. Its hypotheses bound the lateness of the pool:

- `PromptOperators`: mainnet, synchronous, `MaxLag < NUM_BLOCKS_PER_6_HOURS`. A
  transaction that can be mined is mined less than 36 blocks later.
- `PromptVerifiers`: mainnet, synchronous, `Vigilant`, and `MaxLag + 1 <
  NUM_BLOCKS_PER_2_WEEKS`. A challenge sent on sight of `kick_off_1` is mined before
  `kick_off_2` can be, and a `disprove` before `connector_4` lets `take_2` be.

With the constants of `constants.rs` the first holds for every `MaxLag` up to 35
blocks, the second up to 2014. They do not hold off mainnet, where
`num_blocks_per_network` gives every leaf the same two blocks; on the `honest`
instance TLC finds `HonestNeverSlashed` and `StatusSound` violated there.

| Theorem | Statement |
|---|---|
| `HonestInvHolds` | `PromptOperators => (Spec => []HonestInv)` |
| `HonestSafe` | `PromptOperators => (Spec => []HonestNeverSlashed)` |
| `StatusSafe` | `PromptOperators => (Spec => []StatusSound)` |
| `DisputeInvHolds` | `PromptVerifiers => (Spec => []DisputeInv)` |
| `PaidBeforeReimbursed` | `PromptVerifiers => (Spec => []ReimbursedOnlyIfPaid)` |

The argument is about ages. `Timely(o, n, wait, m)` says that `m` is in the pool by
the block in which `n` gets older than `wait`, and that `n` gets older only as far
as the pool is late (`Slack`: `lag`, one more while a block is being filled). A
client step leaves it alone; `Block` keeps it because `ClientsSettled` means that
the client has already sent what its status asks for; `EndBlock` keeps it because
a transaction that is still in the pool and could be mined makes the block a late
one; `Confirm` keeps it if it removes no rival. `HonestInv` states it for
`start_time` and `kick_off_2` against the two timeouts of `connector_1`, together
with what makes the operator's status advance (it kicked off what it paid for, has
nothing to be disproved, sees its own `start_time`: `CopiesSound`) and with the fact
that no transaction that slashes it, and none of its own, even enters the pool.
`HonestNeverSlashed` alone is not inductive: nothing in it keeps a timeout from
maturing. What verifiers believe of `start_time` does not matter here: they may fill
in `start_time_timeout` and send it, but the node has no use for it once
`connector_2` is spent.

`DisputeInv` runs the same argument for the verifiers. A claim without a peg-out has
its challenge in the pool in the block after `kick_off_1`, two weeks before
`kick_off_2`, and so mined before `take_1` can be (`ChallengedInTime`); a false
assertion has its `disprove` in the pool in the block after `assert_final`
(`DisprovedInTime`); and the commitments come in the order of the transactions that
reveal them (`ClaimSound`). The operator's own transactions are the other case: one
that spends `connector_a` or `connector_c` itself takes an input away from the
challenge or from `disprove`, and from `take_1` or `take_2` as well. The challenge is
the delicate one, because the verifier fills it in once and would panic on a second
try: whatever fills it in must also get it into the pool.

`StatusSafe` adds what the data store does: when it is settled, a challenge on the chain
is in the operator's copy (`ChallengeSeen`), since merging what was appended gives the
broadcast form (`MergeCompletes`), unless the verifier's copy had become invalid before
it was filed (`Unheard`).

### Presigning

`PegInSigningProofs`, for any finite set of verifiers, any window, any number of
restarts and files:

| Theorem | Statement |
|---|---|
| `SigningInvHolds` | `Spec /\ []WithinWindow => []SigningInv` |
| `NonceSafe` | `Spec /\ []WithinWindow => []NonceUsedOnce` |
| `SignaturesValid` | `Spec /\ []WithinWindow => []SignaturesAgree` |
| `FinalisedSafe` | `Spec /\ []WithinWindow => []FinalisedOnce` |

`SigningInv` says that every nonce in a copy or a file is one whose secret its
verifier still holds, and that signatures are made with those secrets once all
nonces are in the store (`Consistent`); that a verifier's own nonce comes back to
it from the files it has read (`OwnNonceKept`); that no copy has another verifier's
nonce before the store has it (`NoncesFiled`); and that a verifier has signed with
its present secret and with nothing else (`SignedOnce`). This carries the argument
over restarts: a verifier that comes back after somebody signed finds its own nonce
in the files and makes no second one. Merging is where this could go wrong, since
copies are merged in different orders; the lemmas on `merge` show that merging two
consistent copies gives a consistent one, and folding over the files is dealt with
by `LeastNumber`.

`WithinWindow` is a hypothesis on behaviours, not a constant: whenever a client is
about to sync, no file it has not read is more than ten minutes older than the
newest one. The code does not ensure it, and without it a client passes over the
file with its own nonces and signs again with new ones (the hazard at
client.rs:371).

### Client data

`ClientDataProofs`, for any sets of clients, graphs and drivers, any window and any
number of faults:

| Theorem | Statement |
|---|---|
| `ClientInvHolds` | `Spec => []ClientInv` |
| `NothingLostHolds` | `Spec => []NothingLost` |
| `SyncIsComplete` | `Spec => SyncComplete` (an action property) |
| `CopiesAgreeAlways` | `Spec => []CopiesAgree` |
| `PaidOnce` | `Spec => []PaidTwiceOnlyAfterRestart` |
| `EventsAreMatched` | `Spec => []EventsMatched` |

`ClientInv` has what the files owe to one another. A valid file that was not
overlooked is included in every later one; a client knows it once the file it names as
its latest is not older, or once it is about to push a later one and has not missed it
(`FilesInclude`). While nothing was overlooked, the operator right after a sync that
missed nothing has every graph of the store (`GraphsInStore`), and unless it created
one blindly all copies were made from one set of secrets (`KeysAgree`). Whatever
happened, names and copies are sound and payments are remembered by a client that did
not restart. The argument for a sync is that the newest file it could read includes
those it could not, but for overlooked ones (`SyncReads`), and for a flush that what
it names as `unread` is exactly what that leaves out (`FlushReads`); a push then keeps
`FilesInclude` because it moves the unread files to `overlooked` (`PutStep`).

`process_files` merges a list of files from either end, `remove_matches` removes events
at collected indices and `read_from_l2` goes through the graphs: all are recursive
functions of the model, and the statements about them are proved by taking the least
argument at which they would fail (`LeastNumber`, from the library's well-foundedness
of `<` on the naturals). For the events they say that removing the matches of a graph
keeps every other graph's events, each as often as before, as long as no index goes
out of range, and that one can only go out of range after a removal for the same graph
(`RemoveMatches`); an order of n graphs names each once (`OrderNamesOnce`).

### Light client

`LightClientProofs`, for any networks, widths of targets and words, epochs, odd number
of timestamps, headers and batches:

| Theorem | Statement |
|---|---|
| `LightInvHolds` | `Spec => []LightInv` |
| `LightTypes` | `Spec => []LightTypeOK` |
| `RulesAlwaysHold` | `Spec => []RulesHold` |
| `BatchesAlwaysAgree` | `Spec => []BatchesAgree` |
| `ValidChainsAlwaysProved` | `Spec => []ValidChainsProved` |
| `MmrAlwaysExact` | `Spec => []MmrExact` |
| `SpvAlwaysExact` | `Spec => []SpvExact` |

`LightInv` compares the proof in hand with the loop run over all headers in one batch:
after the proven headers, that loop has not failed and is in the same state, but for the
work; and if the work of every header is at most some M and their sum fits, then neither
total has wrapped and the one of the batches is not the smaller one. The properties
alone are not inductive: that a batch is accepted says nothing of the headers before it.

Two statements about one turn carry the argument. `Tracks(acc, hs, n)` says what the
loop's variables are after n headers, from the positions of the headers alone:
the height that started at u32::MAX, the epoch's target in full or rounded, the start
of the epoch, the ring of timestamps. `TracksStep` shows that an accepted header keeps
it and follows the rules, `AcceptsIs` that a header which follows the rules and reaches
the target in use is accepted. `AgreeStep` runs the loop of the whole chain beside that
of a batch: the batch's target is never above the other, so that what the batch accepts
the other accepts too, and at the end of an epoch both compute the same one from the
bits. What they need of the operators is in `TargetProofs`: writing a target in compact
form and back gives one that is not zero and not larger (`CompactRounds`), a retarget
stays below the easiest target even where its product wraps (`NewDifficulty`), less
target is more work (`WorkFalls`), being later than the median is being later than most
(`MedianIs`), and the slots of the ring are the last timestamps in another order
(`RingCounts`). Inductions over headers use `LeastNumber`.

For the mountain ranges `Tracks` also says that the guest's subroots after n blocks are
those of the host's range over the same blocks. The host's range is characterised by
`IsRange`: a row has half as many nodes as the one below, rounded down, and a node
hashes the two below it. `RangeAppends` keeps that through all levels of
`recalculate_peaks`, whose early `break` is the end of a carry. `IsSubroots` says which
nodes the subroots are: for every one in the binary number of leaves, the last node of
that row. `HostSubroots` shows that `get_subroots` collects them, and `GuestAppends`
that the guest's merges make the same change, because they climb through the trailing
ones of the size as the carry does (`CarryTo`, `OnesCarry`). An inclusion proof ends at the level at
which the leaf's node is the lone last one; that is the highest bit in which the index
differs from the number of leaves (`TopExists`, `MmrProofIs`), which is what
`get_helpers_from_index` computes by another way. `MmrProofWorks` concludes that the
leaf climbs to its subroot and, since different nodes have different parents
(`ClimbsDiffer`), that no other leaf does; blocks of one chain differ because each names
the one before (`BlocksDiffer`).

For the SPV check `TreesOk` relates the two trees over a block's transactions row by row:
a node of the tree of ids is the hash of the node of the tree of first digests at its
place, in odd rows too. Hence hashing the siblings of a path, as `get_root` does, gives
the siblings of the tree of ids, and the path leads to its root (`PathFinds`); different
ids lead to different roots (`RootsDiffer`). `LightInv` has, besides the chain state,
that every header of the host carries the root of its own block's transactions.

### Assumptions, and what stays with TLC

The proofs use the named assumptions on the constants (`NetworkAssumption`,
`PeriodAssumption`, `OperatorAssumption`, `SynchronyAssumption`,
`VerifiersAssumption`, `BoundsAssumption`, `ClientDataAssumption`,
`LightClientAssumption`, `HeightAssumption`), which TLC evaluates in the runs. Of the
light client they ask that the easiest target has three to `Digits` digits, that a
header's time plus testnet4's gap fits into a u32, and that no chain is so long that its
height is the number that stands for no block. Left to TLC: the liveness properties
`HonestReimbursed`, `FailureReported` and `SomeoneCompletes`, which need fairness; and
the script modules, whose recursive operators no theorem may depend on and which are
compared with their references on bounded inputs. That SHA-256 is injective is part of
the model, where hashes are terms, and not an assumption of a theorem.

## 5. Not modelled, and why

- Amounts, fees, addresses, keys and script code; a script is what it decides.
- Chain reorganisations and Esplora requests that fail.
- Presigning of peg-out graphs (`verifier_sign` of `peg_out.rs`): `BridgeGraph`
  starts after it, with every client having loaded the presigned graphs.
- More than one peg-in, and more than one verifier client in `BridgeGraph`: the
  verifiers share one copy of the graphs there.
- `find_superblock` is a stub in the code. A superblock that is not the heaviest
  is therefore only disproved by a verifier that has the operator's witnesses
  (`Load`), and `ReimbursedOnlyIfPaid` excepts it.
- The scripts of `pairing.rs` and `groth16/verifier.rs`,
  `hinted_msm_with_constant_bases_affine` and `collect_line_coeffs`: the chunked
  verifier, which the bridge uses, replaces them.
- How the tapscripts of `chunk/` arrange their stack and hash their preimages;
  a segment is what it computes.
- The StackTracker variant of SHA-256, and the tracker itself.
- The proof system of the circuits, connections and directories of the storage
  drivers, compression, serialisation: I/O or external libraries.
- Wallets; the flag `n_of_n_presigned`; contexts and key derivation.

## 6. Plan

1. `Connectors`, `Transactions`, `BridgeGraph`, `PegFunds`, `PegInSigning` and their
   proofs (done).
2. `ClientData`: files, drivers, restarts, secrets, events (done).
3. `LightClient`: header chain, mountain ranges, SPV (done).
4. `Script`, `U4`, `U32`, `BigInt`, `Sha256`, `Blake3`, `Winternitz`, the field, the
   curves, `Pairing` and `Chunk` (done, at the levels described above).
5. Left to model: the peg-out graphs' presigning with `n_of_n_presigned` together with
   the peg-in's, wallet outputs across graphs, the tapscripts of `chunk/` opcode by
   opcode.
6. Theorems about `BridgeGraph` with and without timing, `PegInSigning`, `ClientData`
   and `LightClient` (done).
7. Left to prove: the lemmas about connectors and segments that `Chunk` and
   `Winternitz` allow without recursion.
