----------------------------- MODULE BridgeGraph -----------------------------
(***************************************************************************)
(* One peg-in, the peg-out graph that every operator built on it, and the  *)
(* clients that drive them (bridge/src/graphs, bridge/src/client): the     *)
(* depositor, the operators and the verifiers.  The clients share nothing  *)
(* but the Bitcoin chain, which they read through Esplora, and the files   *)
(* of the data store.                                                      *)
(*                                                                         *)
(* A client operation reads the chain, checks that the transactions before *)
(* its own are confirmed and old enough, and broadcasts.  Esplora's node   *)
(* keeps what is valid in its memory pool; blocks confirm transactions in  *)
(* any order the consensus rules allow.  The graphs are presigned by the   *)
(* n-of-n verifiers before the first step (module PegInSigning).           *)
(*                                                                         *)
(* Block heights are kept as ages: age[o][n] is the number of blocks since *)
(* transaction n of operator o was mined, so that the code's               *)
(*   block_height + num_blocks_timelock <= blockchain_height               *)
(* reads num_blocks_timelock <= age.  Ages saturate at MaxAge, which no    *)
(* timelock exceeds.                                                       *)
(***************************************************************************)
EXTENDS Transactions

CONSTANTS
  Operators,
  Automatic,     \* operators whose client runs the "automatic" command
  Deviating,     \* operators that do not run this client: they broadcast
                 \* whatever the chain accepts
  Synchronous,   \* TRUE: the clients follow their status between two blocks,
                 \* and a transaction that can be mined
  MaxLag,        \* misses this many blocks at most
  Vigilant       \* TRUE: verifiers challenge an unpaid claim when they see its
                 \* kick_off_1; FALSE: when their status offers it

ASSUME OperatorAssumption ==
  /\ Automatic \subseteq Operators
  /\ Deviating \subseteq Operators
  /\ Automatic \cap Deviating = {}

ASSUME SynchronyAssumption ==
  Synchronous \in BOOLEAN /\ MaxLag \in Nat /\ Vigilant \in BOOLEAN

\* The transactions whose confirmation starts a relative timelock.
TimedTx == {"kick_off_1", "kick_off_2", "assert_final"}

MaxAge == connector_1.kick_off_timeout

VARIABLES
  pegIn,         \* peg-in transactions on the chain
  pegInPool,     \* peg-in transactions waiting to be mined
  depositAge,    \* blocks since peg_in_deposit was mined
  mined,         \* mined[o]: transactions of o's graph on the chain
  mempool,       \* mempool[o]: those waiting to be mined
  age,           \* age[o][n]: blocks since n \in TimedTx was mined
  event,         \* event[o]: peg_out_chain_event of o's graph is set
  superblock,    \* superblock[o]: weight of the superblock o committed to
  assertion,     \* assertion[o][k]: what o's assert_commit_k reveals
  built,         \* built[o]: mutable transactions that the verifier's copy has
                 \* in the form they are broadcast in
  published,     \* published[o]: those its last file that validates has
  known,         \* known[o]: those that operator o's copy has
  witnessed,     \* operators whose start time and superblock hash witnesses
                 \* the verifier's copy of the graph has
  mining,        \* TRUE while the transactions of a new block are chosen
  lag            \* blocks since the pool was last emptied

ledgerVars == <<pegIn, depositAge, mined, age, mining, lag>>
poolVars   == <<pegInPool, mempool>>
commitVars == <<superblock, assertion>>
copyVars   == <<built, published, known, witnessed>>
vars == <<ledgerVars, poolVars, event, commitVars, copyVars>>

TypeOK ==
  /\ pegIn \subseteq PegInTx
  /\ pegInPool \subseteq PegInTx
  /\ depositAge \in 0..MaxAge
  /\ mined \in [Operators -> SUBSET GraphTx]
  /\ mempool \in [Operators -> SUBSET GraphTx]
  /\ age \in [Operators -> [TimedTx -> 0..MaxAge]]
  /\ event \in [Operators -> BOOLEAN]
  /\ superblock \in [Operators -> {"none", "heaviest", "light"}]
  /\ assertion \in [Operators -> [1..2 -> {"none", "valid", "invalid"}]]
  /\ built \in [Operators -> SUBSET MutableTx]
  /\ published \in [Operators -> SUBSET MutableTx]
  /\ known \in [Operators -> SUBSET MutableTx]
  /\ witnessed \subseteq Operators
  /\ mining \in BOOLEAN
  /\ lag \in 0..MaxLag

\* Every graph presigned, nothing of it broadcast, every copy as it was created.
GraphsCreated ==
  /\ pegInPool = {}
  /\ mined = [o \in Operators |-> {}]
  /\ mempool = [o \in Operators |-> {}]
  /\ age = [o \in Operators |-> [n \in TimedTx |-> 0]]
  /\ event = [o \in Operators |-> FALSE]
  /\ superblock = [o \in Operators |-> "none"]
  /\ assertion = [o \in Operators |-> [k \in 1..2 |-> "none"]]
  /\ built = [o \in Operators |-> {}]
  /\ published = [o \in Operators |-> {}]
  /\ known = [o \in Operators |-> {}]
  /\ witnessed = {}
  /\ mining = FALSE
  /\ lag = 0

Init == pegIn = {} /\ depositAge = 0 /\ GraphsCreated

-----------------------------------------------------------------------------
(***************************************************************************)
(* The Bitcoin chain (external).                                           *)
(***************************************************************************)

\* connector_0 is the output of the peg-in that all the graphs share; every
\* other connector belongs to one graph.
Spent(o, c) ==
  \E p \in Operators : /\ p = o \/ c = "connector_0"
                       /\ \E n \in mined[p] : c \in Inputs(n)

Created(c, peg, graph) ==
  IF c = "connector_0" THEN "peg_in_confirm" \in peg
                       ELSE \E n \in graph : c \in Outputs(n)

\* The relative timelocks of n hold in a block d blocks from now.
Matured(o, n, d) ==
  \A c \in Inputs(n), s \in TimedTx :
     c \in Outputs(s) =>
        \/ Timelock(c, n) = 0
        \/ s \in mined[o] /\ Timelock(c, n) <= age[o][s] + d

\* A disprove leaf of connector_c runs only on an assertion that is wrong, leaf
\* 2 of connector_b only with a superblock heavier than the committed one.
Disprovable(o) == \E k \in 1..2 : assertion[o][k] = "invalid"

ScriptSucceeds(o, n) ==
  /\ n = "disprove"       => Disprovable(o)
  /\ n = "disprove_chain" => superblock[o] = "light"

\* The node takes a transaction into its pool when the next block could have
\* it.  Rivals may be in the pool together: which one a miner prefers is open.
Accepts(o, n) ==
  /\ n \notin mined[o]
  /\ \A c \in Inputs(n) : /\ Created(c, pegIn \cup pegInPool,
                                        mined[o] \cup mempool[o])
                          /\ ~Spent(o, c)
  /\ Matured(o, n, 1)
  /\ ScriptSucceeds(o, n)

Broadcast(o, n) ==
  /\ ~mining
  /\ n \notin mempool[o]
  /\ Accepts(o, n)
  /\ mempool' = [mempool EXCEPT ![o] = @ \cup {n}]
  /\ UNCHANGED <<ledgerVars, pegInPool>>

Confirmable(o, n) ==
  /\ \A c \in Inputs(n) : Created(c, pegIn, mined[o]) /\ ~Spent(o, c)
  /\ Matured(o, n, 0)
  /\ ScriptSucceeds(o, n)

Conflict(o, n, p, m) ==
  \/ o = p /\ n = m
  \/ \E c \in Inputs(n) \cap Inputs(m) : o = p \/ c = "connector_0"

\* n is in the new block; what conflicts with it leaves the pool.
Confirm(o, n) ==
  /\ mining
  /\ n \in mempool[o]
  /\ Confirmable(o, n)
  /\ mined' = [mined EXCEPT ![o] = @ \cup {n}]
  /\ mempool' = [p \in Operators |->
                   {m \in mempool[p] : ~Conflict(o, n, p, m)}]
  /\ UNCHANGED <<pegIn, pegInPool, depositAge, age, mining, lag>>
  /\ UNCHANGED <<event, commitVars, copyVars>>

PegInUnspent == \A n \in pegIn : "connector_z" \notin Inputs(n)

PegInMatured(n, d) ==
  "connector_z" \in Inputs(n) => Timelock("connector_z", n) <= depositAge + d

BroadcastPegIn(n) ==
  /\ ~mining
  /\ n \notin pegIn \cup pegInPool
  /\ "connector_z" \in Inputs(n) => PegInUnspent
  /\ PegInMatured(n, 1)
  /\ pegInPool' = pegInPool \cup {n}
  /\ UNCHANGED <<ledgerVars, mempool, event, commitVars, copyVars>>

PegInConfirmable(n) ==
  /\ "connector_z" \in Inputs(n) => "peg_in_deposit" \in pegIn /\ PegInUnspent
  /\ PegInMatured(n, 0)

ConfirmPegIn(n) ==
  /\ mining
  /\ n \in pegInPool
  /\ PegInConfirmable(n)
  /\ pegIn' = pegIn \cup {n}
  /\ pegInPool' = {m \in pegInPool : m # n /\ Inputs(m) \cap Inputs(n) = {}}
  /\ UNCHANGED <<depositAge, mined, age, mining, lag>>
  /\ UNCHANGED <<mempool, event, commitVars, copyVars>>

-----------------------------------------------------------------------------
(***************************************************************************)
(* What the clients see.  get_tx_status is asked for the id of the         *)
(* client's own copy: neither the operator nor the verifier sees a mutable *)
(* transaction whose mined form its copy does not have.                    *)
(***************************************************************************)
SeenWith(copies, o, n) == n \in mined[o] /\ (n \in MutableTx => n \in copies[o])

\* The operator's view, and the verifier's.
Sees(o, n)         == SeenWith(known, o, n)
VerifierSees(o, n) == SeenWith(built, o, n)

verify_if_not_mined(o, names) == \A n \in names : ~Sees(o, n)

\* block_height + lock <= blockchain_height
TimelockMet(o, n, lock) == n \in mined[o] /\ lock <= age[o][n]

\* A status that goes from the first commitment to assert_final.
DisputeStatusSkippingCommit2(o) ==
  IF Sees(o, "assert_final")
  THEN IF TimelockMet(o, "assert_final", connector_4.take_2)
       THEN "PegOutTake2Available" ELSE "PegOutWait"
  ELSE IF ~TimelockMet(o, "kick_off_2", connector_b.assert_initial)
  THEN "PegOutWait"
  ELSE IF ~Sees(o, "assert_initial") THEN "PegOutAssertInitialAvailable"
  ELSE IF ~Sees(o, "assert_commit_1") THEN "PegOutAssertCommit1Available"
  ELSE "PegOutAssertFinalAvailable"

DisputeStatus(o) ==
  IF Sees(o, "assert_final")
  THEN IF TimelockMet(o, "assert_final", connector_4.take_2)
       THEN "PegOutTake2Available" ELSE "PegOutWait"
  ELSE IF ~TimelockMet(o, "kick_off_2", connector_b.assert_initial)
  THEN "PegOutWait"
  ELSE IF ~Sees(o, "assert_initial") THEN "PegOutAssertInitialAvailable"
  ELSE IF ~Sees(o, "assert_commit_1") THEN "PegOutAssertCommit1Available"
  ELSE IF ~Sees(o, "assert_commit_2") THEN "PegOutAssertCommit2Available"
  ELSE "PegOutAssertFinalAvailable"

KickOff2Status(o) ==
  IF Sees(o, "take_1") \/ Sees(o, "take_2") THEN "PegOutComplete"
  ELSE IF Sees(o, "disprove_chain") \/ Sees(o, "disprove") THEN "PegOutFailed"
  ELSE IF Sees(o, "challenge") THEN DisputeStatus(o)
  ELSE IF TimelockMet(o, "kick_off_2", connector_3.take_1)
  THEN "PegOutTake1Available" ELSE "PegOutWait"

KickOff1Status(o) ==
  IF Sees(o, "start_time_timeout") \/ Sees(o, "kick_off_timeout")
  THEN "PegOutFailed"
  ELSE IF ~Sees(o, "start_time") THEN "PegOutStartTimeAvailable"
  ELSE IF TimelockMet(o, "kick_off_1", connector_1.kick_off_2)
  THEN "PegOutKickOff2Available" ELSE "PegOutWait"

OperatorStatus(o) ==
  IF ~event[o] THEN "PegOutWait"
  ELSE IF ~Sees(o, "peg_out") THEN "PegOutStartPegOut"
  ELSE IF Sees(o, "kick_off_2") THEN KickOff2Status(o)
  ELSE IF Sees(o, "kick_off_1") THEN KickOff1Status(o)
  ELSE IF Sees(o, "peg_out_confirm") THEN "PegOutKickOff1Available"
  ELSE "PegOutPegOutConfirmAvailable"

\* What the automatic command does in each status it acts on.
process_peg_outs ==
  [ PegOutPegOutConfirmAvailable |-> "peg_out_confirm",
    PegOutKickOff1Available      |-> "kick_off_1",
    PegOutStartTimeAvailable     |-> "start_time",
    PegOutKickOff2Available      |-> "kick_off_2",
    PegOutAssertInitialAvailable |-> "assert_initial",
    PegOutAssertCommit1Available |-> "assert_commit_1",
    PegOutAssertCommit2Available |-> "assert_commit_2",
    PegOutAssertFinalAvailable   |-> "assert_final",
    PegOutTake1Available         |-> "take_1",
    PegOutTake2Available         |-> "take_2" ]

VerifierStatus(o) ==
  LET has(n) == VerifierSees(o, n) IN
  IF has("kick_off_2")
  THEN IF has("take_1") \/ has("take_2") THEN "PegOutComplete"
       ELSE IF has("disprove") \/ has("disprove_chain") THEN "PegOutFailed"
       ELSE IF has("assert_final") THEN "PegOutDisproveAvailable"
       ELSE "PegOutDisproveChainAvailable"
  ELSE IF ~has("kick_off_1") THEN "PegOutWait"
  ELSE IF has("start_time_timeout") \/ has("kick_off_timeout")
  THEN "PegOutFailed"
  ELSE IF ~has("start_time")
  THEN IF TimelockMet(o, "kick_off_1", connector_1.start_time_timeout)
       THEN "PegOutStartTimeTimeoutAvailable" ELSE "PegOutWait"
  ELSE IF TimelockMet(o, "kick_off_1", connector_1.kick_off_timeout)
  THEN "PegOutKickOffTimeoutAvailable"
  ELSE IF ~has("challenge") THEN "PegOutChallengeAvailable"
  ELSE "PegOutWait"

DepositorStatus ==
  IF "peg_in_deposit" \notin pegIn THEN "PegInDepositWait"
  ELSE IF "peg_in_confirm" \in pegIn THEN "PegInConfirmComplete"
  ELSE IF depositAge < connector_z.peg_in_refund THEN "PegInConfirmWait"
  ELSE IF "peg_in_refund" \in pegIn THEN "PegInRefundComplete"
  ELSE "PegInRefundAvailable"

-----------------------------------------------------------------------------
(***************************************************************************)
(* The peg-in, broadcast by the depositor; any client may send the         *)
(* presigned peg_in_confirm.                                               *)
(***************************************************************************)
PegInDeposit == BroadcastPegIn("peg_in_deposit")

PegInConfirm ==
  /\ "peg_in_deposit" \in pegIn
  /\ BroadcastPegIn("peg_in_confirm")

\* The operation leaves the timelock to the chain; the status does not.
PegInRefund ==
  /\ "peg_in_deposit" \in pegIn
  /\ Synchronous => DepositorStatus = "PegInRefundAvailable"
  /\ BroadcastPegIn("peg_in_refund")

-----------------------------------------------------------------------------
(***************************************************************************)
(* Operators.  An automatic client broadcasts what its status tells it to; *)
(* a person at the command line may try any operation at any time.         *)
(***************************************************************************)
Runs(o, n) ==
  /\ o \notin Deviating
  /\ o \in Automatic =>
       /\ OperatorStatus(o) \in DOMAIN process_peg_outs
       /\ process_peg_outs[OperatorStatus(o)] = n

\* A burn or withdrawal on the other chain names this operator and this peg-in.
match_and_set_peg_out_event(o) ==
  /\ ~mining
  /\ o \notin Deviating
  /\ ~event[o]
  /\ "peg_in_confirm" \in pegIn
  /\ event' = [event EXCEPT ![o] = TRUE]
  /\ UNCHANGED <<ledgerVars, poolVars, commitVars, copyVars>>

PegOut(o) ==
  /\ o \notin Deviating
  /\ event[o]
  /\ verify_if_not_mined(o, {"peg_out"})
  /\ Broadcast(o, "peg_out")
  /\ UNCHANGED <<event, commitVars, copyVars>>

PegOutConfirm(o) ==
  /\ Runs(o, "peg_out_confirm")
  /\ verify_if_not_mined(o, {"peg_out_confirm"})
  /\ Sees(o, "peg_out")
  /\ Broadcast(o, "peg_out_confirm")
  /\ UNCHANGED <<event, commitVars, copyVars>>

KickOff1(o) ==
  /\ Runs(o, "kick_off_1")
  /\ verify_if_not_mined(o, {"kick_off_1"})
  /\ Sees(o, "peg_out_confirm")
  /\ Broadcast(o, "kick_off_1")
  /\ UNCHANGED <<event, commitVars, copyVars>>

\* Signing sets the lock time, so that only this copy has the new id.
StartTime(o) ==
  /\ Runs(o, "start_time")
  /\ verify_if_not_mined(o, {"start_time"})
  /\ Sees(o, "kick_off_1")
  /\ known' = [known EXCEPT ![o] = @ \cup {"start_time"}]
  /\ Broadcast(o, "start_time")
  /\ UNCHANGED <<event, commitVars, built, published, witnessed>>

\* The operator commits to the superblock that find_superblock returns.
KickOff2(o) ==
  /\ Runs(o, "kick_off_2")
  /\ verify_if_not_mined(o, {"kick_off_2"})
  /\ TimelockMet(o, "kick_off_1", connector_1.kick_off_2)
  /\ Broadcast(o, "kick_off_2")
  /\ superblock' = [superblock EXCEPT ![o] = "heaviest"]
  /\ UNCHANGED <<event, assertion, copyVars>>

AssertInitial(o) ==
  /\ Runs(o, "assert_initial")
  /\ verify_if_not_mined(o, {"assert_initial"})
  /\ TimelockMet(o, "kick_off_2", connector_b.assert_initial)
  /\ Broadcast(o, "assert_initial")
  /\ UNCHANGED <<event, commitVars, copyVars>>

\* assert_commit_1 and assert_commit_2 sign the two halves of one proof.
assert_commit == <<"assert_commit_1", "assert_commit_2">>

AssertCommit(o, k) ==
  /\ Runs(o, assert_commit[k])
  /\ verify_if_not_mined(o, {assert_commit[k]})
  /\ Sees(o, "assert_initial")
  /\ Broadcast(o, assert_commit[k])
  /\ assertion' = [assertion EXCEPT ![o][k] = "valid"]
  /\ UNCHANGED <<event, superblock, copyVars>>

AssertFinal(o) ==
  /\ Runs(o, "assert_final")
  /\ verify_if_not_mined(o, {"assert_final"})
  /\ Sees(o, "assert_initial")
  /\ Broadcast(o, "assert_final")
  /\ UNCHANGED <<event, commitVars, copyVars>>

Take1(o) ==
  /\ Runs(o, "take_1")
  /\ verify_if_not_mined(o, {"take_1", "challenge", "assert_initial",
                             "disprove_chain"})
  /\ "peg_in_confirm" \in pegIn
  /\ Sees(o, "kick_off_1")
  /\ TimelockMet(o, "kick_off_2", connector_3.take_1)
  /\ Broadcast(o, "take_1")
  /\ UNCHANGED <<event, commitVars, copyVars>>

Take2(o) ==
  /\ Runs(o, "take_2")
  /\ verify_if_not_mined(o, {"take_2", "take_1", "disprove"})
  /\ "peg_in_confirm" \in pegIn
  /\ TimelockMet(o, "assert_final", connector_4.take_2)
  /\ Broadcast(o, "take_2")
  /\ UNCHANGED <<event, commitVars, copyVars>>

OperatorStep(o) ==
  \/ PegOutConfirm(o) \/ KickOff1(o) \/ StartTime(o) \/ KickOff2(o)
  \/ AssertInitial(o) \/ \E k \in 1..2 : AssertCommit(o, k)
  \/ AssertFinal(o) \/ Take1(o) \/ Take2(o)

(***************************************************************************)
(* An operator who does not run this client: any transaction of the graph, *)
(* or of its own, any superblock, any proof, as long as the chain takes    *)
(* it.  A proof that verifies needs the peg-out that it proves, or a       *)
(* superblock of a chain the operator made up.  The transactions that      *)
(* slash it are left to the verifiers, and so is the challenge.            *)
(***************************************************************************)
Deviate(o) ==
  /\ o \in Deviating
  /\ \E n \in GraphTx \ VerifierTx :
       /\ Broadcast(o, n)
       /\ known' = [known EXCEPT ![o] = @ \cup ({n} \cap MutableTx)]
       /\ \/ /\ n = "kick_off_2"
             /\ \E w \in {"heaviest", "light"} :
                  superblock' = [superblock EXCEPT ![o] = w]
             /\ UNCHANGED assertion
          \/ \E k \in 1..2, v \in {"valid", "invalid"} :
               /\ n = assert_commit[k]
               /\ v = "valid" => "peg_out" \in mined[o] \/ superblock[o] = "light"
               /\ assertion' = [assertion EXCEPT ![o][k] = v]
               /\ UNCHANGED superblock
          \/ /\ n # "kick_off_2" /\ \A k \in 1..2 : n # assert_commit[k]
             /\ UNCHANGED commitVars
  /\ UNCHANGED <<event, built, published, witnessed>>

-----------------------------------------------------------------------------
(***************************************************************************)
(* Verifiers.  Each operation fills in the verifier's own copy before the  *)
(* transaction is sent, and the copy stays filled in when the node turns   *)
(* the transaction down.                                                   *)
(***************************************************************************)
Fill(o, n) == built' = [built EXCEPT ![o] = @ \cup {n}]

SendFilled(o, n) ==
  /\ ~mining
  /\ Fill(o, n)
  /\ mempool' = IF Accepts(o, n)
                THEN [mempool EXCEPT ![o] = @ \cup {n}] ELSE mempool
  /\ UNCHANGED <<ledgerVars, pegInPool, event, commitVars>>
  /\ UNCHANGED <<published, known, witnessed>>

Advised(o, status) == Synchronous => VerifierStatus(o) = status

\* add_inputs_and_output panics on a copy that has its inputs.
Challenge(o) ==
  /\ Vigilant \/ Advised(o, "PegOutChallengeAvailable")
  /\ "kick_off_1" \in mined[o]
  /\ "challenge" \notin built[o]
  /\ SendFilled(o, "challenge")

StartTimeTimeout(o) ==
  /\ Advised(o, "PegOutStartTimeTimeoutAvailable")
  /\ ~VerifierSees(o, "start_time_timeout")
  /\ TimelockMet(o, "kick_off_1", connector_1.start_time_timeout)
  /\ SendFilled(o, "start_time_timeout")

KickOffTimeout(o) ==
  /\ Advised(o, "PegOutKickOffTimeoutAvailable")
  /\ ~VerifierSees(o, "kick_off_timeout")
  /\ TimelockMet(o, "kick_off_1", connector_1.kick_off_timeout)
  /\ SendFilled(o, "kick_off_timeout")

\* The output is added before the operator's witnesses are looked up, so the
\* copy changes when the operation ends in WitnessNotGenerated too.
DisproveChain(o) ==
  /\ Advised(o, "PegOutDisproveChainAvailable")
  /\ ~VerifierSees(o, "disprove_chain")
  /\ "kick_off_2" \in mined[o]
  /\ \/ o \in witnessed /\ SendFilled(o, "disprove_chain")
     \/ /\ o \notin witnessed
        /\ ~mining
        /\ Fill(o, "disprove_chain")
        /\ UNCHANGED <<ledgerVars, poolVars, event, commitVars>>
        /\ UNCHANGED <<published, known, witnessed>>

\* generate_disprove_witness fails with ValidProof before the copy is changed.
Disprove(o) ==
  /\ Advised(o, "PegOutDisproveAvailable")
  /\ ~VerifierSees(o, "disprove")
  /\ {"assert_commit_1", "assert_commit_2", "assert_final"} \subseteq mined[o]
  /\ Disprovable(o)
  /\ SendFilled(o, "disprove")

VerifierStep(o) ==
  \/ Challenge(o) \/ StartTimeTimeout(o) \/ KickOffTimeout(o)
  \/ DisproveChain(o) \/ Disprove(o)

\* A verifier's client that starts from the operator's file, the newest one in
\* the store, has what the operator signed: the id of start_time and the
\* witnesses, which no merge takes over.  What it filled in itself is lost, but
\* for the challenge (bound: a challenge is in every client's copy before a
\* verifier restarts).
Load(o) ==
  /\ ~mining
  /\ \A p \in Operators : "challenge" \in built[p] => "challenge" \in known[p]
  /\ built' = [p \in Operators |-> IF p = o THEN known[o]
                                  ELSE built[p] \cap {"challenge"}]
  /\ witnessed' = {p \in {o} : superblock[o] # "none"
                              /\ "start_time" \in known[o]}
  /\ UNCHANGED <<ledgerVars, poolVars, event, commitVars>>
  /\ UNCHANGED <<published, known>>

-----------------------------------------------------------------------------
(***************************************************************************)
(* The data store.  The verifier's file has all its graphs, and a client   *)
(* that finds one transaction in it invalid does not use the file.         *)
(***************************************************************************)
Validates(copies) ==
  \A o \in Operators : \A n \in copies[o] :
     validate_transaction(Filled(n), Blank(n))

Flush ==
  /\ ~mining
  /\ published' = IF Validates(built) THEN built ELSE published
  /\ UNCHANGED <<ledgerVars, poolVars, event, commitVars>>
  /\ UNCHANGED <<built, known, witnessed>>

\* The copies whose id, once merged, is the id that was broadcast.
Merged(o) ==
  {n \in published[o] : merge_transactions(Blank(n), Filled(n)) = Filled(n)}

Sync(o) ==
  /\ ~mining
  /\ o \notin Deviating
  /\ known' = [known EXCEPT ![o] = @ \cup Merged(o)]
  /\ UNCHANGED <<ledgerVars, poolVars, event, commitVars>>
  /\ UNCHANGED <<built, published, witnessed>>

-----------------------------------------------------------------------------
(***************************************************************************)
(* Blocks.  Between two blocks the clients read the chain and broadcast;   *)
(* a block then takes transactions from the pool.  In a synchronous model  *)
(* the polling loops (a few hundred milliseconds) are faster than blocks,  *)
(* and what the pool holds is mined MaxLag blocks late at most.            *)
(***************************************************************************)
OperatorPrompted(o) ==
  /\ o \in Automatic
  /\ OperatorStatus(o) \in DOMAIN process_peg_outs
  /\ LET n == process_peg_outs[OperatorStatus(o)]
     IN  n \notin mempool[o] /\ Accepts(o, n)

\* A claim without a peg-out that the verifiers have yet to challenge.
ChallengeDue(o) ==
  /\ "kick_off_1" \in mined[o] /\ "peg_out" \notin mined[o]
  /\ "challenge" \notin built[o]
  /\ Vigilant \/ VerifierStatus(o) = "PegOutChallengeAvailable"

\* The verifiers challenge such a claim, and broadcast whatever slashes the
\* operator.
AdvisedTx(o) ==
  LET status == VerifierStatus(o) IN
  {n \in {"challenge"} : ChallengeDue(o)} \cup
  CASE status = "PegOutStartTimeTimeoutAvailable" -> {"start_time_timeout"}
    [] status = "PegOutKickOffTimeoutAvailable"   -> {"kick_off_timeout"}
    [] status = "PegOutDisproveChainAvailable"    ->
         {n \in {"disprove_chain"} : o \in witnessed}
    [] status = "PegOutDisproveAvailable"         -> {"disprove"}
    [] OTHER                                      -> {}

VerifierPrompted(o) == \E n \in AdvisedTx(o) : n \notin mempool[o] /\ Accepts(o, n)

StoreSettled ==
  /\ Validates(built) => published = built
  /\ \A o \in Operators \ Deviating : Merged(o) \subseteq known[o]

ClientsSettled ==
  /\ StoreSettled
  /\ \A o \in Operators : ~OperatorPrompted(o) /\ ~VerifierPrompted(o)

Minable ==
  \/ \E n \in pegInPool : PegInConfirmable(n)
  \/ \E o \in Operators : \E n \in mempool[o] : Confirmable(o, n)

Older(a, isMined) == IF isMined /\ a < MaxAge THEN a + 1 ELSE a

Block ==
  /\ ~mining
  /\ Synchronous => ClientsSettled
  /\ mining' = TRUE
  /\ depositAge' = Older(depositAge, "peg_in_deposit" \in pegIn)
  /\ age' = [o \in Operators |->
               [n \in TimedTx |-> Older(age[o][n], n \in mined[o])]]
  /\ UNCHANGED <<pegIn, mined, lag, poolVars, event, commitVars, copyVars>>

Mine ==
  \/ \E n \in PegInTx : ConfirmPegIn(n)
  \/ \E o \in Operators, n \in GraphTx : Confirm(o, n)

EndBlock ==
  /\ mining
  /\ Synchronous /\ Minable => lag < MaxLag
  /\ mining' = FALSE
  /\ lag' = IF Synchronous /\ Minable THEN lag + 1 ELSE 0
  /\ UNCHANGED <<pegIn, depositAge, mined, age>>
  /\ UNCHANGED <<poolVars, event, commitVars, copyVars>>

Next ==
  \/ PegInDeposit \/ PegInConfirm \/ PegInRefund
  \/ \E o \in Operators :
       \/ match_and_set_peg_out_event(o) \/ PegOut(o) \/ OperatorStep(o)
       \/ Deviate(o) \/ VerifierStep(o) \/ Load(o) \/ Sync(o)
  \/ Flush \/ Block \/ Mine \/ EndBlock

Spec == Init /\ [][Next]_vars

(***************************************************************************)
(* The chain grows.  The clients' loops go on, the operator serves a       *)
(* withdrawal, the depositor deposits and somebody sends the presigned     *)
(* peg_in_confirm: strong fairness, because the model stops the clients    *)
(* while a block is chosen, which no client notices.                       *)
(***************************************************************************)
Fairness ==
  /\ WF_vars(Block) /\ WF_vars(Mine) /\ WF_vars(EndBlock)
  /\ SF_vars(PegInDeposit) /\ SF_vars(PegInConfirm) /\ SF_vars(Flush)
  /\ \A o \in Operators :
       /\ SF_vars(match_and_set_peg_out_event(o)) /\ SF_vars(PegOut(o))
       /\ SF_vars(OperatorStep(o)) /\ SF_vars(Sync(o))
       /\ SF_vars(VerifierPrompted(o) /\ VerifierStep(o))

FairSpec == Spec /\ Fairness

-----------------------------------------------------------------------------
(* Properties. *)

Reimbursed(o) == mined[o] \cap {"take_1", "take_2"} # {}
Slashed(o)    == mined[o] \cap RewardTx # {}

\* What became of the peg-in and of each claim, as PegFunds sees it.
funds ==
  IF \E o \in Operators : Reimbursed(o) THEN "paid"
  ELSE IF "peg_in_confirm" \in pegIn THEN "locked"
  ELSE IF "peg_in_refund" \in pegIn THEN "refunded"
  ELSE IF "peg_in_deposit" \in pegIn THEN "deposited"
  ELSE "unfunded"

outcome ==
  [o \in Operators |-> IF Reimbursed(o) THEN "reimbursed"
                       ELSE IF Slashed(o) THEN "slashed" ELSE "open"]

Funds == INSTANCE PegFunds WITH funds <- funds, outcome <- outcome

\* Whatever the clients, the operators and the miners do, the graphs of
\* transactions implement PegFunds: one payout per peg-in, none after a
\* refund, and no operator both reimbursed and slashed.
FundsRefined == Funds!Spec

\* No operator whose deposit was burnt by a timeout or a disprove transaction
\* is reimbursed by take_1 or take_2, in whatever order they are broadcast.
SlashedNeverReimbursed == \A o \in Operators : ~(Reimbursed(o) /\ Slashed(o))

\* Every output that a mined transaction spends was created by the peg-in or by
\* a mined transaction of the same graph.
Ancestry ==
  \A o \in Operators : \A n \in mined[o] : \A c \in Inputs(n) :
    Created(c, pegIn, mined[o])

\* No output is spent twice, connector_0 by no two operators.
NoDoubleSpend ==
  \A o, p \in Operators : \A n \in mined[o], m \in mined[p] :
    Conflict(o, n, p, m) => o = p /\ n = m

\* connector_z is spent after the deposit, and once.
PegInSound ==
  /\ pegIn \cap {"peg_in_confirm", "peg_in_refund"} # {} =>
       "peg_in_deposit" \in pegIn
  /\ ~({"peg_in_confirm", "peg_in_refund"} \subseteq pegIn)

\* The chain holds the graphs as they were wired: the inductive invariant from
\* which the safety properties follow.
GraphInv == TypeOK /\ Ancestry /\ NoDoubleSpend /\ PegInSound

\* The peg-in's output is paid out once, however many operators claim it.
PaidOnce ==
  \A o, p \in Operators, n, m \in {"take_1", "take_2"} :
    n \in mined[o] /\ m \in mined[p] => o = p /\ n = m

\* A challenged operator is reimbursed only after all four assert transactions
\* revealed its proof (connector_a is an input of both challenge and take_1).
ChallengeForcesAssertion ==
  \A o \in Operators :
    "challenge" \in mined[o] /\ Reimbursed(o) =>
      {"assert_initial", "assert_commit_1", "assert_commit_2", "assert_final"}
        \subseteq mined[o]

\* An operator that runs the automatic client in a synchronous network is not
\* slashed: its start_time and kick_off_2 beat the timeouts of connector_1.
HonestNeverSlashed == \A o \in Automatic : ~Slashed(o)

\* With verifiers that challenge an unpaid claim as soon as its kick_off_1 is
\* mined, in a synchronous network, the peg-in is paid to an operator that made
\* the peg-out, unless it committed to a superblock that is not the heaviest:
\* whatever transactions of its own the operator spends its outputs with.
ReimbursedOnlyIfPaid ==
  \A o \in Operators :
    Reimbursed(o) => "peg_out" \in mined[o] \/ superblock[o] = "light"

\* Blocks that were mined, or are being mined, since the pool was last emptied.
Slack == IF mining THEN lag + 1 ELSE lag

\* m is in the pool when the first block comes whose height is more than wait
\* blocks above n's, so that n gets only as much older as the pool is late.
Timely(o, n, wait, m) ==
  /\ age[o][n] <= wait + Slack
  /\ mining /\ age[o][n] > wait => m \in mempool[o]

\* Confirmations are counted from the block that mined the transaction.
AgesCounted ==
  \A o \in Operators, n \in TimedTx : n \notin mined[o] => age[o][n] = 0

Sent(o) == mempool[o] \cup mined[o]

\* An automatic client kicks off only what it paid for, asserts only when it is
\* challenged, commits to nothing that can be disproved, has start_time and
\* kick_off_2 on their way in time and spends no output otherwise; no transaction
\* that slashes it ever gets into the pool.
HonestState(o) ==
  /\ "peg_out" \in Sent(o) => event[o]
  /\ "peg_out_confirm" \in Sent(o) => "peg_out" \in mined[o]
  /\ "kick_off_2" \in Sent(o) => "start_time" \in mined[o]
  /\ "assert_initial" \in Sent(o) => "challenge" \in mined[o]
  /\ superblock[o] # "light"
  /\ \A k \in 1..2 : assertion[o][k] # "invalid"
  /\ Sent(o) \cap (RewardTx \cup OwnTx) = {}
  /\ "kick_off_1" \in mined[o] /\ "start_time" \notin mined[o] =>
       Timely(o, "kick_off_1", 0, "start_time")
  /\ "kick_off_1" \in mined[o] /\ "kick_off_2" \notin mined[o] =>
       Timely(o, "kick_off_1", connector_1.kick_off_2, "kick_off_2")

\* What such an operator sees of its own start_time, and the verifier of the
\* challenge it filled in.
CopiesSound(o) ==
  /\ event[o] => "peg_in_confirm" \in pegIn
  /\ "start_time" \in Sent(o) => "start_time" \in known[o]
  /\ "challenge" \in Sent(o) => "challenge" \in built[o]

\* Every automatic operator is in such a state: the inductive invariant behind
\* HonestNeverSlashed and StatusSound.
HonestInv ==
  AgesCounted /\ \A o \in Automatic : HonestState(o) /\ CopiesSound(o)

\* A claim that no peg-out and no made-up superblock supports.
Unfounded(o) == "peg_out" \notin mined[o] /\ superblock[o] # "light"

\* What o's graph has committed to and broadcast: an operator that runs the
\* client paid, the assert transactions follow kick_off_2, and a proof that
\* verifies is not unfounded.
ClaimSound(o) ==
  /\ o \notin Deviating /\ "peg_out_confirm" \in Sent(o) => "peg_out" \in mined[o]
  /\ "assert_initial" \in Sent(o) => "kick_off_2" \in mined[o]
  /\ \A k \in 1..2 :
       /\ assert_commit[k] \in Sent(o) => assertion[o][k] # "none"
       /\ assertion[o][k] # "none" => "kick_off_2" \in mined[o]
       /\ assertion[o][k] = "valid" => ~Unfounded(o)

\* Without a peg-out it is challenged in the block after kick_off_1, unless the
\* operator takes connector_a itself, which closes take_1 as well; so the
\* challenge is mined long before take_1 can be.
ChallengedInTime(o) ==
  /\ "challenge" \in built[o] \cup known[o] \cup published[o] =>
       "challenge" \in mempool[o] \/ Spent(o, "connector_a")
  /\ "kick_off_2" \in mined[o] =>
       /\ "kick_off_1" \in mined[o]
       /\ connector_1.kick_off_2 <= age[o]["kick_off_1"]
  /\ "peg_out" \notin mined[o] /\ "kick_off_1" \in mined[o]
       /\ ~Spent(o, "connector_a") => Timely(o, "kick_off_1", 0, "challenge")
  /\ "take_1" \in mined[o] => "peg_out" \in mined[o]

\* And its assertion is disproved before take_2 can be mined, unless the operator
\* takes connector_c itself, which closes take_2 as well.
DisprovedInTime(o) ==
  /\ Unfounded(o) /\ "assert_final" \in mined[o] /\ ~Spent(o, "connector_c") =>
       Timely(o, "assert_final", 0, "disprove")
  /\ "take_2" \in mined[o] => ~Unfounded(o)

ClaimHeld(o) == ClaimSound(o) /\ ChallengedInTime(o) /\ DisprovedInTime(o)

\* Every claim is held to this: the inductive invariant behind
\* ReimbursedOnlyIfPaid.
DisputeInv == AgesCounted /\ \A o \in Operators : ClaimHeld(o)

\* The challenge of o's claim is mined, and no file will ever tell the operator:
\* the verifier's copy had been made invalid before it was filed.
Unheard(o) ==
  /\ "challenge" \in mined[o] /\ "challenge" \notin published[o]
  /\ ~Validates(built)

\* What the operator's status tells the automatic loop to broadcast is taken by
\* the node, when the operator has merged the verifiers' file and no rival was
\* reimbursed; but for the challenge that it will not hear of, no copy that
\* differs from another misleads it.
StatusSound ==
  \A o \in Automatic :
    /\ ~mining /\ StoreSettled /\ ~Unheard(o)
    /\ \A p \in Operators \ {o} : ~Reimbursed(p)
    /\ OperatorStatus(o) \in DOMAIN process_peg_outs
    => LET n == process_peg_outs[OperatorStatus(o)]
       IN  n \in mempool[o] \/ Accepts(o, n)

\* An automatic operator that was asked for a peg-out gets the peg-in's coins, if
\* no rival does and it hears of the challenge against it.
HonestReimbursed ==
  \A o \in Automatic :
    "peg_in_confirm" \in pegIn ~>
      Unheard(o) \/ \E p \in Operators : Reimbursed(p)

\* A slashed operator learns it: its status ends in PegOutFailed.
FailureReported ==
  \A o \in Operators : Slashed(o) ~> OperatorStatus(o) = "PegOutFailed"

\* "Start time timed out. Broadcast timeout transaction?": verifiers are told so of
\* a claim whose start_time is not on the chain.
StartTimeoutReported ==
  \A o \in Operators :
    VerifierStatus(o) = "PegOutStartTimeTimeoutAvailable" =>
      "start_time" \notin mined[o]

=============================================================================
