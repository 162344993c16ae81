-------------------------- MODULE BridgeGraphProofs --------------------------
(***************************************************************************)
(* Theorems about BridgeGraph, for any set of operators, any timelocks     *)
(* that satisfy the assumptions of Connectors, synchronous or not.         *)
(***************************************************************************)
EXTENDS BridgeGraph, TLAPS

-----------------------------------------------------------------------------
(* What the wiring of the transactions gives, read off their definitions:  *)
(* the connectors each one spends, and which transaction creates one.       *)

\* What every transaction spends.
LEMMA InputsOf ==
  /\ Inputs("peg_in_deposit") = {}
  /\ Inputs("peg_in_refund") = {"connector_z"}
  /\ Inputs("peg_in_confirm") = {"connector_z"}
  /\ Inputs("peg_out") = {}
  /\ Inputs("peg_out_confirm") = {}
  /\ Inputs("kick_off_1") = {"connector_6"}
  /\ Inputs("challenge") = {"connector_a"}
  /\ Inputs("start_time") = {"connector_2"}
  /\ Inputs("start_time_timeout") = {"connector_2", "connector_1"}
  /\ Inputs("kick_off_2") = {"connector_1"}
  /\ Inputs("kick_off_timeout") = {"connector_1"}
  /\ Inputs("disprove_chain") = {"connector_b"}
  /\ Inputs("take_1") =
       {"connector_0", "connector_a", "connector_3", "connector_b"}
  /\ Inputs("assert_initial") = {"connector_b"}
  /\ Inputs("assert_commit_1") = {"connector_e_1"}
  /\ Inputs("assert_commit_2") = {"connector_e_2"}
  /\ Inputs("assert_final") =
       {"connector_d", "connector_f_1", "connector_f_2"}
  /\ Inputs("take_2") =
       {"connector_0", "connector_4", "connector_5", "connector_c"}
  /\ Inputs("disprove") = {"connector_5", "connector_c"}
  /\ Inputs("spend_a") = {"connector_a"}
  /\ Inputs("spend_1") = {"connector_1"}
  /\ Inputs("spend_2") = {"connector_2"}
  /\ Inputs("spend_c") = {"connector_c"}
BY DEF Inputs, Transaction, PegInTx, GraphTx, PegOutTx, OwnTx,
   peg_in_deposit, peg_in_refund, peg_in_confirm,
   peg_out, peg_out_confirm, kick_off_1, challenge, start_time,
   start_time_timeout, kick_off_2, kick_off_timeout, disprove_chain, take_1,
   assert_initial, assert_commit_1, assert_commit_2, assert_final, take_2,
   disprove, spend_a, spend_1, spend_2, spend_c

\* What every transaction creates.
LEMMA OutputsOfEach ==
  /\ Outputs("peg_in_deposit") = {"connector_z"}
  /\ Outputs("peg_in_refund") = {}
  /\ Outputs("peg_in_confirm") = {"connector_0"}
  /\ Outputs("peg_out") = {}
  /\ Outputs("peg_out_confirm") = {"connector_6"}
  /\ Outputs("kick_off_1") = {"connector_a", "connector_1", "connector_2"}
  /\ Outputs("challenge") = {}
  /\ Outputs("start_time") = {}
  /\ Outputs("start_time_timeout") = {}
  /\ Outputs("kick_off_2") = {"connector_3", "connector_b"}
  /\ Outputs("kick_off_timeout") = {}
  /\ Outputs("disprove_chain") = {}
  /\ Outputs("take_1") = {}
  /\ Outputs("assert_initial") =
       {"connector_d", "connector_e_1", "connector_e_2"}
  /\ Outputs("assert_commit_1") = {"connector_f_1"}
  /\ Outputs("assert_commit_2") = {"connector_f_2"}
  /\ Outputs("assert_final") =
       {"connector_4", "connector_5", "connector_c"}
  /\ Outputs("take_2") = {}
  /\ Outputs("disprove") = {}
  /\ Outputs("spend_a") = {}
  /\ Outputs("spend_1") = {}
  /\ Outputs("spend_2") = {}
  /\ Outputs("spend_c") = {}
BY DEF Outputs, Transaction, PegInTx, GraphTx, PegOutTx, OwnTx,
   peg_in_deposit, peg_in_refund, peg_in_confirm,
   peg_out, peg_out_confirm, kick_off_1, challenge, start_time,
   start_time_timeout, kick_off_2, kick_off_timeout, disprove_chain, take_1,
   assert_initial, assert_commit_1, assert_commit_2, assert_final, take_2,
   disprove, spend_a, spend_1, spend_2, spend_c

\* Both ways out of the deposit spend connector_z; the deposit does not.
LEMMA PegInInputs ==
  /\ Inputs("peg_in_deposit") = {}
  /\ Inputs("peg_in_confirm") = {"connector_z"}
  /\ Inputs("peg_in_refund") = {"connector_z"}
BY InputsOf

\* A connector of a peg-out graph is created by one transaction.
LEMMA CreatorOf ==
  ASSUME NEW n \in GraphTx
  PROVE  /\ "connector_0" \notin Outputs(n)
         /\ "connector_3" \in Outputs(n) => n = "kick_off_2"
         /\ "connector_b" \in Outputs(n) => n = "kick_off_2"
         /\ "connector_4" \in Outputs(n) => n = "assert_final"
         /\ "connector_5" \in Outputs(n) => n = "assert_final"
         /\ "connector_d" \in Outputs(n) => n = "assert_initial"
         /\ "connector_f_1" \in Outputs(n) => n = "assert_commit_1"
         /\ "connector_f_2" \in Outputs(n) => n = "assert_commit_2"
BY OutputsOfEach DEF GraphTx, PegOutTx, OwnTx

\* The inputs of the transactions that open a claim.
LEMMA OpeningInputs ==
  /\ Inputs("peg_out_confirm") = {}
  /\ Inputs("kick_off_1") = {"connector_6"}
  /\ Inputs("start_time") = {"connector_2"}
BY InputsOf

\* The transaction that creates a connector, and no other.
LEMMA OutputsOf ==
  ASSUME NEW n \in GraphTx
  PROVE  /\ "connector_6" \in Outputs(n) <=> n = "peg_out_confirm"
         /\ "connector_1" \in Outputs(n) <=> n = "kick_off_1"
         /\ "connector_2" \in Outputs(n) <=> n = "kick_off_1"
         /\ "connector_a" \in Outputs(n) <=> n = "kick_off_1"
         /\ "connector_3" \in Outputs(n) <=> n = "kick_off_2"
         /\ "connector_b" \in Outputs(n) <=> n = "kick_off_2"
         /\ "connector_d" \in Outputs(n) <=> n = "assert_initial"
         /\ "connector_e_1" \in Outputs(n) <=> n = "assert_initial"
         /\ "connector_e_2" \in Outputs(n) <=> n = "assert_initial"
         /\ "connector_f_1" \in Outputs(n) <=> n = "assert_commit_1"
         /\ "connector_f_2" \in Outputs(n) <=> n = "assert_commit_2"
         /\ "connector_4" \in Outputs(n) <=> n = "assert_final"
         /\ "connector_5" \in Outputs(n) <=> n = "assert_final"
         /\ "connector_c" \in Outputs(n) <=> n = "assert_final"
BY OutputsOfEach DEF GraphTx, PegOutTx, OwnTx

\* A connector that one transaction spends.
LEMMA SpenderOf ==
  ASSUME NEW n \in GraphTx
  PROVE  /\ "connector_6" \in Inputs(n) => n = "kick_off_1"
         /\ "connector_d" \in Inputs(n) => n = "assert_final"
         /\ "connector_e_1" \in Inputs(n) => n = "assert_commit_1"
         /\ "connector_e_2" \in Inputs(n) => n = "assert_commit_2"
         /\ "connector_f_1" \in Inputs(n) => n = "assert_final"
         /\ "connector_f_2" \in Inputs(n) => n = "assert_final"
BY InputsOf DEF GraphTx, PegOutTx, OwnTx

\* The transactions that compete for a connector.
LEMMA SpendersOf ==
  ASSUME NEW n \in GraphTx
  PROVE  /\ "connector_2" \in Inputs(n) =>
              n \in {"start_time", "start_time_timeout", "spend_2"}
         /\ "connector_1" \in Inputs(n) =>
              n \in {"kick_off_2", "start_time_timeout", "kick_off_timeout", "spend_1"}
         /\ "connector_a" \in Inputs(n) => n \in {"challenge", "take_1", "spend_a"}
         /\ "connector_3" \in Inputs(n) => n = "take_1"
         /\ "connector_b" \in Inputs(n) =>
              n \in {"take_1", "assert_initial", "disprove_chain"}
         /\ "connector_0" \in Inputs(n) => n \in {"take_1", "take_2"}
         /\ "connector_4" \in Inputs(n) => n = "take_2"
         /\ "connector_5" \in Inputs(n) => n \in {"take_2", "disprove"}
         /\ "connector_c" \in Inputs(n) => n \in {"take_2", "disprove", "spend_c"}
BY InputsOf DEF GraphTx, PegOutTx, OwnTx

-----------------------------------------------------------------------------
(* Types. *)

\* The age at which confirmation counts stop is a number.
LEMMA MaxAgeNat == MaxAge \in Nat
BY NetworkAssumption, PeriodAssumption
   DEF MaxAge, connector_1, num_blocks_per_network, NUM_BLOCKS_REGTEST,
       NUM_BLOCKS_TESTNET

\* Confirmation counts stay in their range.
LEMMA OlderType ==
  ASSUME NEW a \in 0..MaxAge, NEW b \in BOOLEAN
  PROVE  Older(a, b) \in 0..MaxAge
BY MaxAgeNat DEF Older

\* The mutable transactions are transactions of a peg-out graph.
LEMMA MutableIsPegOut == MutableTx \subseteq GraphTx
BY DEF MutableTx, VerifierTx, RewardTx, GraphTx, PegOutTx

\* Broadcasting a transaction of a peg-out graph keeps the pool's type.
LEMMA BroadcastType ==
  ASSUME TypeOK, NEW o \in Operators, NEW n \in GraphTx, Broadcast(o, n)
  PROVE  /\ mempool' \in [Operators -> SUBSET GraphTx]
         /\ UNCHANGED <<ledgerVars, pegInPool>>
BY DEF TypeOK, Broadcast

\* What a verifier fills in keeps the types of the pool and of the copies.
LEMMA SendFilledType ==
  ASSUME TypeOK, NEW o \in Operators, NEW n \in MutableTx, SendFilled(o, n)
  PROVE  TypeOK'
<1>1. mempool' \in [Operators -> SUBSET GraphTx]
  BY MutableIsPegOut DEF TypeOK, SendFilled
<1>2. built' \in [Operators -> SUBSET MutableTx]
  BY DEF TypeOK, SendFilled, Fill
<1> QED
  BY <1>1, <1>2 DEF TypeOK, SendFilled, ledgerVars, commitVars

\* The initial state is well typed.
LEMMA InitType == Init => TypeOK
<1> SUFFICES ASSUME Init PROVE TypeOK
  OBVIOUS
<1> 0 \in 0..MaxAge /\ 0 \in 0..MaxLag
  BY MaxAgeNat, SynchronyAssumption
<1> QED
  BY DEF Init, GraphsCreated, TypeOK

\* An operator's operation keeps the types.
LEMMA OperatorType ==
  ASSUME TypeOK, NEW o \in Operators, OperatorStep(o)
  PROVE  TypeOK'
<1> USE DEF ledgerVars, commitVars, copyVars
<1>1. CASE PegOutConfirm(o)
  <2> "peg_out_confirm" \in GraphTx BY DEF GraphTx, PegOutTx
  <2> QED BY <1>1, BroadcastType DEF PegOutConfirm, TypeOK
<1>2. CASE KickOff1(o)
  <2> "kick_off_1" \in GraphTx BY DEF GraphTx, PegOutTx
  <2> QED BY <1>2, BroadcastType DEF KickOff1, TypeOK
<1>3. CASE StartTime(o)
  <2> "start_time" \in GraphTx BY DEF GraphTx, PegOutTx
  <2>1. known' \in [Operators -> SUBSET MutableTx]
    BY <1>3 DEF StartTime, TypeOK, MutableTx
  <2> QED BY <1>3, <2>1, BroadcastType DEF StartTime, TypeOK
<1>4. CASE KickOff2(o)
  <2> "kick_off_2" \in GraphTx BY DEF GraphTx, PegOutTx
  <2>1. superblock' \in [Operators -> {"none", "heaviest", "light"}]
    BY <1>4 DEF KickOff2, TypeOK
  <2> QED BY <1>4, <2>1, BroadcastType DEF KickOff2, TypeOK
<1>5. CASE AssertInitial(o)
  <2> "assert_initial" \in GraphTx BY DEF GraphTx, PegOutTx
  <2> QED BY <1>5, BroadcastType DEF AssertInitial, TypeOK
<1>6. ASSUME NEW k \in 1..2, AssertCommit(o, k) PROVE TypeOK'
  <2> assert_commit[k] \in GraphTx BY DEF GraphTx, PegOutTx, assert_commit
  <2>1. assertion' \in [Operators -> [1..2 -> {"none", "valid", "invalid"}]]
    BY <1>6 DEF AssertCommit, TypeOK
  <2> QED BY <1>6, <2>1, BroadcastType DEF AssertCommit, TypeOK
<1>7. CASE AssertFinal(o)
  <2> "assert_final" \in GraphTx BY DEF GraphTx, PegOutTx
  <2> QED BY <1>7, BroadcastType DEF AssertFinal, TypeOK
<1>8. CASE Take1(o)
  <2> "take_1" \in GraphTx BY DEF GraphTx, PegOutTx
  <2> QED BY <1>8, BroadcastType DEF Take1, TypeOK
<1>9. CASE Take2(o)
  <2> "take_2" \in GraphTx BY DEF GraphTx, PegOutTx
  <2> QED BY <1>9, BroadcastType DEF Take2, TypeOK
<1> QED
  BY <1>1, <1>2, <1>3, <1>4, <1>5, <1>6, <1>7, <1>8, <1>9 DEF OperatorStep

\* So does what a deviating operator broadcasts.
LEMMA DeviateType ==
  ASSUME TypeOK, NEW o \in Operators, Deviate(o)
  PROVE  TypeOK'
<1> USE DEF ledgerVars, commitVars, copyVars
<1> PICK n \in GraphTx \ VerifierTx : Deviate(o)!2!(n)
  BY DEF Deviate
<1>1. superblock' \in [Operators -> {"none", "heaviest", "light"}]
  BY DEF TypeOK
<1>2. CASE UNCHANGED assertion
  BY <1>1, <1>2, BroadcastType DEF Deviate, TypeOK
<1>3. ASSUME NEW k \in 1..2, NEW v \in {"valid", "invalid"},
             assertion' = [assertion EXCEPT ![o][k] = v]
      PROVE  TypeOK'
  <2> assertion' \in [Operators -> [1..2 -> {"none", "valid", "invalid"}]]
    BY <1>3 DEF TypeOK
  <2> QED
    BY <1>1, BroadcastType DEF Deviate, TypeOK
<1> QED
  BY <1>2, <1>3

\* A verifier's operation keeps the types.
LEMMA VerifierType ==
  ASSUME TypeOK, NEW o \in Operators, VerifierStep(o)
  PROVE  TypeOK'
<1> /\ "challenge" \in MutableTx /\ "start_time_timeout" \in MutableTx
    /\ "kick_off_timeout" \in MutableTx /\ "disprove_chain" \in MutableTx
    /\ "disprove" \in MutableTx
  BY DEF MutableTx, VerifierTx, RewardTx
<1>1. CASE Challenge(o)
  BY <1>1, SendFilledType DEF Challenge
<1>2. CASE StartTimeTimeout(o)
  BY <1>2, SendFilledType DEF StartTimeTimeout
<1>3. CASE KickOffTimeout(o)
  BY <1>3, SendFilledType DEF KickOffTimeout
<1>4. CASE DisproveChain(o)
  <2>1. CASE SendFilled(o, "disprove_chain")
    BY <2>1, SendFilledType
  <2>2. CASE ~SendFilled(o, "disprove_chain")
    <3>0. Fill(o, "disprove_chain")
      BY <1>4, <2>2 DEF DisproveChain
    <3>1. built' \in [Operators -> SUBSET MutableTx]
      BY <3>0 DEF Fill, TypeOK
    <3> QED
      BY <1>4, <2>2, <3>1
         DEF DisproveChain, TypeOK, ledgerVars, poolVars, commitVars
  <2> QED BY <2>1, <2>2
<1>5. CASE Disprove(o)
  BY <1>5, SendFilledType DEF Disprove
<1> QED
  BY <1>1, <1>2, <1>3, <1>4, <1>5 DEF VerifierStep

\* Every step keeps the types.
LEMMA NextType == TypeOK /\ [Next]_vars => TypeOK'
<1> SUFFICES ASSUME TypeOK, [Next]_vars PROVE TypeOK'
  OBVIOUS
<1>1. CASE PegInDeposit \/ PegInConfirm \/ PegInRefund
  <2> PICK n \in PegInTx : BroadcastPegIn(n)
    BY <1>1 DEF PegInDeposit, PegInConfirm, PegInRefund, PegInTx
  <2> QED BY DEF BroadcastPegIn, TypeOK, ledgerVars, commitVars, copyVars
<1>2. ASSUME NEW o \in Operators,
             \/ match_and_set_peg_out_event(o) \/ PegOut(o) \/ Load(o) \/ Sync(o)
      PROVE  TypeOK'
  <2> USE DEF ledgerVars, poolVars, commitVars, copyVars
  <2>1. CASE match_and_set_peg_out_event(o)
    BY <2>1 DEF match_and_set_peg_out_event, TypeOK
  <2>2. CASE PegOut(o)
    <3> "peg_out" \in GraphTx BY DEF GraphTx, PegOutTx
    <3> QED BY <2>2, BroadcastType DEF PegOut, TypeOK
  <2>3. CASE Load(o)
    BY <2>3 DEF Load, TypeOK
  <2>4. CASE Sync(o)
    <3>1. known' \in [Operators -> SUBSET MutableTx]
      BY <2>4 DEF Sync, Merged, TypeOK
    <3> QED BY <2>4, <3>1 DEF Sync, TypeOK
  <2> QED BY <1>2, <2>1, <2>2, <2>3, <2>4
<1>3. ASSUME NEW o \in Operators, OperatorStep(o) \/ Deviate(o) \/ VerifierStep(o)
      PROVE  TypeOK'
  BY <1>3, OperatorType, DeviateType, VerifierType
<1>4. CASE Flush
  BY <1>4 DEF Flush, TypeOK, ledgerVars, poolVars, commitVars
<1>5. CASE Block
  <2>1. depositAge' \in 0..MaxAge
    <3> ("peg_in_deposit" \in pegIn) \in BOOLEAN OBVIOUS
    <3> QED BY <1>5, OlderType DEF Block, TypeOK
  <2>2. ASSUME NEW o \in Operators, NEW n \in TimedTx
        PROVE  Older(age[o][n], n \in mined[o]) \in 0..MaxAge
    <3> (n \in mined[o]) \in BOOLEAN OBVIOUS
    <3> age[o][n] \in 0..MaxAge BY DEF TypeOK
    <3> QED BY OlderType
  <2>3. age' \in [Operators -> [TimedTx -> 0..MaxAge]]
    BY <1>5, <2>2 DEF Block
  <2> QED
    BY <1>5, <2>1, <2>3 DEF Block, TypeOK, poolVars, commitVars, copyVars
<1>6. CASE Mine
  <2>1. ASSUME NEW n \in PegInTx, ConfirmPegIn(n) PROVE TypeOK'
    BY <2>1 DEF ConfirmPegIn, TypeOK, commitVars, copyVars
  <2>2. ASSUME NEW o \in Operators, NEW n \in GraphTx, Confirm(o, n)
        PROVE  TypeOK'
    <3>1. mined' \in [Operators -> SUBSET GraphTx]
      BY <2>2 DEF Confirm, TypeOK
    <3>2. mempool' \in [Operators -> SUBSET GraphTx]
      BY <2>2 DEF Confirm, TypeOK
    <3> QED BY <2>2, <3>1, <3>2 DEF Confirm, TypeOK, commitVars, copyVars
  <2> QED BY <1>6, <2>1, <2>2 DEF Mine
<1>7. CASE EndBlock
  <2> lag' \in 0..MaxLag
    BY <1>7, SynchronyAssumption DEF EndBlock, TypeOK
  <2> QED
    BY <1>7 DEF EndBlock, TypeOK, poolVars, commitVars, copyVars
<1>8. CASE UNCHANGED vars
  BY <1>8 DEF TypeOK, vars, ledgerVars, poolVars, commitVars, copyVars
<1> QED
  BY <1>1, <1>2, <1>3, <1>4, <1>5, <1>6, <1>7, <1>8 DEF Next

\* Every variable keeps its type: in particular confirmation counts do not
\* outgrow MaxAge and a copy is only ever filled in for a mutable transaction.
THEOREM TypeCorrect == Spec => []TypeOK
BY InitType, NextType, PTL DEF Spec

-----------------------------------------------------------------------------
(***************************************************************************)
(* The chain.  Only Mine changes what is on it, and it never adds a        *)
(* transaction whose inputs are missing or spent.  From the ancestors a    *)
(* transaction must have, and the rivals it excludes, follows what the     *)
(* graphs promise.                                                         *)
(***************************************************************************)

\* Steps other than Mine leave the mined transactions alone.
LEMMA OnlyMineMines == [Next]_vars => UNCHANGED <<pegIn, mined>> \/ Mine
<1> SUFFICES ASSUME [Next]_vars PROVE UNCHANGED <<pegIn, mined>> \/ Mine
  OBVIOUS
<1> USE DEF ledgerVars
<1>1. CASE PegInDeposit \/ PegInConfirm \/ PegInRefund
  BY <1>1 DEF PegInDeposit, PegInConfirm, PegInRefund, BroadcastPegIn
<1>2. ASSUME NEW o \in Operators,
             match_and_set_peg_out_event(o) \/ PegOut(o) \/ Load(o) \/ Sync(o)
      PROVE  UNCHANGED <<pegIn, mined>>
  BY <1>2 DEF match_and_set_peg_out_event, PegOut, Load, Sync, Broadcast
<1>3. ASSUME NEW o \in Operators, OperatorStep(o)
      PROVE  UNCHANGED <<pegIn, mined>>
  BY <1>3 DEF OperatorStep, PegOutConfirm, KickOff1, StartTime, KickOff2,
     AssertInitial, AssertCommit, AssertFinal, Take1, Take2, Broadcast
<1>4. ASSUME NEW o \in Operators, Deviate(o)
      PROVE  UNCHANGED <<pegIn, mined>>
  BY <1>4 DEF Deviate, Broadcast
<1>5. ASSUME NEW o \in Operators, VerifierStep(o)
      PROVE  UNCHANGED <<pegIn, mined>>
  BY <1>5 DEF VerifierStep, Challenge, StartTimeTimeout, KickOffTimeout,
     DisproveChain, Disprove, SendFilled
<1>6. CASE Flush \/ Block \/ EndBlock
  BY <1>6 DEF Flush, Block, EndBlock
<1>7. CASE UNCHANGED vars
  BY <1>7 DEF vars
<1> QED
  BY <1>1, <1>2, <1>3, <1>4, <1>5, <1>6, <1>7 DEF Next

\* A mined transaction of a graph keeps the invariant.
LEMMA ConfirmInv ==
  ASSUME GraphInv, NEW o \in Operators, NEW n \in GraphTx, Confirm(o, n)
  PROVE  Ancestry' /\ NoDoubleSpend' /\ PegInSound'
<1>1. /\ pegIn' = pegIn
      /\ mined' = [mined EXCEPT ![o] = @ \cup {n}]
      /\ \A c \in Inputs(n) : Created(c, pegIn, mined[o]) /\ ~Spent(o, c)
  BY DEF Confirm, Confirmable
<1>2. mined \in [Operators -> SUBSET GraphTx]
  BY DEF GraphInv, TypeOK
<1>3. \A p \in Operators : mined[p] \subseteq mined'[p]
  BY <1>1, <1>2
<1>4. Ancestry'
  <2> SUFFICES ASSUME NEW p \in Operators, NEW m \in mined'[p],
                      NEW c \in Inputs(m)
               PROVE  Created(c, pegIn', mined'[p])
    BY DEF Ancestry
  <2>1. Created(c, pegIn, mined[p])
    BY <1>1, <1>2 DEF GraphInv, Ancestry
  <2> QED
    BY <2>1, <1>1, <1>3 DEF Created
<1>5. NoDoubleSpend'
  <2> SUFFICES ASSUME NEW p \in Operators, NEW q \in Operators,
                      NEW a \in mined'[p], NEW b \in mined'[q],
                      Conflict(p, a, q, b)
               PROVE  p = q /\ a = b
    BY DEF NoDoubleSpend, Conflict
  <2>1. CASE a \in mined[p] /\ b \in mined[q]
    BY <2>1 DEF GraphInv, NoDoubleSpend
  <2>2. CASE p = o /\ a = n /\ b \in mined[q]
    BY <2>2, <1>1 DEF Conflict, Spent
  <2>3. CASE q = o /\ b = n /\ a \in mined[p]
    BY <2>3, <1>1 DEF Conflict, Spent
  <2>4. CASE p = o /\ a = n /\ q = o /\ b = n
    BY <2>4
  <2> QED
    BY <1>1, <1>2, <2>1, <2>2, <2>3, <2>4
<1>6. PegInSound'
  BY <1>1 DEF GraphInv, PegInSound
<1> QED
  BY <1>4, <1>5, <1>6

\* A mined transaction of the peg-in keeps the invariant.
LEMMA ConfirmPegInInv ==
  ASSUME GraphInv, NEW n \in PegInTx, ConfirmPegIn(n)
  PROVE  Ancestry' /\ NoDoubleSpend' /\ PegInSound'
<1>1. mined' = mined /\ pegIn' = pegIn \cup {n} /\ PegInConfirmable(n)
  BY DEF ConfirmPegIn
<1>2. Ancestry'
  BY <1>1 DEF GraphInv, Ancestry, Created
<1>3. NoDoubleSpend'
  BY <1>1 DEF GraphInv, NoDoubleSpend, Conflict
<1>4. PegInSound'
  <2>1. n \in {"peg_in_confirm", "peg_in_refund"} =>
           "peg_in_deposit" \in pegIn /\ PegInUnspent
    BY <1>1, PegInInputs DEF PegInConfirmable
  <2>2. PegInUnspent =>
           "peg_in_confirm" \notin pegIn /\ "peg_in_refund" \notin pegIn
    BY PegInInputs DEF PegInUnspent
  <2> QED
    BY <1>1, <2>1, <2>2 DEF GraphInv, PegInSound
<1> QED
  BY <1>2, <1>3, <1>4

\* GraphInv is inductive.
LEMMA GraphInvInductive ==
  /\ Init => GraphInv
  /\ GraphInv /\ [Next]_vars => GraphInv'
<1>1. Init => GraphInv
  BY InitType
     DEF Init, GraphsCreated, GraphInv, Ancestry, NoDoubleSpend, PegInSound
<1>2. ASSUME GraphInv, [Next]_vars PROVE GraphInv'
  <2>1. TypeOK'
    BY <1>2, NextType DEF GraphInv
  <2>2. CASE UNCHANGED <<pegIn, mined>>
    BY <1>2, <2>1, <2>2
       DEF GraphInv, Ancestry, Created, NoDoubleSpend, Conflict, PegInSound
  <2>3. CASE Mine
    BY <1>2, <2>1, <2>3, ConfirmInv, ConfirmPegInInv DEF Mine, GraphInv
  <2> QED
    BY <1>2, <2>2, <2>3, OnlyMineMines
<1> QED
  BY <1>1, <1>2

\* The chain holds the graphs as they were wired, whatever the clients, the
\* operators and the miners do.
THEOREM GraphInvHolds == Spec => []GraphInv
BY GraphInvInductive, PTL DEF Spec

\* What must have been mined before the transactions that end a claim.
LEMMA Ancestors ==
  ASSUME GraphInv, NEW o \in Operators
  PROVE  /\ "take_1" \in mined[o] =>
              "kick_off_2" \in mined[o] /\ "peg_in_confirm" \in pegIn
         /\ "take_2" \in mined[o] =>
              "assert_final" \in mined[o] /\ "peg_in_confirm" \in pegIn
         /\ "disprove" \in mined[o] => "assert_final" \in mined[o]
         /\ "disprove_chain" \in mined[o] => "kick_off_2" \in mined[o]
         /\ "assert_final" \in mined[o] =>
              {"assert_initial", "assert_commit_1", "assert_commit_2"}
                \subseteq mined[o]
         /\ "assert_initial" \in mined[o] => "kick_off_2" \in mined[o]
<1>1. mined[o] \subseteq GraphTx
  BY DEF GraphInv, TypeOK
<1>2. \A n \in mined[o] : \A c \in Inputs(n) :
         IF c = "connector_0" THEN "peg_in_confirm" \in pegIn
                              ELSE \E m \in mined[o] : c \in Outputs(m)
  BY DEF GraphInv, Ancestry, Created
<1>3. "take_1" \in mined[o] =>
        "kick_off_2" \in mined[o] /\ "peg_in_confirm" \in pegIn
  BY <1>1, <1>2, InputsOf, CreatorOf
<1>4. "take_2" \in mined[o] =>
        "assert_final" \in mined[o] /\ "peg_in_confirm" \in pegIn
  BY <1>1, <1>2, InputsOf, CreatorOf
<1>5. "disprove" \in mined[o] => "assert_final" \in mined[o]
  BY <1>1, <1>2, InputsOf, CreatorOf
<1>6. "disprove_chain" \in mined[o] => "kick_off_2" \in mined[o]
  BY <1>1, <1>2, InputsOf, CreatorOf
<1>7. "assert_final" \in mined[o] => "assert_initial" \in mined[o]
  BY <1>1, <1>2, InputsOf, CreatorOf
<1>8. "assert_final" \in mined[o] => "assert_commit_1" \in mined[o]
  BY <1>1, <1>2, InputsOf, CreatorOf
<1>9. "assert_final" \in mined[o] => "assert_commit_2" \in mined[o]
  BY <1>1, <1>2, InputsOf, CreatorOf
<1>10. "assert_initial" \in mined[o] => "kick_off_2" \in mined[o]
  BY <1>1, <1>2, InputsOf, CreatorOf
<1> QED
  BY <1>3, <1>4, <1>5, <1>6, <1>7, <1>8, <1>9, <1>10

\* Two mined transactions of a graph that share an input are the same one.
LEMMA Rivals ==
  ASSUME GraphInv, NEW o \in Operators, NEW n \in mined[o], NEW m \in mined[o],
         NEW c \in Inputs(n), c \in Inputs(m)
  PROVE  n = m
BY DEF GraphInv, NoDoubleSpend, Conflict

\* kick_off_2 rules out the timeouts, assert_initial rules out what else spends
\* connector_b, take_2 rules out disprove, and a challenge rules out take_1.
LEMMA Exclusions ==
  ASSUME GraphInv, NEW o \in Operators
  PROVE  /\ "kick_off_2" \in mined[o] =>
              /\ "start_time_timeout" \notin mined[o]
              /\ "kick_off_timeout" \notin mined[o]
         /\ "assert_initial" \in mined[o] =>
              "disprove_chain" \notin mined[o] /\ "take_1" \notin mined[o]
         /\ "take_1" \in mined[o] => "disprove_chain" \notin mined[o]
         /\ "take_2" \in mined[o] => "disprove" \notin mined[o]
         /\ "challenge" \in mined[o] => "take_1" \notin mined[o]
<1>1. \A c \in {"connector_1"} :
         /\ c \in Inputs("kick_off_2") /\ c \in Inputs("start_time_timeout")
         /\ c \in Inputs("kick_off_timeout")
  BY InputsOf
<1>2. \A c \in {"connector_b"} :
         /\ c \in Inputs("assert_initial") /\ c \in Inputs("disprove_chain")
         /\ c \in Inputs("take_1")
  BY InputsOf
<1>3. /\ "connector_5" \in Inputs("take_2") /\ "connector_5" \in Inputs("disprove")
      /\ "connector_a" \in Inputs("challenge") /\ "connector_a" \in Inputs("take_1")
  BY InputsOf
<1> QED
  BY <1>1, <1>2, <1>3, Rivals

\* In every state of the invariant no slashed operator is reimbursed.
LEMMA InvSlashed == GraphInv => SlashedNeverReimbursed
<1> SUFFICES ASSUME GraphInv, NEW o \in Operators, Reimbursed(o), Slashed(o)
             PROVE  FALSE
  BY DEF SlashedNeverReimbursed
<1>1. CASE "take_1" \in mined[o]
  BY <1>1, Ancestors, Exclusions DEF Slashed, RewardTx
<1>2. CASE "take_2" \in mined[o]
  BY <1>2, Ancestors, Exclusions DEF Slashed, RewardTx
<1> QED
  BY <1>1, <1>2 DEF Reimbursed

\* No operator whose deposit was burnt by a timeout or a disprove transaction is
\* reimbursed: kick_off_2, assert_initial and take_2 each spend what the
\* transaction that punishes the operator needs.
THEOREM SlashedSafe == Spec => []SlashedNeverReimbursed
BY GraphInvHolds, InvSlashed, PTL

\* A challenged operator can only be reimbursed by take_2, and take_2 has all
\* the assert transactions among its ancestors.
THEOREM ChallengeSafe == Spec => []ChallengeForcesAssertion
<1>1. GraphInv => ChallengeForcesAssertion
  BY Ancestors, Exclusions DEF ChallengeForcesAssertion, Reimbursed
<1> QED
  BY <1>1, GraphInvHolds, PTL

\* The output of the peg-in is paid to one operator, by one transaction.
THEOREM PaidOnceSafe == Spec => []PaidOnce
<1>1. GraphInv => PaidOnce
  BY InputsOf DEF GraphInv, NoDoubleSpend, Conflict, PaidOnce
<1> QED
  BY <1>1, GraphInvHolds, PTL

-----------------------------------------------------------------------------
(* The graphs implement PegFunds. *)

\* Nobody is reimbursed before the peg-in is confirmed.
LEMMA ReimbursedAfterPegIn ==
  ASSUME GraphInv, NEW o \in Operators, Reimbursed(o)
  PROVE  "peg_in_confirm" \in pegIn
BY Ancestors DEF Reimbursed

\* What leaves the mined transactions alone leaves PegFunds alone.
LEMMA FundsStutter ==
  ASSUME UNCHANGED <<pegIn, mined>>
  PROVE  UNCHANGED <<funds, outcome>>
<1>1. \A o \in Operators : /\ Reimbursed(o)' <=> Reimbursed(o)
                           /\ Slashed(o)' <=> Slashed(o)
  BY DEF Reimbursed, Slashed
<1>2. funds' = funds
  BY <1>1 DEF funds
<1>3. outcome' = outcome
  BY <1>1 DEF outcome
<1> QED
  BY <1>2, <1>3

\* A mined transaction of the peg-in is a deposit, a lock or a refund.
LEMMA FundsPegIn ==
  ASSUME GraphInv, NEW n \in PegInTx, ConfirmPegIn(n)
  PROVE  Funds!Next \/ UNCHANGED <<funds, outcome>>
<1>1. mined' = mined /\ pegIn' = pegIn \cup {n} /\ PegInConfirmable(n)
  BY DEF ConfirmPegIn
<1>2. \A o \in Operators : /\ Reimbursed(o)' <=> Reimbursed(o)
                           /\ Slashed(o)' <=> Slashed(o)
  BY <1>1 DEF Reimbursed, Slashed
<1>3. outcome' = outcome
  BY <1>2 DEF outcome
<1>4. CASE n \in pegIn
  <2> pegIn' = pegIn
    BY <1>1, <1>4
  <2> QED
    BY <1>1, FundsStutter
<1>5. CASE n = "peg_in_deposit" /\ n \notin pegIn
  <2>1. "peg_in_confirm" \notin pegIn /\ "peg_in_refund" \notin pegIn
    BY <1>5 DEF GraphInv, PegInSound
  <2>2. \A o \in Operators : ~Reimbursed(o)
    BY <2>1, ReimbursedAfterPegIn
  <2>3. funds = "unfunded" /\ funds' = "deposited"
    BY <1>1, <1>2, <1>5, <2>1, <2>2 DEF funds
  <2> QED
    BY <1>3, <2>3 DEF Funds!Next, Funds!Deposit
<1>6. CASE n \in {"peg_in_confirm", "peg_in_refund"} /\ n \notin pegIn
  <2>1. "peg_in_deposit" \in pegIn /\ PegInUnspent
    BY <1>1, <1>6, PegInInputs DEF PegInConfirmable
  <2>2. "peg_in_confirm" \notin pegIn /\ "peg_in_refund" \notin pegIn
    BY <2>1, PegInInputs DEF PegInUnspent
  <2>3. \A o \in Operators : ~Reimbursed(o)
    BY <2>2, ReimbursedAfterPegIn
  <2>4. funds = "deposited"
    BY <2>1, <2>2, <2>3 DEF funds
  <2>5. funds' = IF n = "peg_in_confirm" THEN "locked" ELSE "refunded"
    BY <1>1, <1>2, <1>6, <2>2, <2>3 DEF funds
  <2> QED
    BY <1>3, <1>6, <2>4, <2>5 DEF Funds!Next, Funds!Lock, Funds!Refund
<1> QED
  BY <1>4, <1>5, <1>6 DEF PegInTx

\* A mined transaction of a graph pays the operator, slashes it or neither.
LEMMA FundsConfirm ==
  ASSUME GraphInv, GraphInv', NEW o \in Operators, NEW n \in GraphTx,
         Confirm(o, n)
  PROVE  Funds!Next \/ UNCHANGED <<funds, outcome>>
<1>1. /\ pegIn' = pegIn
      /\ mined' = [mined EXCEPT ![o] = @ \cup {n}]
      /\ \A c \in Inputs(n) : ~Spent(o, c)
  BY DEF Confirm, Confirmable
<1>2. mined \in [Operators -> SUBSET GraphTx]
  BY DEF GraphInv, TypeOK
<1>3. /\ mined'[o] = mined[o] \cup {n}
      /\ \A p \in Operators \ {o} : mined'[p] = mined[p]
  BY <1>1, <1>2
<1>4. \A p \in Operators \ {o} : /\ Reimbursed(p)' <=> Reimbursed(p)
                                 /\ Slashed(p)' <=> Slashed(p)
  BY <1>3 DEF Reimbursed, Slashed
<1>5. CASE n \in {"take_1", "take_2"}
  <2>1. "connector_0" \in Inputs(n)
    BY <1>5, InputsOf
  <2>2. \A p \in Operators : ~Reimbursed(p)
    BY <1>1, <2>1, InputsOf DEF Reimbursed, Spent
  <2>3. Reimbursed(o)'
    BY <1>3, <1>5 DEF Reimbursed
  <2>4. "peg_in_confirm" \in pegIn
    BY <1>1, <2>1 DEF Confirm, Confirmable, Created
  <2>5. ~Slashed(o)
    <3>1. GraphInv' => SlashedNeverReimbursed'
      BY InvSlashed, PTL
    <3>2. ~Slashed(o)'
      BY <2>3, <3>1 DEF SlashedNeverReimbursed
    <3> QED
      BY <1>3, <3>2 DEF Slashed
  <2>6. funds = "locked" /\ funds' = "paid"
    BY <2>2, <2>3, <2>4 DEF funds
  <2>7. outcome[o] = "open" /\ outcome' = [outcome EXCEPT ![o] = "reimbursed"]
    BY <1>4, <2>2, <2>3, <2>5 DEF outcome
  <2> QED
    BY <2>6, <2>7 DEF Funds!Next, Funds!Reimburse
<1>6. CASE n \notin {"take_1", "take_2"}
  <2>1. \A p \in Operators : Reimbursed(p)' <=> Reimbursed(p)
    BY <1>3, <1>4, <1>6 DEF Reimbursed
  <2>2. funds' = funds
    BY <1>1, <2>1 DEF funds
  <2>3. CASE Slashed(o)' <=> Slashed(o)
    <3> outcome' = outcome
      BY <1>4, <2>1, <2>3 DEF outcome
    <3> QED
      BY <2>2
  <2>4. CASE ~(Slashed(o)' <=> Slashed(o))
    <3>1. Slashed(o)' /\ ~Slashed(o)
      BY <1>3, <2>4 DEF Slashed
    <3>2. GraphInv' => SlashedNeverReimbursed'
      BY InvSlashed, PTL
    <3>3. ~Reimbursed(o)
      BY <2>1, <3>1, <3>2 DEF SlashedNeverReimbursed
    <3>4. outcome[o] = "open" /\ outcome' = [outcome EXCEPT ![o] = "slashed"]
      BY <1>4, <2>1, <3>1, <3>3 DEF outcome
    <3> QED
      BY <2>2, <3>4 DEF Funds!Next, Funds!Slash
  <2> QED
    BY <2>3, <2>4
<1> QED
  BY <1>5, <1>6

\* For any operators and any timelocks, the detailed specification implements
\* PegFunds: the deposit is refunded or locked, a locked deposit is paid once,
\* and every operator is reimbursed or slashed but not both.
THEOREM Refinement == Spec => FundsRefined
<1>1. Init => Funds!Init
  <2> SUFFICES ASSUME Init PROVE Funds!Init
    OBVIOUS
  <2>1. \A o \in Operators : ~Reimbursed(o) /\ ~Slashed(o)
    BY DEF Init, GraphsCreated, Reimbursed, Slashed
  <2>2. funds = "unfunded"
    BY <2>1 DEF Init, funds
  <2>3. outcome = [o \in Operators |-> "open"]
    BY <2>1 DEF outcome
  <2> QED
    BY <2>2, <2>3 DEF Funds!Init
<1>2. GraphInv /\ GraphInv' /\ [Next]_vars => [Funds!Next]_(Funds!pfVars)
  <2> SUFFICES ASSUME GraphInv, GraphInv', [Next]_vars
               PROVE  Funds!Next \/ UNCHANGED <<funds, outcome>>
    BY DEF Funds!pfVars
  <2>1. CASE UNCHANGED <<pegIn, mined>>
    BY <2>1, FundsStutter
  <2>2. CASE Mine
    BY <2>2, FundsPegIn, FundsConfirm DEF Mine
  <2> QED
    BY <2>1, <2>2, OnlyMineMines
<1> QED
  BY <1>1, <1>2, GraphInvHolds, PTL DEF Spec, FundsRefined, Funds!Spec

=============================================================================
