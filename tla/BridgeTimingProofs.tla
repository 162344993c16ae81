-------------------------- MODULE BridgeTimingProofs --------------------------
(***************************************************************************)
(* Theorems about BridgeGraph in a synchronous network: what the timelocks *)
(* of mainnet give clients that follow their status between blocks.  The   *)
(* hypotheses bound how late the pool is emptied by the timelocks that it  *)
(* must not outlast; the timelocks themselves are any that satisfy the     *)
(* assumptions of Connectors.                                              *)
(***************************************************************************)
EXTENDS BridgeGraphProofs, SequenceTheorems

\* A transaction is mined earlier than six hours after it could be.
PromptOperators ==
  Synchronous /\ Network = "Bitcoin" /\ MaxLag < NUM_BLOCKS_PER_6_HOURS

\* The verifiers challenge on sight, and what they send is mined before the two
\* weeks of connector_1 and of connector_4 are over.
PromptVerifiers ==
  /\ Synchronous /\ Network = "Bitcoin" /\ Vigilant
  /\ MaxLag + 1 < NUM_BLOCKS_PER_2_WEEKS

-----------------------------------------------------------------------------
(* What the clients' steps may put into the pool. *)

\* The conditions, beyond those of the node, under which n is sent.
MaySend(o, n) ==
  /\ n = "peg_out" => o \in Deviating \/ event[o]
  /\ n = "peg_out_confirm" => o \in Deviating \/ "peg_out" \in mined[o]
  /\ n = "kick_off_2" => o \notin Automatic \/ "start_time" \in mined[o]
  /\ n = "assert_initial" => o \notin Automatic \/ "challenge" \in mined[o]
  /\ n \in OwnTx => o \in Deviating
  /\ n = "start_time_timeout" =>
       connector_1.start_time_timeout <= age[o]["kick_off_1"]
  /\ n = "kick_off_timeout" =>
       connector_1.kick_off_timeout <= age[o]["kick_off_1"]

\* The pool of o's graph only grows, by what may be sent and is accepted.
Sends(o) ==
  /\ mempool[o] \subseteq mempool'[o]
  /\ event[o] => event'[o]
  /\ \A n \in mempool'[o] \ mempool[o] : ~mining /\ Accepts(o, n) /\ MaySend(o, n)

\* A commitment changes only with the transaction that reveals it.
Commits(o) ==
  /\ superblock'[o] # superblock[o] =>
       /\ "kick_off_2" \notin mined[o]
       /\ o \in Deviating \/ superblock'[o] = "heaviest"
  /\ \A k \in 1..2 :
       /\ assertion'[o][k] # assertion[o][k] =>
            /\ Accepts(o, assert_commit[k])
            /\ assertion'[o][k] # "none"
            /\ superblock'[o] = superblock[o]
            /\ o \in Deviating /\ assertion'[o][k] = "valid" => ~Unfounded(o)
            /\ o \notin Deviating =>
                 assertion'[o][k] = "valid" /\ "assert_initial" \in mined[o]
       /\ assert_commit[k] \in mempool'[o] \ mempool[o] =>
            assertion'[o][k] # "none"

\* Every copy of o's graph, and every file.
Copies(o) == built[o] \cup known[o] \cup published[o]

\* A challenge is filled in once kick_off_1 is mined, and sent.
Fills(o) ==
  "challenge" \in Copies(o)' \ Copies(o) =>
    /\ "kick_off_1" \in mined[o]
    /\ Accepts(o, "challenge") => "challenge" \in mempool'[o]

ClientStep ==
  /\ UNCHANGED ledgerVars
  /\ \A o \in Operators : Sends(o) /\ Commits(o) /\ Fills(o)

\* No copy and no file has a challenge that none had before.
NoneFilled ==
  \A o \in Operators : "challenge" \in Copies(o)' => "challenge" \in Copies(o)

\* A step that leaves the pool and the commitments alone, and fills in nothing.
LEMMA IdleStep ==
  ASSUME UNCHANGED ledgerVars, UNCHANGED mempool, UNCHANGED commitVars,
         NoneFilled, \A o \in Operators : event[o] => event'[o]
  PROVE  ClientStep
BY DEF ClientStep, Sends, Commits, Fills, NoneFilled, commitVars

\* What leaves the copies alone fills in nothing.
LEMMA SameCopies == UNCHANGED copyVars => NoneFilled
BY DEF copyVars, NoneFilled, Copies

\* A broadcast changes one pool, by the transaction that the node accepted.
LEMMA Broadcasts ==
  ASSUME TypeOK, NEW p \in Operators, NEW n \in GraphTx, Broadcast(p, n)
  PROVE  /\ UNCHANGED ledgerVars
         /\ ~mining /\ Accepts(p, n) /\ n \notin mempool[p]
         /\ mempool'[p] = mempool[p] \cup {n}
         /\ \A o \in Operators : o # p => mempool'[o] = mempool[o]
BY DEF Broadcast, TypeOK

\* A broadcast that reveals nothing is a client step.
LEMMA PlainBroadcast ==
  ASSUME TypeOK, NEW p \in Operators, NEW n \in GraphTx, Broadcast(p, n),
         UNCHANGED <<event, commitVars>>, NoneFilled, MaySend(p, n),
         n \notin {"assert_commit_1", "assert_commit_2"}
  PROVE  ClientStep
<1>1. \A k \in 1..2 : assert_commit[k] \in {"assert_commit_1", "assert_commit_2"}
  BY DEF assert_commit
<1>2. UNCHANGED <<event, superblock, assertion>>
  BY DEF commitVars
<1>3. \A o \in Operators : Sends(o)
  BY <1>2, Broadcasts DEF Sends
<1>4. \A o \in Operators : Commits(o)
  BY <1>1, <1>2, Broadcasts DEF Commits
<1>5. \A o \in Operators : Fills(o)
  BY DEF NoneFilled, Fills
<1> QED
  BY <1>3, <1>4, <1>5, Broadcasts DEF ClientStep

\* The status in which the automatic command broadcasts kick_off_2.
LEMMA KickOff2Prompted ==
  ASSUME NEW o \in Operators, o \in Automatic, Runs(o, "kick_off_2")
  PROVE  "start_time" \in mined[o]
<1>1. OperatorStatus(o) = "PegOutKickOff2Available"
  BY DEF Runs, process_peg_outs
<1>2. KickOff1Status(o) = "PegOutKickOff2Available"
  BY <1>1 DEF OperatorStatus, KickOff2Status, DisputeStatus
<1> QED
  BY <1>2 DEF KickOff1Status, Sees, SeenWith

\* And assert_initial.
LEMMA AssertInitialPrompted ==
  ASSUME NEW o \in Operators, o \in Automatic, Runs(o, "assert_initial")
  PROVE  "challenge" \in mined[o]
<1>1. OperatorStatus(o) = "PegOutAssertInitialAvailable"
  BY DEF Runs, process_peg_outs
<1> QED
  BY <1>1 DEF OperatorStatus, KickOff2Status, KickOff1Status, Sees, SeenWith

\* What an operator's client does.
LEMMA OperatorSends ==
  ASSUME TypeOK, NEW p \in Operators, OperatorStep(p)
  PROVE  ClientStep
<1>0. p \notin Deviating
  BY DEF OperatorStep, PegOutConfirm, KickOff1, StartTime, KickOff2,
     AssertInitial, AssertCommit, AssertFinal, Take1, Take2, Runs
<1>1. CASE PegOutConfirm(p)
  <2>1. "peg_out_confirm" \in GraphTx BY DEF GraphTx, PegOutTx
  <2>2. MaySend(p, "peg_out_confirm")
    BY <1>1 DEF PegOutConfirm, Sees, SeenWith, MaySend, OwnTx
  <2> QED BY <1>1, <2>1, <2>2, PlainBroadcast, SameCopies DEF PegOutConfirm
<1>2. CASE KickOff1(p)
  <2>1. "kick_off_1" \in GraphTx /\ MaySend(p, "kick_off_1")
    BY DEF GraphTx, PegOutTx, OwnTx, MaySend
  <2> QED BY <1>2, <2>1, PlainBroadcast, SameCopies DEF KickOff1
<1>3. CASE StartTime(p)
  <2>1. "start_time" \in GraphTx /\ MaySend(p, "start_time")
    BY DEF GraphTx, PegOutTx, OwnTx, MaySend
  <2>2. NoneFilled
    BY <1>3 DEF StartTime, TypeOK, NoneFilled, Copies
  <2> QED BY <1>3, <2>1, <2>2, PlainBroadcast DEF StartTime
<1>4. CASE KickOff2(p)
  <2>1. "kick_off_2" \in GraphTx BY DEF GraphTx, PegOutTx
  <2>2. MaySend(p, "kick_off_2")
    BY <1>4, KickOff2Prompted DEF KickOff2, MaySend, OwnTx
  <2>3. Broadcast(p, "kick_off_2") /\ UNCHANGED <<event, assertion, copyVars>>
    BY <1>4 DEF KickOff2
  <2>4. /\ superblock'[p] = "heaviest"
        /\ \A o \in Operators : o # p => superblock'[o] = superblock[o]
    BY <1>4 DEF KickOff2, TypeOK
  <2>5. \A k \in 1..2 : assert_commit[k] # "kick_off_2"
    BY DEF assert_commit
  <2>6. "kick_off_2" \notin mined[p]
    BY <2>3 DEF Broadcast, Accepts
  <2>7. \A o \in Operators : Sends(o)
    BY <2>1, <2>2, <2>3, Broadcasts DEF Sends
  <2>8. \A o \in Operators : Commits(o)
    BY <2>1, <2>3, <2>4, <2>5, <2>6, Broadcasts DEF Commits
  <2>9. \A o \in Operators : Fills(o)
    BY <2>3, SameCopies DEF NoneFilled, Fills
  <2> QED BY <2>1, <2>3, <2>7, <2>8, <2>9, Broadcasts DEF ClientStep
<1>5. CASE AssertInitial(p)
  <2>1. "assert_initial" \in GraphTx /\ MaySend(p, "assert_initial")
    BY <1>5, AssertInitialPrompted DEF AssertInitial, GraphTx, PegOutTx, OwnTx, MaySend
  <2> QED BY <1>5, <2>1, PlainBroadcast, SameCopies DEF AssertInitial
<1>6. ASSUME NEW j \in 1..2, AssertCommit(p, j) PROVE ClientStep
  <2>1. assert_commit[j] \in GraphTx /\ MaySend(p, assert_commit[j])
    BY DEF GraphTx, PegOutTx, OwnTx, MaySend, assert_commit
  <2>2. Broadcast(p, assert_commit[j]) /\ UNCHANGED <<event, superblock, copyVars>>
    BY <1>6 DEF AssertCommit
  <2>3. /\ assertion'[p][j] = "valid"
        /\ \A k \in 1..2 : k # j => assertion'[p][k] = assertion[p][k]
        /\ \A o \in Operators : o # p => assertion'[o] = assertion[o]
    BY <1>6 DEF AssertCommit, TypeOK
  <2>4. \A k \in 1..2 : k # j => assert_commit[k] # assert_commit[j]
    BY DEF assert_commit
  <2>5. "assert_initial" \in mined[p]
    BY <1>6 DEF AssertCommit, Sees, SeenWith
  <2>6. \A o \in Operators : Sends(o)
    BY <2>1, <2>2, Broadcasts DEF Sends
  <2>7. ASSUME NEW o \in Operators PROVE Commits(o)
    <3>1. CASE o = p
      BY <1>0, <2>1, <2>2, <2>3, <2>4, <2>5, <3>1, Broadcasts DEF Commits
    <3>2. CASE o # p
      BY <2>1, <2>2, <2>3, <3>2, Broadcasts DEF Commits
    <3> QED BY <3>1, <3>2
  <2>8. \A o \in Operators : Fills(o)
    BY <2>2, SameCopies DEF NoneFilled, Fills
  <2> QED BY <2>1, <2>2, <2>6, <2>7, <2>8, Broadcasts DEF ClientStep
<1>7. CASE AssertFinal(p)
  <2>1. "assert_final" \in GraphTx /\ MaySend(p, "assert_final")
    BY DEF GraphTx, PegOutTx, OwnTx, MaySend
  <2> QED BY <1>7, <2>1, PlainBroadcast, SameCopies DEF AssertFinal
<1>8. CASE Take1(p)
  <2>1. "take_1" \in GraphTx /\ MaySend(p, "take_1")
    BY DEF GraphTx, PegOutTx, OwnTx, MaySend
  <2> QED BY <1>8, <2>1, PlainBroadcast, SameCopies DEF Take1
<1>9. CASE Take2(p)
  <2>1. "take_2" \in GraphTx /\ MaySend(p, "take_2")
    BY DEF GraphTx, PegOutTx, OwnTx, MaySend
  <2> QED BY <1>9, <2>1, PlainBroadcast, SameCopies DEF Take2
<1> QED
  BY <1>1, <1>2, <1>3, <1>4, <1>5, <1>6, <1>7, <1>8, <1>9 DEF OperatorStep

\* What an operator broadcasts that does not run this client.
LEMMA DeviantSends ==
  ASSUME TypeOK, NEW p \in Operators, Deviate(p)
  PROVE  ClientStep
<1> PICK n \in GraphTx \ VerifierTx : Deviate(p)!2!(n)
  BY DEF Deviate
<1>1. /\ p \in Deviating /\ p \notin Automatic
      /\ Broadcast(p, n) /\ UNCHANGED <<event, built, published>>
      /\ known' = [known EXCEPT ![p] = @ \cup ({n} \cap MutableTx)]
  BY OperatorAssumption DEF Deviate
<1>2. MaySend(p, n)
  BY <1>1 DEF MaySend, VerifierTx, RewardTx
<1>3. \A o \in Operators : Sends(o)
  BY <1>1, <1>2, Broadcasts DEF Sends
<1>4. \A o \in Operators : Fills(o)
  <2> n # "challenge"
    BY DEF VerifierTx
  <2> QED BY <1>1 DEF TypeOK, Fills, Copies
<1>5. \A o \in Operators : Commits(o)
  <2>0. \A k \in 1..2 : assert_commit[k] # "kick_off_2"
    BY DEF assert_commit
  <2>1. CASE n = "kick_off_2" /\ UNCHANGED assertion
                /\ \E w \in {"heaviest", "light"} :
                     superblock' = [superblock EXCEPT ![p] = w]
    <3>1. \A o \in Operators : o # p => superblock'[o] = superblock[o]
      BY <2>1 DEF TypeOK
    <3>2. "kick_off_2" \notin mined[p]
      BY <1>1, <2>1 DEF Broadcast, Accepts
    <3> QED BY <1>1, <2>0, <2>1, <3>1, <3>2, Broadcasts DEF Commits
  <2>2. ASSUME NEW j \in 1..2, NEW v \in {"valid", "invalid"},
               n = assert_commit[j],
               v = "valid" => "peg_out" \in mined[p] \/ superblock[p] = "light",
               assertion' = [assertion EXCEPT ![p][j] = v], UNCHANGED superblock
        PROVE  \A o \in Operators : Commits(o)
    <3>1. /\ assertion'[p][j] = v
          /\ \A k \in 1..2 : k # j => assertion'[p][k] = assertion[p][k]
          /\ \A o \in Operators : o # p => assertion'[o] = assertion[o]
      BY <2>2 DEF TypeOK
    <3>2. \A k \in 1..2 : k # j => assert_commit[k] # assert_commit[j]
      BY DEF assert_commit
    <3>3. v = "valid" => ~Unfounded(p)
      BY <2>2 DEF Unfounded
    <3> SUFFICES ASSUME NEW o \in Operators PROVE Commits(o)
      OBVIOUS
    <3>4. CASE o = p
      BY <1>1, <2>2, <3>1, <3>2, <3>3, <3>4, Broadcasts DEF Commits
    <3>5. CASE o # p
      BY <1>1, <2>2, <3>1, <3>5, Broadcasts DEF Commits
    <3> QED BY <3>4, <3>5
  <2>3. CASE (\A k \in 1..2 : n # assert_commit[k]) /\ UNCHANGED commitVars
    BY <1>1, <2>3, Broadcasts DEF Commits, commitVars
  <2> QED BY <2>1, <2>2, <2>3
<1> QED
  BY <1>1, <1>3, <1>4, <1>5, Broadcasts DEF ClientStep

\* What a verifier fills in enters the pool when the node accepts it.
LEMMA FilledSends ==
  ASSUME TypeOK, NEW p \in Operators, NEW n \in MutableTx, SendFilled(p, n),
         MaySend(p, n), n = "challenge" => "kick_off_1" \in mined[p]
  PROVE  ClientStep
<1>1. /\ UNCHANGED ledgerVars /\ ~mining
      /\ UNCHANGED <<event, superblock, assertion, published, known>>
      /\ built' = [built EXCEPT ![p] = @ \cup {n}]
      /\ mempool' = IF Accepts(p, n)
                    THEN [mempool EXCEPT ![p] = @ \cup {n}] ELSE mempool
  BY DEF SendFilled, Fill, commitVars
<1>2. /\ Accepts(p, n) => mempool'[p] = mempool[p] \cup {n}
      /\ ~Accepts(p, n) => mempool'[p] = mempool[p]
      /\ \A o \in Operators : o # p => mempool'[o] = mempool[o]
      /\ built'[p] = built[p] \cup {n}
      /\ \A o \in Operators : o # p => built'[o] = built[o]
  BY <1>1 DEF TypeOK
<1>3. \A k \in 1..2 : assert_commit[k] # n
  BY DEF assert_commit, MutableTx, VerifierTx, RewardTx
<1>4. \A o \in Operators : Sends(o)
  BY <1>1, <1>2 DEF Sends
<1>5. \A o \in Operators : Commits(o)
  BY <1>1, <1>2, <1>3 DEF Commits
<1>6. \A o \in Operators : Fills(o)
  BY <1>1, <1>2 DEF Fills, Copies
<1> QED
  BY <1>1, <1>4, <1>5, <1>6 DEF ClientStep

\* What a verifier does.
LEMMA VerifierSends ==
  ASSUME TypeOK, NEW p \in Operators, VerifierStep(p)
  PROVE  ClientStep
<1>0. /\ "challenge" \in MutableTx /\ "start_time_timeout" \in MutableTx
      /\ "kick_off_timeout" \in MutableTx /\ "disprove_chain" \in MutableTx
      /\ "disprove" \in MutableTx
  BY DEF MutableTx, VerifierTx, RewardTx
<1>1. CASE Challenge(p)
  BY <1>0, <1>1, FilledSends DEF Challenge, MaySend, OwnTx
<1>2. CASE StartTimeTimeout(p)
  BY <1>0, <1>2, FilledSends DEF StartTimeTimeout, TimelockMet, MaySend, OwnTx
<1>3. CASE KickOffTimeout(p)
  BY <1>0, <1>3, FilledSends DEF KickOffTimeout, TimelockMet, MaySend, OwnTx
<1>4. CASE DisproveChain(p)
  <2>1. CASE SendFilled(p, "disprove_chain")
    BY <1>0, <2>1, FilledSends DEF MaySend, OwnTx
  <2>2. CASE ~SendFilled(p, "disprove_chain")
    <3>1. /\ UNCHANGED <<ledgerVars, poolVars, event, commitVars, published, known>>
          /\ built' = [built EXCEPT ![p] = @ \cup {"disprove_chain"}]
      BY <1>4, <2>2 DEF DisproveChain, Fill
    <3>2. NoneFilled
      BY <3>1 DEF TypeOK, NoneFilled, Copies
    <3> QED
      BY <3>1, <3>2, IdleStep DEF poolVars
  <2> QED BY <2>1, <2>2
<1>5. CASE Disprove(p)
  BY <1>0, <1>5, FilledSends DEF Disprove, MaySend, OwnTx
<1> QED
  BY <1>1, <1>2, <1>3, <1>4, <1>5 DEF VerifierStep

\* The ledger changes by a block alone.
LEMMA StepKinds ==
  ASSUME TypeOK, [Next]_vars
  PROVE  ClientStep \/ Block \/ Mine \/ EndBlock
<1>1. CASE PegInDeposit \/ PegInConfirm \/ PegInRefund
  BY <1>1, IdleStep, SameCopies
     DEF PegInDeposit, PegInConfirm, PegInRefund, BroadcastPegIn
<1>2. ASSUME NEW p \in Operators, match_and_set_peg_out_event(p)
      PROVE  ClientStep
  <2> \A o \in Operators : event[o] => event'[o]
    BY <1>2 DEF match_and_set_peg_out_event, TypeOK
  <2> QED
    BY <1>2, IdleStep, SameCopies DEF match_and_set_peg_out_event, poolVars
<1>3. ASSUME NEW p \in Operators, PegOut(p) PROVE ClientStep
  <2> "peg_out" \in GraphTx /\ MaySend(p, "peg_out")
    BY <1>3 DEF GraphTx, PegOutTx, OwnTx, PegOut, MaySend
  <2> QED BY <1>3, PlainBroadcast, SameCopies DEF PegOut
<1>4. ASSUME NEW p \in Operators, OperatorStep(p) \/ Deviate(p) \/ VerifierStep(p)
      PROVE  ClientStep
  BY <1>4, OperatorSends, DeviantSends, VerifierSends
<1>5. ASSUME NEW p \in Operators, Load(p) \/ Sync(p) PROVE ClientStep
  <2>1. CASE Load(p)
    <3>1. \A o \in Operators : built'[o] \subseteq built[o] \cup known[o]
      BY <2>1 DEF Load
    <3> QED
      BY <2>1, <3>1, IdleStep DEF Load, poolVars, NoneFilled, Copies
  <2>2. CASE Sync(p)
    <3>1. \A o \in Operators : known'[o] \subseteq known[o] \cup published[o]
      BY <2>2 DEF Sync, Merged, TypeOK
    <3> QED
      BY <2>2, <3>1, IdleStep DEF Sync, poolVars, NoneFilled, Copies
  <2> QED BY <1>5, <2>1, <2>2
<1>6. CASE Flush
  <2> NoneFilled
    BY <1>6 DEF Flush, TypeOK, NoneFilled, Copies
  <2> QED
    BY <1>6, IdleStep DEF Flush, poolVars
<1>7. CASE UNCHANGED vars
  BY <1>7, IdleStep, SameCopies DEF vars, poolVars
<1> QED
  BY <1>1, <1>2, <1>3, <1>4, <1>5, <1>6, <1>7 DEF Next

-----------------------------------------------------------------------------
(* Timelocks and blocks. *)

\* The timelocks of the leaves that the arguments about time cite.
LEMMA TimelocksOf ==
  /\ Timelock("connector_2", "start_time") = 0
  /\ Timelock("connector_1", "kick_off_2") = connector_1.kick_off_2
  /\ Timelock("connector_1", "kick_off_timeout") = connector_1.kick_off_timeout
  /\ Timelock("connector_a", "challenge") = 0
  /\ Timelock("connector_3", "take_1") = connector_3.take_1
  /\ Timelock("connector_b", "assert_initial") = connector_b.assert_initial
  /\ Timelock("connector_4", "take_2") = connector_4.take_2
  /\ Timelock("connector_a", "take_1") = 0
  /\ Timelock("connector_b", "take_1") = 0
  /\ Timelock("connector_5", "take_2") = 0
  /\ Timelock("connector_c", "take_2") = 0
  /\ Timelock("connector_5", "disprove") = 0
  /\ Timelock("connector_c", "disprove") = 0
BY DEF Timelock, Connectors, connector_1, connector_2, connector_3, connector_4,
   connector_5, connector_a, connector_b, connector_c

\* Mainnet's timelocks are the periods they are named for.
LEMMA MainnetLocks ==
  ASSUME Network = "Bitcoin"
  PROVE  /\ connector_1.start_time_timeout = NUM_BLOCKS_PER_6_HOURS
         /\ connector_1.kick_off_2 = NUM_BLOCKS_PER_2_WEEKS
         /\ connector_1.kick_off_timeout =
              NUM_BLOCKS_PER_2_WEEKS + NUM_BLOCKS_PER_DAY
         /\ connector_3.take_1 = NUM_BLOCKS_PER_3_DAYS
         /\ connector_b.assert_initial = NUM_BLOCKS_PER_3_DAYS
         /\ connector_4.take_2 = NUM_BLOCKS_PER_2_WEEKS
         /\ MaxAge = NUM_BLOCKS_PER_2_WEEKS + NUM_BLOCKS_PER_DAY
BY DEF connector_1, connector_3, connector_b, connector_4, MaxAge,
   num_blocks_per_network

\* The transactions that confirm a connector's timelock.
LEMMA TimedOutputs ==
  ASSUME NEW s \in TimedTx
  PROVE  /\ s \in GraphTx
         /\ "connector_1" \in Outputs(s) <=> s = "kick_off_1"
         /\ "connector_2" \in Outputs(s) <=> s = "kick_off_1"
         /\ "connector_a" \in Outputs(s) <=> s = "kick_off_1"
         /\ "connector_3" \in Outputs(s) <=> s = "kick_off_2"
         /\ "connector_b" \in Outputs(s) <=> s = "kick_off_2"
         /\ "connector_4" \in Outputs(s) <=> s = "assert_final"
         /\ "connector_5" \in Outputs(s) <=> s = "assert_final"
         /\ "connector_c" \in Outputs(s) <=> s = "assert_final"
<1> s \in GraphTx
  BY DEF TimedTx, GraphTx, PegOutTx
<1> QED
  BY OutputsOf

\* When the transactions are old enough that the clients wait for.
LEMMA Matures ==
  ASSUME NEW o \in Operators, NEW d \in Nat
  PROVE  /\ Matured(o, "start_time", d)
         /\ Matured(o, "challenge", d)
         /\ Matured(o, "disprove", d)
         /\ "kick_off_1" \in mined[o]
              /\ connector_1.kick_off_2 <= age[o]["kick_off_1"] + d =>
              Matured(o, "kick_off_2", d)
<1>1. Matured(o, "start_time", d)
  BY OpeningInputs, TimelocksOf DEF Matured
<1>2. Matured(o, "challenge", d)
  BY InputsOf, TimelocksOf DEF Matured
<1>3. Matured(o, "disprove", d)
  BY InputsOf, TimelocksOf DEF Matured
<1>4. ASSUME "kick_off_1" \in mined[o],
             connector_1.kick_off_2 <= age[o]["kick_off_1"] + d
      PROVE  Matured(o, "kick_off_2", d)
  BY <1>4, InputsOf, TimelocksOf, TimedOutputs DEF Matured
<1> QED
  BY <1>1, <1>2, <1>3, <1>4

\* What the node waits for on mainnet, where no timelock is zero.
LEMMA MaturedAfter ==
  ASSUME Network = "Bitcoin", NEW o \in Operators, NEW d \in Nat
  PROVE  /\ Matured(o, "kick_off_2", d) =>
              NUM_BLOCKS_PER_2_WEEKS <= age[o]["kick_off_1"] + d
         /\ Matured(o, "kick_off_timeout", d) =>
              NUM_BLOCKS_PER_2_WEEKS + NUM_BLOCKS_PER_DAY
                <= age[o]["kick_off_1"] + d
         /\ Matured(o, "take_1", d) =>
              NUM_BLOCKS_PER_3_DAYS <= age[o]["kick_off_2"] + d
         /\ Matured(o, "take_2", d) =>
              NUM_BLOCKS_PER_2_WEEKS <= age[o]["assert_final"] + d
         /\ Matured(o, "assert_initial", d) => "kick_off_2" \in mined[o]
<1>1. /\ "kick_off_1" \in TimedTx /\ "kick_off_2" \in TimedTx
      /\ "assert_final" \in TimedTx
  BY DEF TimedTx
<1>2. /\ NUM_BLOCKS_PER_2_WEEKS # 0 /\ NUM_BLOCKS_PER_3_DAYS # 0
      /\ NUM_BLOCKS_PER_2_WEEKS + NUM_BLOCKS_PER_DAY # 0
      /\ NUM_BLOCKS_PER_2_WEEKS \in Nat /\ NUM_BLOCKS_PER_DAY \in Nat
  BY PeriodAssumption
<1>3. Matured(o, "kick_off_2", d) =>
        NUM_BLOCKS_PER_2_WEEKS <= age[o]["kick_off_1"] + d
  BY <1>1, <1>2, MainnetLocks, InputsOf, TimelocksOf, TimedOutputs DEF Matured
<1>4. Matured(o, "kick_off_timeout", d) =>
        NUM_BLOCKS_PER_2_WEEKS + NUM_BLOCKS_PER_DAY <= age[o]["kick_off_1"] + d
  BY <1>1, <1>2, MainnetLocks, InputsOf, TimelocksOf, TimedOutputs DEF Matured
<1>5. Matured(o, "take_1", d) =>
        NUM_BLOCKS_PER_3_DAYS <= age[o]["kick_off_2"] + d
  BY <1>1, <1>2, MainnetLocks, InputsOf, TimelocksOf, TimedOutputs DEF Matured
<1>6. Matured(o, "take_2", d) =>
        NUM_BLOCKS_PER_2_WEEKS <= age[o]["assert_final"] + d
  BY <1>1, <1>2, MainnetLocks, InputsOf, TimelocksOf, TimedOutputs DEF Matured
<1>7. Matured(o, "assert_initial", d) => "kick_off_2" \in mined[o]
  BY <1>1, <1>2, MainnetLocks, InputsOf, TimelocksOf, TimedOutputs DEF Matured
<1> QED
  BY <1>2, <1>3, <1>4, <1>5, <1>6, <1>7

\* Only connector_0 is shared: another output is spent by its own graph.
LEMMA SpentHere ==
  ASSUME NEW o \in Operators, NEW c, c # "connector_0"
  PROVE  Spent(o, c) <=> \E n \in mined[o] : c \in Inputs(n)
BY DEF Spent

\* A block makes mined transactions one block older, up to MaxAge.
LEMMA BlockAges ==
  ASSUME TypeOK, Block, NEW o \in Operators, NEW n \in TimedTx
  PROVE  /\ age[o][n] \in 0..MaxAge /\ age'[o][n] \in 0..MaxAge
         /\ age[o][n] <= age'[o][n] /\ age'[o][n] <= age[o][n] + 1
         /\ n \notin mined[o] => age'[o][n] = age[o][n]
<1>1. age[o][n] \in 0..MaxAge
  BY DEF TypeOK
<1>2. age'[o][n] = Older(age[o][n], n \in mined[o])
  BY DEF Block
<1> QED
  BY <1>1, <1>2, MaxAgeNat DEF Older

\* What a confirmation leaves in the pools.
LEMMA Confirms ==
  ASSUME TypeOK, NEW o \in Operators, NEW n \in GraphTx, Confirm(o, n)
  PROVE  /\ mining /\ n \in mempool[o] /\ Confirmable(o, n)
         /\ UNCHANGED <<pegIn, depositAge, age, mining, lag>>
         /\ UNCHANGED <<event, superblock, assertion, built, known, published>>
         /\ mined'[o] = mined[o] \cup {n}
         /\ \A p \in Operators : p # o => mined'[p] = mined[p]
         /\ \A p \in Operators : Sent(p)' \subseteq Sent(p)
         /\ \A p \in Operators : \A m \in mempool[p] :
              "connector_0" \notin Inputs(m) /\ (p # o \/ m # n)
                /\ (p # o \/ Inputs(m) \cap Inputs(n) = {}) => m \in mempool'[p]
<1>1. /\ mining /\ n \in mempool[o] /\ Confirmable(o, n)
      /\ UNCHANGED <<pegIn, depositAge, age, mining, lag>>
      /\ UNCHANGED <<event, superblock, assertion, built, known, published>>
  BY DEF Confirm, commitVars, copyVars
<1>2. /\ mined'[o] = mined[o] \cup {n}
      /\ \A p \in Operators : p # o => mined'[p] = mined[p]
  BY DEF Confirm, TypeOK
<1>3. \A p \in Operators :
        mempool'[p] = {m \in mempool[p] : ~Conflict(o, n, p, m)}
  BY DEF Confirm
<1>4. \A p \in Operators : Sent(p)' \subseteq Sent(p)
  BY <1>1, <1>2, <1>3 DEF Sent
<1>5. ASSUME NEW p \in Operators, NEW m \in mempool[p],
             "connector_0" \notin Inputs(m), p # o \/ m # n,
             p # o \/ Inputs(m) \cap Inputs(n) = {}
      PROVE  m \in mempool'[p]
  BY <1>3, <1>5 DEF Conflict
<1> QED
  BY <1>1, <1>2, <1>4, <1>5

-----------------------------------------------------------------------------
(* What can be mined, and when it is late. *)

\* What must have been mined before the transactions that open a claim.
LEMMA OpeningAncestors ==
  ASSUME GraphInv, NEW o \in Operators
  PROVE  /\ "kick_off_1" \in mined[o] => "peg_out_confirm" \in mined[o]
         /\ mined[o] \cap {"kick_off_2", "kick_off_timeout"} # {} =>
              "kick_off_1" \in mined[o]
<1>1. mined[o] \subseteq GraphTx
  BY DEF GraphInv, TypeOK
<1>2. \A n \in mined[o] : \A c \in Inputs(n) :
         IF c = "connector_0" THEN "peg_in_confirm" \in pegIn
                              ELSE \E m \in mined[o] : c \in Outputs(m)
  BY DEF GraphInv, Ancestry, Created
<1>3. "kick_off_1" \in mined[o] => "peg_out_confirm" \in mined[o]
  BY <1>1, <1>2, OpeningInputs, OutputsOf
<1>4. "kick_off_2" \in mined[o] => "kick_off_1" \in mined[o]
  BY <1>1, <1>2, InputsOf, OutputsOf
<1>5. "kick_off_timeout" \in mined[o] => "kick_off_1" \in mined[o]
  BY <1>1, <1>2, InputsOf, OutputsOf
<1> QED
  BY <1>3, <1>4, <1>5

\* A transaction is accepted and can be mined when what creates its inputs is
\* mined and what competes for them is not.
LEMMA Available ==
  ASSUME TypeOK, NEW o \in Operators, NEW n \in GraphTx, n \notin mined[o],
         "connector_0" \notin Inputs(n),
         \A c \in Inputs(n) : \E m \in mined[o] : c \in Outputs(m),
         \A c \in Inputs(n), m \in mined[o] : c \notin Inputs(m),
         Matured(o, n, 0), Matured(o, n, 1), ScriptSucceeds(o, n)
  PROVE  Accepts(o, n) /\ Confirmable(o, n)
<1>1. \A c \in Inputs(n) : ~Spent(o, c)
  BY SpentHere
<1>2. \A c \in Inputs(n) : /\ Created(c, pegIn, mined[o])
                           /\ Created(c, pegIn \cup pegInPool,
                                         mined[o] \cup mempool[o])
  BY DEF Created
<1> QED
  BY <1>1, <1>2 DEF Accepts, Confirmable

\* So the transactions that decide a claim can be mined once they are due.
LEMMA Due ==
  ASSUME TypeOK, NEW o \in Operators
  PROVE  /\ "kick_off_1" \in mined[o] /\ ~Spent(o, "connector_2") =>
              Accepts(o, "start_time") /\ Confirmable(o, "start_time")
         /\ "kick_off_1" \in mined[o] /\ ~Spent(o, "connector_1")
              /\ connector_1.kick_off_2 <= age[o]["kick_off_1"] =>
              Accepts(o, "kick_off_2") /\ Confirmable(o, "kick_off_2")
         /\ "kick_off_1" \in mined[o] /\ ~Spent(o, "connector_a") =>
              Accepts(o, "challenge") /\ Confirmable(o, "challenge")
         /\ "assert_final" \in mined[o] /\ Disprovable(o)
              /\ ~Spent(o, "connector_c") =>
              Accepts(o, "disprove") /\ Confirmable(o, "disprove")
<1>1. /\ mined[o] \subseteq GraphTx
      /\ {"start_time", "kick_off_2", "challenge", "disprove", "take_2",
          "kick_off_1", "assert_final"} \subseteq GraphTx
  BY DEF TypeOK, GraphTx, PegOutTx
<1>2. /\ 0 \in Nat /\ 1 \in Nat
      /\ age[o]["kick_off_1"] \in Nat /\ connector_1.kick_off_2 \in Nat
  BY PeriodAssumption, MaxAgeNat
     DEF TypeOK, TimedTx, connector_1, num_blocks_per_network,
         NUM_BLOCKS_REGTEST, NUM_BLOCKS_TESTNET
<1>3. ASSUME "kick_off_1" \in mined[o], ~Spent(o, "connector_2")
      PROVE  Accepts(o, "start_time") /\ Confirmable(o, "start_time")
  <2>1. Inputs("start_time") = {"connector_2"}
    BY InputsOf
  <2>2. ScriptSucceeds(o, "start_time")
    BY DEF ScriptSucceeds
  <2>3. \A m \in mined[o] : "connector_2" \notin Inputs(m)
    BY <1>3, SpentHere
  <2>4. "connector_2" \in Outputs("kick_off_1")
    BY <1>1, OutputsOf
  <2> QED
    BY <1>1, <1>2, <1>3, <2>1, <2>2, <2>3, <2>4, Matures, Available
<1>4. ASSUME "kick_off_1" \in mined[o], ~Spent(o, "connector_1"),
             connector_1.kick_off_2 <= age[o]["kick_off_1"]
      PROVE  Accepts(o, "kick_off_2") /\ Confirmable(o, "kick_off_2")
  <2>1. Inputs("kick_off_2") = {"connector_1"}
    BY InputsOf
  <2>2. ScriptSucceeds(o, "kick_off_2")
    BY DEF ScriptSucceeds
  <2>3. \A m \in mined[o] : "connector_1" \notin Inputs(m)
    BY <1>4, SpentHere
  <2>4. "connector_1" \in Outputs("kick_off_1")
    BY <1>1, OutputsOf
  <2>5. Matured(o, "kick_off_2", 0) /\ Matured(o, "kick_off_2", 1)
    BY <1>2, <1>4, Matures
  <2> QED
    BY <1>1, <1>4, <2>1, <2>2, <2>3, <2>4, <2>5, Available
<1>5. ASSUME "kick_off_1" \in mined[o], ~Spent(o, "connector_a")
      PROVE  Accepts(o, "challenge") /\ Confirmable(o, "challenge")
  <2>1. Inputs("challenge") = {"connector_a"}
    BY InputsOf
  <2>2. ScriptSucceeds(o, "challenge")
    BY DEF ScriptSucceeds
  <2>3. \A m \in mined[o] : "connector_a" \notin Inputs(m)
    BY <1>5, SpentHere
  <2>4. "connector_a" \in Outputs("kick_off_1")
    BY <1>1, OutputsOf
  <2> QED
    BY <1>1, <1>2, <1>5, <2>1, <2>2, <2>3, <2>4, Matures, Available
<1>6. ASSUME "assert_final" \in mined[o], Disprovable(o), ~Spent(o, "connector_c")
      PROVE  Accepts(o, "disprove") /\ Confirmable(o, "disprove")
  <2>1. Inputs("disprove") = {"connector_5", "connector_c"}
    BY InputsOf
  <2>2. ScriptSucceeds(o, "disprove")
    BY <1>6 DEF ScriptSucceeds
  <2>3. \A m \in mined[o] : "connector_c" \notin Inputs(m)
    BY <1>6, SpentHere
  <2>4. "connector_c" \in Inputs("take_2") /\ "connector_c" \in Inputs("disprove")
    BY InputsOf
  <2>5. \A m \in mined[o] : "connector_5" \notin Inputs(m)
    BY <1>1, <2>3, <2>4, SpendersOf
  <2>6. /\ "connector_5" \in Outputs("assert_final")
        /\ "connector_c" \in Outputs("assert_final")
    BY <1>1, OutputsOf
  <2> QED
    BY <1>1, <1>2, <1>6, <2>1, <2>2, <2>3, <2>5, <2>6, Matures, Available
<1> QED
  BY <1>3, <1>4, <1>5, <1>6

\* The clients' steps do not make anything late.
LEMMA TimelyClient ==
  ASSUME UNCHANGED ledgerVars, NEW o, NEW n, NEW wait, NEW m,
         m \in mempool[o] => m \in mempool'[o], Timely(o, n, wait, m)
  PROVE  Timely(o, n, wait, m)'
BY DEF Timely, Slack, ledgerVars

\* A block does not, if what is due is in the pool.
LEMMA TimelyBlock ==
  ASSUME TypeOK, Block, NEW o \in Operators, NEW n \in TimedTx, NEW wait \in Nat,
         NEW m, Timely(o, n, wait, m), wait <= age[o][n] => m \in mempool[o]
  PROVE  Timely(o, n, wait, m)'
<1>1. ~mining /\ mining' = TRUE /\ lag' = lag /\ mempool' = mempool
  BY DEF Block, poolVars
<1>2. /\ age[o][n] \in Nat /\ age'[o][n] \in Nat /\ lag \in Nat
      /\ age'[o][n] <= age[o][n] + 1
  BY BlockAges, MaxAgeNat, SynchronyAssumption DEF TypeOK
<1>3. age[o][n] <= wait + lag
  BY <1>1 DEF Timely, Slack
<1>4. age'[o][n] <= wait + (lag' + 1)
  BY <1>1, <1>2, <1>3
<1>5. age'[o][n] > wait => m \in mempool'[o]
  BY <1>1, <1>2
<1> QED
  BY <1>1, <1>4, <1>5 DEF Timely, Slack

\* A confirmation does not, if it leaves what is due in the pool.
LEMMA TimelyConfirm ==
  ASSUME UNCHANGED <<age, mining, lag>>, NEW o, NEW n, NEW wait, NEW m,
         m \in mempool[o] => m \in mempool'[o], Timely(o, n, wait, m)
  PROVE  Timely(o, n, wait, m)'
BY DEF Timely, Slack

\* A transaction that was just mined makes nothing late.
LEMMA TimelyNew ==
  ASSUME TypeOK', NEW o, NEW n, NEW wait \in Nat, NEW m, age'[o][n] = 0
  PROVE  Timely(o, n, wait, m)'
<1>1. lag' \in 0..MaxLag /\ MaxLag \in Nat
  BY SynchronyAssumption DEF TypeOK
<1>2. PICK l \in Nat : l = lag'
  BY <1>1
<1>3. Slack' = l \/ Slack' = l + 1
  BY <1>2 DEF Slack
<1>4. PICK b \in Nat : b = Slack'
  BY <1>3
<1>5. 0 <= wait + b /\ ~(0 > wait)
  OBVIOUS
<1> QED
  BY <1>4, <1>5 DEF Timely

\* The pool is late for a block when it still holds what could be mined.
LEMMA TimelyEnd ==
  ASSUME TypeOK, Synchronous, EndBlock, NEW o \in Operators, NEW n \in TimedTx,
         NEW wait \in Nat, NEW m, Timely(o, n, wait, m),
         wait < age[o][n] => Confirmable(o, m)
  PROVE  Timely(o, n, wait, m)'
<1>1. mining /\ mining' = FALSE /\ age' = age
  BY DEF EndBlock
<1>2. lag' = IF Minable THEN lag + 1 ELSE 0
  BY DEF EndBlock
<1>3. age[o][n] \in Nat /\ lag \in Nat
  BY MaxAgeNat, SynchronyAssumption DEF TypeOK
<1>4. CASE age[o][n] <= wait
  BY <1>1, <1>2, <1>3, <1>4 DEF Timely, Slack
<1>5. CASE wait < age[o][n]
  <2>1. m \in mempool[o]
    BY <1>1, <1>3, <1>5 DEF Timely
  <2>2. Minable
    BY <1>5, <2>1 DEF Minable
  <2> QED
    BY <1>1, <1>2, <1>3, <1>5, <2>2 DEF Timely, Slack
<1> QED
  BY <1>3, <1>4, <1>5

-----------------------------------------------------------------------------
(* Automatic operators are never slashed. *)

\* The leaves of connector_1 leave an automatic operator the time it needs.
LEMMA OperatorMargin ==
  ASSUME PromptOperators
  PROVE  /\ connector_1.start_time_timeout \in Nat \ {0}
         /\ connector_1.kick_off_2 \in Nat /\ connector_1.kick_off_timeout \in Nat
         /\ MaxLag < connector_1.start_time_timeout
         /\ MaxLag < connector_1.kick_off_2
         /\ connector_1.kick_off_2 + MaxLag < connector_1.kick_off_timeout
BY MainnetLocks, PeriodAssumption, SynchronyAssumption DEF PromptOperators

\* Confirmations are counted from the block that mined the transaction, in
\* every state.
LEMMA AgesStep ==
  ASSUME GraphInv, AgesCounted, [Next]_vars
  PROVE  AgesCounted'
<1>0. TypeOK
  BY DEF GraphInv
<1>1. CASE ClientStep
  BY <1>1 DEF ClientStep, ledgerVars, AgesCounted
<1>2. CASE Block
  BY <1>0, <1>2, BlockAges DEF Block, AgesCounted
<1>3. CASE EndBlock
  BY <1>3 DEF EndBlock, AgesCounted
<1>4. CASE Mine
  <2>1. ASSUME NEW n \in PegInTx, ConfirmPegIn(n) PROVE AgesCounted'
    BY <2>1 DEF ConfirmPegIn, AgesCounted
  <2>2. ASSUME NEW p \in Operators, NEW x \in GraphTx, Confirm(p, x)
        PROVE  AgesCounted'
    <3>1. /\ age' = age
          /\ \A o \in Operators : mined[o] \subseteq mined'[o]
      BY <1>0, <2>2, Confirms
    <3> QED BY <3>1 DEF AgesCounted
  <2> QED BY <1>4, <2>1, <2>2 DEF Mine
<1> QED
  BY <1>0, <1>1, <1>2, <1>3, <1>4, StepKinds

\* An automatic operator that kicked off paid and was asked to, and nothing else
\* takes the outputs that start_time and kick_off_2 spend.
LEMMA HonestFacts ==
  ASSUME GraphInv, NEW o \in Automatic, HonestState(o), "kick_off_1" \in mined[o]
  PROVE  /\ event[o] /\ "peg_out" \in mined[o] /\ "peg_out_confirm" \in mined[o]
         /\ mined[o] \cap {"start_time_timeout", "kick_off_timeout"} = {}
         /\ "start_time" \notin mined[o] => ~Spent(o, "connector_2")
         /\ "kick_off_2" \notin mined[o] => ~Spent(o, "connector_1")
<1>1. o \in Operators /\ mined[o] \subseteq GraphTx
  BY OperatorAssumption DEF GraphInv, TypeOK
<1>2. "peg_out_confirm" \in mined[o]
  BY <1>1, OpeningAncestors
<1>3. event[o] /\ "peg_out" \in mined[o]
  BY <1>2 DEF HonestState, Sent
<1>4. mined[o] \cap {"start_time_timeout", "kick_off_timeout", "spend_1", "spend_2"} = {}
  BY DEF HonestState, Sent, RewardTx, OwnTx
<1>5. "start_time" \notin mined[o] => ~Spent(o, "connector_2")
  BY <1>1, <1>4, SpentHere, SpendersOf
<1>6. "kick_off_2" \notin mined[o] => ~Spent(o, "connector_1")
  BY <1>1, <1>4, SpentHere, SpendersOf
<1> QED
  BY <1>2, <1>3, <1>4, <1>5, <1>6

\* Between two blocks the client has sent what keeps the timeouts away.
LEMMA HonestPrompted ==
  ASSUME GraphInv, NEW o \in Automatic, HonestState(o), CopiesSound(o),
         PromptOperators, ClientsSettled, ~mining, "kick_off_1" \in mined[o]
  PROVE  /\ "start_time" \notin mined[o] => "start_time" \in mempool[o]
         /\ "kick_off_2" \notin mined[o]
              /\ connector_1.kick_off_2 <= age[o]["kick_off_1"] =>
              "kick_off_2" \in mempool[o]
<1>0. o \in Operators /\ TypeOK
  BY OperatorAssumption DEF GraphInv
<1>1. ~OperatorPrompted(o)
  BY <1>0 DEF ClientsSettled
<1>2. /\ event[o] /\ "peg_out" \in mined[o] /\ "peg_out_confirm" \in mined[o]
      /\ mined[o] \cap {"start_time_timeout", "kick_off_timeout"} = {}
  BY HonestFacts
<1>3. "kick_off_2" \notin mined[o] => OperatorStatus(o) = KickOff1Status(o)
  BY <1>2 DEF OperatorStatus, Sees, SeenWith, MutableTx, VerifierTx, RewardTx
<1>4. ASSUME "start_time" \notin mined[o] PROVE "start_time" \in mempool[o]
  <2>1. "kick_off_2" \notin mined[o]
    BY <1>4 DEF HonestState, Sent
  <2>2. OperatorStatus(o) = "PegOutStartTimeAvailable"
    BY <1>2, <1>3, <1>4, <2>1 DEF KickOff1Status, Sees, SeenWith
  <2>3. Accepts(o, "start_time")
    BY <1>0, <1>4, HonestFacts, Due
  <2>4. /\ "PegOutStartTimeAvailable" \in DOMAIN process_peg_outs
        /\ process_peg_outs["PegOutStartTimeAvailable"] = "start_time"
    BY DEF process_peg_outs
  <2> QED
    BY <1>1, <2>2, <2>3, <2>4 DEF OperatorPrompted
<1>5. ASSUME "kick_off_2" \notin mined[o],
             connector_1.kick_off_2 <= age[o]["kick_off_1"]
      PROVE  "kick_off_2" \in mempool[o]
  <2>1. "start_time" \in mined[o] /\ "start_time" \in known[o]
    <3>1. "start_time" \notin mined[o] => age[o]["kick_off_1"] <= 0 + lag
      BY DEF HonestState, Timely, Slack
    <3>2. lag \in 0..MaxLag /\ age[o]["kick_off_1"] \in 0..MaxAge /\ MaxLag \in Nat
      BY <1>0, SynchronyAssumption DEF TypeOK, TimedTx
    <3>3. "start_time" \in mined[o]
      BY <1>5, <3>1, <3>2, OperatorMargin, MaxAgeNat
    <3> QED
      BY <3>3 DEF CopiesSound, Sent
  <2>2. OperatorStatus(o) = "PegOutKickOff2Available"
    BY <1>2, <1>3, <1>5, <2>1 DEF KickOff1Status, Sees, SeenWith, TimelockMet
  <2>3. Accepts(o, "kick_off_2")
    BY <1>0, <1>5, HonestFacts, Due
  <2>4. /\ "PegOutKickOff2Available" \in DOMAIN process_peg_outs
        /\ process_peg_outs["PegOutKickOff2Available"] = "kick_off_2"
    BY DEF process_peg_outs
  <2> QED
    BY <1>1, <2>2, <2>3, <2>4 DEF OperatorPrompted
<1> QED
  BY <1>4, <1>5

\* No client step slashes an automatic operator.
LEMMA HonestClient ==
  ASSUME GraphInv, AgesCounted, PromptOperators, NEW o \in Automatic,
         HonestState(o), ClientStep
  PROVE  HonestState(o)'
<1>0. /\ o \in Operators /\ o \notin Deviating /\ TypeOK
      /\ Sends(o) /\ Commits(o) /\ UNCHANGED <<mined, age, mining, lag>>
  BY OperatorAssumption DEF GraphInv, ClientStep, ledgerVars
<1>1. \A n \in Sent(o)' \ Sent(o) : ~mining /\ Accepts(o, n) /\ MaySend(o, n)
  BY <1>0 DEF Sends, Sent
<1>2. /\ "peg_out" \in Sent(o)' => event'[o]
      /\ "peg_out_confirm" \in Sent(o)' => "peg_out" \in mined[o]
      /\ "kick_off_2" \in Sent(o)' => "start_time" \in mined[o]
      /\ "assert_initial" \in Sent(o)' => "challenge" \in mined[o]
  BY <1>0, <1>1 DEF HonestState, Sends, MaySend
<1>3. superblock'[o] # "light"
  BY <1>0 DEF HonestState, Commits
<1>4. \A k \in 1..2 : assertion'[o][k] # "invalid"
  BY <1>0 DEF HonestState, Commits
<1>5. "disprove" \notin Sent(o)' /\ "disprove_chain" \notin Sent(o)'
  BY <1>1 DEF HonestState, RewardTx, Accepts, ScriptSucceeds, Disprovable
<1>6. /\ lag \in Nat /\ lag <= MaxLag /\ MaxLag \in Nat
      /\ age[o]["kick_off_1"] \in Nat
  BY <1>0, SynchronyAssumption, MaxAgeNat DEF TypeOK, TimedTx
<1>7. "start_time_timeout" \notin Sent(o)'
  <2> SUFFICES ASSUME "start_time_timeout" \in Sent(o)' PROVE FALSE
    OBVIOUS
  <2>1. /\ ~mining /\ Accepts(o, "start_time_timeout")
        /\ connector_1.start_time_timeout <= age[o]["kick_off_1"]
    BY <1>1 DEF HonestState, RewardTx, MaySend
  <2>2. "kick_off_1" \in mined[o]
    BY <1>0, <2>1, OperatorMargin DEF AgesCounted, TimedTx
  <2>3. "start_time" \notin mined[o]
    BY <1>0, <2>1, InputsOf, OpeningInputs, SpentHere DEF Accepts
  <2>4. age[o]["kick_off_1"] <= 0 + lag
    BY <2>1, <2>2, <2>3 DEF HonestState, Timely, Slack
  <2> QED
    BY <1>6, <2>1, <2>4, OperatorMargin
<1>8. "kick_off_timeout" \notin Sent(o)'
  <2> SUFFICES ASSUME "kick_off_timeout" \in Sent(o)' PROVE FALSE
    OBVIOUS
  <2>1. /\ ~mining /\ Accepts(o, "kick_off_timeout")
        /\ connector_1.kick_off_timeout <= age[o]["kick_off_1"]
    BY <1>1 DEF HonestState, RewardTx, MaySend
  <2>2. "kick_off_1" \in mined[o]
    BY <1>0, <1>6, <2>1, OperatorMargin DEF AgesCounted, TimedTx
  <2>3. "kick_off_2" \notin mined[o]
    BY <1>0, <2>1, InputsOf, SpentHere DEF Accepts
  <2>4. age[o]["kick_off_1"] <= connector_1.kick_off_2 + lag
    BY <2>1, <2>2, <2>3 DEF HonestState, Timely, Slack
  <2> QED
    BY <1>6, <2>1, <2>4, OperatorMargin
<1>9. Sent(o)' \cap (RewardTx \cup OwnTx) = {}
  <2>1. Sent(o)' \cap OwnTx = {}
    BY <1>0, <1>1 DEF HonestState, MaySend
  <2> QED
    BY <1>5, <1>7, <1>8, <2>1 DEF RewardTx
<1>10. \A n, w, m : Timely(o, n, w, m) => Timely(o, n, w, m)'
  BY <1>0, TimelyClient DEF Sends, ClientStep
<1>11. /\ "kick_off_1" \in mined'[o] /\ "start_time" \notin mined'[o] =>
            Timely(o, "kick_off_1", 0, "start_time")'
       /\ "kick_off_1" \in mined'[o] /\ "kick_off_2" \notin mined'[o] =>
            Timely(o, "kick_off_1", connector_1.kick_off_2, "kick_off_2")'
  BY <1>0, <1>10 DEF HonestState
<1> QED
  BY <1>0, <1>2, <1>3, <1>4, <1>9, <1>11 DEF HonestState

\* The next block finds start_time and kick_off_2 in the pool.
LEMMA HonestBlock ==
  ASSUME GraphInv, PromptOperators, NEW o \in Automatic, HonestState(o),
         CopiesSound(o), Block
  PROVE  HonestState(o)'
<1>0. o \in Operators /\ TypeOK /\ "kick_off_1" \in TimedTx
  BY OperatorAssumption DEF GraphInv, TimedTx
<1>1. /\ ClientsSettled /\ ~mining
      /\ UNCHANGED <<mined, mempool, event, superblock, assertion>>
  BY DEF PromptOperators, Block, poolVars, commitVars
<1>2. "kick_off_1" \in mined[o] /\ "start_time" \notin mined[o] =>
        Timely(o, "kick_off_1", 0, "start_time")'
  BY <1>0, <1>1, HonestPrompted, TimelyBlock DEF HonestState
<1>3. "kick_off_1" \in mined[o] /\ "kick_off_2" \notin mined[o] =>
        Timely(o, "kick_off_1", connector_1.kick_off_2, "kick_off_2")'
  BY <1>0, <1>1, HonestPrompted, OperatorMargin, TimelyBlock DEF HonestState
<1> QED
  BY <1>1, <1>2, <1>3 DEF HonestState, Sent

\* A block that leaves them in the pool is late.
LEMMA HonestEndBlock ==
  ASSUME GraphInv, PromptOperators, NEW o \in Automatic, HonestState(o), EndBlock
  PROVE  HonestState(o)'
<1>0. o \in Operators /\ TypeOK /\ "kick_off_1" \in TimedTx /\ Synchronous
  BY OperatorAssumption DEF GraphInv, TimedTx, PromptOperators
<1>1. UNCHANGED <<mined, mempool, event, superblock, assertion>>
  BY DEF EndBlock, poolVars, commitVars
<1>2. age[o]["kick_off_1"] \in Nat
  BY <1>0, MaxAgeNat DEF TypeOK
<1>3. "kick_off_1" \in mined[o] /\ "start_time" \notin mined[o] =>
        Timely(o, "kick_off_1", 0, "start_time")'
  <2> SUFFICES ASSUME "kick_off_1" \in mined[o], "start_time" \notin mined[o]
               PROVE  Timely(o, "kick_off_1", 0, "start_time")'
    OBVIOUS
  <2>1. Confirmable(o, "start_time")
    BY <1>0, HonestFacts, Due
  <2> QED
    BY <1>0, <2>1, TimelyEnd DEF HonestState
<1>4. "kick_off_1" \in mined[o] /\ "kick_off_2" \notin mined[o] =>
        Timely(o, "kick_off_1", connector_1.kick_off_2, "kick_off_2")'
  <2> SUFFICES ASSUME "kick_off_1" \in mined[o], "kick_off_2" \notin mined[o]
               PROVE  Timely(o, "kick_off_1", connector_1.kick_off_2, "kick_off_2")'
    OBVIOUS
  <2>1. connector_1.kick_off_2 < age[o]["kick_off_1"] => Confirmable(o, "kick_off_2")
    BY <1>0, <1>2, OperatorMargin, HonestFacts, Due
  <2> QED
    BY <1>0, <2>1, OperatorMargin, TimelyEnd DEF HonestState
<1> QED
  BY <1>1, <1>3, <1>4 DEF HonestState, Sent

\* What a block confirms does not push them out of the pool.
LEMMA HonestConfirm ==
  ASSUME GraphInv, GraphInv', AgesCounted, PromptOperators,
         NEW o \in Automatic, HonestState(o),
         NEW p \in Operators, NEW x \in GraphTx, Confirm(p, x)
  PROVE  HonestState(o)'
<1>0. o \in Operators /\ TypeOK /\ TypeOK' /\ "kick_off_1" \in TimedTx
  BY OperatorAssumption DEF GraphInv, TimedTx
<1>1. /\ x \in mempool[p] /\ Confirmable(p, x)
      /\ UNCHANGED <<age, mining, lag>>
      /\ UNCHANGED <<event, superblock, assertion>>
      /\ mined[o] \subseteq mined'[o] /\ Sent(o)' \subseteq Sent(o)
  BY <1>0, Confirms
<1>2. p = o => x \notin RewardTx \cup OwnTx
  BY <1>1 DEF HonestState, Sent
<1>3. ASSUME NEW m \in mempool[o], NEW c, c # "connector_0", Inputs(m) = {c},
             m \notin mined'[o],
             \A n \in GraphTx \ (RewardTx \cup OwnTx) : c \in Inputs(n) => n = m
      PROVE  m \in mempool'[o]
  <2>1. p = o => m # x
    BY <1>0, <1>3, Confirms
  <2>2. p = o => c \notin Inputs(x)
    BY <1>2, <1>3, <2>1
  <2> QED
    BY <1>0, <1>3, <2>1, <2>2, Confirms
<1>4. "start_time" \notin mined'[o] =>
        ("start_time" \in mempool[o] => "start_time" \in mempool'[o])
  <2>1. \A n \in GraphTx \ (RewardTx \cup OwnTx) :
          "connector_2" \in Inputs(n) => n = "start_time"
    BY SpendersOf DEF RewardTx, OwnTx
  <2> QED
    BY <1>3, <2>1, OpeningInputs
<1>5. "kick_off_2" \notin mined'[o] =>
        ("kick_off_2" \in mempool[o] => "kick_off_2" \in mempool'[o])
  <2>1. \A n \in GraphTx \ (RewardTx \cup OwnTx) :
          "connector_1" \in Inputs(n) => n = "kick_off_2"
    BY SpendersOf DEF RewardTx, OwnTx
  <2> QED
    BY <1>3, <2>1, InputsOf
<1>6. "kick_off_1" \notin mined[o] => age'[o]["kick_off_1"] = 0
  BY <1>0, <1>1 DEF AgesCounted
<1>7. "kick_off_1" \in mined'[o] /\ "start_time" \notin mined'[o] =>
        Timely(o, "kick_off_1", 0, "start_time")'
  BY <1>0, <1>1, <1>4, <1>6, TimelyNew, TimelyConfirm DEF HonestState
<1>8. "kick_off_1" \in mined'[o] /\ "kick_off_2" \notin mined'[o] =>
        Timely(o, "kick_off_1", connector_1.kick_off_2, "kick_off_2")'
  BY <1>0, <1>1, <1>5, <1>6, OperatorMargin, TimelyNew, TimelyConfirm DEF HonestState
<1>9. Sent(o)' \cap (RewardTx \cup OwnTx) = {}
  BY <1>1 DEF HonestState
<1> QED
  BY <1>1, <1>7, <1>8, <1>9 DEF HonestState

\* start_time is in the operator's copy, and the challenge in the verifier's, as
\* soon as they are sent, and both stay there.
Files(o) ==
  /\ event'[o] => event[o] \/ "peg_in_confirm" \in pegIn
  /\ "start_time" \in known[o] \cup (mempool'[o] \ mempool[o]) =>
       "start_time" \in known'[o]
  /\ "challenge" \in built[o] \cup (mempool'[o] \ mempool[o]) =>
       "challenge" \in built'[o]

\* A step that sends neither and loses nothing of a copy.
LEMMA NothingFiled ==
  ASSUME UNCHANGED event, NEW o \in Operators,
         known[o] \subseteq known'[o], built[o] \subseteq built'[o],
         \A n \in mempool'[o] \ mempool[o] : n \notin {"start_time", "challenge"}
  PROVE  Files(o)
BY DEF Files

\* A verifier that fills in a transaction fills it in before it sends it.
LEMMA FilledFiles ==
  ASSUME TypeOK, NEW p \in Operators, NEW n \in VerifierTx, SendFilled(p, n)
  PROVE  \A o \in Operators : Files(o)
<1>1. /\ UNCHANGED <<event, known>>
      /\ built' = [built EXCEPT ![p] = @ \cup {n}]
      /\ mempool' = [mempool EXCEPT ![p] = @ \cup {n}] \/ mempool' = mempool
  BY DEF SendFilled, Fill
<1>2. /\ built'[p] = built[p] \cup {n}
      /\ mempool'[p] \subseteq mempool[p] \cup {n}
      /\ \A o \in Operators : o # p =>
           built'[o] = built[o] /\ mempool'[o] = mempool[o]
  BY <1>1 DEF TypeOK
<1>3. n # "start_time"
  BY DEF VerifierTx, RewardTx
<1> QED
  BY <1>1, <1>2, <1>3 DEF Files

\* The copies change as their owners' operations say.
LEMMA FileKinds ==
  ASSUME TypeOK, [Next]_vars, NEW o \in Operators
  PROVE  Files(o)
<1> USE DEF copyVars, poolVars
<1>1. CASE PegInDeposit \/ PegInConfirm \/ PegInRefund
  BY <1>1, NothingFiled DEF PegInDeposit, PegInConfirm, PegInRefund, BroadcastPegIn
<1>2. ASSUME NEW p \in Operators, match_and_set_peg_out_event(p) PROVE Files(o)
  <2>1. event'[o] => event[o] \/ "peg_in_confirm" \in pegIn
    BY <1>2 DEF match_and_set_peg_out_event, TypeOK
  <2> QED
    BY <1>2, <2>1 DEF match_and_set_peg_out_event, Files
<1>3. ASSUME NEW p \in Operators, NEW n \in GraphTx \ {"start_time", "challenge"},
             Broadcast(p, n), UNCHANGED <<built, known, event>>
      PROVE  Files(o)
  BY <1>3, Broadcasts, NothingFiled
<1>4. ASSUME NEW p \in Operators, PegOut(p) \/ OperatorStep(p) PROVE Files(o)
  <2>1. {"peg_out", "peg_out_confirm", "kick_off_1", "kick_off_2",
         "assert_initial", "assert_commit_1", "assert_commit_2", "assert_final",
         "take_1", "take_2"} \subseteq GraphTx \ {"start_time", "challenge"}
    BY DEF GraphTx, PegOutTx
  <2>2. \A k \in 1..2 : assert_commit[k] \in {"assert_commit_1", "assert_commit_2"}
    BY DEF assert_commit
  <2>3. CASE StartTime(p)
    <3>1. /\ UNCHANGED <<event, built>>
          /\ known' = [known EXCEPT ![p] = @ \cup {"start_time"}]
          /\ Broadcast(p, "start_time") /\ "start_time" \in GraphTx
      BY <2>3 DEF StartTime, GraphTx, PegOutTx
    <3>2. /\ known[o] \subseteq known'[o]
          /\ o = p => "start_time" \in known'[o]
      BY <3>1 DEF TypeOK
    <3> QED
      BY <3>1, <3>2, Broadcasts DEF Files
  <2>4. CASE ~StartTime(p)
    <3>1. /\ UNCHANGED <<built, known, event>>
          /\ \E n \in GraphTx \ {"start_time", "challenge"} : Broadcast(p, n)
      BY <1>4, <2>1, <2>2, <2>4 DEF PegOut, OperatorStep, PegOutConfirm, KickOff1,
         KickOff2, AssertInitial, AssertCommit, AssertFinal, Take1, Take2
    <3> QED
      BY <1>3, <3>1
  <2> QED BY <2>3, <2>4
<1>5. ASSUME NEW p \in Operators, Deviate(p) PROVE Files(o)
  <2>1. PICK n \in GraphTx \ VerifierTx : Deviate(p)!2!(n)
    BY <1>5 DEF Deviate
  <2>2. /\ UNCHANGED <<event, built>> /\ Broadcast(p, n) /\ n # "challenge"
        /\ known' = [known EXCEPT ![p] = @ \cup ({n} \cap MutableTx)]
    BY <1>5, <2>1 DEF Deviate, VerifierTx
  <2>3. /\ known[o] \subseteq known'[o]
        /\ o = p /\ n = "start_time" => "start_time" \in known'[o]
    BY <2>2 DEF TypeOK, MutableTx
  <2> QED
    BY <2>2, <2>3, Broadcasts DEF Files
<1>6. ASSUME NEW p \in Operators, VerifierStep(p) PROVE Files(o)
  <2>1. VerifierTx = {"challenge", "start_time_timeout", "kick_off_timeout",
                      "disprove_chain", "disprove"}
    BY DEF VerifierTx, RewardTx
  <2>2. CASE \E n \in VerifierTx : SendFilled(p, n)
    BY <2>2, FilledFiles
  <2>3. CASE DisproveChain(p) /\ ~SendFilled(p, "disprove_chain")
    <3>1. /\ UNCHANGED <<mempool, event, known>>
          /\ built' = [built EXCEPT ![p] = @ \cup {"disprove_chain"}]
      BY <2>3 DEF DisproveChain, Fill
    <3>2. built[o] \subseteq built'[o]
      BY <3>1 DEF TypeOK
    <3> QED
      BY <3>1, <3>2, NothingFiled
  <2> QED
    BY <1>6, <2>1, <2>2, <2>3
       DEF VerifierStep, Challenge, StartTimeTimeout, KickOffTimeout, DisproveChain,
           Disprove
<1>7. ASSUME NEW p \in Operators, Load(p) PROVE Files(o)
  BY <1>7 DEF Load, Files
<1>8. ASSUME NEW p \in Operators, Sync(p) PROVE Files(o)
  <2>1. known[o] \subseteq known'[o]
    BY <1>8 DEF Sync, TypeOK
  <2> QED
    BY <1>8, <2>1, NothingFiled DEF Sync
<1>9. CASE Flush \/ Block \/ EndBlock
  BY <1>9, NothingFiled DEF Flush, Block, EndBlock
<1>10. CASE Mine
  <2>1. ASSUME NEW n \in PegInTx, ConfirmPegIn(n) PROVE Files(o)
    BY <2>1, NothingFiled DEF ConfirmPegIn
  <2>2. ASSUME NEW p \in Operators, NEW x \in GraphTx, Confirm(p, x) PROVE Files(o)
    <3>1. /\ UNCHANGED <<built, known, event>>
          /\ \A q \in Operators : mempool'[q] \subseteq mempool[q]
      BY <2>2 DEF Confirm
    <3> QED BY <3>1, NothingFiled
  <2> QED BY <1>10, <2>1, <2>2 DEF Mine
<1>11. CASE UNCHANGED vars
  BY <1>11, NothingFiled DEF vars
<1> QED
  BY <1>1, <1>2, <1>4, <1>5, <1>6, <1>7, <1>8, <1>9, <1>10, <1>11 DEF Next

\* So what was sent is in its sender's copy.
LEMMA CopiesSoundStep ==
  ASSUME GraphInv, NEW o \in Operators, CopiesSound(o), [Next]_vars
  PROVE  CopiesSound(o)'
<1>1. TypeOK /\ Files(o)
  BY FileKinds DEF GraphInv
<1>2. /\ pegIn \subseteq pegIn'
      /\ Sent(o)' \subseteq Sent(o) \cup (mempool'[o] \ mempool[o])
  <2>1. CASE UNCHANGED <<pegIn, mined>>
    BY <2>1 DEF Sent
  <2>2. CASE Mine
    BY <1>1, <2>2, Confirms DEF Mine, ConfirmPegIn, Confirm, Sent
  <2> QED BY <2>1, <2>2, OnlyMineMines
<1> QED
  BY <1>1, <1>2 DEF CopiesSound, Files

\* HonestInv is inductive, beside GraphInv.
LEMMA HonestInductive ==
  ASSUME PromptOperators
  PROVE  /\ Init => HonestInv
         /\ GraphInv /\ GraphInv' /\ HonestInv /\ [Next]_vars => HonestInv'
<1>1. ASSUME Init PROVE HonestInv
  <2>1. \A o \in Operators :
          /\ mined[o] = {} /\ mempool[o] = {} /\ superblock[o] = "none"
          /\ event[o] = FALSE
          /\ \A k \in 1..2 : assertion[o][k] = "none"
          /\ \A n \in TimedTx : age[o][n] = 0
    BY <1>1 DEF Init, GraphsCreated
  <2> QED
    BY <2>1, OperatorAssumption
       DEF HonestInv, HonestState, CopiesSound, AgesCounted, Sent
<1>2. ASSUME GraphInv, GraphInv', HonestInv, [Next]_vars PROVE HonestInv'
  <2>1. AgesCounted'
    BY <1>2, AgesStep DEF HonestInv
  <2>2. ASSUME NEW o \in Automatic PROVE HonestState(o)'
    <3>1. HonestState(o) /\ CopiesSound(o) /\ AgesCounted /\ TypeOK
      BY <1>2, <2>2 DEF HonestInv, GraphInv
    <3>2. CASE ClientStep
      BY <1>2, <3>1, <3>2, HonestClient
    <3>3. CASE Block
      BY <1>2, <3>1, <3>3, HonestBlock
    <3>4. CASE EndBlock
      BY <1>2, <3>1, <3>4, HonestEndBlock
    <3>5. CASE Mine
      <4>1. ASSUME NEW n \in PegInTx, ConfirmPegIn(n) PROVE HonestState(o)'
        BY <3>1, <4>1
           DEF ConfirmPegIn, commitVars, HonestState, Sent, Timely, Slack
      <4>2. ASSUME NEW p \in Operators, NEW x \in GraphTx, Confirm(p, x)
            PROVE  HonestState(o)'
        BY <1>2, <3>1, <4>2, HonestConfirm
      <4> QED BY <3>5, <4>1, <4>2 DEF Mine
    <3> QED
      BY <1>2, <3>1, <3>2, <3>3, <3>4, <3>5, StepKinds
  <2>3. ASSUME NEW o \in Automatic PROVE CopiesSound(o)'
    BY <1>2, <2>3, OperatorAssumption, CopiesSoundStep DEF HonestInv
  <2> QED
    BY <2>1, <2>2, <2>3 DEF HonestInv
<1> QED
  BY <1>1, <1>2

\* In a synchronous mainnet that mines a transaction less than six hours late,
\* an automatic client keeps ahead of every transaction that could slash it.
THEOREM HonestInvHolds == PromptOperators => (Spec => []HonestInv)
<1> SUFFICES ASSUME PromptOperators PROVE Spec => []HonestInv
  OBVIOUS
<1> QED
  BY GraphInvHolds, HonestInductive, PTL DEF Spec

\* So it is never slashed: whatever the verifiers, the other operators and the
\* miners do, and whatever the lengths of the six hours, the day and the weeks.
THEOREM HonestSafe == PromptOperators => (Spec => []HonestNeverSlashed)
<1> SUFFICES ASSUME PromptOperators PROVE Spec => []HonestNeverSlashed
  OBVIOUS
<1>1. HonestInv => HonestNeverSlashed
  BY DEF HonestInv, HonestState, HonestNeverSlashed, Slashed, Sent
<1>2. Spec => []HonestInv
  BY HonestInvHolds
<1> QED
  BY <1>1, <1>2, PTL

-----------------------------------------------------------------------------
(* The node takes what an automatic operator's status asks for. *)

\* When the transactions that follow kick_off_1 and kick_off_2 are old enough.
LEMMA ClaimMatures ==
  ASSUME NEW o \in Operators, NEW d \in Nat
  PROVE  /\ Matured(o, "peg_out_confirm", d)
         /\ Matured(o, "kick_off_1", d)
         /\ Matured(o, "assert_commit_1", d)
         /\ Matured(o, "assert_commit_2", d)
         /\ Matured(o, "assert_final", d)
         /\ "kick_off_2" \in mined[o]
              /\ connector_b.assert_initial <= age[o]["kick_off_2"] + d =>
              Matured(o, "assert_initial", d)
         /\ "kick_off_2" \in mined[o]
              /\ connector_3.take_1 <= age[o]["kick_off_2"] + d =>
              Matured(o, "take_1", d)
         /\ "assert_final" \in mined[o]
              /\ connector_4.take_2 <= age[o]["assert_final"] + d =>
              Matured(o, "take_2", d)
<1>1. \A s \in TimedTx :
        /\ s \in GraphTx
        /\ s \notin {"peg_out_confirm", "assert_initial", "assert_commit_1",
                     "assert_commit_2"}
  BY DEF TimedTx, GraphTx, PegOutTx
<1>2. /\ Matured(o, "peg_out_confirm", d)
      /\ Matured(o, "kick_off_1", d)
      /\ Matured(o, "assert_commit_1", d)
      /\ Matured(o, "assert_commit_2", d)
      /\ Matured(o, "assert_final", d)
  BY <1>1, OpeningInputs, InputsOf, OutputsOf DEF Matured
<1>3. ASSUME "kick_off_2" \in mined[o],
             connector_b.assert_initial <= age[o]["kick_off_2"] + d
      PROVE  Matured(o, "assert_initial", d)
  BY <1>3, InputsOf, TimelocksOf, TimedOutputs DEF Matured
<1>4. ASSUME "kick_off_2" \in mined[o],
             connector_3.take_1 <= age[o]["kick_off_2"] + d
      PROVE  Matured(o, "take_1", d)
  <2>1. \A s \in TimedTx : "connector_0" \notin Outputs(s)
    BY <1>1, CreatorOf
  <2> QED
    BY <1>4, <2>1, InputsOf, TimelocksOf, TimedOutputs DEF Matured
<1>5. ASSUME "assert_final" \in mined[o],
             connector_4.take_2 <= age[o]["assert_final"] + d
      PROVE  Matured(o, "take_2", d)
  <2>1. \A s \in TimedTx : "connector_0" \notin Outputs(s)
    BY <1>1, CreatorOf
  <2> QED
    BY <1>5, <2>1, InputsOf, TimelocksOf, TimedOutputs DEF Matured
<1> QED
  BY <1>2, <1>3, <1>4, <1>5

\* A merge appends what the source has beyond the first input and output.
LEMMA TailAppended ==
  ASSUME NEW S, NEW h \in Seq(S), NEW s \in Seq(S), Len(h) = 1, Len(s) = 2,
         h[1] = s[1]
  PROVE  h \o SubSeq(s, Len(h) + 1, Len(s)) = s
<1> DEFINE t == SubSeq(s, 2, 2)
           u == h \o t
<1>1. t \in Seq(S) /\ Len(t) = 1 /\ t[1] = s[2]
  <2>1. \A i \in 2..2 : s[i] \in S
    BY ElementOfSeq
  <2> QED
    BY <2>1, SubSeqProperties
<1> HIDE DEF t
<1>2. /\ u \in Seq(S) /\ Len(u) = 2
      /\ \A i \in 1..2 : u[i] = IF i <= 1 THEN h[i] ELSE t[i - 1]
  BY <1>1, ConcatProperties
<1>3. \A i \in 1..2 : u[i] = s[i]
  BY <1>1, <1>2
<1> HIDE DEF u
<1>4. u = s
  BY <1>2, <1>3, SeqEqual
<1> QED
  BY <1>4 DEF t, u

\* What a blank copy becomes, once merged with a copy that has one more of each.
LEMMA MergeCompletes ==
  ASSUME NEW d, NEW s, NEW a, NEW b, NEW c, NEW e,
         d.ins = <<a>>, d.outs = <<c>>, d.lock = 0,
         s = [ins |-> <<a, b>>, outs |-> <<c, e>>, lock |-> 0]
  PROVE  merge_transactions(d, s) = s
<1>1. /\ s.ins = <<a, b>> /\ s.outs = <<c, e>>
      /\ s = [ins |-> s.ins, outs |-> s.outs, lock |-> 0]
  OBVIOUS
<1>2. /\ d.ins \o SubSeq(s.ins, Len(d.ins) + 1, Len(s.ins)) = s.ins
      /\ d.outs \o SubSeq(s.outs, Len(d.outs) + 1, Len(s.outs)) = s.outs
  <2> DEFINE si == s.ins
             so == s.outs
             di == d.ins
             do == d.outs
             S == {a, b, c, e}
  <2>1. /\ si \in Seq(S) /\ so \in Seq(S) /\ di \in Seq(S) /\ do \in Seq(S)
        /\ Len(si) = 2 /\ Len(so) = 2 /\ Len(di) = 1 /\ Len(do) = 1
        /\ si[1] = di[1] /\ so[1] = do[1]
    BY <1>1
  <2> HIDE DEF si, so, di, do, S
  <2>2. di \o SubSeq(si, Len(di) + 1, Len(si)) = si
    BY <2>1, TailAppended
  <2>3. do \o SubSeq(so, Len(do) + 1, Len(so)) = so
    BY <2>1, TailAppended
  <2> QED
    BY <2>2, <2>3 DEF si, so, di, do
<1> DEFINE i == d.ins \o SubSeq(s.ins, Len(d.ins) + 1, Len(s.ins))
           o == d.outs \o SubSeq(s.outs, Len(d.outs) + 1, Len(s.outs))
<1>3. merge_transactions(d, s) = [ins |-> i, outs |-> o, lock |-> d.lock]
  BY DEF merge_transactions
<1> HIDE DEF i, o
<1>4. i = s.ins /\ o = s.outs
  BY <1>2 DEF i, o
<1> QED
  BY <1>1, <1>3, <1>4

\* An operator sees the challenge against it, unless it is never told: a merge
\* turns its copy into the verifier's.
LEMMA ChallengeSeen ==
  ASSUME NEW o \in Automatic, CopiesSound(o), StoreSettled, ~Unheard(o),
         "challenge" \in mined[o]
  PROVE  Sees(o, "challenge")
<1>1. o \in Operators /\ o \notin Deviating
  BY OperatorAssumption
<1>2. "challenge" \in built[o]
  BY DEF CopiesSound, Sent
<1>3. "challenge" \in published[o]
  BY <1>2 DEF StoreSettled, Unheard
<1>4. merge_transactions(Blank("challenge"), Filled("challenge"))
        = Filled("challenge")
  <2>1. Blank("challenge") = [ ins  |-> <<"connector_a">>,
                               outs |-> <<"operator">>,
                               lock |-> 0 ]
    BY DEF Blank, RewardTx
  <2>2. Filled("challenge") = [ ins  |-> <<"connector_a", "crowdfunding">>,
                                outs |-> <<"operator", "refund">>,
                                lock |-> 0 ]
    BY DEF Filled, RewardTx
  <2> QED
    BY <2>1, <2>2, MergeCompletes
<1>5. "challenge" \in known[o]
  BY <1>1, <1>3, <1>4 DEF StoreSettled, Merged
<1> QED
  BY <1>5 DEF Sees, SeenWith

\* What each status says of the chain.
LEMMA StatusSays ==
  ASSUME NEW o, CopiesSound(o)
  PROVE  /\ OperatorStatus(o) = "PegOutPegOutConfirmAvailable" =>
              "peg_out_confirm" \notin mined[o]
         /\ OperatorStatus(o) = "PegOutKickOff1Available" =>
              "peg_out_confirm" \in mined[o] /\ "kick_off_1" \notin mined[o]
         /\ OperatorStatus(o) = "PegOutStartTimeAvailable" =>
              "kick_off_1" \in mined[o] /\ "start_time" \notin mined[o]
         /\ OperatorStatus(o) = "PegOutKickOff2Available" =>
              /\ TimelockMet(o, "kick_off_1", connector_1.kick_off_2)
              /\ "kick_off_2" \notin mined[o]
         /\ OperatorStatus(o) = "PegOutAssertInitialAvailable" =>
              /\ TimelockMet(o, "kick_off_2", connector_b.assert_initial)
              /\ mined[o] \cap {"take_1", "assert_initial"} = {}
         /\ OperatorStatus(o) = "PegOutAssertCommit1Available" =>
              "assert_initial" \in mined[o] /\ "assert_commit_1" \notin mined[o]
         /\ OperatorStatus(o) = "PegOutAssertCommit2Available" =>
              "assert_initial" \in mined[o] /\ "assert_commit_2" \notin mined[o]
         /\ OperatorStatus(o) = "PegOutAssertFinalAvailable" =>
              /\ {"assert_initial", "assert_commit_1", "assert_commit_2"}
                   \subseteq mined[o]
              /\ "assert_final" \notin mined[o]
         /\ OperatorStatus(o) = "PegOutTake1Available" =>
              /\ TimelockMet(o, "kick_off_2", connector_3.take_1)
              /\ event[o] /\ ~Sees(o, "challenge")
              /\ mined[o] \cap {"take_1", "take_2"} = {}
         /\ OperatorStatus(o) = "PegOutTake2Available" =>
              /\ TimelockMet(o, "assert_final", connector_4.take_2)
              /\ event[o]
              /\ mined[o] \cap {"take_1", "take_2"} = {}
BY DEF OperatorStatus, KickOff2Status, KickOff1Status, DisputeStatus, Sees, SeenWith,
   TimelockMet, MutableTx, VerifierTx, RewardTx, CopiesSound, Sent

\* The node has no reason to turn such a transaction down.
LEMMA HonestAccepts ==
  ASSUME GraphInv, NEW o \in Automatic, HonestState(o), CopiesSound(o),
         StoreSettled, ~Unheard(o), \A p \in Operators \ {o} : ~Reimbursed(p),
         OperatorStatus(o) \in DOMAIN process_peg_outs
  PROVE  Accepts(o, process_peg_outs[OperatorStatus(o)])
<1>0. /\ o \in Operators /\ TypeOK /\ mined[o] \subseteq GraphTx
      /\ \A p \in Operators \ {o} : \A m \in mined[p] : "connector_0" \notin Inputs(m)
  <2>1. o \in Operators /\ TypeOK /\ \A p \in Operators : mined[p] \subseteq GraphTx
    BY OperatorAssumption DEF GraphInv, TypeOK
  <2> QED
    BY <2>1, SpendersOf DEF Reimbursed
<1>1. mined[o] \cap (RewardTx \cup OwnTx) = {}
  BY DEF HonestState, Sent
<1>2. ASSUME NEW n \in GraphTx, n \notin mined[o],
             \A c \in Inputs(n) :
               /\ IF c = "connector_0" THEN "peg_in_confirm" \in pegIn
                                       ELSE \E m \in mined[o] : c \in Outputs(m)
               /\ \A m \in mined[o] : c \notin Inputs(m),
             Matured(o, n, 1), n \notin RewardTx
      PROVE  Accepts(o, n)
  <2>1. \A c \in Inputs(n) :
          /\ ~Spent(o, c)
          /\ Created(c, pegIn \cup pegInPool, mined[o] \cup mempool[o])
    BY <1>0, <1>2 DEF Spent, Created
  <2>2. ScriptSucceeds(o, n)
    BY <1>2 DEF ScriptSucceeds, RewardTx
  <2> QED BY <1>2, <2>1, <2>2 DEF Accepts
<1>3. /\ 1 \in Nat
      /\ \A s \in TimedTx : age[o][s] \in Nat
      /\ "kick_off_1" \in TimedTx /\ "kick_off_2" \in TimedTx
      /\ "assert_final" \in TimedTx
      /\ connector_b.assert_initial \in Nat /\ connector_3.take_1 \in Nat
      /\ connector_4.take_2 \in Nat
  BY <1>0, MaxAgeNat, PeriodAssumption
     DEF TypeOK, TimedTx, connector_b, connector_3, connector_4,
         num_blocks_per_network, NUM_BLOCKS_REGTEST, NUM_BLOCKS_TESTNET
<1>4. CASE OperatorStatus(o) = "PegOutPegOutConfirmAvailable"
  <2>1. "peg_out_confirm" \in GraphTx \ RewardTx
    BY DEF GraphTx, PegOutTx, RewardTx
  <2>2. Accepts(o, "peg_out_confirm")
    BY <1>0, <1>2, <1>3, <1>4, <2>1, StatusSays, OpeningInputs, ClaimMatures
  <2> QED BY <1>4, <2>2 DEF process_peg_outs
<1>5. CASE OperatorStatus(o) = "PegOutKickOff1Available"
  <2>1. "kick_off_1" \in GraphTx \ RewardTx /\ Inputs("kick_off_1") = {"connector_6"}
    BY OpeningInputs DEF GraphTx, PegOutTx, RewardTx
  <2>2. "peg_out_confirm" \in mined[o] /\ "kick_off_1" \notin mined[o]
    BY <1>5, StatusSays
  <2>3. /\ "connector_6" \in Outputs("peg_out_confirm")
        /\ \A m \in mined[o] : "connector_6" \notin Inputs(m)
    BY <1>0, <2>2, OutputsOf, SpenderOf
  <2>4. Matured(o, "kick_off_1", 1)
    BY <1>0, <1>3, ClaimMatures
  <2>5. Accepts(o, "kick_off_1")
    BY <1>2, <2>1, <2>2, <2>3, <2>4
  <2> QED BY <1>5, <2>5 DEF process_peg_outs
<1>6. CASE OperatorStatus(o) = "PegOutStartTimeAvailable"
  <2>1. "kick_off_1" \in mined[o] /\ "start_time" \notin mined[o]
    BY <1>6, StatusSays
  <2>2. Accepts(o, "start_time")
    BY <1>0, <2>1, HonestFacts, Due
  <2> QED BY <1>6, <2>2 DEF process_peg_outs
<1>7. CASE OperatorStatus(o) = "PegOutKickOff2Available"
  <2>1. /\ "kick_off_1" \in mined[o] /\ "kick_off_2" \notin mined[o]
        /\ connector_1.kick_off_2 <= age[o]["kick_off_1"]
    BY <1>7, StatusSays DEF TimelockMet
  <2>2. Accepts(o, "kick_off_2")
    BY <1>0, <2>1, HonestFacts, Due
  <2> QED BY <1>7, <2>2 DEF process_peg_outs
<1>8. CASE OperatorStatus(o) = "PegOutAssertInitialAvailable"
  <2>1. /\ "assert_initial" \in GraphTx \ RewardTx
        /\ Inputs("assert_initial") = {"connector_b"}
    BY InputsOf DEF GraphTx, PegOutTx, RewardTx
  <2>2. /\ "kick_off_2" \in mined[o]
        /\ connector_b.assert_initial <= age[o]["kick_off_2"]
        /\ mined[o] \cap {"take_1", "assert_initial"} = {}
    BY <1>8, StatusSays DEF TimelockMet
  <2>3. /\ "connector_b" \in Outputs("kick_off_2")
        /\ \A m \in mined[o] : "connector_b" \notin Inputs(m)
    BY <1>0, <1>1, <2>2, OutputsOf, SpendersOf DEF RewardTx
  <2>4. connector_b.assert_initial <= age[o]["kick_off_2"] + 1
    BY <1>3, <2>2
  <2>5. Matured(o, "assert_initial", 1)
    BY <1>0, <1>3, <2>2, <2>4, ClaimMatures
  <2>6. Accepts(o, "assert_initial")
    BY <1>2, <2>1, <2>2, <2>3, <2>5
  <2> QED BY <1>8, <2>6 DEF process_peg_outs
<1>9. CASE OperatorStatus(o) = "PegOutAssertCommit1Available"
  <2>1. /\ "assert_commit_1" \in GraphTx \ RewardTx
        /\ Inputs("assert_commit_1") = {"connector_e_1"}
    BY InputsOf DEF GraphTx, PegOutTx, RewardTx
  <2>2. "assert_initial" \in mined[o] /\ "assert_commit_1" \notin mined[o]
    BY <1>9, StatusSays
  <2>3. /\ "connector_e_1" \in Outputs("assert_initial")
        /\ \A m \in mined[o] : "connector_e_1" \notin Inputs(m)
    BY <1>0, <2>2, OutputsOf, SpenderOf
  <2>4. Matured(o, "assert_commit_1", 1)
    BY <1>0, <1>3, ClaimMatures
  <2>5. Accepts(o, "assert_commit_1")
    BY <1>2, <2>1, <2>2, <2>3, <2>4
  <2> QED BY <1>9, <2>5 DEF process_peg_outs
<1>10. CASE OperatorStatus(o) = "PegOutAssertCommit2Available"
  <2>1. /\ "assert_commit_2" \in GraphTx \ RewardTx
        /\ Inputs("assert_commit_2") = {"connector_e_2"}
    BY InputsOf DEF GraphTx, PegOutTx, RewardTx
  <2>2. "assert_initial" \in mined[o] /\ "assert_commit_2" \notin mined[o]
    BY <1>10, StatusSays
  <2>3. /\ "connector_e_2" \in Outputs("assert_initial")
        /\ \A m \in mined[o] : "connector_e_2" \notin Inputs(m)
    BY <1>0, <2>2, OutputsOf, SpenderOf
  <2>4. Matured(o, "assert_commit_2", 1)
    BY <1>0, <1>3, ClaimMatures
  <2>5. Accepts(o, "assert_commit_2")
    BY <1>2, <2>1, <2>2, <2>3, <2>4
  <2> QED BY <1>10, <2>5 DEF process_peg_outs
<1>11. CASE OperatorStatus(o) = "PegOutAssertFinalAvailable"
  <2>1. /\ "assert_final" \in GraphTx \ RewardTx
        /\ Inputs("assert_final") = {"connector_d", "connector_f_1", "connector_f_2"}
    BY InputsOf DEF GraphTx, PegOutTx, RewardTx
  <2>2. /\ "assert_initial" \in mined[o] /\ "assert_commit_1" \in mined[o]
        /\ "assert_commit_2" \in mined[o] /\ "assert_final" \notin mined[o]
    BY <1>11, StatusSays
  <2>3. /\ "connector_d" \in Outputs("assert_initial")
        /\ "connector_f_1" \in Outputs("assert_commit_1")
        /\ "connector_f_2" \in Outputs("assert_commit_2")
    BY <1>0, <2>2, OutputsOf
  <2>4. \A m \in mined[o] : /\ "connector_d" \notin Inputs(m)
                            /\ "connector_f_1" \notin Inputs(m)
                            /\ "connector_f_2" \notin Inputs(m)
    BY <1>0, <2>2, SpenderOf
  <2>5. Matured(o, "assert_final", 1)
    BY <1>0, <1>3, ClaimMatures
  <2>6. Accepts(o, "assert_final")
    BY <1>2, <2>1, <2>2, <2>3, <2>4, <2>5
  <2> QED BY <1>11, <2>6 DEF process_peg_outs
<1>12. CASE OperatorStatus(o) = "PegOutTake1Available"
  <2>1. /\ "take_1" \in GraphTx \ RewardTx
        /\ Inputs("take_1") =
             {"connector_0", "connector_a", "connector_3", "connector_b"}
    BY InputsOf DEF GraphTx, PegOutTx, RewardTx
  <2>2. /\ "kick_off_2" \in mined[o] /\ event[o] /\ ~Sees(o, "challenge")
        /\ connector_3.take_1 <= age[o]["kick_off_2"]
        /\ mined[o] \cap {"take_1", "take_2"} = {}
    BY <1>12, StatusSays DEF TimelockMet
  <2>3. "challenge" \notin mined[o] /\ "assert_initial" \notin mined[o]
    BY <2>2, ChallengeSeen DEF HonestState, Sent
  <2>4. "kick_off_1" \in mined[o] /\ "peg_in_confirm" \in pegIn
    BY <1>0, <2>2, OpeningAncestors DEF CopiesSound
  <2>5. /\ "connector_a" \in Outputs("kick_off_1")
        /\ "connector_3" \in Outputs("kick_off_2")
        /\ "connector_b" \in Outputs("kick_off_2")
    BY <1>0, <2>2, <2>4, OutputsOf
  <2>6. \A m \in mined[o] : /\ "connector_0" \notin Inputs(m)
                            /\ "connector_a" \notin Inputs(m)
                            /\ "connector_3" \notin Inputs(m)
                            /\ "connector_b" \notin Inputs(m)
    BY <1>0, <1>1, <2>2, <2>3, SpendersOf DEF RewardTx, OwnTx
  <2>7. connector_3.take_1 <= age[o]["kick_off_2"] + 1
    BY <1>3, <2>2
  <2>8. Matured(o, "take_1", 1)
    BY <1>0, <1>3, <2>2, <2>7, ClaimMatures
  <2>9. Accepts(o, "take_1")
    BY <1>2, <2>1, <2>2, <2>4, <2>5, <2>6, <2>8
  <2> QED BY <1>12, <2>9 DEF process_peg_outs
<1>13. CASE OperatorStatus(o) = "PegOutTake2Available"
  <2>1. /\ "take_2" \in GraphTx \ RewardTx
        /\ Inputs("take_2") =
             {"connector_0", "connector_4", "connector_5", "connector_c"}
    BY InputsOf DEF GraphTx, PegOutTx, RewardTx
  <2>2. /\ "assert_final" \in mined[o] /\ event[o]
        /\ connector_4.take_2 <= age[o]["assert_final"]
        /\ mined[o] \cap {"take_1", "take_2"} = {}
    BY <1>13, StatusSays DEF TimelockMet
  <2>3. "peg_in_confirm" \in pegIn
    BY <2>2 DEF CopiesSound
  <2>4. /\ "connector_4" \in Outputs("assert_final")
        /\ "connector_5" \in Outputs("assert_final")
        /\ "connector_c" \in Outputs("assert_final")
    BY <1>0, <2>2, OutputsOf
  <2>5. \A m \in mined[o] : /\ "connector_0" \notin Inputs(m)
                            /\ "connector_4" \notin Inputs(m)
                            /\ "connector_5" \notin Inputs(m)
                            /\ "connector_c" \notin Inputs(m)
    BY <1>0, <1>1, <2>2, SpendersOf DEF RewardTx, OwnTx
  <2>6. connector_4.take_2 <= age[o]["assert_final"] + 1
    BY <1>3, <2>2
  <2>7. Matured(o, "take_2", 1)
    BY <1>0, <1>3, <2>2, <2>6, ClaimMatures
  <2>8. Accepts(o, "take_2")
    BY <1>2, <2>1, <2>2, <2>3, <2>4, <2>5, <2>7
  <2> QED BY <1>13, <2>8 DEF process_peg_outs
<1> QED
  BY <1>4, <1>5, <1>6, <1>7, <1>8, <1>9, <1>10, <1>11, <1>12, <1>13
     DEF process_peg_outs

\* An automatic operator never waits for a transaction that the chain has no use
\* for any more, as long as no rival was reimbursed: what its status asks for is
\* accepted, although its copy learns of a challenge from a file only, unless that
\* file never comes.
THEOREM StatusSafe == PromptOperators => (Spec => []StatusSound)
<1> SUFFICES ASSUME PromptOperators PROVE Spec => []StatusSound
  OBVIOUS
<1>1. GraphInv /\ HonestInv => StatusSound
  BY HonestAccepts DEF HonestInv, StatusSound
<1>2. Spec => []GraphInv /\ []HonestInv
  BY GraphInvHolds, HonestInvHolds
<1> QED
  BY <1>1, <1>2, PTL

-----------------------------------------------------------------------------
(* The peg-in is paid to an operator that paid. *)

\* The verifiers' margin, in terms of the leaves of the connectors.
LEMMA VerifierMargin ==
  ASSUME PromptVerifiers
  PROVE  /\ connector_1.kick_off_2 = NUM_BLOCKS_PER_2_WEEKS
         /\ MaxLag + 1 < NUM_BLOCKS_PER_2_WEEKS
         /\ MaxLag \in Nat /\ NUM_BLOCKS_PER_2_WEEKS \in Nat
BY MainnetLocks, PeriodAssumption, SynchronyAssumption DEF PromptVerifiers

\* The pool is never later than this.
LEMMA SlackBound ==
  ASSUME TypeOK
  PROVE  /\ Slack \in Nat /\ Slack <= MaxLag + 1
         /\ ~mining => Slack <= MaxLag
<1>1. lag \in Nat /\ MaxLag \in Nat /\ lag <= MaxLag
  BY SynchronyAssumption DEF TypeOK
<1>2. mining \in BOOLEAN
  BY DEF TypeOK
<1>3. CASE mining
  BY <1>1, <1>3 DEF Slack
<1>4. CASE ~mining
  BY <1>1, <1>4 DEF Slack
<1> QED
  BY <1>3, <1>4

\* An assertion that reached assert_final without a peg-out can be disproved.
LEMMA WrongAssertion ==
  ASSUME GraphInv, NEW o \in Operators, ClaimSound(o), Unfounded(o),
         "assert_final" \in mined[o]
  PROVE  Disprovable(o)
<1>1. "assert_commit_1" \in mined[o]
  BY Ancestors
<1>2. assert_commit[1] = "assert_commit_1" /\ 1 \in 1..2
  BY DEF assert_commit
<1>3. assertion[o][1] # "none" /\ assertion[o][1] # "valid"
  BY <1>1, <1>2 DEF ClaimSound, Sent
<1>4. assertion[o][1] \in {"none", "valid", "invalid"}
  BY <1>2 DEF GraphInv, TypeOK
<1> QED
  BY <1>2, <1>3, <1>4 DEF Disprovable

\* Between two blocks the verifiers have sent what decides a claim.
LEMMA VerifiersPrompted ==
  ASSUME GraphInv, PromptVerifiers, NEW o \in Operators, ClaimHeld(o),
         ClientsSettled
  PROVE  /\ "peg_out" \notin mined[o] /\ "kick_off_1" \in mined[o]
              /\ ~Spent(o, "connector_a") => "challenge" \in mempool[o]
         /\ Unfounded(o) /\ "assert_final" \in mined[o]
              /\ ~Spent(o, "connector_c") => "disprove" \in mempool[o]
<1>0. TypeOK /\ ~VerifierPrompted(o) /\ Vigilant
  BY DEF GraphInv, ClientsSettled, PromptVerifiers
<1>1. \A n \in AdvisedTx(o) : Accepts(o, n) => n \in mempool[o]
  BY <1>0 DEF VerifierPrompted
<1>2. ASSUME "peg_out" \notin mined[o], "kick_off_1" \in mined[o],
             ~Spent(o, "connector_a"), "challenge" \notin mempool[o]
      PROVE  FALSE
  <2>1. "challenge" \notin built[o]
    BY <1>2 DEF ClaimHeld, ChallengedInTime
  <2>2. "challenge" \in AdvisedTx(o)
    BY <1>0, <1>2, <2>1 DEF AdvisedTx, ChallengeDue
  <2> QED
    BY <1>0, <1>1, <1>2, <2>2, Due
<1>3. ASSUME Unfounded(o), "assert_final" \in mined[o], ~Spent(o, "connector_c")
      PROVE  "disprove" \in mempool[o]
  <2>1. "take_2" \notin mined[o] /\ "disprove" \notin mined[o]
    BY <1>3, InputsOf, SpentHere
  <2>2. /\ "kick_off_2" \in mined[o]
        /\ "take_1" \notin mined[o] /\ "disprove_chain" \notin mined[o]
    BY <1>3, Ancestors, Exclusions
  <2>3. VerifierStatus(o) = "PegOutDisproveAvailable"
    BY <1>3, <2>1, <2>2
       DEF VerifierStatus, VerifierSees, SeenWith, MutableTx, VerifierTx, RewardTx
  <2>4. "disprove" \in AdvisedTx(o)
    BY <2>3 DEF AdvisedTx
  <2>5. Accepts(o, "disprove")
    BY <1>0, <1>3, WrongAssertion, Due DEF ClaimHeld
  <2> QED
    BY <1>1, <2>4, <2>5
<1> QED
  BY <1>2, <1>3

\* No client step lets an unfounded claim pass.
LEMMA ClaimClient ==
  ASSUME GraphInv, PromptVerifiers, NEW o \in Operators, ClaimHeld(o), ClientStep
  PROVE  ClaimHeld(o)'
<1>0. /\ TypeOK /\ Network = "Bitcoin" /\ Synchronous
      /\ Sends(o) /\ Commits(o) /\ Fills(o)
      /\ UNCHANGED <<pegIn, mined, age, mining, lag>>
  BY DEF GraphInv, PromptVerifiers, ClientStep, ledgerVars
<1>1. /\ Sent(o) \subseteq Sent(o)' /\ mempool[o] \subseteq mempool'[o]
      /\ \A n \in Sent(o)' \ Sent(o) :
           n \notin mempool[o] /\ n \in mempool'[o] /\ Accepts(o, n) /\ MaySend(o, n)
  BY <1>0 DEF Sends, Sent
<1>2. "kick_off_2" \in mined[o] => superblock'[o] = superblock[o]
  BY <1>0 DEF Commits
<1>3. \A n, w, m : Timely(o, n, w, m) => Timely(o, n, w, m)'
  BY <1>0, TimelyClient DEF Sends, ClientStep
<1>4. "assert_initial" \in Sent(o) => "kick_off_2" \in mined[o]
  BY DEF ClaimHeld, ClaimSound
<1>5. \A c : Spent(o, c)' <=> Spent(o, c)
  BY <1>0 DEF Spent
<1>6. ClaimSound(o)'
  <2>1. o \notin Deviating /\ "peg_out_confirm" \in Sent(o)' => "peg_out" \in mined[o]
    BY <1>1 DEF ClaimHeld, ClaimSound, MaySend
  <2>2. "assert_initial" \in Sent(o)' => "kick_off_2" \in mined[o]
    <3>1. 1 \in Nat OBVIOUS
    <3> QED BY <1>0, <1>1, <1>4, <3>1, MaturedAfter DEF Accepts
  <2>3. ASSUME NEW k \in 1..2, assert_commit[k] \in Sent(o)'
        PROVE  assertion'[o][k] # "none"
    BY <1>0, <1>1, <2>3 DEF ClaimHeld, ClaimSound, Commits
  <2>4. ASSUME NEW k \in 1..2, assertion'[o][k] # "none" PROVE "kick_off_2" \in mined[o]
    <3>1. CASE assertion'[o][k] = assertion[o][k]
      BY <2>4, <3>1 DEF ClaimHeld, ClaimSound
    <3>2. CASE assertion'[o][k] # assertion[o][k]
      <4>1. Accepts(o, assert_commit[k])
        BY <1>0, <3>2 DEF Commits
      <4>2. PICK c \in {"connector_e_1", "connector_e_2"} : c \in Inputs(assert_commit[k])
        BY InputsOf DEF assert_commit
      <4>3. \E m \in Sent(o) : c \in Outputs(m)
        BY <4>1, <4>2 DEF Accepts, Created, Sent
      <4>4. Sent(o) \subseteq GraphTx
        BY <1>0 DEF TypeOK, Sent
      <4>5. "assert_initial" \in Sent(o)
        BY <4>2, <4>3, <4>4, OutputsOf
      <4> QED
        BY <1>4, <4>5
    <3> QED
      BY <3>1, <3>2
  <2>5. ASSUME NEW k \in 1..2, assertion'[o][k] = "valid" PROVE ~Unfounded(o)'
    <3>1. superblock'[o] = superblock[o]
      BY <1>2, <2>4, <2>5
    <3>2. Unfounded(o)' <=> Unfounded(o)
      BY <1>0, <3>1 DEF Unfounded
    <3>3. CASE assertion'[o][k] = assertion[o][k]
      BY <2>5, <3>2, <3>3 DEF ClaimHeld, ClaimSound
    <3>4. CASE assertion'[o][k] # assertion[o][k] /\ o \in Deviating
      BY <1>0, <2>5, <3>2, <3>4 DEF Commits
    <3>5. CASE assertion'[o][k] # assertion[o][k] /\ o \notin Deviating
      <4>1. "assert_initial" \in mined[o]
        BY <1>0, <3>5 DEF Commits
      <4>2. "peg_out_confirm" \in mined[o]
        BY <4>1, Ancestors, OpeningAncestors
      <4>3. "peg_out" \in mined[o]
        BY <3>5, <4>2 DEF ClaimHeld, ClaimSound, Sent
      <4> QED
        BY <3>2, <4>3 DEF Unfounded
    <3> QED
      BY <3>3, <3>4, <3>5
  <2> QED
    BY <1>0, <2>1, <2>2, <2>3, <2>4, <2>5 DEF ClaimSound
<1>7. ChallengedInTime(o)'
  <2>1. ASSUME "challenge" \in Copies(o)'
        PROVE  "challenge" \in mempool'[o] \/ Spent(o, "connector_a")
    <3>1. CASE "challenge" \in Copies(o)
      BY <1>1, <3>1 DEF ClaimHeld, ChallengedInTime, Copies
    <3>2. CASE "challenge" \notin Copies(o)
      <4>1. /\ "kick_off_1" \in mined[o]
            /\ Accepts(o, "challenge") => "challenge" \in mempool'[o]
        BY <1>0, <2>1, <3>2 DEF Fills
      <4> QED
        BY <1>0, <4>1, Due
    <3> QED
      BY <3>1, <3>2
  <2> QED
    BY <1>0, <1>3, <1>5, <2>1 DEF ClaimHeld, ChallengedInTime, Copies
<1>8. DisprovedInTime(o)'
  <2>1. "assert_final" \in mined[o] => (Unfounded(o)' <=> Unfounded(o))
    BY <1>0, <1>2, Ancestors DEF Unfounded
  <2>2. "take_2" \in mined[o] => "assert_final" \in mined[o]
    BY Ancestors
  <2> QED
    BY <1>0, <1>3, <1>5, <2>1, <2>2 DEF ClaimHeld, DisprovedInTime
<1> QED
  BY <1>6, <1>7, <1>8 DEF ClaimHeld

\* The next block finds in the pool what decides the claim.
LEMMA ClaimBlock ==
  ASSUME GraphInv, PromptVerifiers, NEW o \in Operators, ClaimHeld(o), Block
  PROVE  ClaimHeld(o)'
<1>0. TypeOK /\ "kick_off_1" \in TimedTx /\ "assert_final" \in TimedTx /\ 0 \in Nat
  BY DEF GraphInv, TimedTx
<1>1. /\ ClientsSettled
      /\ UNCHANGED <<mined, mempool, superblock, assertion, built, known, published>>
  BY DEF PromptVerifiers, Block, poolVars, commitVars, copyVars
<1>2. /\ Sent(o)' = Sent(o)
      /\ Unfounded(o)' <=> Unfounded(o)
      /\ \A c : Spent(o, c)' <=> Spent(o, c)
  BY <1>1 DEF Sent, Unfounded, Spent
<1>3. /\ age[o]["kick_off_1"] \in Nat /\ age'[o]["kick_off_1"] \in Nat
      /\ age[o]["kick_off_1"] <= age'[o]["kick_off_1"]
  BY <1>0, BlockAges, MaxAgeNat
<1>4. ClaimSound(o)'
  BY <1>1, <1>2 DEF ClaimHeld, ClaimSound
<1>5. ASSUME "peg_out" \notin mined[o], "kick_off_1" \in mined[o],
             ~Spent(o, "connector_a")
      PROVE  Timely(o, "kick_off_1", 0, "challenge")'
  <2>1. Timely(o, "kick_off_1", 0, "challenge") /\ "challenge" \in mempool[o]
    BY <1>1, <1>5, VerifiersPrompted DEF ClaimHeld, ChallengedInTime
  <2> QED
    BY <1>0, <2>1, TimelyBlock
<1>6. ASSUME Unfounded(o), "assert_final" \in mined[o], ~Spent(o, "connector_c")
      PROVE  Timely(o, "assert_final", 0, "disprove")'
  <2>1. Timely(o, "assert_final", 0, "disprove") /\ "disprove" \in mempool[o]
    BY <1>1, <1>6, VerifiersPrompted DEF ClaimHeld, DisprovedInTime
  <2> QED
    BY <1>0, <2>1, TimelyBlock
<1>7. "kick_off_2" \in mined[o] => connector_1.kick_off_2 <= age'[o]["kick_off_1"]
  <2>1. "kick_off_2" \in mined[o] => connector_1.kick_off_2 <= age[o]["kick_off_1"]
    BY DEF ClaimHeld, ChallengedInTime
  <2> QED
    BY <1>3, <2>1, VerifierMargin
<1>8. ChallengedInTime(o)'
  BY <1>1, <1>2, <1>5, <1>7 DEF ClaimHeld, ChallengedInTime
<1>9. DisprovedInTime(o)'
  BY <1>1, <1>2, <1>6 DEF ClaimHeld, DisprovedInTime
<1> QED
  BY <1>4, <1>8, <1>9 DEF ClaimHeld

\* A block that leaves it in the pool is late.
LEMMA ClaimEndBlock ==
  ASSUME GraphInv, PromptVerifiers, NEW o \in Operators, ClaimHeld(o), EndBlock
  PROVE  ClaimHeld(o)'
<1>0. /\ TypeOK /\ Synchronous /\ 0 \in Nat
      /\ "kick_off_1" \in TimedTx /\ "assert_final" \in TimedTx
  BY DEF GraphInv, TimedTx, PromptVerifiers
<1>1. UNCHANGED <<mined, mempool, age, superblock, assertion, built, known, published>>
  BY DEF EndBlock, poolVars, commitVars, copyVars
<1>2. /\ Sent(o)' = Sent(o)
      /\ Unfounded(o)' <=> Unfounded(o)
      /\ \A c : Spent(o, c)' <=> Spent(o, c)
  BY <1>1 DEF Sent, Unfounded, Spent
<1>3. ClaimSound(o)'
  BY <1>1, <1>2 DEF ClaimHeld, ClaimSound
<1>4. ASSUME "peg_out" \notin mined[o], "kick_off_1" \in mined[o],
             ~Spent(o, "connector_a")
      PROVE  Timely(o, "kick_off_1", 0, "challenge")'
  <2>1. Timely(o, "kick_off_1", 0, "challenge") /\ Confirmable(o, "challenge")
    BY <1>0, <1>4, Due DEF ClaimHeld, ChallengedInTime
  <2> QED
    BY <1>0, <2>1, TimelyEnd
<1>5. ASSUME Unfounded(o), "assert_final" \in mined[o], ~Spent(o, "connector_c")
      PROVE  Timely(o, "assert_final", 0, "disprove")'
  <2>1. Timely(o, "assert_final", 0, "disprove") /\ Confirmable(o, "disprove")
    BY <1>0, <1>5, WrongAssertion, Due DEF ClaimHeld, DisprovedInTime
  <2> QED
    BY <1>0, <2>1, TimelyEnd
<1>6. ChallengedInTime(o)'
  BY <1>1, <1>2, <1>4 DEF ClaimHeld, ChallengedInTime
<1>7. DisprovedInTime(o)'
  BY <1>1, <1>2, <1>5 DEF ClaimHeld, DisprovedInTime
<1> QED
  BY <1>3, <1>6, <1>7 DEF ClaimHeld

\* What a block may confirm of an undecided claim comes too late for the claim.
LEMMA ClaimConfirm ==
  ASSUME GraphInv, GraphInv', AgesCounted, PromptVerifiers,
         NEW o \in Operators, ClaimHeld(o),
         NEW p \in Operators, NEW x \in GraphTx, Confirm(p, x)
  PROVE  ClaimHeld(o)'
<1>0. /\ TypeOK /\ TypeOK' /\ Network = "Bitcoin" /\ 0 \in Nat
      /\ "kick_off_1" \in TimedTx /\ "assert_final" \in TimedTx
  BY DEF GraphInv, TimedTx, PromptVerifiers
<1>1. /\ x \in mempool[p] /\ Confirmable(p, x)
      /\ UNCHANGED <<age, mining, lag>>
      /\ UNCHANGED <<superblock, assertion, built, known, published>>
      /\ mined[o] \subseteq mined'[o] /\ Sent(o)' \subseteq Sent(o)
      /\ mined'[o] \subseteq mined[o] \cup {x}
      /\ p # o => mined'[o] = mined[o]
      /\ x \in mined'[p]
  BY <1>0, Confirms
<1>2. /\ Matured(p, x, 0)
      /\ \A c \in Inputs(x) : c # "connector_0" => ~Spent(p, c)
  BY <1>1 DEF Confirmable
<1>3. /\ Unfounded(o)' => Unfounded(o)
      /\ \A c : c # "connector_0" /\ ~Spent(o, c)' =>
           ~Spent(o, c) /\ (p = o => c \notin Inputs(x))
  BY <1>1 DEF Unfounded, Spent
<1>4. /\ age[o]["kick_off_1"] \in Nat /\ age[o]["assert_final"] \in Nat
  BY <1>0, MaxAgeNat DEF TypeOK
<1>5. \A n \in TimedTx : n \notin mined[o] => age[o][n] = 0 /\ age'[o][n] = 0
  BY <1>1 DEF AgesCounted
<1>6. ClaimSound(o)'
  BY <1>1, <1>3 DEF ClaimHeld, ClaimSound
\* What decides the claim stays in the pool until its input is spent.
<1>7. ASSUME NEW m \in mempool[o], NEW c, c # "connector_0", ~Spent(o, c)',
             c \in Inputs(m), "connector_0" \notin Inputs(m),
             p = o => Inputs(m) \cap Inputs(x) = {}
      PROVE  m \in mempool'[o]
  BY <1>0, <1>3, <1>7, Confirms
<1>8. ~Spent(o, "connector_a")' =>
        ("challenge" \in mempool[o] => "challenge" \in mempool'[o])
  <2>1. Inputs("challenge") = {"connector_a"}
    BY InputsOf
  <2> QED
    BY <1>3, <1>7, <2>1
<1>9. ~Spent(o, "connector_c")' =>
        ("disprove" \in mempool[o] => "disprove" \in mempool'[o])
  <2>1. Inputs("disprove") = {"connector_5", "connector_c"}
    BY InputsOf
  <2>2. "connector_5" \in Inputs(x) => "connector_c" \in Inputs(x)
    BY InputsOf, SpendersOf
  <2> QED
    BY <1>3, <1>7, <2>1, <2>2
\* take_1 waits for the challenge.
<1>10. x = "kick_off_2" /\ p = o =>
         /\ "kick_off_1" \in mined[o]
         /\ connector_1.kick_off_2 <= age[o]["kick_off_1"]
  <2> SUFFICES ASSUME x = "kick_off_2", p = o
               PROVE  /\ "kick_off_1" \in mined[o]
                      /\ connector_1.kick_off_2 <= age[o]["kick_off_1"]
    OBVIOUS
  <2>1. connector_1.kick_off_2 <= age[o]["kick_off_1"]
    BY <1>0, <1>2, <1>4, MaturedAfter, VerifierMargin
  <2> QED
    BY <1>0, <1>4, <1>5, <2>1, VerifierMargin
<1>11. x = "take_1" /\ p = o => "peg_out" \in mined[o]
  <2> SUFFICES ASSUME x = "take_1", p = o, "peg_out" \notin mined[o] PROVE FALSE
    OBVIOUS
  <2>1. "kick_off_2" \in mined[o]
    <3>1. "connector_3" \in Inputs("take_1")
      BY InputsOf
    <3>2. PICK n \in mined[o] : "connector_3" \in Outputs(n)
      BY <1>1, <3>1 DEF Confirmable, Created
    <3> QED
      BY <1>0, <3>2, OutputsOf DEF TypeOK
  <2>2. /\ "kick_off_1" \in mined[o]
        /\ NUM_BLOCKS_PER_2_WEEKS <= age[o]["kick_off_1"]
    BY <2>1, VerifierMargin DEF ClaimHeld, ChallengedInTime
  <2>3. ~Spent(o, "connector_a")
    BY <1>2, InputsOf
  <2>4. age[o]["kick_off_1"] <= 0 + Slack
    BY <2>2, <2>3 DEF ClaimHeld, ChallengedInTime, Timely
  <2> QED
    BY <1>0, <1>4, <2>2, <2>4, SlackBound, VerifierMargin
<1>12. ChallengedInTime(o)'
  <2>1. "take_1" \in mined'[o] => "peg_out" \in mined'[o]
    BY <1>1, <1>11 DEF ClaimHeld, ChallengedInTime
  <2>2. "challenge" \in Copies(o)' =>
          "challenge" \in mempool'[o] \/ Spent(o, "connector_a")'
    BY <1>1, <1>3, <1>8 DEF ClaimHeld, ChallengedInTime, Copies
  <2>3. "kick_off_2" \in mined'[o] =>
          /\ "kick_off_1" \in mined'[o]
          /\ connector_1.kick_off_2 <= age'[o]["kick_off_1"]
    BY <1>1, <1>10 DEF ClaimHeld, ChallengedInTime
  <2>4. ASSUME "peg_out" \notin mined'[o], "kick_off_1" \in mined'[o],
               ~Spent(o, "connector_a")'
        PROVE  Timely(o, "kick_off_1", 0, "challenge")'
    <3>1. CASE "kick_off_1" \notin mined[o]
      BY <1>0, <1>5, <3>1, TimelyNew
    <3>2. CASE "kick_off_1" \in mined[o]
      <4>1. Timely(o, "kick_off_1", 0, "challenge")
        BY <1>1, <1>3, <2>4, <3>2 DEF ClaimHeld, ChallengedInTime
      <4> QED
        BY <1>1, <1>8, <2>4, <4>1, TimelyConfirm
    <3> QED
      BY <3>1, <3>2
  <2> QED
    BY <2>1, <2>2, <2>3, <2>4 DEF ChallengedInTime, Copies
\* take_2 waits for disprove.
<1>13. x = "take_2" /\ p = o => ~Unfounded(o)
  <2> SUFFICES ASSUME x = "take_2", p = o, Unfounded(o) PROVE FALSE
    OBVIOUS
  <2>1. NUM_BLOCKS_PER_2_WEEKS <= age[o]["assert_final"]
    BY <1>0, <1>2, <1>4, MaturedAfter, VerifierMargin
  <2>2. "assert_final" \in mined[o]
    BY <1>0, <1>4, <1>5, <2>1, VerifierMargin
  <2>3. ~Spent(o, "connector_c")
    BY <1>2, InputsOf
  <2>4. age[o]["assert_final"] <= 0 + Slack
    BY <2>2, <2>3 DEF ClaimHeld, DisprovedInTime, Timely
  <2> QED
    BY <1>0, <1>4, <2>1, <2>4, SlackBound, VerifierMargin
<1>14. DisprovedInTime(o)'
  <2>1. "take_2" \in mined'[o] => ~Unfounded(o)'
    BY <1>1, <1>3, <1>13 DEF ClaimHeld, DisprovedInTime
  <2>2. ASSUME Unfounded(o)', "assert_final" \in mined'[o],
               ~Spent(o, "connector_c")'
        PROVE  Timely(o, "assert_final", 0, "disprove")'
    <3>1. CASE "assert_final" \notin mined[o]
      BY <1>0, <1>5, <3>1, TimelyNew
    <3>2. CASE "assert_final" \in mined[o]
      <4>1. Timely(o, "assert_final", 0, "disprove")
        BY <1>1, <1>3, <2>2, <3>2 DEF ClaimHeld, DisprovedInTime
      <4> QED
        BY <1>1, <1>9, <2>2, <4>1, TimelyConfirm
    <3> QED
      BY <3>1, <3>2
  <2> QED
    BY <2>1, <2>2 DEF DisprovedInTime
<1> QED
  BY <1>6, <1>12, <1>14 DEF ClaimHeld

\* DisputeInv is inductive, beside GraphInv.
LEMMA DisputeInductive ==
  ASSUME PromptVerifiers
  PROVE  /\ Init => DisputeInv
         /\ GraphInv /\ GraphInv' /\ DisputeInv /\ [Next]_vars => DisputeInv'
<1>1. ASSUME Init PROVE DisputeInv
  <2>1. \A o \in Operators :
          /\ mined[o] = {} /\ mempool[o] = {} /\ built[o] = {}
          /\ known[o] = {} /\ published[o] = {}
          /\ \A k \in 1..2 : assertion[o][k] = "none"
          /\ \A n \in TimedTx : age[o][n] = 0
    BY <1>1 DEF Init, GraphsCreated
  <2>2. ASSUME NEW o \in Operators PROVE ClaimHeld(o)
    <3>1. Sent(o) = {}
      BY <2>1 DEF Sent
    <3> QED
      BY <2>1, <3>1 DEF ClaimHeld, ClaimSound, ChallengedInTime, DisprovedInTime
  <2> QED
    BY <2>1, <2>2 DEF DisputeInv, AgesCounted
<1>2. ASSUME GraphInv, GraphInv', DisputeInv, [Next]_vars PROVE DisputeInv'
  <2>1. AgesCounted'
    BY <1>2, AgesStep DEF DisputeInv
  <2>2. ASSUME NEW o \in Operators PROVE ClaimHeld(o)'
    <3>1. ClaimHeld(o) /\ AgesCounted /\ TypeOK
      BY <1>2, <2>2 DEF DisputeInv, GraphInv
    <3>2. CASE ClientStep
      BY <1>2, <3>1, <3>2, ClaimClient
    <3>3. CASE Block
      BY <1>2, <3>1, <3>3, ClaimBlock
    <3>4. CASE EndBlock
      BY <1>2, <3>1, <3>4, ClaimEndBlock
    <3>5. CASE Mine
      <4>1. ASSUME NEW n \in PegInTx, ConfirmPegIn(n) PROVE ClaimHeld(o)'
        <5>1. UNCHANGED <<mined, age, mining, lag, mempool>>
              /\ UNCHANGED <<superblock, assertion, built, known, published>>
          BY <4>1 DEF ConfirmPegIn, commitVars, copyVars
        <5>2. \A n1, w, m : Timely(o, n1, w, m) => Timely(o, n1, w, m)'
          BY <5>1 DEF Timely, Slack
        <5>3. /\ Sent(o)' = Sent(o)
              /\ Unfounded(o)' <=> Unfounded(o)
              /\ \A c : Spent(o, c)' <=> Spent(o, c)
          BY <5>1 DEF Sent, Unfounded, Spent
        <5> QED
          BY <3>1, <5>1, <5>2, <5>3 DEF ClaimHeld, ClaimSound,
             ChallengedInTime, DisprovedInTime
      <4>2. ASSUME NEW p \in Operators, NEW x \in GraphTx, Confirm(p, x)
            PROVE  ClaimHeld(o)'
        BY <1>2, <3>1, <4>2, ClaimConfirm
      <4> QED BY <3>5, <4>1, <4>2 DEF Mine
    <3> QED
      BY <1>2, <3>1, <3>2, <3>3, <3>4, <3>5, StepKinds
  <2> QED
    BY <2>1, <2>2 DEF DisputeInv
<1> QED
  BY <1>1, <1>2

\* In a synchronous mainnet, verifiers that challenge an unpaid claim on sight of
\* its kick_off_1 are always in time to challenge and to disprove it.
THEOREM DisputeInvHolds == PromptVerifiers => (Spec => []DisputeInv)
<1> SUFFICES ASSUME PromptVerifiers PROVE Spec => []DisputeInv
  OBVIOUS
<1> QED
  BY GraphInvHolds, DisputeInductive, PTL DEF Spec

\* So an operator, deviating or not, is reimbursed only if it made the peg-out,
\* unless it committed to a superblock that is not the heaviest.
THEOREM PaidBeforeReimbursed == PromptVerifiers => (Spec => []ReimbursedOnlyIfPaid)
<1> SUFFICES ASSUME PromptVerifiers PROVE Spec => []ReimbursedOnlyIfPaid
  OBVIOUS
<1>1. DisputeInv => ReimbursedOnlyIfPaid
  BY DEF DisputeInv, ClaimHeld, ChallengedInTime, DisprovedInTime, Unfounded,
     ReimbursedOnlyIfPaid, Reimbursed
<1>2. Spec => []DisputeInv
  BY DisputeInvHolds
<1> QED
  BY <1>1, <1>2, PTL
=============================================================================

