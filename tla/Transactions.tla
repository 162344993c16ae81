---------------------------- MODULE Transactions ----------------------------
(***************************************************************************)
(* The transactions of bridge/src/transactions and how the graphs wire     *)
(* them together: the connectors each one spends and the connectors it     *)
(* creates.  Amounts, fees and addresses are left out.  An input that      *)
(* comes from a wallet (the depositor's, the operator's, the crowd's) is   *)
(* not a connector and does not appear.                                    *)
(*                                                                         *)
(* Every connector is an output of exactly one transaction, so that        *)
(* "outpoint" and "connector of this graph" are the same thing.            *)
(***************************************************************************)
EXTENDS Connectors, Sequences

PegInTx == {"peg_in_deposit", "peg_in_refund", "peg_in_confirm"}

PegOutTx ==
  { "peg_out", "peg_out_confirm", "kick_off_1", "challenge", "start_time",
    "start_time_timeout", "kick_off_2", "kick_off_timeout", "disprove_chain",
    "take_1", "assert_initial", "assert_commit_1", "assert_commit_2",
    "assert_final", "take_2", "disprove" }

-----------------------------------------------------------------------------
(* The peg-in graph. *)

peg_in_deposit == [inputs |-> {}, outputs |-> {"connector_z"}]

\* A refund that is not taken from the deposit.
PegInRefundFromWallet == [inputs |-> {}, outputs |-> {}]

peg_in_refund == [inputs |-> {"connector_z"}, outputs |-> {}]

peg_in_confirm == [inputs |-> {"connector_z"}, outputs |-> {"connector_0"}]

-----------------------------------------------------------------------------
(* The peg-out graph of one operator. *)

peg_out == [inputs |-> {}, outputs |-> {}]

peg_out_confirm == [inputs |-> {}, outputs |-> {"connector_6"}]

kick_off_1 ==
  [ inputs  |-> {"connector_6"},
    outputs |-> {"connector_a", "connector_1", "connector_2"} ]

challenge == [inputs |-> {"connector_a"}, outputs |-> {}]

start_time == [inputs |-> {"connector_2"}, outputs |-> {}]

start_time_timeout ==
  [inputs |-> {"connector_2", "connector_1"}, outputs |-> {}]

kick_off_2 ==
  [inputs |-> {"connector_1"}, outputs |-> {"connector_3", "connector_b"}]

kick_off_timeout == [inputs |-> {"connector_1"}, outputs |-> {}]

\* A disprove_chain that leaves connector_b to the operator.
DisproveChainNotConsuming == [inputs |-> {}, outputs |-> {}]

disprove_chain == [inputs |-> {"connector_b"}, outputs |-> {}]

\* A take_1 that does not spend the output a challenge spends.
Take1IgnoringChallenge ==
  [ inputs  |-> {"connector_0", "connector_3", "connector_b"},
    outputs |-> {} ]

take_1 ==
  [ inputs  |-> {"connector_0", "connector_a", "connector_3", "connector_b"},
    outputs |-> {} ]

assert_initial ==
  [ inputs  |-> {"connector_b"},
    outputs |-> {"connector_d", "connector_e_1", "connector_e_2"} ]

assert_commit_1 ==
  [inputs |-> {"connector_e_1"}, outputs |-> {"connector_f_1"}]

assert_commit_2 ==
  [inputs |-> {"connector_e_2"}, outputs |-> {"connector_f_2"}]

assert_final ==
  [ inputs  |-> {"connector_d", "connector_f_1", "connector_f_2"},
    outputs |-> {"connector_4", "connector_5", "connector_c"} ]

\* A take_2 that is not paid out of the peg-in's output.
Take2WithoutConnector0 ==
  [inputs |-> {"connector_4", "connector_5", "connector_c"}, outputs |-> {}]

take_2 ==
  [ inputs  |-> {"connector_0", "connector_4", "connector_5", "connector_c"},
    outputs |-> {} ]

disprove == [inputs |-> {"connector_5", "connector_c"}, outputs |-> {}]

(***************************************************************************)
(* Four outputs have a leaf or a key path that takes the operator's key    *)
(* and asks for nothing the verifiers signed, so an operator can spend     *)
(* them with a transaction of its own: both leaves of connector_a, leaf 0  *)
(* of connector_1 and of connector_2, the internal key of connector_c.     *)
(* (The same is true of connectors 3, 4, 6, e and f, which nobody but the  *)
(* operator spends at all: taking one of those is giving up.)              *)
(***************************************************************************)
OwnTx == {"spend_a", "spend_1", "spend_2", "spend_c"}

spend_a == [inputs |-> {"connector_a"}, outputs |-> {}]

spend_1 == [inputs |-> {"connector_1"}, outputs |-> {}]

spend_2 == [inputs |-> {"connector_2"}, outputs |-> {}]

spend_c == [inputs |-> {"connector_c"}, outputs |-> {}]

\* Whatever spends an output of a peg-out graph.
GraphTx == PegOutTx \cup OwnTx

Transaction ==
  [ n \in PegInTx \cup GraphTx |->
      CASE n = "peg_in_deposit"     -> peg_in_deposit
        [] n = "peg_in_refund"      -> peg_in_refund
        [] n = "peg_in_confirm"     -> peg_in_confirm
        [] n = "peg_out"            -> peg_out
        [] n = "peg_out_confirm"    -> peg_out_confirm
        [] n = "kick_off_1"         -> kick_off_1
        [] n = "challenge"          -> challenge
        [] n = "start_time"         -> start_time
        [] n = "start_time_timeout" -> start_time_timeout
        [] n = "kick_off_2"         -> kick_off_2
        [] n = "kick_off_timeout"   -> kick_off_timeout
        [] n = "disprove_chain"     -> disprove_chain
        [] n = "take_1"             -> take_1
        [] n = "assert_initial"     -> assert_initial
        [] n = "assert_commit_1"    -> assert_commit_1
        [] n = "assert_commit_2"    -> assert_commit_2
        [] n = "assert_final"       -> assert_final
        [] n = "take_2"             -> take_2
        [] n = "disprove"           -> disprove
        [] n = "spend_a"            -> spend_a
        [] n = "spend_1"            -> spend_1
        [] n = "spend_2"            -> spend_2
        [] n = "spend_c"            -> spend_c ]

Inputs(n)  == Transaction[n].inputs
Outputs(n) == Transaction[n].outputs

-----------------------------------------------------------------------------
(***************************************************************************)
(* Transactions whose id is not fixed when the graph is created: the       *)
(* challenge, which is crowdfunded later, the four that reward whoever     *)
(* broadcasts them, and start_time, which gets its lock time when the      *)
(* operator signs it.  A client identifies a transaction by the id of its  *)
(* own copy, so what it sees of the chain depends on how its copy was      *)
(* filled in.  Blank is the copy as the graph creates it, Filled the one   *)
(* the broadcaster builds; txids agree exactly when the copies do.         *)
(***************************************************************************)
RewardTx ==
  {"start_time_timeout", "kick_off_timeout", "disprove_chain", "disprove"}

VerifierTx == RewardTx \cup {"challenge"}

MutableTx == VerifierTx \cup {"start_time"}

\* The block height that sign puts into start_time, as LockTime::ZERO is 0.
SignedHeight == 1

Blank(n) ==
  CASE n = "challenge"  -> [ ins  |-> <<"connector_a">>,
                             outs |-> <<"operator">>,
                             lock |-> 0 ]
    [] n = "start_time" -> [ ins  |-> <<"connector_2">>,
                             outs |-> <<"operator">>,
                             lock |-> 0 ]
    [] n \in RewardTx   -> [ ins  |-> <<n>>,
                             outs |-> <<"burn", "default_script">>,
                             lock |-> 0 ]

\* add_inputs_and_output of the challenge, add_output and add_input_output of
\* the reward transactions, sign of start_time.
Filled(n) ==
  CASE n = "challenge"  -> [ ins  |-> <<"connector_a", "crowdfunding">>,
                             outs |-> <<"operator", "refund">>,
                             lock |-> 0 ]
    [] n = "start_time" -> [Blank(n) EXCEPT !.lock = SignedHeight]
    [] n \in RewardTx   -> [Blank(n) EXCEPT !.outs = <<"burn", "reward_script">>]

\* A merge that keeps the destination's copy as it is.
MergeNothing(destination, source) == destination

\* Missing inputs and outputs are appended; those that are there are kept, and
\* so is the destination's lock time.
merge_transactions(destination, source) ==
  LET tail(d, s) == SubSeq(s, Len(d) + 1, Len(s))
  IN  [ ins  |-> destination.ins  \o tail(destination.ins, source.ins),
        outs |-> destination.outs \o tail(destination.outs, source.outs),
        lock |-> destination.lock ]

\* The copy in a file must agree with a freshly created one on every input and
\* output the fresh one has; the lock time is not compared.
validate_transaction(transaction, comparison) ==
  /\ \A i \in 1..Len(comparison.ins)  : transaction.ins[i]  = comparison.ins[i]
  /\ \A i \in 1..Len(comparison.outs) : transaction.outs[i] = comparison.outs[i]
=============================================================================
