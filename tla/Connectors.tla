------------------------------ MODULE Connectors ------------------------------
(***************************************************************************)
(* The connectors of bridge/src/connectors: the outputs through which the  *)
(* transactions of a peg-in graph and of its peg-out graphs hand control   *)
(* to one another.  A connector is a script tree; what the protocol needs  *)
(* of it is which transaction each leaf is for, and for how many blocks    *)
(* the leaf is locked (OP_CSV).  So a connector is a record: a field per   *)
(* spending transaction, whose value is the leaf's relative timelock (the  *)
(* fields spend_* are the operator's own transactions).                    *)
(***************************************************************************)
EXTENDS Naturals

CONSTANTS
  Network,                  \* "Bitcoin", "Regtest" or "Testnet"
  NUM_BLOCKS_PER_6_HOURS,
  NUM_BLOCKS_PER_DAY,
  NUM_BLOCKS_PER_3_DAYS,
  NUM_BLOCKS_PER_2_WEEKS

ASSUME NetworkAssumption == Network \in {"Bitcoin", "Regtest", "Testnet"}

(***************************************************************************)
(* The periods keep the order they have in constants.rs (36, 144, 432 and  *)
(* 2016 blocks); a model instance scales them down.                        *)
(***************************************************************************)
ASSUME PeriodAssumption ==
  /\ NUM_BLOCKS_PER_6_HOURS \in Nat \ {0}
  /\ NUM_BLOCKS_PER_DAY \in Nat
  /\ NUM_BLOCKS_PER_3_DAYS \in Nat
  /\ NUM_BLOCKS_PER_2_WEEKS \in Nat
  /\ NUM_BLOCKS_PER_6_HOURS <= NUM_BLOCKS_PER_DAY
  /\ NUM_BLOCKS_PER_DAY <= NUM_BLOCKS_PER_3_DAYS
  /\ NUM_BLOCKS_PER_3_DAYS <= NUM_BLOCKS_PER_2_WEEKS

NUM_BLOCKS_REGTEST == 2
NUM_BLOCKS_TESTNET == 2

(***************************************************************************)
(* Outside mainnet every timelock collapses to the same two blocks.        *)
(***************************************************************************)
num_blocks_per_network(mainnet_num_blocks) ==
  CASE Network = "Bitcoin" -> mainnet_num_blocks
    [] Network = "Regtest" -> NUM_BLOCKS_REGTEST
    [] OTHER               -> NUM_BLOCKS_TESTNET

-----------------------------------------------------------------------------
(* Outputs of the peg-in graph. *)

connector_z ==
  [ peg_in_refund  |-> num_blocks_per_network(NUM_BLOCKS_PER_2_WEEKS),
    peg_in_confirm |-> 0 ]

connector_0 == [ take_1 |-> 0, take_2 |-> 0 ]

(* Outputs of kick_off_1 and of the transaction before it. *)

connector_6 == [ kick_off_1 |-> 0 ]

connector_a == [ take_1 |-> 0, challenge |-> 0, spend_a |-> 0 ]

\* A leaf 1 that forgets the extra day the operator has over the timeout.
Connector1WithoutMargin ==
  [ kick_off_2         |-> num_blocks_per_network(NUM_BLOCKS_PER_2_WEEKS),
    kick_off_timeout   |-> num_blocks_per_network(NUM_BLOCKS_PER_2_WEEKS),
    start_time_timeout |-> num_blocks_per_network(NUM_BLOCKS_PER_6_HOURS),
    spend_1            |-> num_blocks_per_network(NUM_BLOCKS_PER_2_WEEKS) ]

connector_1 ==
  [ kick_off_2         |-> num_blocks_per_network(NUM_BLOCKS_PER_2_WEEKS),
    kick_off_timeout   |-> num_blocks_per_network(NUM_BLOCKS_PER_2_WEEKS
                                                    + NUM_BLOCKS_PER_DAY),
    start_time_timeout |-> num_blocks_per_network(NUM_BLOCKS_PER_6_HOURS),
    spend_1            |-> num_blocks_per_network(NUM_BLOCKS_PER_2_WEEKS) ]

connector_2 == [ start_time |-> 0, start_time_timeout |-> 0, spend_2 |-> 0 ]

(* Outputs of kick_off_2. *)

connector_3 == [ take_1 |-> num_blocks_per_network(NUM_BLOCKS_PER_3_DAYS) ]

connector_b ==
  [ take_1         |-> 0,
    assert_initial |-> num_blocks_per_network(NUM_BLOCKS_PER_3_DAYS),
    disprove_chain |-> 0 ]

(* Outputs of the assert transactions. *)

connector_d == [ assert_final |-> 0 ]

connector_e_1 == [ assert_commit_1 |-> 0 ]

connector_e_2 == [ assert_commit_2 |-> 0 ]

connector_f_1 == [ assert_final |-> 0 ]

connector_f_2 == [ assert_final |-> 0 ]

\* A take_2 that need not wait for the disprove period.
Connector4WithoutTimelock == [ take_2 |-> 0 ]

connector_4 == [ take_2 |-> num_blocks_per_network(NUM_BLOCKS_PER_2_WEEKS) ]

connector_5 == [ take_2 |-> 0, disprove |-> 0 ]

connector_c == [ take_2 |-> 0, disprove |-> 0, spend_c |-> 0 ]

Connectors ==
  [ connector_z   |-> connector_z,   connector_0   |-> connector_0,
    connector_6   |-> connector_6,   connector_a   |-> connector_a,
    connector_1   |-> connector_1,   connector_2   |-> connector_2,
    connector_3   |-> connector_3,   connector_b   |-> connector_b,
    connector_d   |-> connector_d,   connector_e_1 |-> connector_e_1,
    connector_e_2 |-> connector_e_2, connector_f_1 |-> connector_f_1,
    connector_f_2 |-> connector_f_2, connector_4   |-> connector_4,
    connector_5   |-> connector_5,   connector_c   |-> connector_c ]

(***************************************************************************)
(* The relative timelock that the input sequence of a transaction and the  *)
(* leaf it spends agree on (generate_timelock_tx_in and the OP_CSV of      *)
(* generate_timelock_taproot_script).                                      *)
(***************************************************************************)
Timelock(connector, transaction) == Connectors[connector][transaction]
=============================================================================
