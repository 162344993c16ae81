---------------------------- MODULE MCBridgeGraph ----------------------------
(***************************************************************************)
(* Instances of BridgeGraph for TLC.  Where the peg-in itself is not the   *)
(* question, a run starts from a reachable state: the peg-in was confirmed *)
(* some time ago and no operator has begun.                                *)
(***************************************************************************)
EXTENDS BridgeGraph

PeggedInInit ==
  /\ pegIn = {"peg_in_deposit", "peg_in_confirm"}
  /\ depositAge = MaxAge
  /\ GraphsCreated

PeggedInSpec == PeggedInInit /\ [][Next]_vars
=============================================================================
