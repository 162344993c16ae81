------------------------------ MODULE PegFunds ------------------------------
(***************************************************************************)
(* What the graphs of transactions promise about one peg-in, without the   *)
(* transactions: the deposit is either refunded or locked for the          *)
(* operators, a locked deposit reimburses one operator at most, and an     *)
(* operator is reimbursed or slashed, never both.                          *)
(***************************************************************************)
CONSTANT Operators

VARIABLES
  funds,     \* where the depositor's coins are
  outcome    \* what became of each operator's claim

pfVars == <<funds, outcome>>

Init ==
  /\ funds = "unfunded"
  /\ outcome = [o \in Operators |-> "open"]

Deposit ==
  /\ funds = "unfunded"
  /\ funds' = "deposited"
  /\ UNCHANGED outcome

Refund ==
  /\ funds = "deposited"
  /\ funds' = "refunded"
  /\ UNCHANGED outcome

Lock ==
  /\ funds = "deposited"
  /\ funds' = "locked"
  /\ UNCHANGED outcome

Reimburse(o) ==
  /\ funds = "locked"
  /\ outcome[o] = "open"
  /\ funds' = "paid"
  /\ outcome' = [outcome EXCEPT ![o] = "reimbursed"]

Slash(o) ==
  /\ outcome[o] = "open"
  /\ outcome' = [outcome EXCEPT ![o] = "slashed"]
  /\ UNCHANGED funds

Next ==
  \/ Deposit \/ Refund \/ Lock
  \/ \E o \in Operators : Reimburse(o) \/ Slash(o)

Spec == Init /\ [][Next]_pfVars
=============================================================================
