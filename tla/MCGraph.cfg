CONSTANTS
  Network = "Regtest"
  NUM_BLOCKS_PER_6_HOURS = 2
  NUM_BLOCKS_PER_DAY = 2
  NUM_BLOCKS_PER_3_DAYS = 3
  NUM_BLOCKS_PER_2_WEEKS = 5
  Operators = {o1}
  Automatic = {}
  Deviating = {}
  Synchronous = FALSE
  MaxLag = 1
  Vigilant = FALSE
SPECIFICATION Spec
INVARIANT GraphInv
PROPERTY FundsRefined
CONSTANT o1 = o1
