CONSTANTS
  Network = "Bitcoin"
  NUM_BLOCKS_PER_6_HOURS = 1
  NUM_BLOCKS_PER_DAY = 1
  NUM_BLOCKS_PER_3_DAYS = 2
  NUM_BLOCKS_PER_2_WEEKS = 3
  Operators = {o1}
  Automatic = {}
  Deviating = {o1}
  Synchronous = TRUE
  MaxLag = 0
  Vigilant = TRUE
SPECIFICATION PeggedInSpec
INVARIANTS DisputeInv ReimbursedOnlyIfPaid SlashedNeverReimbursed ChallengeForcesAssertion
CONSTANT o1 = o1
