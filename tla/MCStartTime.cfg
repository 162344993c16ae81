CONSTANTS
  Network = "Bitcoin"
  NUM_BLOCKS_PER_6_HOURS = 2
  NUM_BLOCKS_PER_DAY = 2
  NUM_BLOCKS_PER_3_DAYS = 3
  NUM_BLOCKS_PER_2_WEEKS = 5
  Operators = {o1}
  Automatic = {o1}
  Deviating = {}
  Synchronous = TRUE
  MaxLag = 0
  Vigilant = FALSE
SPECIFICATION PeggedInSpec
INVARIANT StartTimeoutReported
CONSTANT o1 = o1
