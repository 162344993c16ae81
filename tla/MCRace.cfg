CONSTANTS
  Network = "Bitcoin"
  NUM_BLOCKS_PER_6_HOURS = 2
  NUM_BLOCKS_PER_DAY = 2
  NUM_BLOCKS_PER_3_DAYS = 3
  NUM_BLOCKS_PER_2_WEEKS = 3
  o1 = o1
  o2 = o2
  Operators = {o1, o2}
  Automatic = {o1, o2}
  Deviating = {}
  Synchronous = TRUE
  MaxLag = 1
  Vigilant = FALSE
SPECIFICATION Spec
INVARIANT PaidOnce
