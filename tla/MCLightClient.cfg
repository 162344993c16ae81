CONSTANTS
  Networks = {"mainnet", "testnet4", "regtest"}
  DigitBits = 2
  Digits = 6
  MaxExponent = 5
  WordBits = 5
  TimestampCount = 3
  BLOCKS_PER_EPOCH = 2
  EXPECTED_EPOCH_TIMESPAN = 8
  MinDifficultyGap = 2
  Times = {1, 2, 4}
  Pows = {50, 89}
  TxCounts <- BlockSizes
  MaxBatch = 3
SPECIFICATION Spec
INVARIANTS LightTypeOK BatchesAgree MmrExact SpvExact RulesHold ValidChainsProved
CHECK_DEADLOCK FALSE
