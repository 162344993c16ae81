CONSTANTS
  Verifiers = {v1, v2}
  v1 = v1
  v2 = v2
  Window = 99
  MaxRestarts = 4
SPECIFICATION FairSpec
INVARIANTS SigningInv SignaturesAgree NonceUsedOnce FinalisedOnce
PROPERTY SomeoneCompletes
