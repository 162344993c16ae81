CONSTANTS
  Configured <- MCConfigured
  Operator = op
  op = op
  v = v
  Verifiers = {v}
  g1 = g1
  g2 = g2
  Graphs = {g1, g2}
  Period = 1
  MaxClock = 3
  MaxKeys = 2
  MaxFaults = 2
SPECIFICATION Spec
INVARIANTS ClientInv NothingLost CopiesAgree PaidTwiceOnlyAfterRestart EventsMatched
PROPERTY SyncComplete
CHECK_DEADLOCK FALSE
SYMMETRY GraphSymmetry
