CONSTANTS
  Verifiers = {v1, v2}
  v1 = v1
  v2 = v2
  Window = 99
  MaxRestarts = 0
SPECIFICATION Spec
INVARIANT ReadyCanSubmit
