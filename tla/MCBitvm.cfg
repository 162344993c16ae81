SPECIFICATION Spec
INVARIANTS U4Exact U32Exact Sha256Exact Blake3Exact BigIntExact OverflowCaught LimbsConvert OneMessagePerKey MessageReturned FieldExact CurveExact DisproveExact
CHECK_DEADLOCK FALSE
CONSTANTS
  Sha256Script <- sha256
  Sha256U4Script <- sha256_u4
  Blake3Digest <- Blake3Of
  FieldRuns <- FieldRunsOf
  TowerRuns <- TowerRunsOf
  SumRuns <- SumRunsOf
  ScalarRuns <- ScalarRunsOf
  LineRuns <- LineRunsOf
  ChunkRuns <- ChunkRunsOf
