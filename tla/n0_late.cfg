CONSTANTS
  ChunkLen = 2
  MaxRpc = 7
  MaxRestarts = 1
  CheckAuthority = TRUE
  LateDelivery = TRUE
SPECIFICATION Spec
INVARIANTS
  TypeOK
  CommitAtMostOnce
  CommitOnInferredCache
  CacheAgreement
PROPERTIES
  RefinesCacheSession
CHECK_DEADLOCK FALSE
