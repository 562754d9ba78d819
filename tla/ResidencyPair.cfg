SPECIFICATION Spec
CONSTANTS
  Model = {"target", "draft"}
  StageCount = 2
  Weight <- MCWeight
  Footprints <- MCFootprints
  Buckets = {1, 2}
  KvRow = 1
  Hosts <- MCHosts
INVARIANTS TypeOK LedgerExact BudgetHeld
