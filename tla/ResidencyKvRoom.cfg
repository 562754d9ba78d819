SPECIFICATION Spec
CONSTANTS
  Model = {"target"}
  StageCount = 2
  Weight <- MCWeight
  Footprints <- MCFootprints
  Buckets = {1, 2}
  KvRow = 3
  Hosts <- MCTab
PROPERTIES AdmissionLeavesKvRoom
