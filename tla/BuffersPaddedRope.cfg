SPECIFICATION Spec
CONSTANTS
  Buckets = {4, 8}
  Chunks = {1, 4}
  Scaling = "longrope"
  OriginalLen = 4
INVARIANTS RopeAtRealizedLength
