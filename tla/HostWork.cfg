SPECIFICATION HostSpec
CONSTANTS
  Buckets = {2, 4, 8, 11}
  Chunks = {1, 2, 4}
  Scaling = "dynamic"
  OriginalLen = 2
  Token = {a, b, c}
  MaxLength = 8
  MaxDraft = 3
  Pieces <- MCPieces
  StopSets <- MCStopSets
  MaxFed = 4
  Inputs = {in1, in2}
  Stages = 2
  MaxTasks = 3
  MaxRot = 1
  Graphs <- Imported
  PlanRecipes <- MCRecipes
  MaxText = 4
  PlanBuckets = {3, 5}
  PlanChunk = 3
  TokenizerFiles <- MCTokenizerFiles
  Texts <- MCTexts
  ShapeModels <- ShapeNets
  Window = 3
  SpatialScale = 32
  MAX_OUTPUT_ELEMS = 40
  MAX_SHAPE_DATA = 12
CHECK_DEADLOCK FALSE
SYMMETRY TokenSymmetry
INVARIANTS
  TypeOK MaskExact RopeNotStale DraftRight
  StreamExact StagesDerived MeaningKept PlanExact EncodeExact RoundTrip ValuesTrue ShapesTrue
