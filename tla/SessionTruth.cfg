SPECIFICATION MCSpec
CONSTANTS
  Token = {a, b}
  ContextLength = 4
  MinWindow = 2
  VerifyChunk = 3
  FeedLimit = 3
  Plan = "resident"
  Plans = {"bytes", "legacy", "resident"}
  Rebuilds = {TRUE, FALSE}
  SyncMayFail = FALSE
  RingWraps = FALSE
SYMMETRY TokenSymmetry
VIEW SessionView
INVARIANTS TypeOK TruthCurrent
PROPERTIES LogRefined
