SPECIFICATION FairSpec
CONSTANTS
  Token = {a}
  ContextLength = 4
  MinWindow = 2
  VerifyChunk = 2
  FeedLimit = 4
  Plan = "resident"
  Rebuilds = {TRUE, FALSE}
  SyncMayFail = TRUE
  RingWraps = FALSE
PROPERTIES PoisonedStays CallReturns
