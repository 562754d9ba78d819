SPECIFICATION FairSpec
CONSTANTS
  w = w
  h = h
  Order <- OrderWH
  Eligible = {w}
  Heads = {h}
  NetworkLies = FALSE
  MaxFaults = 1
  MaxDownloads = 2
INVARIANTS TypeOK ServedRight ArtifactsTrue ReadyComplete
PROPERTIES DownloadEnds
CHECK_DEADLOCK FALSE
