SPECIFICATION FairSpec
CONSTANTS
  Archives = {p, q}
  Members = {m, n}
  MaxTurns = 2
  NoArchive = NoArchive
INVARIANTS TypeOK PoolOwned CommitIsCurrent PendingServed
PROPERTIES TurnReleased
