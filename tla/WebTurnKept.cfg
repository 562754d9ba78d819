SPECIFICATION Spec
CONSTANTS
  Archives = {p, q}
  Members = {m, n}
  MaxTurns = 2
  NoArchive = NoArchive
INVARIANTS TurnKept
