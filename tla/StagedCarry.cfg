SPECIFICATION Spec
CONSTANTS
  Runner = {step, seeder}
  StageCount = 3
  KvStages = {0, 1}
SYMMETRY RunnerSymmetry
INVARIANTS TypeOK WalksReadTruth TruthComplete OneCopy
