SPECIFICATION Spec
CONSTANTS
  Token = {a, b, eos}
  EOS = eos
  Wrong = wrong
  None = none
  PromptLen = 1
  ContextLength = 7
  Ladder = {2, 4, 7}
  MaxDraft = 3
  Horizon = 5
  Drafters = {"lookup"}
  DraftContext = 7
CHECK_DEADLOCK FALSE
INVARIANTS NeverStale
