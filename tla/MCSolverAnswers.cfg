SPECIFICATION Spec
CONSTANTS
  Protocols = {p1}
  Analyzers = {a1}
  Operators = {}
  KeySets <- MCKeySets
  Presents <- MCPresents
  OUTCOME_PAGE = 2
  MIN_SAMPLES = 1
  RuleCap = 2
  MaxRules = 2
  MaxOutcomes = 2
  MaxTroubles = 1
INVARIANT AnswersAreUsed
CHECK_DEADLOCK FALSE
