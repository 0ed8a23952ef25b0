SPECIFICATION Spec
CONSTANTS
  Protocols = {p1, p2}
  Analyzers = {a1, a2}
  Operators = {o1}
  KeySets <- MCKeySets
  Presents <- MCPresents
  OUTCOME_PAGE = 2
  MIN_SAMPLES = 2
  RuleCap = 1
  MaxRules = 2
  MaxOutcomes = 3
  MaxTroubles = 1
INVARIANTS TypeOK ActiveIsLastServed DoneReplacedItsPage NewerAnalysisWins
SYMMETRY Alike
CHECK_DEADLOCK FALSE
