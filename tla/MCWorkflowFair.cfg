SPECIFICATION FairSpec
CONSTANTS
  Runs = {1, 2}
  UserFlows = {}
  MaxSteps = 2
  Defs <- MCDefsLong
  TaskIds = {1, 2, 3, 4, 5, 6, 7, 8, 9, 10}
  Replies <- MCRepliesMild
  MAX_FIXUP_ROUNDS = 1
  ListLimit = 1
  MaxOps = 1
  MaxLate = 0
  MaxCrashes = 0
  MaxFaults = 1
CONSTRAINT OneTrouble
PROPERTIES RunsEnd
CHECK_DEADLOCK FALSE
