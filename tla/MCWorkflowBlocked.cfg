SPECIFICATION FairSpec
CONSTANTS
  Runs = {1}
  UserFlows = {9}
  MaxSteps = 2
  Defs <- MCDefs
  TaskIds = {1, 2, 3, 4, 5, 6, 7, 8, 9, 10}
  Replies <- MCReplies
  MAX_FIXUP_ROUNDS = 1
  ListLimit = 2
  MaxOps = 0
  MaxLate = 0
  MaxCrashes = 0
  MaxFaults = 0
PROPERTIES BlockedRunFails
CHECK_DEADLOCK FALSE
