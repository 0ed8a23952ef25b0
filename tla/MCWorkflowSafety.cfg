SPECIFICATION FairSpec
CONSTANTS
  Runs = {1}
  UserFlows = {9}
  MaxSteps = 2
  Defs <- MCDefs
  TaskIds = {1, 2, 3, 4, 5, 6}
  Replies <- MCReplies
  MAX_FIXUP_ROUNDS = 1
  ListLimit = 1
  MaxOps = 1
  MaxLate = 1
  MaxCrashes = 1
  MaxFaults = 1
INVARIANTS TypeOK OneStepAtATime FixupBudget StepsConsumedOnce DoneIsNotRejected
CHECK_DEADLOCK FALSE
PROPERTIES RunsEnd LoopSpec RunsFailForCause
CONSTRAINT TwoTroubles
