SPECIFICATION FairSpec
CONSTANTS
  a = a
  b = b
  every = every
  other = other
  Schedules = {a, b}
  Crons = {every, other}
  Matches <- MCMatches
  Horizon = 3
  MaxOps = 1
  MaxCrashes = 1
  MaxFails = 1
INVARIANTS TypeOK FiredOncePerMatch OneFireAfterDelete FireCountFollows MatchesFireWhileUp
PROPERTIES DueIsHandled
CHECK_DEADLOCK FALSE
