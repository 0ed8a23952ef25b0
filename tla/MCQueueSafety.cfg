SPECIFICATION Spec
CONSTANTS
  s1 = s1
  s2 = s2
  s3 = s3
  Tasks = {1, 2}
  Prio <- PrioDescending
  Model <- ModelsMixed
  Panicky = {2}
  Base = TRUE
  GridKey = TRUE
  Known = {1}
  Slots = {s1, s2, s3}
  WORKER_CONCURRENCY = 2
  MaxRetries = 1
  Backoff = 0
  StuckTimeout = 2
  HardTimeout = 3
  PurgeAge = 3
  ClientLimit <- MCClientLimit
  PromptSpawn = FALSE
  MaxOps = 1
  MaxCrashes = 2
  MaxFaults = 1
INVARIANTS TypeOK ConcurrencyBound RunningIsOwned StuckHasCause SlotsLeakOnlyByPanic UnbilledHasCause
PROPERTIES ServiceSpec
CONSTRAINT TwoTroubles
SYMMETRY SlotSymmetry
