SPECIFICATION FairSpec
CONSTANTS
  s1 = s1
  s2 = s2
  s3 = s3
  Tasks = {1, 2, 3}
  Prio <- PrioDescending
  Model <- ModelsDirect
  Panicky = {}
  Base = TRUE
  GridKey = TRUE
  Known = {}
  Slots = {s1, s2}
  WORKER_CONCURRENCY = 2
  MaxRetries = 1
  Backoff = 1
  StuckTimeout = 2
  HardTimeout = 3
  PurgeAge = 3
  ClientLimit <- MCClientLimit
  PromptSpawn = TRUE
  MaxOps = 0
  MaxCrashes = 0
  MaxFaults = 1
INVARIANTS LakeStaysUsable NeverReentered DoneHasResponse BilledOnceWhenDone
PROPERTIES BackoffHonoured LifecycleSpec TasksSettle DoneIsBilled
