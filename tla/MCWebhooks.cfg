SPECIFICATION Spec
CONSTANTS
  Hooks = {h1, h2}
  Requests = {r1, r2, r3}
  MaxFires = 4
  MaxOps = 3
  MaxCrashes = 1
SYMMETRY Alike
INVARIANTS TypeOK OnlyAdmittedFireLate FireCountFollows
CHECK_DEADLOCK FALSE
