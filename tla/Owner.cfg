CONSTANTS
  Machines = {a, b}
  None = none
  Stale = 2
  ClaimWait = 3
  LongGone = 4
  MaxRestarts = 2
  Steady = {a}
  Assumed = {"claims", "looks", "window", "stays"}
SPECIFICATION Spec
PROPERTIES LiveIsNotReplaced EndsItsOwn NotStranded
CHECK_DEADLOCK FALSE
