CONSTANTS
  Jobs = {1, 2}
  Cards = {c1}
  Wants <- MCWants
  Fills = {}
  Phases <- MainOnly
  Priorities = {0, 1}
  Runners = {r1, r2}
  None = None
  MaxRestarts = 1
  MaxAttempt = 2
  MaxBoot = 3
  MaxDeaths = 0
  PromptClaim = TRUE
  PromptPublish = TRUE
SYMMETRY RunnerSymmetry
SPECIFICATION Spec
INVARIANTS TypeOK OneRunnerPerJob RestartsBounded
PROPERTY ImplementsLifecycle
