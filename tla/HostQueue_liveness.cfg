CONSTANTS
  Jobs = {1, 2}
  Cards = {c1}
  Wants <- MCWants
  Fills = {}
  Phases <- MainOnly
  Priorities = {0}
  Runners = {r1, r2}
  None = None
  MaxRestarts = 1
  MaxAttempt = 1
  MaxBoot = 1
  MaxDeaths = 1
  PromptClaim = TRUE
  PromptPublish = FALSE
SPECIFICATION FairSpec
PROPERTIES CancelEnds DeadRunnerNoticed
