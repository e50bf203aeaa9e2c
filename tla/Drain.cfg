CONSTANTS
  Jobs = {j1, j2, j3}
  MaxDeaths = 2
  PromptClaim = TRUE
  WholeDrains = TRUE
  WholeRetries = TRUE
SPECIFICATION FairSpec
INVARIANTS NoAttemptLost OutputsAccountedFor
PROPERTIES  IdleRentalEnds
CHECK_DEADLOCK FALSE
