CONSTANTS
  Confs <- MCConfs
  MaxWrites = 2
  MaxAttempt = 2
  MaxBoot = 1
  MaxRestarts = 1
  PromptSubmit = TRUE
  WholeEnds = TRUE
SPECIFICATION Spec
INVARIANTS OnlyCopiesStay AcceptedHasCode DrainHasSecrets SecretsGo
CHECK_DEADLOCK FALSE
