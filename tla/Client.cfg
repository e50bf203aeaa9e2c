CONSTANTS
  Hosts = {h, r}
  Rentals = {r}
  Ids = {1, 2}
  None = None
  Assumed = {"answers", "marks", "keeps", "edits", "outputs", "purges", "mirror", "entries"}
  Outputs = {1, 2}
  MaxVersion = 2
  MaxStarts = 2
  MaxPersonal = 1
SPECIFICATION FairSpec
INVARIANTS NeverTwice ToldTheTruth MissingIsNowhere
PROPERTY WaitEnds
CHECK_DEADLOCK FALSE
