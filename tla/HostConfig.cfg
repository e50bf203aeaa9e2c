CONSTANTS
  Clients = {c1, c2}
  Cards = {g1}
  Indices = {i1}
  CardAt <- MCCardAt
  BuildOf <- MCBuildOf
  None = none
  Broken = broken
  All = all
  MaxCommands = 4
  MaxWipes = 1
  Assumed = {"whole", "cards", "env", "first", "tables", "ships"}
SYMMETRY AnyClient
SPECIFICATION Spec
INVARIANTS OwnedOnce PkgIsWhatItSays
PROPERTIES KeepsOthers
CHECK_DEADLOCK FALSE
