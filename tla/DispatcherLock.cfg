CONSTANTS
  Procs = {p1, p2, p3}
  Builds = {b1, b2}
  NoProc = NoProc
  MaxWedged = 1
  MaxCrashes = 1
  MaxShips = 1
  Timely = {"adopt", "evict", "release", "death"}
SPECIFICATION FairLockSpec
PROPERTIES SparesTheHealthy AcceptedIsServed ReplacesOtherBuilds
CHECK_DEADLOCK FALSE
