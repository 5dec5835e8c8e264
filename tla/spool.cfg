SPECIFICATION FairSpec
CONSTANTS
  Keys = {1, 2}
  Refused = {1}
  NoKey = NoKey
  Procs = {p1, p2}
  MaxFlush = 2
  DiskMayFail = TRUE
  MaxOutages = 1
  MaxKills = 1
INVARIANTS
  TypeOK
  ResultsAreTrue
PROPERTIES
  SpoolKeeps
  SpoolDrains
