SPECIFICATION FairSpec
CONSTANTS
  Designer = {ann, bob}
  Admin = {bob}
  Importer = {bob}
  MaxAsks = 3
  MaxSleeps = 1
PROPERTIES NeverStolen ReleaseStands LeftBehindFreed
CHECK_DEADLOCK FALSE
