CONSTANTS
  l1 = l1
  h1 = h1
  Lbas = {l1}
  Hashes = {h1}
  ZERO_HASH = zero
  MaxUlid = 12
  MaxWrites = 2
  MaxCrashes = 1
  MaxCrashLog = 0
  MaxFailures = 2
  MaxUnlinkFailures = 1
  FileSyncLinks = TRUE
SPECIFICATION FairSpec
PROPERTIES
  RotatedDrains
