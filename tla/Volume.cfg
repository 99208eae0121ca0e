CONSTANTS
  l1 = l1
  l2 = l2
  h1 = h1
  h2 = h2
  Lbas = {l1, l2}
  Hashes = {h1, h2}
  ZERO_HASH = zero
  MaxUlid = 18
  MaxWrites = 3
  MaxCrashes = 2
  MaxCrashLog = 2
  MaxFailures = 0
  MaxUnlinkFailures = 0
  FileSyncLinks = TRUE
SPECIFICATION Spec
SYMMETRY VolumeSymmetry
ACTION_CONSTRAINT SecondCrash
INVARIANTS
  FlushedIsDurable
  ReadLatest
  Resolvable
  MapsMatchDisk
