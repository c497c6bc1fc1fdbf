SPECIFICATION FairSpec
CONSTANTS
  Sessions = {s1}
  Interfaces = {any}
  AnyNic = any
  NoNic = NoNic
  RingFiles = 2
  MaxFiles = 4
  MaxCrashes = 1
  MaxConcurrent = 1
  MaxRestarts = 1
  Nobody = Nobody
INVARIANTS HandedOnce FilesAccounted ExpiredIsScanned
PROPERTIES CaptureSettles
CHECK_DEADLOCK FALSE
