SPECIFICATION Spec
CONSTANTS
  Sessions = {s1, s2}
  Interfaces = {eth0, any}
  AnyNic = any
  NoNic = NoNic
  RingFiles = 1
  MaxFiles = 0
  MaxCrashes = 1
  MaxConcurrent = 2
  MaxRestarts = 1
  Nobody = Nobody
SYMMETRY Symmetry
INVARIANTS OneCapturePerInterface LiveIsKnown StoppedHasStopped
CHECK_DEADLOCK FALSE
