SPECIFICATION Spec
CONSTANTS
  Workers = {w1}
  Runs = {r1, r2}
  Pids = {p1, p2}
  Nobody = Nobody
  NoPid = NoPid
  Kinds = {"chain"}
  Children = 1
  Limit = 2
  RunStore = "memory"
  Rolling = FALSE
  Argv <- OneUpload
  PidReuse = FALSE
  StoreMayFail = FALSE
  MaxCrashes = 1
PROPERTIES AttachesToOwnEngine
CHECK_DEADLOCK FALSE
