SPECIFICATION FairSpec
CONSTANTS
  Workers = {w1}
  Runs = {r1}
  Pids = {p1, p2}
  Nobody = Nobody
  NoPid = NoPid
  Kinds = {"chain", "chunked"}
  Children = 2
  Limit = 1
  RunStore = "memory"
  Rolling = FALSE
  Argv <- OneUpload
  PidReuse = FALSE
  StoreMayFail = FALSE
  MaxCrashes = 1
PROPERTIES OrphansSettle
CHECK_DEADLOCK FALSE
