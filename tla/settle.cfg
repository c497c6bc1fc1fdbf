SPECIFICATION FairSpec
CONSTANTS
  Workers = {w1}
  Runs = {r1, r2}
  Pids = {p1, p2}
  Nobody = Nobody
  NoPid = NoPid
  Kinds = {"chunked"}
  Children = 2
  Limit = 1
  RunStore = "memory"
  Rolling = FALSE
  Argv <- OneUpload
  PidReuse = FALSE
  StoreMayFail = FALSE
  MaxCrashes = 0
INVARIANTS EnginesWithinLimit
PROPERTIES RunsSettle SlotsReturn
CHECK_DEADLOCK FALSE
