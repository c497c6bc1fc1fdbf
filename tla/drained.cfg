SPECIFICATION Spec
CONSTANTS
  Workers = {w1, w2}
  Runs = {r1}
  Pids = {p1, p2}
  Nobody = Nobody
  NoPid = NoPid
  Kinds = {"chain"}
  Children = 1
  Limit = 1
  RunStore = "memory"
  Rolling = FALSE
  Argv <- OneUpload
  PidReuse = TRUE
  StoreMayFail = TRUE
  MaxCrashes = 2
SYMMETRY Symmetry
INVARIANTS DeliveredOnce CompletedHasReport GoodReportKept
PROPERTIES ImplementsHistory
CHECK_DEADLOCK FALSE
