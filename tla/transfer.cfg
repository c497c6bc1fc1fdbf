SPECIFICATION FairSpec
CONSTANTS
  Files = {f1, f2}
  Sessions = {s1}
  SessionOf <- MCSessionOf
  LastChunk = 1
  MaxConns = 3
  MaxInodes = 3
  FewFileFaults = 2
  MaxFaults <- MCMaxFaults
INVARIANTS WholeOverTwoLinks RowKeepsItsFile LostOnlyByFault
PROPERTIES ShippedIsScanned
CHECK_DEADLOCK FALSE
