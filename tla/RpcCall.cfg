\* A cap of eight units, pipes of four, a child that would print sixteen and write
\* six to standard error.
CONSTANTS
  MaxRpcBytes = 8
  PipeSize = 4
  MaxOutput = 16
  MaxErrors = 6
SPECIFICATION FairSpec
CHECK_DEADLOCK FALSE
INVARIANTS
  TypeOK
  ResolvedIsWhole
  StdoutBounded
PROPERTIES
  FailureRejects
  SettledAfterExit
