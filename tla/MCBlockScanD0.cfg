\* Two outputs in two blocks, with key hashes that hold the digits d0.
CONSTANTS
  PkhLen = 2
  RefLen = 8
  Scripts <- MCScripts
  Back = 2
  MaxOutputs = 2
SPECIFICATION Spec
CHECK_DEADLOCK FALSE
INVARIANT FtHoldersGrouped
