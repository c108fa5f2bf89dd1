\* Two outputs in two blocks.
CONSTANTS
  PkhLen = 2
  RefLen = 8
  Scripts <- MCScripts
  Back = 2
  MaxOutputs = 2
SPECIFICATION Spec
CHECK_DEADLOCK FALSE
INVARIANTS
  MissesOnlyD0
  ClassifiedIsRebuilt
  TokensArePrinted
