\* Three invocations of any of the four handlers, up to two outputs each.
CONSTANTS
  Runs = {r1, r2, r3}
  MaxOutputs = 2
SPECIFICATION FairSpec
CHECK_DEADLOCK FALSE
INVARIANTS
  OneScan
  CardsWithoutHoles
  SoloPanelIsFull
PROPERTY ButtonComesBack
