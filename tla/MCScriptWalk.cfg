\* Every script of at most three operations, cut off after any byte.
CONSTANTS
  REF_LEN = 2
  Ops <- MCOps
  MaxOps = 3
  NoPayload = NoPayload
SPECIFICATION Spec
CHECK_DEADLOCK FALSE
INVARIANTS
  CursorBetweenOps
  WalkIsPreimages
  CutOffInventsNothing
  PayloadFollowsMarker
