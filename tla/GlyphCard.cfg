\* Files below the cap, at it and one chunk over it, every payload, a gateway that
\* may break off.
CONSTANTS
  MaxChunks = 2
  Sizes = {1, 2, 3}
  None = None
SPECIFICATION FairSpec
CHECK_DEADLOCK FALSE
INVARIANTS
  TypeOK
  ShownAsSniffed
  OutlineExplained
PROPERTY SwapIsMarked
