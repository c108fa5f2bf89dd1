\* The same, against what the comment in index.html states.
CONSTANTS
  MaxChunks = 2
  Sizes = {1, 2, 3}
  None = None
SPECIFICATION Spec
CHECK_DEADLOCK FALSE
INVARIANT MismatchMeansSwapped
