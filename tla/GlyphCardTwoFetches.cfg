\* Two requests for one CID, against what the card tells its reader.
CONSTANTS
  MaxChunks = 2
  Sizes = {1, 2, 3}
  None = None
SPECIFICATION Spec
CHECK_DEADLOCK FALSE
INVARIANT PictureIsVerified
