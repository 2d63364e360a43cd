SPECIFICATION Spec
CONSTANTS
  Ids <- MCIds
  Users = {u1, u2}
  Handlers = {h1, h2}
  None = None
  MilliSize = 16
  MilliIds = 4
  Ulp = 4
  MaxRows = 2
  PageSize = 1
SYMMETRY Symmetry
INVARIANTS LikeInfoRight MissedOnlyByDeletion
PROPERTIES DeletionStaysInMilli
CHECK_DEADLOCK FALSE
