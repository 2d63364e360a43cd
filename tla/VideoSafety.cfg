SPECIFICATION Spec
CONSTANTS
  Publishers = {alice, dave}
  Followers = {bob}
  Videos = {16, 17, 24}
  MilliSize = 16
  Ulp = 4
  Handlers = {h1, h2}
  Failing = {"write", "insert", "find", "unlink", "drop", "lookup"}
  NoOne = NoOne
  MaxRows = 1
  MaxVideos = 2
  MaxDeletions = 1
  MaxFailures = 1
SYMMETRY VideoSymmetry
INVARIANTS RowHasFile PushedVideoThere PublisherNamed DeletedForGood
