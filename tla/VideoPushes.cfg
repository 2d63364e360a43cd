SPECIFICATION Spec
CONSTANTS
  Publishers = {alice}
  Followers = {bob, carol}
  Videos = {16}
  MilliSize = 16
  Ulp = 4
  Handlers = {h1, h2}
  Failing = {"followers", "push", "clear"}
  NoOne = NoOne
  MaxRows = 2
  MaxVideos = 1
  MaxDeletions = 0
  MaxFailures = 2
SYMMETRY VideoSymmetry
INVARIANTS PushAccounting LostOnlyIfLate
