SPECIFICATION Spec
CONSTANTS
  i1 = i1
  i2 = i2
  i3 = i3
  Ids = {i1, i2, i3}
  Number <- MCNumber
  Passwords = {p1, p2}
  Handlers = {h1, h2, h3}
  MayFail = TRUE
SYMMETRY AccountSymmetry
INVARIANTS LoginStaysValid DuplicatesOnlyFromRace
