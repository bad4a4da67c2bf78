\* Two requests and two imported payees about two rows, one thing that goes wrong.
CONSTANTS
  r1 = r1
  r2 = r2
  b1 = b1
  b2 = b2
  i1 = i1
  i2 = i2
  i3 = i3
  d1 = d1
  d2 = d2
  CORPAY = CORPAY
  NIUM = NIUM
  MONEX = MONEX
  Unused = Unused
  Deleted = Deleted
  None = None
  Blank = Blank
  Request = {r1, r2}
  Row = {b1, b2}
  Data = {d1, d2}
  Id = {i1, i2, i3}
  Companies <- Setups
  MaxHitches = 1
  MaxViews = 2
SPECIFICATION Spec
INVARIANTS TypeOK LinkTrue SyncedTold PayeesAccounted PendingWorked
SYMMETRY Alike
CHECK_DEADLOCK FALSE
