\* One ticket, two API threads: interleavings, refreshes, overwritten rows.
CONSTANTS
  t1 = t1
  c1 = c1
  c2 = c2
  Ticket = {t1}
  Client = {c1, c2}
  Routed = {t1}
  Dated = {}
  MassPaid = {}
  Outright = {}
  Ops = {"CANCEL", "PAUSE", "REFRESH"}
  MaxAsks = 1
  MaxRestarts = 0
SYMMETRY ClientSymmetry
SPECIFICATION Spec
INVARIANTS OneDeal DealsAuthorised
CHECK_DEADLOCK FALSE
