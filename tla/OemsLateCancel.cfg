\* A cancel handled on a stale copy of a ticket the EMS is executing.
CONSTANTS
  t1 = t1
  c1 = c1
  c2 = c2
  Ticket = {t1}
  Client = {c1}
  Routed = {t1}
  Dated = {}
  MassPaid = {}
  Outright = {}
  Ops = {"CANCEL"}
  MaxAsks = 1
  MaxRestarts = 0
SPECIFICATION Spec
PROPERTY FilledKept
CHECK_DEADLOCK FALSE
