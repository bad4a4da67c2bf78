\* The OMS reads RFQ_DONE in the middle of an execution.
CONSTANTS
  t1 = t1
  c1 = c1
  c2 = c2
  Ticket = {t1}
  Client = {c1}
  Routed = {t1}
  Dated = {}
  MassPaid = {}
  Outright = {}
  Ops = {}
  MaxAsks = 0
  MaxRestarts = 0
SPECIFICATION Spec
INVARIANT FilledOwned
CHECK_DEADLOCK FALSE
