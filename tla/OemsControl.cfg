\* One ticket, one API thread, three control requests: cancels, pauses, expiry.
CONSTANTS
  t1 = t1
  c1 = c1
  Ticket = {t1}
  Client = {c1}
  Routed = {t1}
  Dated = {t1}
  MassPaid = {}
  Outright = {t1}
  Ops = {"CANCEL", "PAUSE", "RESUME", "ACTIVATE", "AUTHORIZE"}
  MaxAsks = 3
  MaxRestarts = 0
SPECIFICATION Spec
INVARIANT CopiesAgree
PROPERTIES PauseHolds OverNotSent ImplementsDealDesk
CHECK_DEADLOCK FALSE
