\* One ticket, possibly a mass payment, one API thread, two process deaths anywhere.
CONSTANTS
  t1 = t1
  c1 = c1
  Ticket = {t1}
  Client = {c1}
  Routed = {t1}
  Dated = {t1}
  MassPaid = {t1}
  Outright = {}
  Ops = {"CANCEL", "PAUSE"}
  MaxAsks = 1
  MaxRestarts = 2
SPECIFICATION FairSpec
INVARIANTS TypeOK OwnedIsHeld SendAccounted DealAccounted
PROPERTIES EmsGivesBack
CHECK_DEADLOCK FALSE
