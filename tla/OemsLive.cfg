\* Two tickets, one of them without a destination; no cancels, ends or deaths.
CONSTANTS
  t1 = t1
  t2 = t2
  c1 = c1
  Ticket = {t1, t2}
  Client = {c1}
  Routed = {t1}
  Dated = {}
  MassPaid = {}
  Outright = {}
  Ops = {"PAUSE", "ACTIVATE"}
  MaxAsks = 1
  MaxRestarts = 0
SPECIFICATION FairSpec
PROPERTIES Decided FilledKept ImplementsLiveDesk
CHECK_DEADLOCK FALSE
