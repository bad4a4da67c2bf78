\* One ticket; two clicks, one behind the other or at once; a death of the EMS.
CONSTANTS
  t1 = t1
  w1 = w1
  w2 = w2
  good = good
  Ticket = {t1}
  Worker = {w1, w2}
  Rate = {good}
  MaxClicks = 2
  MaxDeaths = 1
SPECIFICATION FairSpec
INVARIANTS QuotedByDesk RequestsAccounted DecidedClosed
PROPERTIES DeskHeard Released
CHECK_DEADLOCK FALSE
