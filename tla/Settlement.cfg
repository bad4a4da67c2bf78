\* One ticket, settled by the broker's word or by date; every order of dates;
\* two deaths of the OMS.
CONSTANTS
  t1 = t1
  Ticket = {t1}
  MaxRestarts = 2
SPECIFICATION FairSpec
INVARIANTS TypeOK SettleAccounted CompleteAccounted DoneIsSettled
PROPERTIES NotSettledAgain LetGo
CHECK_DEADLOCK FALSE
