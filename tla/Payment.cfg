\* Two web workers, two users, four requests of any kind.
CONSTANTS
  u1 = u1
  u2 = u2
  c1 = c1
  c2 = c2
  Nobody = Nobody
  User = {u1, u2}
  Thread = {c1, c2}
  FirstTimings = {"IMMEDIATE", "STRATEGIC_EXECUTION"}
  MaxRequests = 4
SPECIFICATION Spec
SYMMETRY Symmetry
INVARIANTS TypeOK DualControl OrdersAccounted TicketsAccounted QuotedApproved CancelUnderway
CHECK_DEADLOCK FALSE
