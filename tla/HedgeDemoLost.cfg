\* One LIVE and one DEMO account, and nothing goes wrong.
CONSTANTS
  l1 = l1
  l2 = l2
  d1 = d1
  d2 = d2
  None = None
  Account = {l1, l2, d1, d2}
  Live = {l1, l2}
  Companies <- Mixed
  Wishes <- Hedges
  Moves <- Trades
  Lot = 48
  Cuts = {2}
  MaxDisturb = 0
SPECIFICATION Spec
PROPERTY DemoAsExpected
