\* Two LIVE or two DEMO accounts, two things that go wrong or change.
CONSTANTS
  l1 = l1
  l2 = l2
  d1 = d1
  d2 = d2
  None = None
  Account = {l1, l2, d1, d2}
  Live = {l1, l2}
  Companies <- Separate
  Wishes <- Hedges
  Moves <- Trades
  Lot = 48
  Cuts = {2}
  MaxDisturb = 2
SPECIFICATION Spec
INVARIANTS TypeOK Attributed
PROPERTIES Unmoved Converges
