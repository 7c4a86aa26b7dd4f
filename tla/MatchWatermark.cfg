SPECIFICATION Spec
CONSTANTS
  Companies = {1, 2}
  Bids = {b1}
  Hooks = {h1}
  Refreshers = {r1}
  Overlap = 1
  CommitLag = 0
  MaxTime = 2
  MaxProfile = 1
  MaxFailures = 0
  NoRow = NoRow
INVARIANTS NewBidsReflected
