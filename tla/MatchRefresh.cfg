SPECIFICATION FairSpec
CONSTANTS
  Companies = {1, 2}
  Bids = {b1}
  Hooks = {h1}
  Refreshers = {r1}
  Overlap = 1
  CommitLag = 1
  MaxTime = 2
  MaxProfile = 1
  MaxFailures = 1
  NoRow = NoRow
PROPERTIES PutReflected NoGap CycleCovers NightlyHeals
