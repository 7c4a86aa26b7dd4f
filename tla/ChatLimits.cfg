SPECIFICATION FairSpec
CONSTANTS
  Procs = {blue}
  Companies = {c1}
  Requests = {r1, r2, r3}
  PerMinute = 2
  ConcurrencyMax = 1
  DailyMax = 1
  Window = 4
  MaxLag = 1
  UsageBound = 3
  NoRequest = NoRequest
INVARIANTS RefusedOnlyWhenFull SlotsExact DailyBound WindowBound
PROPERTY SlotsDrain
