SPECIFICATION FairSpec
CONSTANTS
  Procs = {blue}
  Companies = {c1}
  Sessions = {s1, s2}
  Turns = {t1, t2, t3}
  Undoers = {u1}
  MaxTurns = 2
  ClientWaits = TRUE
  NoCompany = NoCompany
  NoRequest = NoRequest
  None = None
CHECK_DEADLOCK FALSE
INVARIANTS GuardExact NoGhostContext Transcript
PROPERTIES NoContextRace UndoTakesLastTurn SessionUnlocks
