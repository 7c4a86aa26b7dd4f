SPECIFICATION Spec
CONSTANTS
  Procs = {blue}
  Companies = {c1}
  Sessions = {s1}
  Turns = {t1, t2}
  Undoers = {u1}
  MaxTurns = 2
  ClientWaits = FALSE
  NoCompany = NoCompany
  NoRequest = NoRequest
  None = None
CHECK_DEADLOCK FALSE
INVARIANT NoGhostContext
