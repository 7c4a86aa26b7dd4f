SPECIFICATION Spec
CONSTANTS
  Procs = {blue, green}
  Companies = {c1, c2}
  Sessions = {s1}
  Turns = {t1, t2, t3}
  Undoers = {u1}
  MaxTurns = 1
  ClientWaits = FALSE
  NoCompany = NoCompany
  NoRequest = NoRequest
  None = None
SYMMETRY Symmetry
CHECK_DEADLOCK FALSE
INVARIANTS CapHolds Isolation
PROPERTIES DeletedStaysQuiet
