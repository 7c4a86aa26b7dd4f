SPECIFICATION Spec
CONSTANTS
  Subs = {s1, s2}
  Emails = {e1}
  Requests = {q1, q2}
  Slots = {1, 2, 3}
  NoSub = NoSub
  NoEmail = NoEmail
  NoCompany = NoCompany
SYMMETRY Symmetry
CHECK_DEADLOCK FALSE
INVARIANTS NoInheritance WithdrawalFinal EmailsProved FirstRequestsConverge
