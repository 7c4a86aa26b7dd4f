SPECIFICATION Spec
CONSTANTS
  Deployments = {d1, d2}
  NoOne = NoOne
SYMMETRY Symmetry
INVARIANTS StaysUp RebootServes NextCanStart
PROPERTY FailureRestores
