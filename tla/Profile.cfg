SPECIFICATION Spec
CONSTANTS
  c1 = c1
  c2 = c2
  unknown = unknown
  civil = civil
  Companies = {k1, k2}
  Puts = {p1, p2}
  BadCode = BadCode
  Codes = {c1, c2, unknown, BadCode}
  Masters <- MCMasters
  Fields = {civil}
  NoCode = NoCode
  EmptyCode = EmptyCode
  BadField = BadField
  NoField = NoField
  Payloads <- MCPayloads
  MaxRows = 2
  MaxRowsLarge = 2
  NoPut = NoPut
SYMMETRY Sym
INVARIANTS NoHalfProfile AloneExact
PROPERTY ReplacesWhatItFound
