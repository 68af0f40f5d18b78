CONSTANTS
  Calls = {c1, c2, c3}
  Grants = {g1, g2}
  Ids = {i1, i2, i3}
  Refs = {r1, r2}
  KnownRefs = {r1}
  MaxRestarts = 2
  NoRow = NoRow
SPECIFICATION Spec
INVARIANTS
  TypeOK
  WrittenOnce
  AnswerIsStored
SYMMETRY Symmetry
CHECK_DEADLOCK FALSE
