CONSTANTS
  Events = {e1, e2, e3, e4}
  MaxWriters = 4
SPECIFICATION Spec
INVARIANTS
  InvalidOnlyByFork
  ExportsVerify
PROPERTIES
  ForkIsPermanent
  TamperEvident
SYMMETRY Symmetry
CHECK_DEADLOCK FALSE
