CONSTANTS
  Events = {e1, e2}
  MaxWriters = 2
SPECIFICATION Spec
INVARIANT ChainVerifies
CHECK_DEADLOCK FALSE
