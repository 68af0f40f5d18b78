CONSTANTS
  Kids = {k1, k2}
  GrantTtl = 2
  Skew = 1
  NegativeTtl = 2
  MaxDrift = 2
  MaxTime = 4
  MaxTokens = 2
  NoToken = NoToken
  NoReply = NoReply
  Never = Never
SPECIFICATION Spec
INVARIANTS
  TypeOK
  RefusedOnlyForKms
  ClocksMayDiffer
  KmsAskedSeldom
PROPERTIES
  KnownKeysSurviveOutage
SYMMETRY Symmetry
CHECK_DEADLOCK FALSE
