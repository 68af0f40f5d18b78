CONSTANTS
  MaxNestingDepth = 5
  Values <- MCValues
  IndexOf <- MCIndexOf
  Starts <- MCStarts
  Finds <- MCFinds
  Requests <- MCRequests
  Policies <- MCPolicies
  NoCap = NoCap
  OtherCalls <- MCOtherCalls
  RecursionLimit = 6
  Depth <- MCDepth
  Payloads <- MCPayloads
  NoResponse = NoResponse
SPECIFICATION ResponseSpec
INVARIANTS
  TypeOK
  ExecutedAsGranted
  WithinLimits
  IssuedIsExecutable
  AllMustPass
  UnknownPathsDeny
  OrderedNumbers
  ProjectionIsExact
CHECK_DEADLOCK FALSE
