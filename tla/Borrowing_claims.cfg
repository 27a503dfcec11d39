SPECIFICATION FairSpec
CONSTANTS
  Farms = {f1, f2}
  LeaseTime = 2
  RpcTimeout = 1
  MaxAcquires = 2
  MaxRestarts = 1
  None = None
  Other = Other
INVARIANTS
  OneFarmClaimed
  LeaseBacked
PROPERTIES
  ClaimsAgain
CHECK_DEADLOCK FALSE
