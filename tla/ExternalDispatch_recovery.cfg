SPECIFICATION FairSpec
CONSTANTS
  Rows = {1}
  Slots = {s1, s2}
  StaleAfter = 1
  InflightTimeout = 1
  MaxRedispatch = 1
  AbandonAfter = 2
  MaxRestarts = 1
  WritesMayFail = TRUE
  None = None
INVARIANTS
  TypeOK
  RegistryInv
PROPERTIES
  ResultNeverFlips
  EventuallySettled
