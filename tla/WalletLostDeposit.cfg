SPECIFICATION Spec
CONSTANTS
  u1 = u1
  u2 = u2
  Users = {u1, u2}
  Threads = {r1}
  Start <- MCStart
  Amounts = {2}
  Minimum = 1
  MaxConfirmations = 1
  MaxAddresses = 2
  MaxTxs = 1
  MaxSent = 0
  MaxTransfers = 0
  MaxStops = 0
INVARIANTS
  ReceivedIsRecorded
CHECK_DEADLOCK FALSE
