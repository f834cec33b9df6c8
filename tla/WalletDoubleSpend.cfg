SPECIFICATION Spec
CONSTANTS
  u1 = u1
  u2 = u2
  Users = {u1, u2}
  Threads = {r1, r2}
  Start <- MCStart
  Amounts = {2}
  Minimum = 1
  MaxConfirmations = 1
  MaxAddresses = 2
  MaxTxs = 0
  MaxSent = 0
  MaxTransfers = 2
  MaxStops = 0
INVARIANTS
  NoOverdraft
CHECK_DEADLOCK FALSE
