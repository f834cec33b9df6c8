SPECIFICATION FairSpec
CONSTANTS
  u1 = u1
  u2 = u2
  Users = {u1, u2}
  Threads = {r1}
  Start <- MCStart
  Amounts = {2}
  Minimum = 1
  MaxConfirmations = 1
  MaxAddresses = 1
  MaxTxs = 1
  MaxSent = 1
  MaxTransfers = 1
  MaxStops = 1
PROPERTIES
  TransferConfirmed
CHECK_DEADLOCK FALSE
