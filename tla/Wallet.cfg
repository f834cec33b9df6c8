SPECIFICATION Spec
CONSTANTS
  u1 = u1
  u2 = u2
  Users = {u1, u2}
  Threads = {r1}
  Start <- MCStart
  Amounts = {2}
  Minimum = 1
  MaxConfirmations = 1
  MaxAddresses = 2
  MaxTxs = 1
  MaxSent = 1
  MaxTransfers = 1
  MaxStops = 1
INVARIANTS
  TypeOK
  CreditedOnce
  OneCurrentAddress
  SentForARow
  NoOverdraft
PROPERTIES
  ConfirmationsStay
CHECK_DEADLOCK FALSE
