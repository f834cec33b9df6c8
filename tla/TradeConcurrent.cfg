SPECIFICATION Spec
CONSTANTS
  u1 = u1
  u2 = u2
  u3 = u3
  t1 = t1
  t2 = t2
  a1 = a1
  a2 = a2
  Trades <- OneTrade
  Users = {u1, u2}
  Ads = {a1}
  Threads = {r1, r2}
  Terms = {1}
  Active = {u1}
  Faults = {"dbError"}
  Timeout = 0
  MaxTime = 1
  Buyer <- MCBuyer
  Seller <- MCSeller
  AdOf <- MCAdOf
  Owner <- MCOwner
  BuyAds <- MCBuyAds
  FirstTerms <- MCFirstTerms
  Cost <- MCCost
  MinCoins <- MCMinCoins
  MaxCoins <- MCMaxCoins
  Coins <- MCCoins
  Fee <- MCFee
  Funds <- MCFunds
SYMMETRY ThreadSymmetry
INVARIANTS
  RowsBeforeStatus
  RowsBounded
PROPERTIES
  KeepsHistory
  SettledForGood
