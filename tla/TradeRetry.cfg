SPECIFICATION Spec
CONSTANTS
  u1 = u1
  u2 = u2
  u3 = u3
  t1 = t1
  t2 = t2
  a1 = a1
  a2 = a2
  Trades <- OneTrade
  Users = {u1, u2}
  Ads = {a1}
  Threads = {r1}
  Terms = {1}
  Active = {}
  Faults = {"crash"}
  Timeout = 0
  MaxTime = 0
  Buyer <- MCBuyer
  Seller <- MCSeller
  AdOf <- MCAdOf
  Owner <- MCOwner
  BuyAds <- MCBuyAds
  FirstTerms <- MCFirstTerms
  Cost <- MCCost
  MinCoins <- MCMinCoins
  MaxCoins <- MCMaxCoins
  Coins <- MCCoins
  Fee <- MCFee
  Funds <- TightFunds
INVARIANTS
  RetryIsCovered
