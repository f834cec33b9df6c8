SPECIFICATION Spec
CONSTANTS
  u1 = u1
  u2 = u2
  u3 = u3
  t1 = t1
  t2 = t2
  a1 = a1
  a2 = a2
  Trades <- TwoTrades
  Users = {u1, u2, u3}
  Ads = {a1, a2}
  Threads = {r1}
  Terms = {1, 3}
  Active = {u1, u2, u3}
  Faults = {"crash"}
  Timeout = 0
  MaxTime = 1
  Buyer <- MCBuyer
  Seller <- MCSeller
  AdOf <- MCAdOf
  Owner <- MCOwner
  BuyAds <- MCBuyAds
  FirstTerms <- MCFirstTerms
  Cost <- MCCost
  MinCoins <- MCMinCoins
  MaxCoins <- MCMaxCoins
  Coins <- MCCoins
  Fee <- MCFee
  Funds <- MCFunds
INVARIANTS
  TypeOK
  OneRowOfTheTrade
PROPERTIES
  KeepsContract
  NoOtherOverdraft
  HiddenWhenShort
