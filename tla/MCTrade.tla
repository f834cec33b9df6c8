------------------------------ MODULE MCTrade ------------------------------
(***************************************************************************)
(* Instances of TradeRequests for TLC.  u1 sells to u2 (t1) and u2 sells   *)
(* to u3 (t2), so the coins of the first trade can pay for the second.     *)
(***************************************************************************)
EXTENDS TradeProperties, TLC

CONSTANTS u1, u2, u3, t1, t2, a1, a2

TwoTrades == {t1, t2}
OneTrade == {t1}

MCBuyer == [t \in Trades |-> IF t = t1 THEN u2 ELSE u3]
MCSeller == [t \in Trades |-> IF t = t1 THEN u1 ELSE u2]
MCAdOf == [t \in Trades |-> IF t = t1 THEN a1 ELSE a2]
\* u1 sells by a1; a2 is an advertisement of u3, who buys.
MCOwner == [a \in Ads |-> IF a = a1 THEN u1 ELSE u3]
MCBuyAds == Ads \ {a1}
MCFirstTerms == [a \in Ads |-> CHOOSE x \in Terms : \A y \in Terms : x <= y]

MCCoins == [t \in Trades |-> 3]
MCFee == [t \in Trades |-> 1]
\* Terms 1 are those of the creation; terms 3 raise the rate, so that the same amount
\* of money is checked as a third of the coins.
MCCost == [t \in Trades |-> [x \in Terms |-> IF x = 3 THEN 1 ELSE 3]]
\* Terms 3 of a1 can be set before t1 is escrowed and not after, and escrowing t1
\* under them hides a1.  a2 shows on under either.
MCMinCoins == [a \in Ads |-> [x \in Terms |-> IF a = a1 /\ x = 3 THEN 8 ELSE 1]]
MCMaxCoins == [a \in Ads |-> [x \in Terms |-> IF x = 3 THEN 8 ELSE 2]]
\* u1 has coins for two attempts to escrow t1; u2 has those of t2 only at the raised
\* rate, and gets the others from t1.
MCFunds == [u \in Users |-> IF u = u1 THEN 9 ELSE IF u = u2 THEN 3 ELSE 0]
\* u1 has coins for one attempt and some left.
TightFunds == [MCFunds EXCEPT ![u1] = 5]

\* No action and no property of the concurrent run tells one thread from another.
ThreadSymmetry == Permutations(Threads)
===========================================================================
