------------------------------ MODULE MCWallet ------------------------------
(***************************************************************************)
(* Instances of Wallet for TLC: u1 has coins from trades, u2 has none.     *)
(***************************************************************************)
EXTENDS WalletProperties, TLC

CONSTANTS u1, u2

\* Enough for one transfer and, strictly more than its amount being asked for, not for two.
MCStart == [u \in Users |-> IF u = u1 THEN 3 ELSE 0]
===========================================================================
