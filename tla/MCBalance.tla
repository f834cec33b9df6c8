----------------------------- MODULE MCBalance -----------------------------
(***************************************************************************)
(* An instance of BalanceRead for TLC: two sales of different amounts.     *)
(***************************************************************************)
EXTENDS BalanceRead, TLC

CONSTANTS s1, s2

MCAmount == [s \in Sales |-> IF s = s1 THEN 2 ELSE 3]
MCFee == [s \in Sales |-> 1]
===========================================================================
