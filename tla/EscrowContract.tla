-------------------------- MODULE EscrowContract --------------------------
(***************************************************************************)
(* What the escrow of Crypkart promises the two parties of a trade,        *)
(* without requests, transactions or database rows.  A trade has a status, *)
(* the coins of its seller are either free, locked by the trade or paid to *)
(* the buyer, and the two move together:                                   *)
(*                                                                         *)
(*   - the trade is shown as escrowed only once the coins are taken;       *)
(*   - coins are paid out of the escrow, never past it, and a trade is     *)
(*     completed only with its coins paid;                                 *)
(*   - cancelling gives the coins back in the same step, and nothing else  *)
(*     gives them back;                                                    *)
(*   - COMPLETED and CANCELLED are final.                                  *)
(*                                                                         *)
(* It does not promise that a payment comes before the release: a release  *)
(* is accepted in any status that is not final.                            *)
(*                                                                         *)
(* Two specifications share these variables.  Spec is the contract.        *)
(* HistorySpec is what is left of it when requests overlap.                *)
(***************************************************************************)

CONSTANTS Trades

VARIABLES
  status,  \* the status of each trade
  money,   \* where the coins of each trade are
  seen     \* every status each trade has had so far

vars == <<status, money, seen>>

Statuses == {"INPROCESS", "BITCOIN_ESCROWED", "PAYMENT_SENT", "COMPLETED", "CANCELLED"}

Money == {"free", "locked", "paid"}

TypeOK ==
  /\ status \in [Trades -> Statuses]
  /\ money \in [Trades -> Money]
  /\ seen \in [Trades -> SUBSET Statuses]

Init ==
  /\ status = [t \in Trades |-> "INPROCESS"]
  /\ money = [t \in Trades |-> "free"]
  /\ seen = [t \in Trades |-> {"INPROCESS"}]

Final(t) == status[t] \in {"COMPLETED", "CANCELLED"}

Become(t, s) ==
  /\ status' = [status EXCEPT ![t] = s]
  /\ seen' = [seen EXCEPT ![t] = @ \union {s}]

Put(t, m) == money' = [money EXCEPT ![t] = m]

Lock(t) ==
  /\ status[t] = "INPROCESS"
  /\ money[t] = "free"
  /\ Put(t, "locked")
  /\ UNCHANGED <<status, seen>>

Escrow(t) ==
  /\ status[t] = "INPROCESS"
  /\ money[t] # "free"
  /\ Become(t, "BITCOIN_ESCROWED")
  /\ UNCHANGED money

SendPayment(t) ==
  /\ status[t] = "BITCOIN_ESCROWED"
  /\ Become(t, "PAYMENT_SENT")
  /\ UNCHANGED money

PayOut(t) ==
  /\ ~Final(t)
  /\ money[t] = "locked"
  /\ Put(t, "paid")
  /\ UNCHANGED <<status, seen>>

\* A payment left half way (coins paid, status not yet saved) may still be completed,
\* or go on as if it had not begun.
Complete(t) ==
  /\ ~Final(t)
  /\ money[t] = "paid"
  /\ Become(t, "COMPLETED")
  /\ UNCHANGED money

\* The coins go back even where a payment was left half way.
Cancel(t) ==
  /\ status[t] = "BITCOIN_ESCROWED"
  /\ money[t] # "free"
  /\ Put(t, "free")
  /\ Become(t, "CANCELLED")

Next ==
  \E t \in Trades :
    Lock(t) \/ Escrow(t) \/ SendPayment(t) \/ PayOut(t) \/ Complete(t) \/ Cancel(t)

Spec == Init /\ [][Next]_vars

---------------------------------------------------------------------------
(* What is left when requests overlap.  A status is only written if the    *)
(* trade has had it, or has really had one that leads to it.  And until a  *)
(* trade has been cancelled, its coins are locked before they are paid,    *)
(* are never given back, and are where a status newly written says.        *)

\* The statuses that some status in S leads to; any status leads to the release.
LeadsTo(S) ==
  {s \in Statuses :
     \/ s = "BITCOIN_ESCROWED" /\ "INPROCESS" \in S
     \/ s \in {"PAYMENT_SENT", "CANCELLED"} /\ "BITCOIN_ESCROWED" \in S
     \/ s = "COMPLETED"}

CoinsFollow(t) ==
  \/ "CANCELLED" \in seen'[t]
  \/ money[t] = "free" /\ money'[t] \in {"free", "locked"}
  \/ money[t] # "free" /\ money'[t] # "free"

\* Where the coins are when status s is written.
CoinsFit(t, s) ==
  \/ "CANCELLED" \in seen'[t]
  \/ s = "COMPLETED" /\ money'[t] = "paid"
  \/ s # "COMPLETED" /\ money'[t] # "free"

Overwrite(t) ==
  /\ \E s \in LeadsTo(seen[t]) : Become(t, s) /\ CoinsFit(t, s)
  /\ \E m \in Money : Put(t, m)
  /\ CoinsFollow(t)

MoveCoins(t) ==
  /\ \E m \in Money : Put(t, m)
  /\ UNCHANGED <<status, seen>>
  /\ CoinsFollow(t)

\* Old copies of several trades come back at once, with the rows they had then.
Restore ==
  /\ status' \in [Trades -> Statuses]
  /\ \A t \in Trades : status'[t] \in seen[t]
  /\ money' \in [Trades -> Money]
  /\ UNCHANGED seen
  /\ \A t \in Trades : CoinsFollow(t)

HistoryNext == Restore \/ \E t \in Trades : Overwrite(t) \/ MoveCoins(t)

HistorySpec == Init /\ [][HistoryNext]_vars

===========================================================================
