-------------------------- MODULE WalletProperties --------------------------
(***************************************************************************)
(* What is claimed of Wallet.                                              *)
(***************************************************************************)
EXTENDS Wallet

Rows == DOMAIN direct

\* The types of the tables.  Every row has a user, and an id of a transaction that
\* exists.
TypeOK ==
  /\ direct \in Seq([user : Users, amount : Amounts, outgoing : BOOLEAN,
                     txid : 0 .. Len(chain), confirmations : 0 .. MaxConfirmations])
  /\ transfers \in Seq([seller : Users, buyer : Users, amount : Amounts])
  /\ wallets \in Seq([user : Users, address : DOMAIN given, current : BOOLEAN])
  /\ given \in Seq(Users)
  /\ DOMAIN queue = In \union Out
  /\ DOMAIN req = Threads
  /\ DOMAIN consumer = In
  /\ stops \in 0 .. MaxStops

\* However often a notice is delivered, a deposit is credited once at most, with its
\* amount, to the user the address was given to.
CreditedOnce ==
  \A i \in Rows :
    ~direct[i].outgoing =>
      /\ direct[i].amount = chain[direct[i].txid].amount
      /\ direct[i].user = given[chain[direct[i].txid].address]
      /\ \A j \in Rows : ~direct[j].outgoing /\ direct[j].txid = direct[i].txid => j = i

\* Clearing the old address and adding the new one are two transactions, and either may
\* be repeated: there is still never a second current address, and the current one is
\* the last given to the user that was saved.
OneCurrentAddress ==
  \A i, j \in DOMAIN wallets :
    wallets[i].user = wallets[j].user /\ wallets[i].current => j <= i

\* Coins leave the site only for a committed row, which deducts them from the user who
\* sent them, and once for each row.
SentForARow ==
  \A i \in DOMAIN chain :
    chain[i].row # 0 =>
      /\ chain[i].row \in Rows
      /\ direct[chain[i].row].outgoing
      /\ direct[chain[i].row].amount = chain[i].amount
      /\ direct[chain[i].row].txid \in {NoTx, i}
      /\ \A j \in DOMAIN chain : chain[j].row = chain[i].row => j = i

\* A deposit keeps the confirmations it has: neither a notice that is given again nor a
\* copy that is saved late takes one away, and with it coins that may be spent already.
ConfirmationsStay ==
  [][\A i \in Rows :
       ~direct[i].outgoing => direct'[i].confirmations >= direct[i].confirmations]_vars

\* Transfers leave nobody below zero: one request at a time, whatever the consumers do
\* meanwhile.
NoOverdraft == \A u \in Users : Balance(u) >= 0

\* Unless something stopped on the way, an external transfer gets the id of its
\* transaction.
TransferConfirmed ==
  \A i \in 1 .. MaxSent + MaxTxs :
    (i \in Rows /\ direct[i].outgoing) ~> (stops > 0 \/ (i \in Rows /\ direct[i].txid # NoTx))

---------------------------------------------------------------------------

\* "Will be invoked when there is any coin received event will take place on block chain
\* on our wallet": once the consumer is done with a notice of coins received, the user
\* of the address has a row for them.
ReceivedIsRecorded ==
  Busy("coin_received", "done") /\ ~Msg("coin_received").outgoing =>
    \E i \in RowsOf(Msg("coin_received").txid) : direct[i].user = given[Msg("coin_received").address]

---------------------------------------------------------------------------
(* What the proofs rest on: what the queues, the consumers and the requests say of   *)
(* the tables and of the chain                                                       *)

DirectRow == [user : Users, amount : Amounts, outgoing : BOOLEAN, txid : Nat,
              confirmations : 0 .. MaxConfirmations]
TxRow == [address : Nat, amount : Amounts, row : Nat, confirmations : 0 .. MaxConfirmations]

Answer == [user : Users, address : Nat]
Order == [row : Nat, address : Nat, amount : Amounts]
Sent == [row : Nat, txid : Nat, amount : Amounts, confirmations : 0 .. MaxConfirmations]
Received == [txid : Nat, address : Nat, amount : Amounts, outgoing : BOOLEAN,
             confirmations : 0 .. MaxConfirmations]

Known(a) == a \in DOMAIN given
OnChain(i) == i \in DOMAIN chain

\* The messages of the queues.
QueueInv ==
  /\ queue["wallet"] \in Seq(Users)
  /\ queue["wallet_response"] \in Seq(Answer)
  /\ queue["wallet_send_coin"] \in Seq(Order)
  /\ queue["wallet_sent_coin"] \in Seq(Sent)
  /\ queue["coin_received"] \in Seq(Received)
  /\ \A j \in DOMAIN queue["wallet_response"] :
       LET m == queue["wallet_response"][j] IN Known(m.address) /\ given[m.address] = m.user
  /\ \A j \in DOMAIN queue["wallet_send_coin"] :
       queue["wallet_send_coin"][j].address \in DOMAIN given \union {Elsewhere}
  /\ \A j \in DOMAIN queue["wallet_sent_coin"] :
       LET m == queue["wallet_sent_coin"][j] IN
       OnChain(m.txid) /\ chain[m.txid].row = m.row /\ m.row # 0
         /\ chain[m.txid].amount = m.amount
  /\ \A j \in DOMAIN queue["coin_received"] :
       LET m == queue["coin_received"][j] IN
       OnChain(m.txid) /\ chain[m.txid].address = m.address
         /\ chain[m.txid].amount = m.amount /\ m.outgoing = (m.address = Elsewhere)

RequestInv ==
  \A r \in Threads :
    \/ req[r] = Idle
    \/ req[r] \in [pc : {"internalSave"}, seller : Users, buyer : Users, amount : Amounts]
    \/ /\ req[r] \in [pc : {"externalSave", "sendCoin", "askAddress"}, user : Users,
                      address : Nat, amount : Amounts, row : Nat]
       /\ req[r].address \in DOMAIN given \union {Elsewhere}

ChainInv ==
  /\ chain \in Seq(TxRow)
  /\ \A i \in DOMAIN chain : chain[i].address \in DOMAIN given \union {Elsewhere}

\* The response consumer has cleared the addresses of the user it works for.
Cleared ==
  /\ consumer["wallet_response"] = Idle \/ queue["wallet_response"] # <<>>
  /\ consumer["wallet_response"] \in [pc : {"idle", "save", "done"}]
  /\ \A i \in DOMAIN wallets : given[wallets[i].address] = wallets[i].user
  /\ Busy("wallet_response", "save") =>
       \A i \in DOMAIN wallets :
         wallets[i].user = Msg("wallet_response").user => ~wallets[i].current

\* A copy of row i differs from it in nothing that matters.
CopyOf(copy, i) ==
  /\ i \in Rows
  /\ copy \in DirectRow
  /\ copy.user = direct[i].user
  /\ copy.amount = direct[i].amount
  /\ copy.outgoing = direct[i].outgoing

Owned(u, a) == Known(a) /\ given[a] = u

\* How far the consumer of notices has got.
Finding ==
  LET c == consumer["coin_received"]
      m == Msg("coin_received") IN
  /\ c = Idle \/ queue["coin_received"] # <<>>
  /\ \/ c = Idle \/ c = [pc |-> "confirm"] \/ c = [pc |-> "done"]
     \/ c \in [pc : {"find"}, user : Users \union {NoUser}] /\ (c.user = NoUser \/ Owned(c.user, m.address))
     \/ /\ c \in [pc : {"add"}, user : Users]
        /\ Owned(c.user, m.address)
        /\ \A i \in Rows : ~direct[i].outgoing => direct[i].txid # m.txid
     \/ c \in [pc : {"ask"}, user : Users]
     \/ /\ c \in [pc : {"update"}, row : Nat, copy : DirectRow]
        /\ CopyOf(c.copy, c.row)
        /\ c.copy.txid = m.txid
        /\ direct[c.row].txid = m.txid

\* And the consumer of the answers to what was sent.
Saving ==
  LET c == consumer["wallet_sent_coin"] IN
  /\ c = Idle \/ queue["wallet_sent_coin"] # <<>>
  /\ \/ c = Idle \/ c = [pc |-> "done"]
     \/ c \in [pc : {"save"}, copy : DirectRow] /\ CopyOf(c.copy, Msg("wallet_sent_coin").row)

\* Row k waits for its coins to be sent: nobody has seen a transaction for it.
Waits(k, x) ==
  /\ k \in Rows
  /\ direct[k].outgoing
  /\ direct[k].amount = x
  /\ direct[k].txid = NoTx
  /\ \A i \in DOMAIN chain : chain[i].row # k

Orders == DOMAIN queue["wallet_send_coin"]
OrderAt(j) == queue["wallet_send_coin"][j]

\* Each such row is with one request or one message.
SendInv ==
  /\ \A r \in Threads : At(r, "sendCoin") => Waits(req[r].row, req[r].amount)
  /\ \A j \in Orders : Waits(OrderAt(j).row, OrderAt(j).amount)
  /\ \A r, s \in Threads :
       At(r, "sendCoin") /\ At(s, "sendCoin") /\ req[r].row = req[s].row => r = s
  /\ \A j, k \in Orders : OrderAt(j).row = OrderAt(k).row => j = k
  /\ \A r \in Threads, j \in Orders : At(r, "sendCoin") => req[r].row # OrderAt(j).row

\* A row that has the id of a transaction is the one it was sent for, or of the user
\* whose address it went to.
RowInv ==
  \A i \in Rows :
    /\ direct[i].txid # NoTx => OnChain(direct[i].txid)
    /\ direct[i].outgoing => direct[i].txid = NoTx \/ chain[direct[i].txid].row = i
    /\ ~direct[i].outgoing => OnChain(direct[i].txid) /\ Known(chain[direct[i].txid].address)

WalletInv ==
  /\ QueueInv /\ RequestInv /\ ChainInv
  /\ Cleared /\ Finding /\ Saving
  /\ SendInv /\ RowInv

---------------------------------------------------------------------------
(* What the proof that nobody is overdrawn rests on *)

Notices == DOMAIN queue["coin_received"]
NoticeAt(j) == queue["coin_received"][j]

\* The notices of a transaction are in the order of its confirmations, none is behind
\* what a deposit already has, and none is ahead of the chain: a deposit that was once
\* confirmed stays so, whichever notice is delivered again.
ConfirmationsInv ==
  /\ \A j, k \in Notices :
       j <= k /\ NoticeAt(j).txid = NoticeAt(k).txid =>
         NoticeAt(j).confirmations <= NoticeAt(k).confirmations
  /\ \A j \in Notices : NoticeAt(j).confirmations <= chain[NoticeAt(j).txid].confirmations
  /\ \A i \in Rows :
       ~direct[i].outgoing =>
         /\ direct[i].confirmations <= chain[direct[i].txid].confirmations
         /\ \A j \in Notices :
              NoticeAt(j).txid = direct[i].txid => direct[i].confirmations <= NoticeAt(j).confirmations

\* A request that is about to save a transfer has found the coins for it.
FoundInv ==
  \A r \in Threads :
    /\ At(r, "internalSave") => Balance(req[r].seller) >= req[r].amount
    /\ At(r, "externalSave") => Balance(req[r].user) >= req[r].amount

===========================================================================
