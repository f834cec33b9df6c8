------------------------------- MODULE Wallet -------------------------------
(***************************************************************************)
(* Coins that enter and leave the site: WalletController, the listeners of *)
(* MessageReceiver, and the queues they share with the wallet application, *)
(* which holds the coins and talks to the block chain.                     *)
(*                                                                         *)
(* That application is not part of the repository.  It is modelled by what *)
(* MessageReceiver expects of it: it answers a request for an address with *)
(* a fresh one, broadcasts what it is asked to send, and reports every     *)
(* transaction of an address it gave and every new confirmation.           *)
(*                                                                         *)
(* Every call to a service is a transaction of its own, as in              *)
(* TradeRequests.  A queue has one consumer, which takes a message, works  *)
(* through its transactions and acknowledges it at the end; a consumer     *)
(* that stops on the way loses the message or is given it again.           *)
(***************************************************************************)
EXTENDS Integers, Sequences, FiniteSetsExt

CONSTANTS
  Users,
  Threads,       \* the servlet threads
  Start,         \* per user: the balance that trades have left
  Amounts,       \* what may be sent or deposited, in coins
  Minimum,       \* getMinimumAllowedBtcTransaction
  MaxConfirmations,
  MaxAddresses,  \* bounds: addresses the wallet application gives out,
  MaxTxs,        \* transactions on the block chain,
  MaxSent,       \* external transfers,
  MaxTransfers,  \* internal transfers,
  MaxStops       \* requests and consumers that stop on the way

ASSUME WalletAssumption ==
  /\ Start \in [Users -> Nat]
  /\ Amounts \subseteq Nat \ {0}
  /\ Minimum \in Nat
  /\ {MaxConfirmations, MaxAddresses, MaxTxs, MaxSent, MaxTransfers, MaxStops} \subseteq Nat

VARIABLES
  direct,     \* direct_transactions
  transfers,  \* internal_transfer
  wallets,    \* user_wallets
  queue,      \* the messages of each queue, the one being worked on first
  req,        \* what each servlet thread is doing
  consumer,   \* what the consumer of each queue is doing
  given,      \* wallet application: the user each address was given for
  chain,      \* block chain: the transactions, by their id
  stops

tables == <<direct, transfers, wallets>>
outside == <<given, chain>>
vars == <<tables, queue, req, consumer, outside, stops>>

\* The queues of MessageReceiver and those of MessageSender.
In == {"wallet_response", "coin_received", "wallet_sent_coin"}
Out == {"wallet", "wallet_send_coin"}

NoTx == 0
NoUser == "nobody"
Elsewhere == 0          \* an address that was not given to a user of the site
Idle == [pc |-> "idle"]

Send(q, msg) == queue' = [queue EXCEPT ![q] = Append(@, msg)]

---------------------------------------------------------------------------
(* The tables *)

Incoming(u) == {i \in DOMAIN direct : direct[i].user = u /\ ~direct[i].outgoing /\ direct[i].confirmations >= 1}
Outgoing(u) == {i \in DOMAIN direct : direct[i].user = u /\ direct[i].outgoing}

DirectSum(I) == SumFunctionOnSet([i \in I |-> direct[i].amount], I)
TransferSum(I) == SumFunctionOnSet([i \in I |-> transfers[i].amount], I)

\* getUserBalance, the trades apart.
Balance(u) ==
  Start[u] + DirectSum(Incoming(u)) - DirectSum(Outgoing(u))
           + TransferSum({i \in DOMAIN transfers : transfers[i].buyer = u})
           - TransferSum({i \in DOMAIN transfers : transfers[i].seller = u})

\* Mutant: only the minimum is checked.
CanDoTransferAbove(u, x) == x > Minimum

CanDoTransfer(u, x) == Balance(u) > x /\ x > Minimum

CurrentOf(u) == {i \in DOMAIN wallets : wallets[i].user = u /\ wallets[i].current}

\* Mutant: the transaction is not looked for.
NoRowsOf(tx) == {}

RowsOf(tx) == {i \in DOMAIN direct : direct[i].txid = tx}

---------------------------------------------------------------------------
(* Requests *)

At(r, pc) == req[r].pc = pc
Go(r, work) == req' = [req EXCEPT ![r] = work]

\* Pages ask for an address: the home page at every visit, and getCurrentUserWallet for
\* a user who has none.  A page may call both, or the latter and ask itself.
Visit(u) ==
  /\ queue["wallet"] = <<>> /\ queue["wallet_response"] = <<>>
  /\ Len(given) < MaxAddresses
  /\ \E asked \in {<<u>>} \union (IF CurrentOf(u) = {} THEN {<<u, u>>} ELSE {}) :
       queue' = [queue EXCEPT !["wallet"] = asked]
  /\ UNCHANGED <<tables, req, consumer, outside, stops>>

InternalRequest(r, u, v, x) ==
  /\ At(r, "idle")
  /\ u # v
  /\ CanDoTransfer(u, x)
  /\ Go(r, [pc |-> "internalSave", seller |-> u, buyer |-> v, amount |-> x])
  /\ UNCHANGED <<tables, queue, consumer, outside, stops>>

InternalSave(r) ==
  LET w == req[r] IN
  /\ At(r, "internalSave")
  /\ transfers' = Append(transfers, [seller |-> w.seller, buyer |-> w.buyer, amount |-> w.amount])
  /\ Go(r, Idle)
  /\ UNCHANGED <<direct, wallets, queue, consumer, outside, stops>>

ExternalRequest(r, u, a, x) ==
  /\ At(r, "idle")
  /\ CanDoTransfer(u, x)
  /\ Go(r, [pc |-> "externalSave", user |-> u, address |-> a, amount |-> x, row |-> 0])
  /\ UNCHANGED <<tables, queue, consumer, outside, stops>>

\* Mutant: the row is left to the notice that the coins were sent.
ExternalNoSave(r) ==
  /\ At(r, "externalSave")
  /\ Go(r, [req[r] EXCEPT !.pc = "sendCoin", !.row = Len(direct) + 1])
  /\ UNCHANGED <<tables, queue, consumer, outside, stops>>

ExternalSave(r) ==
  LET w == req[r] IN
  /\ At(r, "externalSave")
  /\ direct' = Append(direct, [user |-> w.user, amount |-> w.amount, outgoing |-> TRUE,
                               txid |-> NoTx, confirmations |-> 0])
  /\ Go(r, [w EXCEPT !.pc = "sendCoin", !.row = Len(direct')])
  /\ UNCHANGED <<transfers, wallets, queue, consumer, outside, stops>>

\* Mutant: only an address is asked for.
SendNothing(r) ==
  /\ At(r, "sendCoin")
  /\ Go(r, [req[r] EXCEPT !.pc = "askAddress"])
  /\ UNCHANGED <<tables, queue, consumer, outside, stops>>

SendCoin(r) ==
  LET w == req[r] IN
  /\ At(r, "sendCoin")
  /\ Send("wallet_send_coin", [row |-> w.row, address |-> w.address, amount |-> w.amount])
  /\ Go(r, [w EXCEPT !.pc = "askAddress"])
  /\ UNCHANGED <<tables, consumer, outside, stops>>

AskAddress(r) ==
  /\ At(r, "askAddress")
  /\ Send("wallet", req[r].user)
  /\ Go(r, Idle)
  /\ UNCHANGED <<tables, consumer, outside, stops>>

\* An exception or a restart: what is committed and sent stays.
StopRequest(r) ==
  /\ stops < MaxStops
  /\ stops' = stops + 1
  /\ ~At(r, "idle")
  /\ Go(r, Idle)
  /\ UNCHANGED <<tables, queue, consumer, outside>>

---------------------------------------------------------------------------
(* Consumers *)

Busy(q, pc) == consumer[q].pc = pc
Continue(q, work) == consumer' = [consumer EXCEPT ![q] = work]
Ready(q) == Busy(q, "idle") /\ queue[q] # <<>>
Msg(q) == Head(queue[q])

\* Mutant: the earlier addresses stay current.
ResponseKeep ==
  /\ Ready("wallet_response")
  /\ Continue("wallet_response", [pc |-> "save"])
  /\ UNCHANGED <<tables, queue, req, outside, stops>>

ResponseClear ==
  LET q == "wallet_response" IN
  /\ Ready(q)
  /\ wallets' = [i \in DOMAIN wallets |->
                   IF wallets[i].user = Msg(q).user THEN [wallets[i] EXCEPT !.current = FALSE] ELSE wallets[i]]
  /\ Continue(q, [pc |-> "save"])
  /\ UNCHANGED <<direct, transfers, queue, req, outside, stops>>

ResponseSave ==
  LET q == "wallet_response" IN
  /\ Busy(q, "save")
  /\ wallets' = Append(wallets, [user |-> Msg(q).user, address |-> Msg(q).address, current |-> TRUE])
  /\ Continue(q, [pc |-> "done"])
  /\ UNCHANGED <<direct, transfers, queue, req, outside, stops>>

\* The user whose current address received the coins, if it still is current.
ReceivedWallet ==
  LET q == "coin_received"
      rows == {i \in DOMAIN wallets : wallets[i].address = Msg(q).address /\ wallets[i].current}
  IN
  /\ Ready(q)
  /\ \E u \in IF rows = {} THEN {NoUser} ELSE {wallets[i].user : i \in rows} :
       Continue(q, [pc |-> "find", user |-> u])
  /\ UNCHANGED <<tables, queue, req, outside, stops>>

\* Mutant: a row is added without asking whether an address was found.
ReceivedFindNoCheck ==
  LET q == "coin_received"
      rows == RowsOf(Msg(q).txid)
  IN
  /\ Busy(q, "find")
  /\ IF rows # {}
       THEN \E i \in rows : Continue(q, [pc |-> "update", row |-> i, copy |-> direct[i]])
       ELSE Continue(q, [pc |-> "add", user |-> consumer[q].user])
  /\ UNCHANGED <<tables, queue, req, outside, stops>>

\* A row with the id of the transaction, whosever it is.  With none, and no user
\* either, an exception ends the work.
ReceivedFind ==
  LET q == "coin_received"
      u == consumer[q].user
      rows == RowsOf(Msg(q).txid)
  IN
  /\ Busy(q, "find")
  /\ IF rows # {}
       THEN \E i \in rows : Continue(q, [pc |-> "update", row |-> i, copy |-> direct[i]])
       ELSE Continue(q, IF u = NoUser THEN [pc |-> "done"] ELSE [pc |-> "add", user |-> u])
  /\ UNCHANGED <<tables, queue, req, outside, stops>>

\* saveOrUpdate writes every column of the copy, as it was when it was read.
ReceivedUpdate ==
  LET q == "coin_received"
      w == consumer[q]
  IN
  /\ Busy(q, "update")
  /\ direct' = [direct EXCEPT ![w.row] = [w.copy EXCEPT !.confirmations = Msg(q).confirmations]]
  /\ Continue(q, [pc |-> "confirm"])
  /\ UNCHANGED <<transfers, wallets, queue, req, outside, stops>>

\* The update query: every row of the transaction.
ReceivedConfirm ==
  LET q == "coin_received" IN
  /\ Busy(q, "confirm")
  /\ direct' = [i \in DOMAIN direct |->
                  IF direct[i].txid = Msg(q).txid
                    THEN [direct[i] EXCEPT !.confirmations = Msg(q).confirmations]
                    ELSE direct[i]]
  /\ Continue(q, [pc |-> "done"])
  /\ UNCHANGED <<transfers, wallets, queue, req, outside, stops>>

ReceivedAdd ==
  LET q == "coin_received"
      w == consumer[q]
  IN
  /\ Busy(q, "add")
  /\ direct' = Append(direct, [user |-> w.user, amount |-> Msg(q).amount, outgoing |-> Msg(q).outgoing,
                               txid |-> Msg(q).txid, confirmations |-> Msg(q).confirmations])
  /\ Continue(q, [pc |-> "ask", user |-> w.user])
  /\ UNCHANGED <<transfers, wallets, queue, req, outside, stops>>

ReceivedAsk ==
  LET q == "coin_received" IN
  /\ Busy(q, "ask")
  /\ Send("wallet", consumer[q].user)
  /\ Continue(q, [pc |-> "done"])
  /\ UNCHANGED <<tables, req, outside, stops>>

SentFind ==
  LET q == "wallet_sent_coin"
      i == Msg(q).row
  IN
  /\ Ready(q)
  /\ Continue(q, IF i \in DOMAIN direct THEN [pc |-> "save", copy |-> direct[i]] ELSE [pc |-> "done"])
  /\ UNCHANGED <<tables, queue, req, outside, stops>>

SentSave ==
  LET q == "wallet_sent_coin" IN
  /\ Busy(q, "save")
  /\ direct' = [direct EXCEPT ![Msg(q).row] =
                  [consumer[q].copy EXCEPT !.amount = Msg(q).amount, !.txid = Msg(q).txid,
                                           !.confirmations = Msg(q).confirmations]]
  /\ Continue(q, [pc |-> "done"])
  /\ UNCHANGED <<transfers, wallets, queue, req, outside, stops>>

Acknowledge(q) ==
  /\ Busy(q, "done")
  /\ queue' = [queue EXCEPT ![q] = Tail(@)]
  /\ Continue(q, Idle)
  /\ UNCHANGED <<tables, req, outside, stops>>

\* Mutant: a listener that fails puts its message back at the end of the queue.
StopConsumerRequeue(q) ==
  /\ stops < MaxStops
  /\ stops' = stops + 1
  /\ ~Busy(q, "idle")
  /\ Continue(q, Idle)
  /\ queue' = [queue EXCEPT ![q] = Append(Tail(@), Head(@))]
  /\ UNCHANGED <<tables, req, outside>>

StopConsumer(q) ==
  /\ stops < MaxStops
  /\ stops' = stops + 1
  /\ ~Busy(q, "idle")
  /\ Continue(q, Idle)
  /\ UNCHANGED queue \/ queue' = [queue EXCEPT ![q] = Tail(@)]
  /\ UNCHANGED <<tables, req, outside>>

---------------------------------------------------------------------------
(* The wallet application and the block chain *)

Take(q, to, msg) == queue' = [queue EXCEPT ![q] = Tail(@), ![to] = Append(@, msg)]

Allocate ==
  /\ queue["wallet"] # <<>>
  /\ Len(given) < MaxAddresses
  /\ given' = Append(given, Head(queue["wallet"]))
  /\ Take("wallet", "wallet_response", [user |-> Head(queue["wallet"]), address |-> Len(given')])
  /\ UNCHANGED <<tables, req, consumer, chain, stops>>

Tx(a, x, row) == [address |-> a, amount |-> x, row |-> row, confirmations |-> 0]

Broadcast ==
  LET msg == Head(queue["wallet_send_coin"]) IN
  /\ queue["wallet_send_coin"] # <<>>
  /\ chain' = Append(chain, Tx(msg.address, msg.amount, msg.row))
  /\ Take("wallet_send_coin", "wallet_sent_coin",
          [row |-> msg.row, txid |-> Len(chain'), amount |-> msg.amount, confirmations |-> 0])
  /\ UNCHANGED <<tables, req, consumer, given, stops>>

\* What the wallet application says of transaction i, its address being one it gave
\* or the coins leaving the site.
Notice(i) ==
  [txid |-> i, address |-> chain'[i].address, amount |-> chain'[i].amount,
   outgoing |-> chain'[i].address = Elsewhere, confirmations |-> chain'[i].confirmations]

Deposit(a, x) ==
  /\ Len(chain) < MaxTxs
  /\ chain' = Append(chain, Tx(a, x, 0))
  /\ Send("coin_received", Notice(Len(chain')))
  /\ UNCHANGED <<tables, req, consumer, given, stops>>

Confirm(i) ==
  /\ chain[i].confirmations < MaxConfirmations
  /\ chain' = [chain EXCEPT ![i].confirmations = @ + 1]
  /\ Send("coin_received", Notice(i))
  /\ UNCHANGED <<tables, req, consumer, given, stops>>

---------------------------------------------------------------------------

Init ==
  /\ direct = <<>>
  /\ transfers = <<>>
  /\ wallets = <<>>
  /\ queue = [q \in In \union Out |-> <<>>]
  /\ req = [r \in Threads |-> Idle]
  /\ consumer = [q \in In |-> Idle]
  /\ given = <<>>
  /\ chain = <<>>
  /\ stops = 0

\* The addresses pages have shown.
Shown == {wallets[i].address : i \in DOMAIN wallets}

\* The bounds on transfers count those under way.
RoomFor(pc, done, max) == done + Cardinality({r \in Threads : At(r, pc)}) < max

Request(r) ==
  \E u \in Users, x \in Amounts :
    \/ /\ RoomFor("internalSave", Len(transfers), MaxTransfers)
       /\ \E v \in Users : InternalRequest(r, u, v, x)
    \/ /\ RoomFor("externalSave", Cardinality({i \in DOMAIN direct : direct[i].outgoing}), MaxSent)
       /\ \E a \in Shown \union {Elsewhere} : ExternalRequest(r, u, a, x)

Proceed(r) == InternalSave(r) \/ ExternalSave(r) \/ SendCoin(r) \/ AskAddress(r)

Consume(q) ==
  \/ q = "wallet_response" /\ (ResponseClear \/ ResponseSave)
  \/ /\ q = "coin_received"
     /\ \/ ReceivedWallet \/ ReceivedFind \/ ReceivedUpdate
        \/ ReceivedConfirm \/ ReceivedAdd \/ ReceivedAsk
  \/ q = "wallet_sent_coin" /\ (SentFind \/ SentSave)
  \/ Acknowledge(q)

Next ==
  \/ \E u \in Users : Visit(u)
  \/ \E r \in Threads : Request(r) \/ Proceed(r) \/ StopRequest(r)
  \/ \E q \in In : Consume(q) \/ StopConsumer(q)
  \/ Allocate \/ Broadcast
  \/ \E a \in Shown, x \in Amounts : Deposit(a, x)
  \/ \E i \in DOMAIN chain : Confirm(i)

Spec == Init /\ [][Next]_vars

\* Threads and consumers run on, and the wallet application sends what it is asked to.
FairSpec ==
  /\ Spec
  /\ \A r \in Threads : WF_vars(Proceed(r))
  /\ \A q \in In : WF_vars(Consume(q))
  /\ WF_vars(Broadcast)

===========================================================================
