---------------------------- MODULE WalletProofs ----------------------------
(***************************************************************************)
(* Theorems about Wallet, for any users, threads, amounts and bounds, the  *)
(* last, that nobody is overdrawn, for one request at a time.              *)
(***************************************************************************)
EXTENDS WalletProperties, SumProofs, TLAPS

Inv == TypeOK /\ CreditedOnce /\ OneCurrentAddress /\ SentForARow /\ WalletInv

---------------------------------------------------------------------------
(* Sequences *)

LEMMA Appended ==
  ASSUME NEW S, NEW s \in Seq(S), NEW e \in S
  PROVE  /\ Append(s, e) \in Seq(S)
         /\ DOMAIN Append(s, e) = DOMAIN s \union {Len(s) + 1}
         /\ Len(s) + 1 \notin DOMAIN s
         /\ \A j \in DOMAIN s : Append(s, e)[j] = s[j]
         /\ Append(s, e)[Len(s) + 1] = e
         /\ Append(s, e) # <<>>
         /\ s # <<>> => Head(Append(s, e)) = Head(s)
<1>1. Len(s) \in Nat /\ DOMAIN s = 1 .. Len(s)
  OBVIOUS
<1>2. /\ Append(s, e) \in Seq(S)
      /\ DOMAIN Append(s, e) = 1 .. Len(s) + 1
      /\ \A j \in DOMAIN s : Append(s, e)[j] = s[j]
      /\ Append(s, e)[Len(s) + 1] = e
  BY <1>1
<1>3. Append(s, e) # <<>>
  BY <1>1, <1>2
<1>4. ASSUME s # <<>>
      PROVE  Head(Append(s, e)) = Head(s)
  BY <1>1, <1>2, <1>4
<1>5. 1 .. Len(s) + 1 = 1 .. Len(s) \union {Len(s) + 1} /\ Len(s) + 1 \notin 1 .. Len(s)
  BY <1>1
<1> QED
  BY <1>1, <1>2, <1>3, <1>4, <1>5

LEMMA Tailed ==
  ASSUME NEW S, NEW s \in Seq(S), s # <<>>
  PROVE  /\ Tail(s) \in Seq(S)
         /\ \A j \in DOMAIN Tail(s) : j + 1 \in DOMAIN s /\ Tail(s)[j] = s[j + 1]
OBVIOUS

LEMMA Headed ==
  ASSUME NEW S, NEW s \in Seq(S), s # <<>>
  PROVE  /\ 1 \in DOMAIN s
         /\ Head(s) = s[1]
         /\ Head(s) \in S
OBVIOUS

LEMMA Elements ==
  ASSUME NEW S, NEW s \in Seq(S)
  PROVE  /\ DOMAIN s = 1 .. Len(s)
         /\ Len(s) \in Nat
         /\ \A j \in DOMAIN s : s[j] \in S
OBVIOUS

LEMMA Wider ==
  ASSUME NEW S, NEW T, S \subseteq T, NEW s \in Seq(S)
  PROVE  s \in Seq(T)
OBVIOUS

---------------------------------------------------------------------------
(* Which steps change what *)

RequestSteps(r) ==
  \/ \E u, v \in Users, x \in Amounts : InternalRequest(r, u, v, x)
  \/ \E u \in Users, x \in Amounts, a \in Shown \union {Elsewhere} : ExternalRequest(r, u, a, x)
  \/ Proceed(r) \/ StopRequest(r)

LEMMA DirectSteps ==
  ASSUME [Next]_vars
  PROVE  \/ direct' = direct
         \/ \E r \in Threads : ExternalSave(r)
         \/ ReceivedUpdate \/ ReceivedConfirm \/ ReceivedAdd \/ SentSave
BY DEF Next, vars, tables, outside, Visit, Request, Proceed, Consume, InternalRequest, InternalSave,
   ExternalRequest, SendCoin, AskAddress, StopRequest, ResponseClear, ResponseSave, ReceivedWallet,
   ReceivedFind, ReceivedAsk, SentFind, Acknowledge, StopConsumer, Allocate, Broadcast, Deposit,
   Confirm

LEMMA ChainSteps ==
  ASSUME [Next]_vars
  PROVE  \/ chain' = chain
         \/ Broadcast
         \/ \E a \in Shown, x \in Amounts : Deposit(a, x)
         \/ \E i \in DOMAIN chain : Confirm(i)
BY DEF Next, vars, tables, outside, Visit, Request, Proceed, Consume, InternalRequest, InternalSave,
   ExternalRequest, ExternalSave, SendCoin, AskAddress, StopRequest, ResponseClear, ResponseSave,
   ReceivedWallet, ReceivedFind, ReceivedUpdate, ReceivedConfirm, ReceivedAdd, ReceivedAsk, SentFind,
   SentSave, Acknowledge, StopConsumer, Allocate

LEMMA GivenSteps ==
  ASSUME [Next]_vars
  PROVE  given' = given \/ Allocate
BY DEF Next, vars, tables, outside, Visit, Request, Proceed, Consume, InternalRequest, InternalSave,
   ExternalRequest, ExternalSave, SendCoin, AskAddress, StopRequest, ResponseClear, ResponseSave,
   ReceivedWallet, ReceivedFind, ReceivedUpdate, ReceivedConfirm, ReceivedAdd, ReceivedAsk, SentFind,
   SentSave, Acknowledge, StopConsumer, Broadcast, Deposit, Confirm

LEMMA WalletSteps ==
  ASSUME [Next]_vars
  PROVE  wallets' = wallets \/ ResponseClear \/ ResponseSave
BY DEF Next, vars, tables, outside, Visit, Request, Proceed, Consume, InternalRequest, InternalSave,
   ExternalRequest, ExternalSave, SendCoin, AskAddress, StopRequest,
   ReceivedWallet, ReceivedFind, ReceivedUpdate, ReceivedConfirm, ReceivedAdd, ReceivedAsk, SentFind,
   SentSave, Acknowledge, StopConsumer, Allocate, Broadcast, Deposit, Confirm

LEMMA TransferSteps ==
  ASSUME [Next]_vars
  PROVE  transfers' = transfers \/ \E r \in Threads : InternalSave(r)
BY DEF Next, vars, tables, outside, Visit, Request, Proceed, Consume, InternalRequest,
   ExternalRequest, ExternalSave, SendCoin, AskAddress, StopRequest, ResponseClear, ResponseSave,
   ReceivedWallet, ReceivedFind, ReceivedUpdate, ReceivedConfirm, ReceivedAdd, ReceivedAsk, SentFind,
   SentSave, Acknowledge, StopConsumer, Allocate, Broadcast, Deposit, Confirm

LEMMA StopSteps ==
  ASSUME [Next]_vars
  PROVE  stops' = stops \/ (stops < MaxStops /\ stops' = stops + 1)
BY DEF Next, vars, tables, outside, Visit, Request, Proceed, Consume, InternalRequest, InternalSave,
   ExternalRequest, ExternalSave, SendCoin, AskAddress, StopRequest, ResponseClear, ResponseSave,
   ReceivedWallet, ReceivedFind, ReceivedUpdate, ReceivedConfirm, ReceivedAdd, ReceivedAsk, SentFind,
   SentSave, Acknowledge, StopConsumer, Allocate, Broadcast, Deposit, Confirm

LEMMA ReqSteps ==
  ASSUME [Next]_vars
  PROVE  req' = req \/ \E r \in Threads : RequestSteps(r)
BY DEF RequestSteps, Next, vars, tables, outside, Visit, Request, Consume, ResponseClear, ResponseSave,
   ReceivedWallet, ReceivedFind, ReceivedUpdate, ReceivedConfirm, ReceivedAdd, ReceivedAsk, SentFind,
   SentSave, Acknowledge, StopConsumer, Allocate, Broadcast, Deposit, Confirm

\* What happens to the work and the messages of a consumer.
LEMMA ResponseSteps ==
  ASSUME [Next]_vars, TypeOK
  PROVE  \/ UNCHANGED <<consumer["wallet_response"], queue["wallet_response"]>>
         \/ ResponseClear \/ ResponseSave
         \/ Acknowledge("wallet_response") \/ StopConsumer("wallet_response")
         \/ Allocate
BY DEF TypeOK, In, Out, Continue, Send, Take, Next, vars, tables, outside, Visit, Request, Proceed, Consume,
   InternalRequest, InternalSave, ExternalRequest, ExternalSave, SendCoin, AskAddress, StopRequest,
   ReceivedWallet, ReceivedFind, ReceivedUpdate, ReceivedConfirm, ReceivedAdd, ReceivedAsk, SentFind,
   SentSave, Acknowledge, StopConsumer, Broadcast, Deposit, Confirm

LEMMA ReceivedSteps ==
  ASSUME [Next]_vars, TypeOK
  PROVE  \/ UNCHANGED <<consumer["coin_received"], queue["coin_received"]>>
         \/ ReceivedWallet \/ ReceivedFind \/ ReceivedUpdate
         \/ ReceivedConfirm \/ ReceivedAdd \/ ReceivedAsk
         \/ Acknowledge("coin_received") \/ StopConsumer("coin_received")
         \/ \E a \in Shown, x \in Amounts : Deposit(a, x)
         \/ \E i \in DOMAIN chain : Confirm(i)
BY DEF TypeOK, In, Out, Continue, Send, Take, Next, vars, tables, outside, Visit, Request, Proceed, Consume,
   InternalRequest, InternalSave, ExternalRequest, ExternalSave, SendCoin, AskAddress, StopRequest,
   ResponseClear, ResponseSave, SentFind, SentSave, Acknowledge, StopConsumer, Allocate, Broadcast

LEMMA SentSteps ==
  ASSUME [Next]_vars, TypeOK
  PROVE  \/ UNCHANGED <<consumer["wallet_sent_coin"], queue["wallet_sent_coin"]>>
         \/ SentFind \/ SentSave
         \/ Acknowledge("wallet_sent_coin") \/ StopConsumer("wallet_sent_coin")
         \/ Broadcast
BY DEF TypeOK, In, Out, Continue, Send, Take, Next, vars, tables, outside, Visit, Request, Proceed, Consume,
   InternalRequest, InternalSave, ExternalRequest, ExternalSave, SendCoin, AskAddress, StopRequest,
   ReceivedWallet, ReceivedFind, ReceivedUpdate, ReceivedConfirm, ReceivedAdd, ReceivedAsk,
   ResponseClear, ResponseSave, Acknowledge, StopConsumer, Allocate, Deposit, Confirm

LEMMA AskSteps ==
  ASSUME [Next]_vars, TypeOK
  PROVE  \/ UNCHANGED queue["wallet"]
         \/ \E u \in Users : Visit(u)
         \/ \E r \in Threads : AskAddress(r)
         \/ ReceivedAsk \/ Allocate
BY DEF TypeOK, In, Out, Continue, Send, Take, Next, vars, tables, outside, Request, Proceed, Consume,
   InternalRequest, InternalSave, ExternalRequest, ExternalSave, SendCoin, StopRequest,
   ReceivedWallet, ReceivedFind, ReceivedUpdate, ReceivedConfirm, ReceivedAdd, SentFind, SentSave,
   ResponseClear, ResponseSave, Acknowledge, StopConsumer, Broadcast, Deposit, Confirm

LEMMA OrderSteps ==
  ASSUME [Next]_vars, TypeOK
  PROVE  \/ UNCHANGED queue["wallet_send_coin"]
         \/ \E r \in Threads : SendCoin(r)
         \/ Broadcast
BY DEF TypeOK, In, Out, Continue, Send, Take, Next, vars, tables, outside, Visit, Request, Proceed, Consume,
   InternalRequest, InternalSave, ExternalRequest, ExternalSave, AskAddress, StopRequest,
   ReceivedWallet, ReceivedFind, ReceivedUpdate, ReceivedConfirm, ReceivedAdd, ReceivedAsk, SentFind,
   SentSave, ResponseClear, ResponseSave, Acknowledge, StopConsumer, Allocate, Deposit, Confirm

---------------------------------------------------------------------------
(* What the messages say *)

LEMMA Types ==
  ASSUME Inv
  PROVE  /\ direct \in Seq(DirectRow) /\ Len(direct) \in Nat /\ Rows = 1 .. Len(direct)
         /\ chain \in Seq(TxRow) /\ Len(chain) \in Nat /\ DOMAIN chain = 1 .. Len(chain)
         /\ given \in Seq(Users) /\ Len(given) \in Nat /\ DOMAIN given = 1 .. Len(given)
         /\ wallets \in Seq([user : Users, address : DOMAIN given, current : BOOLEAN])
         /\ TypeOK
<1>1. direct \in Seq(DirectRow)
  <2>1. \A x \in [user : Users, amount : Amounts, outgoing : BOOLEAN,
                  txid : 0 .. Len(chain), confirmations : 0 .. MaxConfirmations] : x \in DirectRow
    BY DEF DirectRow
  <2>2. direct \in Seq([user : Users, amount : Amounts, outgoing : BOOLEAN,
                        txid : 0 .. Len(chain), confirmations : 0 .. MaxConfirmations])
    BY DEF Inv, TypeOK
  <2> QED
    BY <2>1, <2>2, Wider
<1>2. chain \in Seq(TxRow)
  BY DEF Inv, WalletInv, ChainInv
<1>3. given \in Seq(Users) /\ TypeOK
  BY DEF Inv, TypeOK
<1> QED
  BY <1>1, <1>2, <1>3 DEF Rows, TypeOK

LEMMA ReceivedMsg ==
  ASSUME Inv, queue["coin_received"] # <<>>
  PROVE  LET m == Msg("coin_received") IN
         /\ m \in Received
         /\ OnChain(m.txid)
         /\ chain[m.txid].address = m.address
         /\ chain[m.txid].amount = m.amount
         /\ m.outgoing = (m.address = Elsewhere)
BY Headed DEF Inv, WalletInv, QueueInv, Msg

LEMMA SentMsg ==
  ASSUME Inv, queue["wallet_sent_coin"] # <<>>
  PROVE  LET m == Msg("wallet_sent_coin") IN
         /\ m \in Sent
         /\ OnChain(m.txid)
         /\ chain[m.txid].row = m.row /\ m.row # 0
         /\ chain[m.txid].amount = m.amount
BY Headed DEF Inv, WalletInv, QueueInv, Msg

LEMMA ResponseMsg ==
  ASSUME Inv, queue["wallet_response"] # <<>>
  PROVE  LET m == Msg("wallet_response") IN m \in Answer /\ Owned(m.user, m.address)
BY Headed DEF Inv, WalletInv, QueueInv, Msg, Owned

\* What the consumers are at.
LEMMA FindingAt ==
  ASSUME Inv
  PROVE  LET c == consumer["coin_received"]
             m == Msg("coin_received") IN
         /\ ~Busy("coin_received", "idle") => queue["coin_received"] # <<>>
         /\ Busy("coin_received", "find") =>
              c.user \in Users \union {NoUser} /\ (c.user = NoUser \/ Owned(c.user, m.address))
         /\ Busy("coin_received", "add") =>
              /\ c.user \in Users
              /\ Owned(c.user, m.address)
              /\ \A i \in Rows : ~direct[i].outgoing => direct[i].txid # m.txid
         /\ Busy("coin_received", "ask") => c.user \in Users
         /\ Busy("coin_received", "update") =>
              CopyOf(c.copy, c.row) /\ c.copy.txid = m.txid /\ direct[c.row].txid = m.txid
BY DEF Inv, WalletInv, Finding, Busy, Idle

LEMMA SavingAt ==
  ASSUME Inv
  PROVE  /\ ~Busy("wallet_sent_coin", "idle") => queue["wallet_sent_coin"] # <<>>
         /\ Busy("wallet_sent_coin", "save") =>
              CopyOf(consumer["wallet_sent_coin"].copy, Msg("wallet_sent_coin").row)
BY DEF Inv, WalletInv, Saving, Busy, Idle

LEMMA RequestAt ==
  ASSUME Inv, NEW r \in Threads
  PROVE  /\ At(r, "internalSave") =>
              req[r] \in [pc : {"internalSave"}, seller : Users, buyer : Users, amount : Amounts]
         /\ At(r, "externalSave") \/ At(r, "sendCoin") \/ At(r, "askAddress") =>
              /\ req[r] \in [pc : {"externalSave", "sendCoin", "askAddress"}, user : Users,
                             address : Nat, amount : Amounts, row : Nat]
              /\ req[r].address \in DOMAIN given \union {Elsewhere}
BY DEF Inv, WalletInv, RequestInv, At, Idle

---------------------------------------------------------------------------
(* What a step leaves of the tables, the addresses and the chain *)

LEMMA GivenKept ==
  ASSUME Inv, [Next]_vars
  PROVE  /\ given' \in Seq(Users)
         /\ \A a \in DOMAIN given : a \in DOMAIN given' /\ given'[a] = given[a]
<1>1. CASE given' = given
  BY <1>1, Types
<1>2. CASE Allocate
  <2>1. Head(queue["wallet"]) \in Users
    BY <1>2, Headed DEF Allocate, Inv, WalletInv, QueueInv
  <2> QED
    BY <1>2, <2>1, Types, Appended DEF Allocate
<1> QED
  BY <1>1, <1>2, GivenSteps

LEMMA ChainKept ==
  ASSUME Inv, [Next]_vars
  PROVE  /\ chain' \in Seq(TxRow)
         /\ \A i \in DOMAIN chain :
              /\ i \in DOMAIN chain'
              /\ chain'[i].address = chain[i].address
              /\ chain'[i].amount = chain[i].amount
              /\ chain'[i].row = chain[i].row
<1> USE Types
<1>1. CASE chain' = chain
  BY <1>1
<1>2. CASE Broadcast
  <2> DEFINE msg == Head(queue["wallet_send_coin"])
  <2>1. msg \in Order
    BY <1>2, Headed DEF Broadcast, Inv, WalletInv, QueueInv
  <2>2. Tx(msg.address, msg.amount, msg.row) \in TxRow
    BY <2>1, WalletAssumption DEF Tx, TxRow, Order
  <2> QED
    BY <1>2, <2>2, Appended DEF Broadcast
<1>3. ASSUME NEW a \in Shown, NEW x \in Amounts, Deposit(a, x)
      PROVE  /\ chain' \in Seq(TxRow)
             /\ \A i \in DOMAIN chain : i \in DOMAIN chain' /\ chain'[i] = chain[i]
  <2>1. a \in Nat
    <3> DEFINE W == [user : Users, address : DOMAIN given, current : BOOLEAN]
    <3>1. \A i \in DOMAIN wallets : wallets[i] \in W
      <4>1. wallets \in Seq(W)
        OBVIOUS
      <4> HIDE DEF W
      <4> QED
        BY ONLY <4>1, Elements
    <3>2. \A i \in DOMAIN wallets : wallets[i].address \in DOMAIN given
      BY <3>1
    <3> QED
      BY <3>2 DEF Shown
  <2>2. Tx(a, x, 0) \in TxRow
    BY <2>1, WalletAssumption DEF Tx, TxRow
  <2>3. chain' = Append(chain, Tx(a, x, 0))
    BY <1>3 DEF Deposit
  <2> QED
    BY <2>2, <2>3, Appended
<1>4. ASSUME NEW k \in DOMAIN chain, Confirm(k)
      PROVE  /\ chain' \in Seq(TxRow)
             /\ \A i \in DOMAIN chain :
                  /\ i \in DOMAIN chain'
                  /\ chain'[i].address = chain[i].address
                  /\ chain'[i].amount = chain[i].amount
                  /\ chain'[i].row = chain[i].row
  <2>1. chain[k] \in TxRow /\ chain[k].confirmations + 1 \in 0 .. MaxConfirmations
    <3>1. chain[k] \in TxRow /\ chain[k].confirmations < MaxConfirmations
      BY <1>4, Elements DEF Confirm
    <3>2. MaxConfirmations \in Nat /\ chain[k].confirmations \in 0 .. MaxConfirmations
      BY <3>1, WalletAssumption DEF TxRow
    <3> QED
      BY <3>1, <3>2
  <2>2. [chain[k] EXCEPT !.confirmations = @ + 1] \in TxRow
    BY <2>1 DEF TxRow
  <2>3. chain' = [chain EXCEPT ![k] = [chain[k] EXCEPT !.confirmations = @ + 1]]
    BY <1>4 DEF Confirm
  <2>4. chain' \in Seq(TxRow) /\ DOMAIN chain' = DOMAIN chain
    BY <2>2, <2>3
  <2>5. ASSUME NEW i \in DOMAIN chain
        PROVE  /\ chain'[i].address = chain[i].address
               /\ chain'[i].amount = chain[i].amount
               /\ chain'[i].row = chain[i].row
    <3>1. CASE i = k
      BY <2>1, <2>3, <3>1 DEF TxRow
    <3>2. CASE i # k
      BY <2>3, <3>2
    <3> QED
      BY <3>1, <3>2
  <2> QED
    BY <2>4, <2>5
<1> QED
  BY <1>1, <1>2, <1>3, <1>4, ChainSteps

\* User, amount and direction of a row stay; the id of its transaction is set once, and
\* for what was sent only.
KeptRow(i) ==
  /\ i \in DOMAIN direct'
  /\ direct'[i].user = direct[i].user
  /\ direct'[i].amount = direct[i].amount
  /\ direct'[i].outgoing = direct[i].outgoing
  /\ \/ direct'[i].txid = direct[i].txid
     \/ /\ direct[i].outgoing
        /\ direct'[i].txid \in DOMAIN chain
        /\ chain[direct'[i].txid].row = i

LEMMA RowType ==
  ASSUME Inv, NEW i \in Rows
  PROVE  direct[i] \in DirectRow
<1>1. direct \in Seq(DirectRow)
  BY Types
<1> QED
  BY <1>1, Elements DEF Rows

\* A step that writes one row, or the confirmations of several.
LEMMA OneRow ==
  ASSUME Inv, NEW k \in Rows, NEW row \in DirectRow, direct' = [direct EXCEPT ![k] = row],
         row.user = direct[k].user, row.amount = direct[k].amount,
         row.outgoing = direct[k].outgoing,
         \/ row.txid = direct[k].txid
         \/ direct[k].outgoing /\ row.txid \in DOMAIN chain /\ chain[row.txid].row = k
  PROVE  direct' \in Seq(DirectRow) /\ DOMAIN direct' = Rows /\ \A i \in Rows : KeptRow(i)
<1>1. direct \in Seq(DirectRow) /\ Rows = 1 .. Len(direct)
  BY Types
<1>2. direct' \in Seq(DirectRow) /\ DOMAIN direct' = Rows
  BY <1>1 DEF Rows
<1>3. ASSUME NEW i \in Rows
      PROVE  KeptRow(i)
  BY <1>2 DEF KeptRow, Rows
<1> QED
  BY <1>2, <1>3

LEMMA NewRow ==
  ASSUME Inv, NEW row \in DirectRow, direct' = Append(direct, row)
  PROVE  /\ direct' \in Seq(DirectRow)
         /\ DOMAIN direct' = Rows \union {Len(direct) + 1}
         /\ Len(direct) + 1 \in Nat \ Rows
         /\ direct'[Len(direct) + 1] = row
         /\ \A i \in Rows : direct'[i] = direct[i]
         /\ \A i \in Rows : KeptRow(i)
<1>1. direct \in Seq(DirectRow) /\ Len(direct) \in Nat
  BY Types
<1>2. /\ direct' \in Seq(DirectRow)
      /\ DOMAIN direct' = Rows \union {Len(direct) + 1}
      /\ Len(direct) + 1 \in Nat \ Rows
      /\ direct'[Len(direct) + 1] = row
      /\ \A i \in Rows : direct'[i] = direct[i]
  BY <1>1, Appended DEF Rows
<1> QED
  BY <1>2 DEF KeptRow

\* What each of these steps writes.
LEMMA ExternalSaveRow ==
  ASSUME Inv, NEW r \in Threads, ExternalSave(r)
  PROVE  \E row \in DirectRow : /\ direct' = Append(direct, row)
                                /\ row.outgoing /\ row.txid = NoTx
                                /\ row.amount = req[r].amount
<1> DEFINE row == [user |-> req[r].user, amount |-> req[r].amount, outgoing |-> TRUE,
                   txid |-> NoTx, confirmations |-> 0]
<1>1. req[r].user \in Users /\ req[r].amount \in Amounts
  BY RequestAt DEF ExternalSave
<1>2. row \in DirectRow
  BY <1>1, WalletAssumption DEF DirectRow, NoTx
<1> QED
  BY <1>2 DEF ExternalSave

LEMMA ReceivedAddRow ==
  ASSUME Inv, ReceivedAdd
  PROVE  \E row \in DirectRow :
           LET m == Msg("coin_received") IN
           /\ direct' = Append(direct, row)
           /\ ~row.outgoing
           /\ row.txid = m.txid /\ OnChain(m.txid)
           /\ Known(chain[m.txid].address)
           /\ row.amount = chain[m.txid].amount
           /\ row.user = given[chain[m.txid].address]
           /\ \A i \in Rows : ~direct[i].outgoing => direct[i].txid # m.txid
<1> DEFINE m == Msg("coin_received")
           u == consumer["coin_received"].user
           row == [user |-> u, amount |-> m.amount, outgoing |-> m.outgoing,
                   txid |-> m.txid, confirmations |-> m.confirmations]
<1>1. Busy("coin_received", "add") /\ direct' = Append(direct, row)
  BY DEF ReceivedAdd
<1>2. /\ queue["coin_received"] # <<>>
      /\ u \in Users
      /\ Owned(u, m.address)
      /\ \A i \in Rows : ~direct[i].outgoing => direct[i].txid # m.txid
  BY <1>1, FindingAt DEF Busy
<1>3. /\ m \in Received
      /\ OnChain(m.txid)
      /\ chain[m.txid].address = m.address
      /\ chain[m.txid].amount = m.amount
      /\ m.outgoing = (m.address = Elsewhere)
  BY <1>2, ReceivedMsg
<1>4. ~m.outgoing
  <2>1. m.address \in DOMAIN given
    BY <1>2 DEF Owned, Known
  <2>2. m.address # Elsewhere
    BY <2>1, Types DEF Elsewhere
  <2> QED
    BY <1>3, <2>2
<1>5. row \in DirectRow
  BY <1>2, <1>3 DEF Received, DirectRow
<1> QED
  BY <1>1, <1>2, <1>3, <1>4, <1>5 DEF Owned

LEMMA DirectKept ==
  ASSUME Inv, [Next]_vars
  PROVE  /\ direct' \in Seq(DirectRow)
         /\ \A i \in Rows : KeptRow(i)
<1>1. CASE direct' = direct
  BY <1>1, Types DEF KeptRow, Rows
<1>2. ASSUME NEW r \in Threads, ExternalSave(r)
      PROVE  direct' \in Seq(DirectRow) /\ \A i \in Rows : KeptRow(i)
  BY <1>2, ExternalSaveRow, NewRow
<1>3. CASE ReceivedUpdate
  <2> DEFINE c == consumer["coin_received"]
             m == Msg("coin_received")
             row == [c.copy EXCEPT !.confirmations = m.confirmations]
  <2>1. Busy("coin_received", "update") /\ direct' = [direct EXCEPT ![c.row] = row]
    BY <1>3 DEF ReceivedUpdate
  <2>2. CopyOf(c.copy, c.row) /\ c.copy.txid = m.txid /\ direct[c.row].txid = m.txid
    BY <2>1, FindingAt
  <2>3. m.confirmations \in 0 .. MaxConfirmations
    BY <2>1, FindingAt, ReceivedMsg DEF Busy, Received
  <2>4. row \in DirectRow /\ row.user = direct[c.row].user /\ row.amount = direct[c.row].amount
        /\ row.outgoing = direct[c.row].outgoing /\ row.txid = direct[c.row].txid
    BY <2>2, <2>3 DEF CopyOf, DirectRow
  <2> QED
    BY <2>1, <2>2, <2>4, OneRow DEF CopyOf
<1>4. CASE ReceivedConfirm
  <2> DEFINE m == Msg("coin_received")
             row(i) == IF direct[i].txid = m.txid
                         THEN [direct[i] EXCEPT !.confirmations = m.confirmations]
                         ELSE direct[i]
  <2>1. Busy("coin_received", "confirm") /\ direct' = [i \in Rows |-> row(i)]
    BY <1>4 DEF ReceivedConfirm, Rows
  <2>2. m.confirmations \in 0 .. MaxConfirmations
    BY <2>1, FindingAt, ReceivedMsg DEF Busy, Received
  <2>3. ASSUME NEW i \in Rows
        PROVE  /\ row(i) \in DirectRow
               /\ row(i).user = direct[i].user /\ row(i).amount = direct[i].amount
               /\ row(i).outgoing = direct[i].outgoing /\ row(i).txid = direct[i].txid
    BY <2>2, RowType DEF DirectRow
  <2> HIDE DEF row
  <2>4. direct' \in Seq(DirectRow)
    <3>1. direct' \in [1 .. Len(direct) -> DirectRow] /\ Len(direct) \in Nat
      BY <2>1, <2>3, Types
    <3> QED
      BY <3>1
  <2> QED
    BY <2>1, <2>3, <2>4 DEF KeptRow
<1>5. CASE ReceivedAdd
  <2>1. \E row \in DirectRow : direct' = Append(direct, row)
    BY <1>5, ReceivedAddRow
  <2>2. ASSUME NEW row \in DirectRow, direct' = Append(direct, row)
        PROVE  direct' \in Seq(DirectRow) /\ \A i \in Rows : KeptRow(i)
    BY <2>2, NewRow
  <2> QED
    BY <2>1, <2>2
<1>6. CASE SentSave
  <2> DEFINE c == consumer["wallet_sent_coin"]
             m == Msg("wallet_sent_coin")
             row == [c.copy EXCEPT !.amount = m.amount, !.txid = m.txid,
                                   !.confirmations = m.confirmations]
  <2>1. Busy("wallet_sent_coin", "save") /\ direct' = [direct EXCEPT ![m.row] = row]
    BY <1>6 DEF SentSave
  <2>2. CopyOf(c.copy, m.row) /\ queue["wallet_sent_coin"] # <<>>
    BY <2>1, SavingAt DEF Busy
  <2>3. /\ m \in Sent
        /\ OnChain(m.txid)
        /\ chain[m.txid].row = m.row /\ m.row # 0
        /\ chain[m.txid].amount = m.amount
    BY <2>2, SentMsg
  <2>4. direct[m.row].outgoing /\ direct[m.row].amount = m.amount
    BY <2>3 DEF Inv, SentForARow, OnChain
  <2>5. row \in DirectRow /\ row.user = direct[m.row].user /\ row.amount = direct[m.row].amount
        /\ row.outgoing = direct[m.row].outgoing /\ row.txid = m.txid
    BY <2>2, <2>3, <2>4 DEF CopyOf, DirectRow, Sent
  <2> QED
    BY <2>1, <2>2, <2>3, <2>4, <2>5, OneRow DEF CopyOf, OnChain
<1> QED
  BY <1>1, <1>2, <1>3, <1>4, <1>5, <1>6, DirectSteps

---------------------------------------------------------------------------
(* The rows *)

\* A row that is new was saved by a request or added by the consumer of notices.
LEMMA RowsAdded ==
  ASSUME Inv, [Next]_vars, NEW i \in DOMAIN direct', i \notin Rows
  PROVE  ReceivedAdd \/ \E r \in Threads : ExternalSave(r)
<1>1. CASE direct' = direct
  BY <1>1 DEF Rows
<1>2. CASE ReceivedUpdate
  BY <1>2 DEF ReceivedUpdate, Rows
<1>3. CASE ReceivedConfirm
  BY <1>3 DEF ReceivedConfirm, Rows
<1>4. CASE SentSave
  BY <1>4 DEF SentSave, Rows
<1> QED
  BY <1>1, <1>2, <1>3, <1>4, DirectSteps

LEMMA RowStep ==
  ASSUME Inv, [Next]_vars
  PROVE  RowInv'
<1> SUFFICES ASSUME NEW i \in DOMAIN direct'
             PROVE  /\ direct'[i].txid # NoTx => direct'[i].txid \in DOMAIN chain'
                    /\ direct'[i].outgoing =>
                         direct'[i].txid = NoTx \/ chain'[direct'[i].txid].row = i
                    /\ ~direct'[i].outgoing =>
                         /\ direct'[i].txid \in DOMAIN chain'
                         /\ chain'[direct'[i].txid].address \in DOMAIN given'
  BY DEF RowInv, OnChain, Known, Rows
<1>0. /\ \A k \in DOMAIN chain : /\ k \in DOMAIN chain'
                                 /\ chain'[k].address = chain[k].address
                                 /\ chain'[k].row = chain[k].row
      /\ \A a \in DOMAIN given : a \in DOMAIN given'
  BY ChainKept, GivenKept
<1>1. CASE i \in Rows
  <2>1. /\ direct[i].txid # NoTx => direct[i].txid \in DOMAIN chain
        /\ direct[i].outgoing => direct[i].txid = NoTx \/ chain[direct[i].txid].row = i
        /\ ~direct[i].outgoing => /\ direct[i].txid \in DOMAIN chain
                                  /\ chain[direct[i].txid].address \in DOMAIN given
    BY <1>1 DEF Inv, WalletInv, RowInv, OnChain, Known
  <2>2. KeptRow(i)
    BY <1>1, DirectKept
  <2> QED
    BY <1>0, <2>1, <2>2 DEF KeptRow
<1>2. ASSUME NEW r \in Threads, ExternalSave(r), i \notin Rows
      PROVE  direct'[i].outgoing /\ direct'[i].txid = NoTx
  BY <1>2, ExternalSaveRow, NewRow
<1>3. ASSUME ReceivedAdd, i \notin Rows
      PROVE  /\ ~direct'[i].outgoing
             /\ direct'[i].txid \in DOMAIN chain
             /\ chain[direct'[i].txid].address \in DOMAIN given
  <2>1. ASSUME NEW row \in DirectRow, direct' = Append(direct, row)
        PROVE  direct'[i] = row
    BY <1>3, <2>1, NewRow
  <2> QED
    BY <1>3, <2>1, ReceivedAddRow DEF OnChain, Known
<1>4. i \in Rows \/ ReceivedAdd \/ \E r \in Threads : ExternalSave(r)
  BY RowsAdded
<1>5. NoTx \notin DOMAIN chain
  BY Types DEF NoTx
<1> QED
  BY <1>0, <1>1, <1>2, <1>3, <1>4, <1>5

LEMMA CreditedStep ==
  ASSUME Inv, [Next]_vars
  PROVE  CreditedOnce'
<1> DEFINE In0(i) == i \in DOMAIN direct' /\ ~direct'[i].outgoing
<1> SUFFICES ASSUME NEW i, In0(i)
             PROVE  /\ direct'[i].amount = chain'[direct'[i].txid].amount
                    /\ direct'[i].user = given'[chain'[direct'[i].txid].address]
                    /\ \A j : In0(j) /\ direct'[j].txid = direct'[i].txid => j = i
  BY DEF CreditedOnce, Rows
<1>0. /\ \A k \in DOMAIN chain : /\ chain'[k].address = chain[k].address
                                 /\ chain'[k].amount = chain[k].amount
      /\ \A a \in DOMAIN given : given'[a] = given[a]
  BY ChainKept, GivenKept
\* An old row keeps what it has.
<1>1. ASSUME NEW j \in Rows, In0(j)
      PROVE  /\ ~direct[j].outgoing
             /\ direct'[j].txid = direct[j].txid
             /\ direct[j].txid \in DOMAIN chain
             /\ direct'[j].amount = chain[direct[j].txid].amount
             /\ direct'[j].user = given[chain[direct[j].txid].address]
             /\ chain[direct[j].txid].address \in DOMAIN given
  <2>1. KeptRow(j)
    BY DirectKept
  <2> QED
    BY <1>1, <2>1 DEF KeptRow, Inv, CreditedOnce, WalletInv, RowInv, OnChain, Known
<1>2. ASSUME NEW j, In0(j), j \notin Rows
      PROVE  /\ j = Len(direct) + 1
             /\ direct'[j].txid \in DOMAIN chain
             /\ direct'[j].amount = chain[direct'[j].txid].amount
             /\ direct'[j].user = given[chain[direct'[j].txid].address]
             /\ chain[direct'[j].txid].address \in DOMAIN given
             /\ \A k \in Rows : ~direct[k].outgoing => direct[k].txid # direct'[j].txid
  <2>1. ASSUME NEW r \in Threads, ExternalSave(r)
        PROVE  FALSE
    BY <1>2, <2>1, ExternalSaveRow, NewRow
  <2>2. ReceivedAdd
    BY <1>2, <2>1, RowsAdded
  <2>3. ASSUME NEW row \in DirectRow, direct' = Append(direct, row)
        PROVE  direct'[j] = row /\ j = Len(direct) + 1
    BY <1>2, <2>3, NewRow
  <2> QED
    BY <2>2, <2>3, ReceivedAddRow DEF OnChain, Known
<1>3. \A j, k \in Rows : ~direct[j].outgoing /\ ~direct[k].outgoing /\ direct[j].txid = direct[k].txid => j = k
  BY DEF Inv, CreditedOnce
<1>4. CASE i \in Rows
  BY <1>0, <1>1, <1>2, <1>3, <1>4
<1>5. CASE i \notin Rows
  BY <1>0, <1>1, <1>2, <1>5
<1> QED
  BY <1>4, <1>5

\* A row that waits goes on waiting, until its order is broadcast.
LEMMA WaitsKept ==
  ASSUME Inv, [Next]_vars, NEW STATE k, NEW STATE x, Waits(k, x),
         ~(Broadcast /\ Head(queue["wallet_send_coin"]).row = k)
  PROVE  /\ k \in DOMAIN direct'
         /\ direct'[k].outgoing
         /\ direct'[k].amount = x
         /\ direct'[k].txid = NoTx
         /\ \A i \in DOMAIN chain' : chain'[i].row # k
<1>1. KeptRow(k) /\ k \in Rows
  BY DirectKept DEF Waits
<1>2. k \in DOMAIN direct' /\ direct'[k].outgoing /\ direct'[k].amount = x /\ direct'[k].txid = NoTx
  BY <1>1 DEF KeptRow, Waits
<1>3. k # 0
  BY <1>1, Types
<1>4. ASSUME NEW i \in DOMAIN chain'
      PROVE  chain'[i].row # k
  <2>0. \A j \in DOMAIN chain : chain'[j].row = chain[j].row /\ chain[j].row # k
    BY ChainKept DEF Waits
  <2>1. CASE i \in DOMAIN chain
    BY <2>0, <2>1
  <2>2. ASSUME NEW t, chain' = Append(chain, t), i \notin DOMAIN chain
        PROVE  chain'[i] = t
    BY <2>2, Types
  <2>3. CASE chain' = chain
    BY <2>1, <2>3
  <2>4. CASE Broadcast
    <3>1. Head(queue["wallet_send_coin"]).row # k
      BY <2>4
    <3> QED
      BY <2>1, <2>2, <2>4, <3>1 DEF Broadcast, Tx
  <2>5. ASSUME NEW a \in Shown, NEW y \in Amounts, Deposit(a, y)
        PROVE  chain'[i].row # k
    BY <1>3, <2>1, <2>2, <2>5 DEF Deposit, Tx
  <2>6. ASSUME NEW j \in DOMAIN chain, Confirm(j)
        PROVE  chain'[i].row # k
    BY <2>1, <2>6 DEF Confirm
  <2> QED
    BY <2>3, <2>4, <2>5, <2>6, ChainSteps
<1> QED
  BY <1>2, <1>4

---------------------------------------------------------------------------
(* What was sent *)

\* An order is broadcast: the transaction is the first for its row.
LEMMA Broadcasts ==
  ASSUME Inv, [Next]_vars, NEW i \in DOMAIN chain', i \notin DOMAIN chain, chain'[i].row # 0
  PROVE  /\ Broadcast
         /\ queue["wallet_send_coin"] # <<>>
         /\ i = Len(chain) + 1
         /\ chain'[i].row = OrderAt(1).row
         /\ chain'[i].amount = OrderAt(1).amount
         /\ Waits(OrderAt(1).row, OrderAt(1).amount)
<1>1. ASSUME NEW t, chain' = Append(chain, t)
      PROVE  chain'[i] = t /\ i = Len(chain) + 1
  BY <1>1, Types
<1>2. Broadcast
  <2>1. ASSUME NEW a \in Shown, NEW y \in Amounts, Deposit(a, y)
        PROVE  FALSE
    BY <1>1, <2>1 DEF Deposit, Tx
  <2>2. ASSUME NEW j \in DOMAIN chain, Confirm(j)
        PROVE  FALSE
    BY <2>2 DEF Confirm
  <2> QED
    BY <2>1, <2>2, ChainSteps
<1>3. queue["wallet_send_coin"] \in Seq(Order) /\ queue["wallet_send_coin"] # <<>>
  BY <1>2 DEF Broadcast, Inv, WalletInv, QueueInv
<1>4. 1 \in Orders /\ Head(queue["wallet_send_coin"]) = OrderAt(1)
  BY <1>3, Headed DEF Orders, OrderAt
<1>5. Waits(OrderAt(1).row, OrderAt(1).amount)
  BY <1>4 DEF Inv, WalletInv, SendInv
<1>6. i = Len(chain) + 1 /\ chain'[i] = Tx(OrderAt(1).address, OrderAt(1).amount, OrderAt(1).row)
  BY <1>1, <1>2, <1>4 DEF Broadcast
<1> QED
  BY <1>2, <1>3, <1>5, <1>6 DEF Tx

LEMMA SentStep ==
  ASSUME Inv, [Next]_vars
  PROVE  SentForARow'
<1> SUFFICES ASSUME NEW i \in DOMAIN chain', chain'[i].row # 0
             PROVE  /\ chain'[i].row \in DOMAIN direct'
                    /\ direct'[chain'[i].row].outgoing
                    /\ direct'[chain'[i].row].amount = chain'[i].amount
                    /\ direct'[chain'[i].row].txid \in {NoTx, i}
                    /\ \A j \in DOMAIN chain' : chain'[j].row = chain'[i].row => j = i
  BY DEF SentForARow, Rows
<1>0. \A k \in DOMAIN chain : /\ chain'[k].amount = chain[k].amount
                              /\ chain'[k].row = chain[k].row
  BY ChainKept
<1>1. \A k \in Rows : KeptRow(k)
  BY DirectKept
<1>2. \A k \in DOMAIN chain :
        chain[k].row # 0 =>
          /\ chain[k].row \in Rows
          /\ direct[chain[k].row].outgoing
          /\ direct[chain[k].row].amount = chain[k].amount
          /\ direct[chain[k].row].txid \in {NoTx, k}
          /\ \A j \in DOMAIN chain : chain[j].row = chain[k].row => j = k
  BY DEF Inv, SentForARow
<1>3. \A k, x : Waits(k, x) => k \in Rows /\ direct[k].outgoing /\ direct[k].amount = x
                               /\ direct[k].txid = NoTx /\ \A j \in DOMAIN chain : chain[j].row # k
  BY DEF Waits
<1>4. \A j \in DOMAIN chain' :
        j \notin DOMAIN chain /\ chain'[j].row # 0 =>
          /\ j = Len(chain) + 1
          /\ chain'[j].row = OrderAt(1).row
          /\ chain'[j].amount = OrderAt(1).amount
          /\ Waits(OrderAt(1).row, OrderAt(1).amount)
  BY Broadcasts
<1>5. CASE i \in DOMAIN chain
  <2> DEFINE k == chain[i].row
  <2>1. /\ chain'[i].row = k /\ k # 0 /\ k \in Rows /\ chain'[i].amount = chain[i].amount
        /\ direct[k].outgoing /\ direct[k].amount = chain[i].amount /\ direct[k].txid \in {NoTx, i}
    BY <1>0, <1>2, <1>5
  <2>2. KeptRow(k)
    BY <1>1, <2>1
  <2>3. direct'[k].txid \in {NoTx, i}
    BY <1>2, <1>5, <2>1, <2>2 DEF KeptRow
  <2>4. ASSUME NEW j \in DOMAIN chain', chain'[j].row = k
        PROVE  j = i
    <3>1. CASE j \in DOMAIN chain
      BY <1>0, <1>2, <1>5, <2>1, <2>4, <3>1
    <3>2. CASE j \notin DOMAIN chain
      BY <1>3, <1>4, <1>5, <2>1, <2>4, <3>2
    <3> QED
      BY <3>1, <3>2
  <2> QED
    BY <2>1, <2>2, <2>3, <2>4 DEF KeptRow
<1>6. CASE i \notin DOMAIN chain
  <2> DEFINE k == OrderAt(1).row
  <2>1. /\ i = Len(chain) + 1 /\ chain'[i].row = k
        /\ chain'[i].amount = OrderAt(1).amount /\ Waits(k, OrderAt(1).amount)
    BY <1>4, <1>6
  <2>2. /\ k \in Rows /\ direct[k].outgoing /\ direct[k].amount = OrderAt(1).amount
        /\ direct[k].txid = NoTx /\ \A j \in DOMAIN chain : chain[j].row # k
    BY <1>3, <2>1
  <2>3. KeptRow(k)
    BY <1>1, <2>2
  <2>4. direct'[k].txid = NoTx
    BY <2>2, <2>3 DEF KeptRow
  <2>5. ASSUME NEW j \in DOMAIN chain', chain'[j].row = k
        PROVE  j = i
    BY <1>0, <1>4, <2>1, <2>2, <2>5
  <2> QED
    BY <2>1, <2>2, <2>3, <2>4, <2>5 DEF KeptRow
<1> QED
  BY <1>5, <1>6

\* Waits, in the next state.
WaitsNext(k, x) ==
  /\ k \in DOMAIN direct'
  /\ direct'[k].outgoing
  /\ direct'[k].amount = x
  /\ direct'[k].txid = NoTx
  /\ \A i \in DOMAIN chain' : chain'[i].row # k

LEMMA SendGoal ==
  ASSUME DOMAIN req' = Threads,
         \A r \in Threads : req'[r].pc = "sendCoin" => WaitsNext(req'[r].row, req'[r].amount),
         \A j \in DOMAIN queue'["wallet_send_coin"] :
           WaitsNext(queue'["wallet_send_coin"][j].row, queue'["wallet_send_coin"][j].amount),
         \A r, s \in Threads :
           req'[r].pc = "sendCoin" /\ req'[s].pc = "sendCoin" /\ req'[r].row = req'[s].row => r = s,
         \A j, k \in DOMAIN queue'["wallet_send_coin"] :
           queue'["wallet_send_coin"][j].row = queue'["wallet_send_coin"][k].row => j = k,
         \A r \in Threads, j \in DOMAIN queue'["wallet_send_coin"] :
           req'[r].pc = "sendCoin" => req'[r].row # queue'["wallet_send_coin"][j].row
  PROVE  SendInv'
BY DEF SendInv, At, Orders, OrderAt, Waits, WaitsNext, Rows

\* Other steps give no request a row to send, and leave the orders alone.
LEMMA OtherSteps ==
  ASSUME Inv, [Next]_vars, ~Broadcast, \A r \in Threads : ~SendCoin(r) /\ ~ExternalSave(r)
  PROVE  /\ DOMAIN req' = Threads
         /\ \A r \in Threads : req'[r].pc = "sendCoin" => At(r, "sendCoin") /\ req'[r] = req[r]
         /\ queue'["wallet_send_coin"] = queue["wallet_send_coin"]
<1>0. DOMAIN req = Threads /\ TypeOK
  BY DEF Inv, TypeOK
<1>1. queue'["wallet_send_coin"] = queue["wallet_send_coin"]
  BY <1>0, OrderSteps
<1>2. CASE req' = req
  BY <1>0, <1>1, <1>2 DEF At
<1>3. ASSUME NEW r \in Threads, NEW w, Go(r, w), w.pc # "sendCoin"
      PROVE  /\ DOMAIN req' = Threads
             /\ \A s \in Threads : req'[s].pc = "sendCoin" => At(s, "sendCoin") /\ req'[s] = req[s]
  BY <1>0, <1>3 DEF Go, At
<1>4. Idle.pc # "sendCoin"
  BY DEF Idle
<1>5. ASSUME NEW r \in Threads, RequestSteps(r)
      PROVE  /\ DOMAIN req' = Threads
             /\ \A s \in Threads : req'[s].pc = "sendCoin" => At(s, "sendCoin") /\ req'[s] = req[s]
  <2>1. ASSUME NEW u \in Users, NEW v \in Users, NEW x \in Amounts, InternalRequest(r, u, v, x)
        PROVE  \E w : Go(r, w) /\ w.pc # "sendCoin"
    <3>1. [pc |-> "internalSave", seller |-> u, buyer |-> v, amount |-> x].pc # "sendCoin"
      OBVIOUS
    <3> QED
      BY <2>1, <3>1 DEF InternalRequest
  <2>2. ASSUME NEW u \in Users, NEW x \in Amounts, NEW a \in Shown \union {Elsewhere},
               ExternalRequest(r, u, a, x)
        PROVE  \E w : Go(r, w) /\ w.pc # "sendCoin"
    <3>1. [pc |-> "externalSave", user |-> u, address |-> a, amount |-> x, row |-> 0].pc # "sendCoin"
      OBVIOUS
    <3> QED
      BY <2>2, <3>1 DEF ExternalRequest
  <2>3. CASE InternalSave(r) \/ AskAddress(r) \/ StopRequest(r)
    BY <1>3, <1>4, <2>3 DEF InternalSave, AskAddress, StopRequest
  <2> QED
    BY <1>3, <1>5, <2>1, <2>2, <2>3 DEF RequestSteps, Proceed
<1> QED
  BY <1>1, <1>2, <1>5, ReqSteps

LEMMA SendStep ==
  ASSUME Inv, [Next]_vars
  PROVE  SendInv'
<1> DEFINE q == "wallet_send_coin"
<1>0. /\ \A r \in Threads : At(r, "sendCoin") => Waits(req[r].row, req[r].amount)
      /\ \A j \in Orders : Waits(OrderAt(j).row, OrderAt(j).amount)
      /\ \A r, s \in Threads :
           At(r, "sendCoin") /\ At(s, "sendCoin") /\ req[r].row = req[s].row => r = s
      /\ \A j, k \in Orders : OrderAt(j).row = OrderAt(k).row => j = k
      /\ \A r \in Threads, j \in Orders : At(r, "sendCoin") => req[r].row # OrderAt(j).row
      /\ DOMAIN req = Threads
      /\ DOMAIN queue = In \union Out
      /\ q \in DOMAIN queue
      /\ queue[q] \in Seq(Order)
  BY DEF Inv, WalletInv, SendInv, TypeOK, QueueInv, In, Out
<1>1. ASSUME NEW r \in Threads, At(r, "sendCoin"),
             ~(Broadcast /\ Head(queue[q]).row = req[r].row)
      PROVE  WaitsNext(req[r].row, req[r].amount)
  BY <1>0, <1>1, WaitsKept DEF WaitsNext
<1>2. ASSUME NEW j \in Orders, ~(Broadcast /\ Head(queue[q]).row = OrderAt(j).row)
      PROVE  WaitsNext(OrderAt(j).row, OrderAt(j).amount)
  BY <1>0, <1>2, WaitsKept DEF WaitsNext
<1>3. CASE ~Broadcast /\ \A r \in Threads : ~SendCoin(r) /\ ~ExternalSave(r)
  <2>1. /\ DOMAIN req' = Threads
        /\ \A r \in Threads : req'[r].pc = "sendCoin" => At(r, "sendCoin") /\ req'[r] = req[r]
        /\ queue'[q] = queue[q]
    BY <1>3, OtherSteps
  <2>2. \A r \in Threads : req'[r].pc = "sendCoin" => WaitsNext(req'[r].row, req'[r].amount)
    BY <1>1, <1>3, <2>1
  <2>3. \A j \in DOMAIN queue'[q] : WaitsNext(queue'[q][j].row, queue'[q][j].amount)
    BY <1>2, <1>3, <2>1 DEF Orders, OrderAt
  <2>4. \A r, s \in Threads :
          req'[r].pc = "sendCoin" /\ req'[s].pc = "sendCoin" /\ req'[r].row = req'[s].row => r = s
    BY <1>0, <2>1
  <2>5. \A j, k \in DOMAIN queue'[q] : queue'[q][j].row = queue'[q][k].row => j = k
    BY <1>0, <2>1 DEF Orders, OrderAt
  <2>6. \A r \in Threads, j \in DOMAIN queue'[q] :
          req'[r].pc = "sendCoin" => req'[r].row # queue'[q][j].row
    BY <1>0, <2>1 DEF Orders, OrderAt
  <2> QED
    BY <2>1, <2>2, <2>3, <2>4, <2>5, <2>6, SendGoal
<1>4. ASSUME NEW r \in Threads, SendCoin(r)
      PROVE  SendInv'
  <2> DEFINE w == req[r]
             msg == [row |-> w.row, address |-> w.address, amount |-> w.amount]
             n == Len(queue[q]) + 1
  <2>0. At(r, "sendCoin") /\ ~Broadcast
    <3>1. At(r, "sendCoin") /\ chain' = chain
      BY <1>4 DEF SendCoin, outside
    <3>2. ASSUME Broadcast PROVE FALSE
      BY <3>1, <3>2, Types, Appended DEF Broadcast
    <3> QED
      BY <3>1, <3>2
  <2>1. /\ DOMAIN req' = Threads
        /\ \A s \in Threads : req'[s].pc = "sendCoin" => s # r /\ At(s, "sendCoin") /\ req'[s] = req[s]
    BY <1>0, <1>4 DEF SendCoin, Go, At
  <2>2. msg \in Order
    <3>1. /\ w \in [pc : {"externalSave", "sendCoin", "askAddress"}, user : Users,
                    address : Nat, amount : Amounts, row : Nat]
      BY <2>0, RequestAt
    <3> QED
      BY <3>1 DEF Order
  <2>3. queue'[q] = Append(queue[q], msg)
    BY <1>0, <1>4 DEF SendCoin, Send
  <2> HIDE DEF msg
  <2>4. /\ DOMAIN queue'[q] = Orders \union {n} /\ n \notin Orders
        /\ \A j \in Orders : queue'[q][j] = OrderAt(j)
        /\ queue'[q][n] = msg
    BY <1>0, <2>2, <2>3, Appended DEF Orders, OrderAt
  <2>5. msg.row = req[r].row /\ msg.amount = req[r].amount
    BY DEF msg
  <2>6. \A s \in Threads : req'[s].pc = "sendCoin" => WaitsNext(req'[s].row, req'[s].amount)
    BY <1>1, <2>0, <2>1
  <2>7. \A j \in DOMAIN queue'[q] : WaitsNext(queue'[q][j].row, queue'[q][j].amount)
    BY <1>1, <1>2, <2>0, <2>4, <2>5
  <2>8. \A s, t \in Threads :
          req'[s].pc = "sendCoin" /\ req'[t].pc = "sendCoin" /\ req'[s].row = req'[t].row => s = t
    BY <1>0, <2>1
  <2>9. \A j, k \in DOMAIN queue'[q] : queue'[q][j].row = queue'[q][k].row => j = k
    BY <1>0, <2>0, <2>4, <2>5
  <2>10. \A s \in Threads, j \in DOMAIN queue'[q] :
           req'[s].pc = "sendCoin" => req'[s].row # queue'[q][j].row
    BY <1>0, <2>0, <2>1, <2>4, <2>5
  <2> QED
    BY <2>1, <2>6, <2>7, <2>8, <2>9, <2>10, SendGoal
<1>5. ASSUME NEW r \in Threads, ExternalSave(r)
      PROVE  SendInv'
  <2> DEFINE k == Len(direct) + 1
  <2>0. ~Broadcast /\ queue'[q] = queue[q] /\ chain' = chain
    <3>1. chain' = chain /\ queue' = queue
      BY <1>5 DEF ExternalSave, outside
    <3>2. ASSUME Broadcast PROVE FALSE
      BY <3>1, <3>2, Types, Appended DEF Broadcast
    <3> QED
      BY <3>1, <3>2
  <2>1. ASSUME NEW row \in DirectRow, direct' = Append(direct, row), row.outgoing,
               row.txid = NoTx, row.amount = req[r].amount
        PROVE  /\ k \notin Rows /\ k # 0 /\ k \in DOMAIN direct' /\ Len(direct') = k
               /\ direct'[k].outgoing /\ direct'[k].txid = NoTx /\ direct'[k].amount = req[r].amount
    <3>1. Len(direct) \in Nat /\ Len(direct') = Len(direct) + 1
      BY <2>1, Types
    <3> QED
      BY <2>1, <3>1, NewRow
  <2>2. /\ k \notin Rows /\ k # 0 /\ k \in DOMAIN direct' /\ Len(direct') = k
        /\ direct'[k].outgoing /\ direct'[k].txid = NoTx /\ direct'[k].amount = req[r].amount
    BY <1>5, <2>1, ExternalSaveRow
  <2>3. \A i \in DOMAIN chain' : chain'[i].row # k
    BY <2>0, <2>2 DEF Inv, SentForARow
  <2>4. /\ DOMAIN req' = Threads
        /\ req'[r].pc = "sendCoin" /\ req'[r].row = k /\ req'[r].amount = req[r].amount
        /\ \A s \in Threads : s # r => req'[s] = req[s]
    <3>1. /\ req[r] \in [pc : {"externalSave", "sendCoin", "askAddress"}, user : Users,
                    address : Nat, amount : Amounts, row : Nat]
      BY <1>5, RequestAt DEF ExternalSave
    <3>2. req' = [req EXCEPT ![r] = [req[r] EXCEPT !.pc = "sendCoin", !.row = k]]
      BY <1>5, <2>2 DEF ExternalSave, Go
    <3> QED
      BY <1>0, <3>1, <3>2
  <2> HIDE DEF k
  <2>5. WaitsNext(k, req[r].amount)
    BY <2>2, <2>3 DEF WaitsNext
  <2>6. \A s \in Threads : req'[s].pc = "sendCoin" => WaitsNext(req'[s].row, req'[s].amount)
    BY <1>1, <2>0, <2>4, <2>5 DEF At
  <2>7. \A j \in DOMAIN queue'[q] : WaitsNext(queue'[q][j].row, queue'[q][j].amount)
    BY <1>2, <2>0 DEF Orders, OrderAt
  <2>8. \A s \in Threads : s # r /\ req'[s].pc = "sendCoin" => req'[s].row # k
    BY <1>0, <2>2, <2>4 DEF Waits, At
  <2>9. \A j \in Orders : OrderAt(j).row # k
    BY <1>0, <2>2 DEF Waits
  <2>10. \A s, t \in Threads :
          req'[s].pc = "sendCoin" /\ req'[t].pc = "sendCoin" /\ req'[s].row = req'[t].row => s = t
    BY <1>0, <2>4, <2>8 DEF At
  <2>11. \A i, j \in DOMAIN queue'[q] : queue'[q][i].row = queue'[q][j].row => i = j
    BY <1>0, <2>0 DEF Orders, OrderAt
  <2>12. \A s \in Threads, j \in DOMAIN queue'[q] :
           req'[s].pc = "sendCoin" => req'[s].row # queue'[q][j].row
    BY <1>0, <2>0, <2>4, <2>9 DEF Orders, OrderAt, At
  <2> QED
    BY <2>4, <2>6, <2>7, <2>10, <2>11, <2>12, SendGoal
<1>6. CASE Broadcast
  <2>1. /\ DOMAIN req' = Threads /\ req' = req
        /\ queue[q] # <<>> /\ queue'[q] = Tail(queue[q])
    BY <1>0, <1>6 DEF Broadcast, Take, In, Out
  <2>2. 1 \in Orders /\ Head(queue[q]) = OrderAt(1)
    BY <1>0, <2>1, Headed DEF Orders, OrderAt
  <2>3. \A j \in DOMAIN queue'[q] : j + 1 \in Orders /\ queue'[q][j] = OrderAt(j + 1)
    BY <1>0, <2>1, Tailed DEF Orders, OrderAt
  <2>4. \A j \in DOMAIN queue'[q] : j \in Nat /\ j # 0
    BY <1>0, <2>1, Tailed, Elements
  <2>5. \A j \in DOMAIN queue'[q] : j + 1 # 1
    BY <2>4
  <2>6. \A s \in Threads : req'[s].pc = "sendCoin" => WaitsNext(req'[s].row, req'[s].amount)
    BY <1>0, <1>1, <2>1, <2>2 DEF At
  <2>7. \A j \in DOMAIN queue'[q] : WaitsNext(queue'[q][j].row, queue'[q][j].amount)
    BY <1>0, <1>2, <2>2, <2>3, <2>5
  <2>8. \A s, t \in Threads :
          req'[s].pc = "sendCoin" /\ req'[t].pc = "sendCoin" /\ req'[s].row = req'[t].row => s = t
    BY <1>0, <2>1 DEF At
  <2>9. ASSUME NEW j \in DOMAIN queue'[q], NEW k \in DOMAIN queue'[q],
               queue'[q][j].row = queue'[q][k].row
        PROVE  j = k
    <3>1. j + 1 = k + 1
      BY <1>0, <2>3, <2>9
    <3> QED
      BY <2>4, <3>1
  <2>10. \A s \in Threads, j \in DOMAIN queue'[q] :
           req'[s].pc = "sendCoin" => req'[s].row # queue'[q][j].row
    BY <1>0, <2>1, <2>3 DEF At
  <2> QED
    BY <2>1, <2>6, <2>7, <2>8, <2>9, <2>10, SendGoal
<1> QED
  BY <1>3, <1>4, <1>5, <1>6

---------------------------------------------------------------------------
(* The chain, the requests and the addresses *)

LEMMA ShownKnown ==
  ASSUME Inv
  PROVE  Shown \subseteq DOMAIN given
<1> DEFINE W == [user : Users, address : DOMAIN given, current : BOOLEAN]
<1>1. wallets \in Seq(W)
  BY Types
<1>2. \A x \in W : x.address \in DOMAIN given
  OBVIOUS
<1>3. \A i \in DOMAIN wallets : wallets[i] \in W
  <2> HIDE DEF W
  <2> QED
    BY <1>1, Elements
<1> HIDE DEF W
<1> QED
  BY <1>2, <1>3 DEF Shown

LEMMA ChainStep ==
  ASSUME Inv, [Next]_vars
  PROVE  ChainInv'
<1> SUFFICES ASSUME NEW i \in DOMAIN chain'
             PROVE  chain'[i].address \in DOMAIN given' \union {Elsewhere}
  BY ChainKept DEF ChainInv
<1>0. \A a \in DOMAIN given : a \in DOMAIN given'
  BY GivenKept
<1>1. CASE i \in DOMAIN chain
  BY <1>0, <1>1, ChainKept DEF Inv, WalletInv, ChainInv
<1>2. ASSUME NEW t, chain' = Append(chain, t), i \notin DOMAIN chain
      PROVE  chain'[i] = t
  BY <1>2, Types
<1>3. CASE Broadcast
  <2> DEFINE msg == Head(queue["wallet_send_coin"])
  <2>1. queue["wallet_send_coin"] \in Seq(Order) /\ queue["wallet_send_coin"] # <<>>
    BY <1>3 DEF Broadcast, Inv, WalletInv, QueueInv
  <2>2. msg = queue["wallet_send_coin"][1] /\ 1 \in DOMAIN queue["wallet_send_coin"]
    BY <2>1, Headed
  <2>3. msg.address \in DOMAIN given \union {Elsewhere}
    BY <2>2 DEF Inv, WalletInv, QueueInv
  <2> QED
    BY <1>0, <1>1, <1>2, <1>3, <2>3 DEF Broadcast, Tx
<1>4. ASSUME NEW a \in Shown, NEW x \in Amounts, Deposit(a, x)
      PROVE  chain'[i].address \in DOMAIN given' \union {Elsewhere}
  BY <1>0, <1>1, <1>2, <1>4, ShownKnown DEF Deposit, Tx
<1>5. ASSUME NEW k \in DOMAIN chain, Confirm(k)
      PROVE  chain'[i].address \in DOMAIN given' \union {Elsewhere}
  BY <1>1, <1>5 DEF Confirm
<1>6. CASE chain' = chain
  BY <1>1, <1>6
<1> QED
  BY <1>3, <1>4, <1>5, <1>6, ChainSteps

RequestType(w) ==
  \/ w = Idle
  \/ w \in [pc : {"internalSave"}, seller : Users, buyer : Users, amount : Amounts]
  \/ /\ w \in [pc : {"externalSave", "sendCoin", "askAddress"}, user : Users,
               address : Nat, amount : Amounts, row : Nat]
     /\ w.address \in DOMAIN given \union {Elsewhere}

LEMMA RequestStep ==
  ASSUME Inv, [Next]_vars
  PROVE  RequestInv' /\ DOMAIN req' = Threads
<1>0. DOMAIN req = Threads /\ \A r \in Threads : RequestType(req[r])
  BY DEF Inv, TypeOK, WalletInv, RequestInv, RequestType
<1>1. \A a \in DOMAIN given : a \in DOMAIN given'
  BY GivenKept
<1>2. SUFFICES DOMAIN req' = Threads /\ \A r \in Threads : RequestType(req'[r])
  BY <1>1 DEF RequestInv, RequestType
<1>3. ASSUME NEW r \in Threads, NEW w, Go(r, w), RequestType(w)
      PROVE  DOMAIN req' = Threads /\ \A s \in Threads : RequestType(req'[s])
  <2>1. DOMAIN req' = Threads /\ req'[r] = w /\ \A s \in Threads : s # r => req'[s] = req[s]
    BY <1>0, <1>3 DEF Go
  <2> QED
    BY <1>0, <1>3, <2>1
<1>4. RequestType(Idle)
  BY DEF RequestType
<1>5. ASSUME NEW r \in Threads, NEW u \in Users, NEW v \in Users, NEW x \in Amounts,
             InternalRequest(r, u, v, x)
      PROVE  DOMAIN req' = Threads /\ \A s \in Threads : RequestType(req'[s])
  <2>1. RequestType([pc |-> "internalSave", seller |-> u, buyer |-> v, amount |-> x])
    BY DEF RequestType
  <2> QED
    BY <1>3, <1>5, <2>1 DEF InternalRequest
<1>6. ASSUME NEW r \in Threads, NEW u \in Users, NEW x \in Amounts,
             NEW a \in Shown \union {Elsewhere}, ExternalRequest(r, u, a, x)
      PROVE  DOMAIN req' = Threads /\ \A s \in Threads : RequestType(req'[s])
  <2>1. a \in DOMAIN given \union {Elsewhere} /\ a \in Nat
    BY ShownKnown, Types DEF Elsewhere
  <2>2. RequestType([pc |-> "externalSave", user |-> u, address |-> a, amount |-> x, row |-> 0])
    BY <2>1 DEF RequestType
  <2> QED
    BY <1>3, <1>6, <2>2 DEF ExternalRequest
<1>7. ASSUME NEW r \in Threads, InternalSave(r) \/ AskAddress(r) \/ StopRequest(r)
      PROVE  DOMAIN req' = Threads /\ \A s \in Threads : RequestType(req'[s])
  BY <1>3, <1>4, <1>7 DEF InternalSave, AskAddress, StopRequest
<1>8. ASSUME NEW r \in Threads, ExternalSave(r)
      PROVE  DOMAIN req' = Threads /\ \A s \in Threads : RequestType(req'[s])
  <2> DEFINE n == Len(direct')
  <2>1. n \in Nat
    BY DirectKept
  <2>2. /\ req[r] \in [pc : {"externalSave", "sendCoin", "askAddress"}, user : Users,
                       address : Nat, amount : Amounts, row : Nat]
        /\ req[r].address \in DOMAIN given \union {Elsewhere}
    BY <1>8, RequestAt DEF ExternalSave
  <2>3. Go(r, [req[r] EXCEPT !.pc = "sendCoin", !.row = n])
    BY <1>8 DEF ExternalSave
  <2> HIDE DEF n
  <2>4. RequestType([req[r] EXCEPT !.pc = "sendCoin", !.row = n])
    BY <2>1, <2>2 DEF RequestType
  <2> QED
    BY <1>3, <2>3, <2>4
<1>9. ASSUME NEW r \in Threads, SendCoin(r)
      PROVE  DOMAIN req' = Threads /\ \A s \in Threads : RequestType(req'[s])
  <2>1. /\ req[r] \in [pc : {"externalSave", "sendCoin", "askAddress"}, user : Users,
                       address : Nat, amount : Amounts, row : Nat]
        /\ req[r].address \in DOMAIN given \union {Elsewhere}
    BY <1>9, RequestAt DEF SendCoin
  <2>2. RequestType([req[r] EXCEPT !.pc = "askAddress"])
    BY <2>1 DEF RequestType
  <2> QED
    BY <1>3, <1>9, <2>2 DEF SendCoin
<1>10. CASE req' = req
  BY <1>0, <1>10
<1> QED
  BY <1>5, <1>6, <1>7, <1>8, <1>9, <1>10, ReqSteps DEF RequestSteps, Proceed

\* What the consumer of answers does to the rows of addresses.
WalletRow == [user : Users, address : Nat, current : BOOLEAN]

LEMMA WalletRows ==
  ASSUME Inv
  PROVE  /\ wallets \in Seq(WalletRow) /\ Len(wallets) \in Nat /\ DOMAIN wallets = 1 .. Len(wallets)
         /\ \A i \in DOMAIN wallets : /\ wallets[i] \in WalletRow
                                      /\ Owned(wallets[i].user, wallets[i].address)
<1> DEFINE W == [user : Users, address : DOMAIN given, current : BOOLEAN]
<1>1. wallets \in Seq(W) /\ DOMAIN given \subseteq Nat
  BY Types
<1>2. W \subseteq WalletRow /\ \A x \in W : x.address \in DOMAIN given
  BY <1>1 DEF WalletRow
<1> HIDE DEF W
<1>3. \A i \in DOMAIN wallets : wallets[i] \in W
  BY <1>1, Elements
<1>4. \A i \in DOMAIN wallets : given[wallets[i].address] = wallets[i].user
  BY DEF Inv, WalletInv, Cleared
<1>5. wallets \in Seq(WalletRow)
  BY <1>1, <1>2, Wider
<1> QED
  BY <1>2, <1>3, <1>4, <1>5 DEF Owned, Known

LEMMA AddressStep ==
  ASSUME Inv, [Next]_vars
  PROVE  /\ wallets' \in Seq(WalletRow)
         /\ \A i \in DOMAIN wallets' :
              /\ wallets'[i] \in WalletRow
              /\ wallets'[i].address \in DOMAIN given'
              /\ given'[wallets'[i].address] = wallets'[i].user
         /\ OneCurrentAddress'
<1> USE WalletRows
<1>0. \A a \in DOMAIN given : a \in DOMAIN given' /\ given'[a] = given[a]
  BY GivenKept
<1>1. \A i, j \in DOMAIN wallets :
        wallets[i].user = wallets[j].user /\ wallets[i].current => j <= i
  BY DEF Inv, OneCurrentAddress
<1>2. CASE wallets' = wallets
  BY <1>0, <1>1, <1>2 DEF OneCurrentAddress, Owned, Known
<1>3. CASE ResponseClear
  <2> DEFINE u == Msg("wallet_response").user
             row(i) == IF wallets[i].user = u THEN [wallets[i] EXCEPT !.current = FALSE] ELSE wallets[i]
  <2>1. wallets' = [i \in DOMAIN wallets |-> row(i)]
    BY <1>3 DEF ResponseClear
  <2>2. ASSUME NEW i \in DOMAIN wallets
        PROVE  /\ row(i) \in WalletRow /\ row(i).user = wallets[i].user
               /\ row(i).address = wallets[i].address
               /\ row(i).current => wallets[i].current
    BY DEF WalletRow
  <2> HIDE DEF row
  <2>3. wallets' \in Seq(WalletRow)
    <3>1. wallets' \in [1 .. Len(wallets) -> WalletRow]
      BY <2>1, <2>2
    <3> QED
      BY <3>1
  <2> QED
    BY <1>0, <1>1, <2>1, <2>2, <2>3 DEF OneCurrentAddress, Owned, Known
<1>4. CASE ResponseSave
  <2> DEFINE m == Msg("wallet_response")
             row == [user |-> m.user, address |-> m.address, current |-> TRUE]
             n == Len(wallets) + 1
  <2>1. /\ Busy("wallet_response", "save") /\ queue["wallet_response"] # <<>>
        /\ wallets' = Append(wallets, row)
    BY <1>4 DEF ResponseSave, Inv, WalletInv, Cleared, Busy, Idle
  <2>2. m \in Answer /\ Owned(m.user, m.address)
    BY <2>1, ResponseMsg
  <2>3. \A i \in DOMAIN wallets : wallets[i].user = m.user => ~wallets[i].current
    BY <2>1 DEF Inv, WalletInv, Cleared
  <2>4. row \in WalletRow
    BY <2>2 DEF Answer, WalletRow
  <2>5. row.user = m.user /\ row.address = m.address
    OBVIOUS
  <2> HIDE DEF row
  <2>6. /\ wallets' \in Seq(WalletRow)
        /\ DOMAIN wallets' = DOMAIN wallets \union {n} /\ n \notin DOMAIN wallets
        /\ \A i \in DOMAIN wallets : wallets'[i] = wallets[i]
        /\ wallets'[n] = row
    BY <2>1, <2>4, Appended
  <2>7. \A i \in DOMAIN wallets : i <= n
    OBVIOUS
  <2>8. n <= n
    OBVIOUS
  <2> HIDE DEF n
  <2>9. OneCurrentAddress'
    BY <1>1, <2>3, <2>5, <2>6, <2>7, <2>8 DEF OneCurrentAddress
  <2> QED
    BY <1>0, <2>2, <2>4, <2>5, <2>6, <2>9 DEF Owned, Known
<1> QED
  BY <1>2, <1>3, <1>4, WalletSteps

---------------------------------------------------------------------------
(* The queues *)

\* A queue is left alone or loses its first message; or it gets one more.
Shrinks(q) ==
  \/ queue'[q] = queue[q]
  \/ queue[q] # <<>> /\ queue'[q] = Tail(queue[q])

Gets(q, m) == queue'[q] = Append(queue[q], m)

LEMMA Shrunk ==
  ASSUME NEW q, NEW S, queue[q] \in Seq(S), Shrinks(q)
  PROVE  /\ queue'[q] \in Seq(S)
         /\ \A j \in DOMAIN queue'[q] :
              \E k \in DOMAIN queue[q] : queue'[q][j] = queue[q][k]
<1>1. CASE queue'[q] = queue[q]
  BY <1>1
<1>2. CASE queue[q] # <<>> /\ queue'[q] = Tail(queue[q])
  BY <1>2, Tailed
<1> QED
  BY <1>1, <1>2 DEF Shrinks

LEMMA Got ==
  ASSUME NEW q, NEW S, queue[q] \in Seq(S), NEW m \in S, Gets(q, m)
  PROVE  /\ queue'[q] \in Seq(S)
         /\ queue'[q] # <<>>
         /\ queue[q] # <<>> => Head(queue'[q]) = Head(queue[q])
         /\ \A j \in DOMAIN queue'[q] :
              \/ \E k \in DOMAIN queue[q] : queue'[q][j] = queue[q][k]
              \/ queue'[q][j] = m
BY Appended DEF Gets

\* A consumer that is done, or stops, leaves the queue or takes its message off.
LEMMA Ends ==
  ASSUME Inv, NEW q \in In, Acknowledge(q) \/ StopConsumer(q)
  PROVE  /\ Shrinks(q)
         /\ consumer'[q] = Idle
         /\ UNCHANGED <<tables, req, outside>>
<1>1. ~Busy(q, "idle")
  BY DEF Acknowledge, StopConsumer, Busy
<1>2. queue[q] # <<>>
  <2>1. CASE q = "wallet_response"
    BY <1>1, <2>1 DEF Inv, WalletInv, Cleared, Busy, Idle
  <2>2. CASE q = "coin_received"
    BY <1>1, <2>2, FindingAt
  <2>3. CASE q = "wallet_sent_coin"
    BY <1>1, <2>3, SavingAt
  <2> QED
    BY <2>1, <2>2, <2>3 DEF In
<1>3. DOMAIN queue = In \union Out /\ DOMAIN consumer = In
  BY DEF Inv, TypeOK
<1> QED
  BY <1>2, <1>3 DEF Acknowledge, StopConsumer, Continue, Shrinks

LEMMA QueueTypes ==
  ASSUME Inv
  PROVE  /\ DOMAIN queue = In \union Out /\ DOMAIN consumer = In
         /\ queue["wallet"] \in Seq(Users)
         /\ queue["wallet_response"] \in Seq(Answer)
         /\ queue["wallet_send_coin"] \in Seq(Order)
         /\ queue["wallet_sent_coin"] \in Seq(Sent)
         /\ queue["coin_received"] \in Seq(Received)
BY DEF Inv, TypeOK, WalletInv, QueueInv

LEMMA AskStep ==
  ASSUME Inv, [Next]_vars
  PROVE  queue'["wallet"] \in Seq(Users)
<1> DEFINE q == "wallet"
<1>0. queue[q] \in Seq(Users) /\ DOMAIN queue = In \union Out /\ q \in DOMAIN queue
  BY QueueTypes DEF Out
<1>1. ASSUME NEW u \in Users, Visit(u)
      PROVE  queue'[q] \in Seq(Users)
  <2>1. <<u>> \in Seq(Users) /\ <<u, u>> \in Seq(Users)
    OBVIOUS
  <2>2. queue'[q] \in {<<u>>, <<u, u>>}
    BY <1>0, <1>1 DEF Visit
  <2> QED
    BY <2>1, <2>2
<1>2. ASSUME NEW r \in Threads, AskAddress(r)
      PROVE  queue'[q] \in Seq(Users)
  <2>1. Gets(q, req[r].user) /\ req[r].user \in Users
    BY <1>0, <1>2, RequestAt DEF AskAddress, Send, Gets
  <2> QED
    BY <1>0, <2>1, Got
<1>3. CASE ReceivedAsk
  <2>1. Gets(q, consumer["coin_received"].user) /\ consumer["coin_received"].user \in Users
    BY <1>0, <1>3, FindingAt DEF ReceivedAsk, Send, Gets
  <2> QED
    BY <1>0, <2>1, Got
<1>4. CASE Allocate
  <2>1. Shrinks(q)
    BY <1>0, <1>4 DEF Allocate, Take, Shrinks, In, Out
  <2> QED
    BY <1>0, <2>1, Shrunk
<1>5. CASE UNCHANGED queue[q]
  BY <1>0, <1>5
<1> QED
  BY <1>1, <1>2, <1>3, <1>4, <1>5, AskSteps DEF Inv

LEMMA ResponseQueue ==
  ASSUME Inv, [Next]_vars
  PROVE  /\ queue'["wallet_response"] \in Seq(Answer)
         /\ \A j \in DOMAIN queue'["wallet_response"] :
              LET m == queue'["wallet_response"][j] IN
              m.address \in DOMAIN given' /\ given'[m.address] = m.user
<1> DEFINE q == "wallet_response"
<1>0. queue[q] \in Seq(Answer) /\ DOMAIN queue = In \union Out /\ q \in DOMAIN queue
      /\ \A k \in DOMAIN queue[q] :
           queue[q][k].address \in DOMAIN given /\ given[queue[q][k].address] = queue[q][k].user
  BY QueueTypes DEF In, Inv, WalletInv, QueueInv, Known
<1>1. \A a \in DOMAIN given : a \in DOMAIN given' /\ given'[a] = given[a]
  BY GivenKept
<1>2. ASSUME Shrinks(q)
      PROVE  /\ queue'[q] \in Seq(Answer)
             /\ \A j \in DOMAIN queue'[q] :
                  /\ queue'[q][j].address \in DOMAIN given'
                  /\ given'[queue'[q][j].address] = queue'[q][j].user
  BY <1>0, <1>1, <1>2, Shrunk
<1>3. CASE Allocate
  <2> DEFINE u == Head(queue["wallet"])
             m == [user |-> u, address |-> Len(given')]
  <2>1. u \in Users
    BY <1>3, QueueTypes, Headed DEF Allocate
  <2>2. given' = Append(given, u) /\ Gets(q, m)
    BY <1>0, <1>3 DEF Allocate, Take, Gets, In, Out
  <2>3. Len(given') \in DOMAIN given' /\ given'[Len(given')] = u /\ Len(given') \in Nat
    <3>1. Len(given') = Len(given) + 1
      BY <2>2, Types
    <3> QED
      BY <2>1, <2>2, <3>1, Types, Appended
  <2>4. m \in Answer /\ m.address \in DOMAIN given' /\ given'[m.address] = m.user
    BY <2>1, <2>3 DEF Answer
  <2> HIDE DEF m
  <2> QED
    BY <1>0, <1>1, <2>2, <2>4, Got
<1>4. CASE ResponseClear \/ ResponseSave
  BY <1>2, <1>4 DEF ResponseClear, ResponseSave, Shrinks
<1>5. CASE Acknowledge(q) \/ StopConsumer(q)
  BY <1>2, <1>5, Ends DEF In
<1>6. CASE UNCHANGED <<consumer[q], queue[q]>>
  BY <1>2, <1>6 DEF Shrinks
<1> QED
  BY <1>3, <1>4, <1>5, <1>6, ResponseSteps DEF Inv

LEMMA OrderQueue ==
  ASSUME Inv, [Next]_vars
  PROVE  /\ queue'["wallet_send_coin"] \in Seq(Order)
         /\ \A j \in DOMAIN queue'["wallet_send_coin"] :
              queue'["wallet_send_coin"][j].address \in DOMAIN given' \union {Elsewhere}
<1> DEFINE q == "wallet_send_coin"
<1>0. queue[q] \in Seq(Order) /\ DOMAIN queue = In \union Out /\ q \in DOMAIN queue
      /\ \A k \in DOMAIN queue[q] : queue[q][k].address \in DOMAIN given \union {Elsewhere}
  BY QueueTypes DEF Out, Inv, WalletInv, QueueInv
<1>1. \A a \in DOMAIN given : a \in DOMAIN given'
  BY GivenKept
<1>2. ASSUME Shrinks(q)
      PROVE  /\ queue'[q] \in Seq(Order)
             /\ \A j \in DOMAIN queue'[q] : queue'[q][j].address \in DOMAIN given' \union {Elsewhere}
  BY <1>0, <1>1, <1>2, Shrunk
<1>3. ASSUME NEW r \in Threads, SendCoin(r)
      PROVE  /\ queue'[q] \in Seq(Order)
             /\ \A j \in DOMAIN queue'[q] : queue'[q][j].address \in DOMAIN given' \union {Elsewhere}
  <2> DEFINE m == [row |-> req[r].row, address |-> req[r].address, amount |-> req[r].amount]
  <2>1. Gets(q, m)
    BY <1>0, <1>3 DEF SendCoin, Send, Gets
  <2>2. m \in Order /\ m.address \in DOMAIN given \union {Elsewhere}
    BY <1>3, RequestAt DEF SendCoin, Order
  <2> HIDE DEF m
  <2> QED
    BY <1>0, <1>1, <2>1, <2>2, Got
<1>4. CASE Broadcast
  BY <1>0, <1>2, <1>4 DEF Broadcast, Take, Shrinks, In, Out
<1>5. CASE UNCHANGED queue[q]
  BY <1>2, <1>5 DEF Shrinks
<1> QED
  BY <1>3, <1>4, <1>5, OrderSteps DEF Inv

\* What a message to the consumer of sent coins, or of notices, says of the chain.
SentFact(m) ==
  /\ m.txid \in DOMAIN chain'
  /\ chain'[m.txid].row = m.row
  /\ m.row # 0
  /\ chain'[m.txid].amount = m.amount

ReceivedFact(m) ==
  /\ m.txid \in DOMAIN chain'
  /\ chain'[m.txid].address = m.address
  /\ chain'[m.txid].amount = m.amount
  /\ m.outgoing = (m.address = Elsewhere)

LEMMA SentQueue ==
  ASSUME Inv, [Next]_vars
  PROVE  /\ queue'["wallet_sent_coin"] \in Seq(Sent)
         /\ \A j \in DOMAIN queue'["wallet_sent_coin"] : SentFact(queue'["wallet_sent_coin"][j])
<1> DEFINE q == "wallet_sent_coin"
<1>0. queue[q] \in Seq(Sent) /\ DOMAIN queue = In \union Out /\ q \in DOMAIN queue
      /\ \A k \in DOMAIN queue[q] : SentFact(queue[q][k])
  <2>1. queue[q] \in Seq(Sent) /\ DOMAIN queue = In \union Out /\ q \in DOMAIN queue
    BY QueueTypes DEF In
  <2>2. ASSUME NEW k \in DOMAIN queue[q]
        PROVE  SentFact(queue[q][k])
    <3>1. LET m == queue[q][k] IN
          /\ m.txid \in DOMAIN chain /\ chain[m.txid].row = m.row /\ m.row # 0
          /\ chain[m.txid].amount = m.amount
      BY DEF Inv, WalletInv, QueueInv, OnChain
    <3> QED
      BY <3>1, ChainKept DEF SentFact
  <2> QED
    BY <2>1, <2>2
<1>2. ASSUME Shrinks(q)
      PROVE  queue'[q] \in Seq(Sent) /\ \A j \in DOMAIN queue'[q] : SentFact(queue'[q][j])
  BY <1>0, <1>2, Shrunk
<1>3. CASE Broadcast
  <2> DEFINE o == OrderAt(1)
             n == Len(chain) + 1
             t == Tx(o.address, o.amount, o.row)
             m == [row |-> o.row, txid |-> n, amount |-> o.amount, confirmations |-> 0]
  <2>1. queue["wallet_send_coin"] \in Seq(Order) /\ queue["wallet_send_coin"] # <<>>
    BY <1>3, QueueTypes DEF Broadcast
  <2>2. 1 \in Orders /\ Head(queue["wallet_send_coin"]) = o /\ o \in Order
    BY <2>1, Headed DEF Orders, OrderAt
  <2>3. o.row \in Rows /\ o.row # 0
    BY <2>2, Types DEF Inv, WalletInv, SendInv, Waits
  <2>4. t \in TxRow /\ t.row = o.row /\ t.amount = o.amount
    BY <2>2, WalletAssumption DEF Tx, TxRow, Order
  <2>5. chain' = Append(chain, t)
    BY <1>3, <2>2 DEF Broadcast
  <2>6. chain \in Seq(TxRow) /\ Len(chain) \in Nat
    BY Types
  <2> HIDE DEF t
  <2>7. Len(chain') = n /\ n \in Nat
    BY <2>5, <2>6
  <2>8. n \in DOMAIN chain' /\ chain'[n] = t
    BY <2>4, <2>5, <2>6, Appended
  <2>9. Gets(q, m)
    BY <1>0, <1>3, <2>2, <2>7 DEF Broadcast, Take, Gets, In, Out
  <2>10. m \in Sent
    BY <2>2, <2>7, WalletAssumption DEF Order, Sent
  <2>11. SentFact(m)
    BY <2>3, <2>4, <2>8 DEF SentFact
  <2> HIDE DEF m
  <2> QED
    BY <1>0, <2>9, <2>10, <2>11, Got
<1>4. CASE SentFind \/ SentSave
  BY <1>2, <1>4 DEF SentFind, SentSave, Shrinks
<1>5. CASE Acknowledge(q) \/ StopConsumer(q)
  BY <1>2, <1>5, Ends DEF In
<1>6. CASE UNCHANGED <<consumer[q], queue[q]>>
  BY <1>2, <1>6 DEF Shrinks
<1> QED
  BY <1>3, <1>4, <1>5, <1>6, SentSteps DEF Inv

\* A notice tells what the chain has.
LEMMA Noticed ==
  ASSUME Inv, [Next]_vars, NEW i \in DOMAIN chain'
  PROVE  Notice(i) \in Received /\ ReceivedFact(Notice(i))
<1>1. chain'[i] \in TxRow /\ i \in Nat
  <2>1. chain' \in Seq(TxRow)
    BY ChainKept
  <2> QED
    BY <2>1, Elements
<1> QED
  BY <1>1 DEF Notice, Received, TxRow, ReceivedFact, Elsewhere

LEMMA ReceivedQueue ==
  ASSUME Inv, [Next]_vars
  PROVE  /\ queue'["coin_received"] \in Seq(Received)
         /\ \A j \in DOMAIN queue'["coin_received"] : ReceivedFact(queue'["coin_received"][j])
         /\ \/ UNCHANGED <<consumer["coin_received"], queue["coin_received"]>>
            \/ ReceivedWallet \/ ReceivedFind \/ ReceivedUpdate
            \/ ReceivedConfirm \/ ReceivedAdd \/ ReceivedAsk
            \/ Acknowledge("coin_received") \/ StopConsumer("coin_received")
            \/ /\ UNCHANGED <<tables, consumer>>
               /\ queue'["coin_received"] # <<>>
               /\ queue["coin_received"] # <<>> => Msg("coin_received")' = Msg("coin_received")
<1> DEFINE q == "coin_received"
<1>0. queue[q] \in Seq(Received) /\ DOMAIN queue = In \union Out /\ q \in DOMAIN queue
      /\ \A k \in DOMAIN queue[q] : ReceivedFact(queue[q][k])
  <2>1. queue[q] \in Seq(Received) /\ DOMAIN queue = In \union Out /\ q \in DOMAIN queue
    BY QueueTypes DEF In
  <2>2. ASSUME NEW k \in DOMAIN queue[q]
        PROVE  ReceivedFact(queue[q][k])
    <3>1. LET m == queue[q][k] IN
          /\ m.txid \in DOMAIN chain /\ chain[m.txid].address = m.address
          /\ chain[m.txid].amount = m.amount /\ m.outgoing = (m.address = Elsewhere)
      BY DEF Inv, WalletInv, QueueInv, OnChain
    <3> QED
      BY <3>1, ChainKept DEF ReceivedFact
  <2> QED
    BY <2>1, <2>2
<1>1. ASSUME Shrinks(q)
      PROVE  queue'[q] \in Seq(Received) /\ \A j \in DOMAIN queue'[q] : ReceivedFact(queue'[q][j])
  BY <1>0, <1>1, Shrunk
<1>2. ASSUME NEW i \in DOMAIN chain', Gets(q, Notice(i))
      PROVE  /\ queue'[q] \in Seq(Received)
             /\ \A j \in DOMAIN queue'[q] : ReceivedFact(queue'[q][j])
             /\ queue'[q] # <<>>
             /\ queue[q] # <<>> => Msg(q)' = Msg(q)
  <2> DEFINE m == Notice(i)
  <2>1. m \in Received /\ ReceivedFact(m) /\ Gets(q, m)
    BY <1>2, Noticed
  <2> HIDE DEF m
  <2> QED
    BY <1>0, <2>1, Got DEF Msg
<1>3. ASSUME NEW a \in Shown, NEW x \in Amounts, Deposit(a, x)
      PROVE  \E i \in DOMAIN chain' : Gets(q, Notice(i))
  <2>1. chain' = Append(chain, Tx(a, x, 0)) /\ Len(chain) \in Nat
    BY <1>3, Types DEF Deposit
  <2>2. Len(chain') \in DOMAIN chain'
    BY <2>1, Types
  <2>3. Gets(q, Notice(Len(chain')))
    BY <1>0, <1>3 DEF Deposit, Send, Gets
  <2> QED
    BY <2>2, <2>3
<1>4. ASSUME NEW i \in DOMAIN chain, Confirm(i)
      PROVE  i \in DOMAIN chain' /\ Gets(q, Notice(i))
  <2>1. i \in DOMAIN chain'
    BY ChainKept
  <2>2. Gets(q, Notice(i))
    BY <1>0, <1>4 DEF Confirm, Send, Gets
  <2> QED
    BY <2>1, <2>2
<1>5. CASE \/ ReceivedWallet \/ ReceivedFind \/ ReceivedUpdate \/ ReceivedConfirm \/ ReceivedAdd
  <2>1. Shrinks(q)
    BY <1>5 DEF ReceivedWallet, ReceivedFind, ReceivedUpdate, ReceivedConfirm, ReceivedAdd, Shrinks
  <2> QED
    BY <1>1, <1>5, <2>1
<1>6. CASE ReceivedAsk
  <2>1. Shrinks(q)
    BY <1>0, <1>6 DEF ReceivedAsk, Send, Shrinks
  <2> QED
    BY <1>1, <1>6, <2>1
<1>7. CASE Acknowledge(q) \/ StopConsumer(q)
  BY <1>1, <1>7, Ends DEF In
<1>8. CASE UNCHANGED <<consumer[q], queue[q]>>
  BY <1>1, <1>8 DEF Shrinks
<1>9. ASSUME NEW a \in Shown, NEW x \in Amounts, Deposit(a, x)
      PROVE  UNCHANGED <<tables, consumer>>
  BY <1>9 DEF Deposit
<1>10. ASSUME NEW i \in DOMAIN chain, Confirm(i)
       PROVE  UNCHANGED <<tables, consumer>>
  BY <1>10 DEF Confirm
<1>11. CASE \E a \in Shown, x \in Amounts : Deposit(a, x)
  BY <1>2, <1>3, <1>9, <1>11
<1>12. CASE \E i \in DOMAIN chain : Confirm(i)
  BY <1>2, <1>4, <1>10, <1>12
<1> QED
  BY <1>5, <1>6, <1>7, <1>8, <1>11, <1>12, ReceivedSteps DEF Inv

LEMMA QueueStep ==
  ASSUME Inv, [Next]_vars
  PROVE  QueueInv'
BY AskStep, ResponseQueue, OrderQueue, SentQueue, ReceivedQueue
   DEF QueueInv, OnChain, Known, SentFact, ReceivedFact

---------------------------------------------------------------------------
(* The consumers *)

LEMMA ClearedStep ==
  ASSUME Inv, [Next]_vars
  PROVE  Cleared'
<1> DEFINE q == "wallet_response"
<1>0. /\ q \in DOMAIN consumer /\ q \in DOMAIN queue /\ DOMAIN queue = In \union Out
      /\ queue[q] \in Seq(Answer)
      /\ consumer[q] = Idle \/ queue[q] # <<>>
      /\ consumer[q] \in [pc : {"idle", "save", "done"}]
      /\ consumer[q].pc = "save" =>
           \A i \in DOMAIN wallets : wallets[i].user = Msg(q).user => ~wallets[i].current
  BY QueueTypes DEF In, Inv, WalletInv, Cleared, Busy
<1>1. SUFFICES /\ consumer'[q] = Idle \/ queue'[q] # <<>>
               /\ consumer'[q] \in [pc : {"idle", "save", "done"}]
               /\ consumer'[q].pc = "save" =>
                    \A i \in DOMAIN wallets' :
                      wallets'[i].user = Msg(q)'.user => ~wallets'[i].current
  BY AddressStep DEF Cleared, Busy
<1>2. CASE ResponseClear
  <2> DEFINE u == Msg(q).user
             row(i) == IF wallets[i].user = u THEN [wallets[i] EXCEPT !.current = FALSE] ELSE wallets[i]
  <2>1. /\ queue' = queue /\ queue[q] # <<>> /\ consumer'[q] = [pc |-> "save"]
        /\ wallets' = [i \in DOMAIN wallets |-> row(i)]
    BY <1>0, <1>2 DEF ResponseClear, Ready, Continue
  <2>2. ASSUME NEW i \in DOMAIN wallets, row(i).user = u
        PROVE  ~row(i).current
    BY <2>2, WalletRows DEF WalletRow
  <2> HIDE DEF row
  <2> QED
    BY <2>1, <2>2 DEF Msg
<1>3. CASE ResponseSave
  BY <1>0, <1>3 DEF ResponseSave, Continue, Busy, Idle
<1>4. CASE Acknowledge(q) \/ StopConsumer(q)
  BY <1>4, Ends DEF In, Idle
<1>5. CASE Allocate
  <2>1. wallets' = wallets /\ consumer' = consumer
    BY <1>5 DEF Allocate, tables
  <2>2. Head(queue["wallet"]) \in Users
    BY <1>5, QueueTypes, Headed DEF Allocate
  <2>3. Gets(q, [user |-> Head(queue["wallet"]), address |-> Len(given')])
    BY <1>0, <1>5 DEF Allocate, Take, Gets, In, Out
  <2>4. queue'[q] # <<>> /\ (queue[q] # <<>> => Head(queue'[q]) = Head(queue[q]))
    <3>1. Len(given') \in Nat
      BY GivenKept
    <3>2. [user |-> Head(queue["wallet"]), address |-> Len(given')] \in Answer
      BY <2>2, <3>1 DEF Answer
    <3> QED
      BY <1>0, <2>3, <3>2, Got
  <2> QED
    BY <1>0, <2>1, <2>4 DEF Msg, Idle
<1>6. CASE UNCHANGED <<consumer[q], queue[q]>>
  <2>1. CASE wallets' = wallets
    BY <1>0, <1>6, <2>1 DEF Msg
  <2> QED
    BY <1>2, <1>3, <2>1, WalletSteps
<1> QED
  BY <1>2, <1>3, <1>4, <1>5, <1>6, ResponseSteps DEF Inv

\* A consumer that goes on with its message finds its copy still good.
LEMMA CopyKept ==
  ASSUME Inv, [Next]_vars, NEW STATE copy, NEW STATE i, CopyOf(copy, i)
  PROVE  /\ i \in DOMAIN direct'
         /\ copy \in DirectRow
         /\ copy.user = direct'[i].user
         /\ copy.amount = direct'[i].amount
         /\ copy.outgoing = direct'[i].outgoing
BY DirectKept DEF CopyOf, KeptRow

SavingGoal(c, m) ==
  \/ c = Idle
  \/ /\ queue'["wallet_sent_coin"] # <<>>
     /\ \/ c = [pc |-> "done"]
        \/ /\ c \in [pc : {"save"}, copy : DirectRow]
           /\ m.row \in DOMAIN direct'
           /\ c.copy.user = direct'[m.row].user
           /\ c.copy.amount = direct'[m.row].amount
           /\ c.copy.outgoing = direct'[m.row].outgoing

LEMMA SavingStep ==
  ASSUME Inv, [Next]_vars
  PROVE  Saving'
<1> DEFINE q == "wallet_sent_coin"
<1>0. /\ q \in DOMAIN consumer /\ q \in DOMAIN queue /\ DOMAIN queue = In \union Out
      /\ queue[q] \in Seq(Sent)
  BY QueueTypes DEF In
<1>1. SUFFICES SavingGoal(consumer'[q], Msg(q)')
  BY DEF SavingGoal, Saving, CopyOf, Rows
<1>2. ASSUME queue[q] # <<>> => queue'[q] # <<>> /\ Msg(q)' = Msg(q), consumer'[q] = consumer[q]
      PROVE  SavingGoal(consumer'[q], Msg(q)')
  <2>1. CASE consumer[q] = Idle
    BY <1>2, <2>1 DEF SavingGoal
  <2>2. CASE consumer[q] = [pc |-> "done"]
    <3>1. queue[q] # <<>>
      BY <2>2, SavingAt DEF Busy
    <3> QED
      BY <1>2, <2>2, <3>1 DEF SavingGoal
  <2>3. CASE consumer[q] \in [pc : {"save"}, copy : DirectRow] /\ CopyOf(consumer[q].copy, Msg(q).row)
    <3>1. queue[q] # <<>>
      BY <2>3, SavingAt DEF Busy
    <3>2. /\ Msg(q).row \in DOMAIN direct'
          /\ consumer[q].copy.user = direct'[Msg(q).row].user
          /\ consumer[q].copy.amount = direct'[Msg(q).row].amount
          /\ consumer[q].copy.outgoing = direct'[Msg(q).row].outgoing
      BY <2>3, CopyKept
    <3> QED
      BY <1>2, <2>3, <3>1, <3>2 DEF SavingGoal
  <2> QED
    BY <2>1, <2>2, <2>3 DEF Inv, WalletInv, Saving
<1>3. CASE SentFind
  <2>1. /\ queue' = queue /\ queue[q] # <<>> /\ direct' = direct
        /\ consumer'[q] = IF Msg(q).row \in Rows
                            THEN [pc |-> "save", copy |-> direct[Msg(q).row]] ELSE [pc |-> "done"]
    BY <1>0, <1>3 DEF SentFind, Ready, Continue, tables, Rows
  <2>2. Msg(q).row \in Rows => direct[Msg(q).row] \in DirectRow
    BY RowType
  <2>3. Msg(q)' = Msg(q)
    BY <2>1 DEF Msg
  <2> QED
    BY <2>1, <2>2, <2>3 DEF SavingGoal, Rows
<1>4. CASE SentSave
  <2>1. queue' = queue /\ queue[q] # <<>> /\ consumer'[q] = [pc |-> "done"]
    BY <1>0, <1>4, SavingAt DEF SentSave, Continue, Busy
  <2> QED
    BY <2>1 DEF SavingGoal
<1>5. CASE Acknowledge(q) \/ StopConsumer(q)
  BY <1>5, Ends DEF In, SavingGoal
<1>6. CASE Broadcast
  <2> DEFINE o == Head(queue["wallet_send_coin"])
             m == [row |-> o.row, txid |-> Len(chain'), amount |-> o.amount, confirmations |-> 0]
  <2>1. consumer' = consumer
    BY <1>6 DEF Broadcast
  <2>2. Gets(q, m)
    BY <1>0, <1>6 DEF Broadcast, Take, Gets, In, Out
  <2>3. o \in Order
    BY <1>6, QueueTypes, Headed DEF Broadcast
  <2>4. Len(chain') \in Nat
    BY ChainKept
  <2>5. m \in Sent
    BY <2>3, <2>4, WalletAssumption DEF Order, Sent
  <2> HIDE DEF m
  <2>6. queue'[q] # <<>> /\ (queue[q] # <<>> => Msg(q)' = Msg(q))
    BY <1>0, <2>2, <2>5, Got DEF Msg
  <2> QED
    BY <1>2, <2>1, <2>6
<1>7. CASE UNCHANGED <<consumer[q], queue[q]>>
  BY <1>2, <1>7 DEF Msg
<1> QED
  BY <1>3, <1>4, <1>5, <1>6, <1>7, SentSteps DEF Inv

FindingGoal(c, m) ==
  \/ c = Idle
  \/ /\ queue'["coin_received"] # <<>>
     /\ \/ c = [pc |-> "confirm"] \/ c = [pc |-> "done"]
        \/ /\ c \in [pc : {"find"}, user : Users \union {NoUser}]
           /\ c.user = NoUser \/ (m.address \in DOMAIN given' /\ given'[m.address] = c.user)
        \/ /\ c \in [pc : {"add"}, user : Users]
           /\ m.address \in DOMAIN given' /\ given'[m.address] = c.user
           /\ \A i \in DOMAIN direct' : ~direct'[i].outgoing => direct'[i].txid # m.txid
        \/ c \in [pc : {"ask"}, user : Users]
        \/ /\ c \in [pc : {"update"}, row : Nat, copy : DirectRow]
           /\ c.row \in DOMAIN direct'
           /\ c.copy.user = direct'[c.row].user
           /\ c.copy.amount = direct'[c.row].amount
           /\ c.copy.outgoing = direct'[c.row].outgoing
           /\ c.copy.txid = m.txid
           /\ direct'[c.row].txid = m.txid

\* A consumer that goes on with its notice: what it found is still so.
LEMMA FindingKept ==
  ASSUME Inv, [Next]_vars, ~ReceivedAdd,
         consumer'["coin_received"] = consumer["coin_received"],
         queue["coin_received"] # <<>> =>
           queue'["coin_received"] # <<>> /\ Msg("coin_received")' = Msg("coin_received")
  PROVE  FindingGoal(consumer'["coin_received"], Msg("coin_received")')
<1> DEFINE q == "coin_received"
           c == consumer[q]
           m == Msg(q)
<1>0. \A a \in DOMAIN given : a \in DOMAIN given' /\ given'[a] = given[a]
  BY GivenKept
<1>1. CASE c = Idle
  BY <1>1 DEF FindingGoal
<1>2. ASSUME c # Idle
      PROVE  queue[q] # <<>> /\ queue'[q] # <<>> /\ Msg(q)' = m
  BY <1>2 DEF Inv, WalletInv, Finding
<1>3. CASE c = [pc |-> "confirm"] \/ c = [pc |-> "done"]
  BY <1>2, <1>3 DEF FindingGoal, Idle
<1>4. CASE c \in [pc : {"find"}, user : Users \union {NoUser}]
           /\ (c.user = NoUser \/ Owned(c.user, m.address))
  <2>1. c # Idle
    BY <1>4 DEF Idle
  <2> QED
    BY <1>0, <1>2, <1>4, <2>1 DEF FindingGoal, Owned, Known
<1>5. CASE /\ c \in [pc : {"add"}, user : Users]
           /\ Owned(c.user, m.address)
           /\ \A i \in Rows : ~direct[i].outgoing => direct[i].txid # m.txid
  <2>1. c # Idle
    BY <1>5 DEF Idle
  <2>2. ASSUME NEW i \in DOMAIN direct', ~direct'[i].outgoing
        PROVE  direct'[i].txid # m.txid
    <3>1. CASE i \in Rows
      BY <1>5, <2>2, <3>1, DirectKept DEF KeptRow
    <3>2. ASSUME NEW r \in Threads, ExternalSave(r), i \notin Rows
          PROVE  FALSE
      BY <2>2, <3>2, ExternalSaveRow, NewRow
    <3> QED
      BY <3>1, <3>2, RowsAdded
  <2>3. m.address \in DOMAIN given' /\ given'[m.address] = c.user
    BY <1>0, <1>5 DEF Owned, Known
  <2> QED
    BY <1>2, <1>5, <2>1, <2>2, <2>3 DEF FindingGoal
<1>6. CASE c \in [pc : {"ask"}, user : Users]
  <2>1. c # Idle
    BY <1>6 DEF Idle
  <2> QED
    BY <1>2, <1>6, <2>1 DEF FindingGoal
<1>7. CASE /\ c \in [pc : {"update"}, row : Nat, copy : DirectRow]
           /\ CopyOf(c.copy, c.row)
           /\ c.copy.txid = m.txid
           /\ direct[c.row].txid = m.txid
  <2>1. c # Idle
    BY <1>7 DEF Idle
  <2>2. m.txid \in DOMAIN chain /\ c.row \in Rows /\ c.row # 0 /\ m.txid # NoTx
    <3>1. m.txid \in DOMAIN chain /\ c.row \in Rows
      BY <1>2, <1>7, <2>1, ReceivedMsg DEF OnChain, CopyOf
    <3> QED
      BY <3>1, Types DEF NoTx
  <2>3. KeptRow(c.row)
    BY <2>2, DirectKept
  <2>4. direct'[c.row].txid = m.txid
    <3>1. CASE direct'[c.row].txid = direct[c.row].txid
      BY <1>7, <3>1
    <3>2. CASE /\ direct[c.row].outgoing
               /\ direct'[c.row].txid \in DOMAIN chain
               /\ chain[direct'[c.row].txid].row = c.row
      <4>1. chain[m.txid].row = c.row
        BY <1>7, <2>2, <3>2 DEF Inv, WalletInv, RowInv
      <4> QED
        BY <2>2, <3>2, <4>1 DEF Inv, SentForARow
    <3> QED
      BY <2>3, <3>1, <3>2 DEF KeptRow
  <2>5. /\ c.row \in DOMAIN direct'
        /\ c.copy.user = direct'[c.row].user
        /\ c.copy.amount = direct'[c.row].amount
        /\ c.copy.outgoing = direct'[c.row].outgoing
    BY <1>7, CopyKept
  <2> QED
    BY <1>2, <1>7, <2>1, <2>4, <2>5 DEF FindingGoal
<1> QED
  BY <1>1, <1>3, <1>4, <1>5, <1>6, <1>7 DEF Inv, WalletInv, Finding

LEMMA FindingStep ==
  ASSUME Inv, [Next]_vars
  PROVE  Finding'
<1> DEFINE q == "coin_received"
           m == Msg(q)
<1>0. q \in DOMAIN consumer /\ q \in DOMAIN queue
  BY QueueTypes DEF In
<1>1. SUFFICES FindingGoal(consumer'[q], Msg(q)')
  BY DEF FindingGoal, Finding, CopyOf, Rows, Owned, Known
<1>2. CASE ReceivedWallet
  <2>1. queue' = queue /\ queue[q] # <<>> /\ given' = given
    BY <1>2 DEF ReceivedWallet, Ready, outside
  <2>2. PICK u \in Users \union {NoUser} :
          /\ consumer'[q] = [pc |-> "find", user |-> u]
          /\ u = NoUser \/ Owned(u, m.address)
    <3> DEFINE rows == {i \in DOMAIN wallets : wallets[i].address = m.address /\ wallets[i].current}
               who == IF rows = {} THEN {NoUser} ELSE {wallets[i].user : i \in rows}
    <3>1. \E u \in who : consumer'[q] = [pc |-> "find", user |-> u]
      BY <1>0, <1>2 DEF ReceivedWallet, Continue
    <3>2. \A i \in rows : wallets[i].user \in Users /\ Owned(wallets[i].user, m.address)
      BY WalletRows DEF WalletRow
    <3>3. \A u \in who : u \in Users \union {NoUser} /\ (u = NoUser \/ Owned(u, m.address))
      BY <3>2
    <3> HIDE DEF who
    <3> QED
      BY <3>1, <3>3
  <2> QED
    BY <2>1, <2>2 DEF FindingGoal, Msg, Owned, Known
<1>3. CASE ReceivedFind
  <2> DEFINE u == consumer[q].user
             rows == RowsOf(m.txid)
  <2>1. queue' = queue /\ Busy(q, "find") /\ given' = given /\ direct' = direct
    BY <1>3 DEF ReceivedFind, outside, tables
  <2>2. queue[q] # <<>> /\ u \in Users \union {NoUser} /\ (u = NoUser \/ Owned(u, m.address))
    BY <2>1, FindingAt DEF Busy
  <2>3. ASSUME NEW i \in rows, consumer'[q] = [pc |-> "update", row |-> i, copy |-> direct[i]]
        PROVE  FindingGoal(consumer'[q], Msg(q)')
    <3>1. i \in Rows /\ direct[i].txid = m.txid /\ direct[i] \in DirectRow /\ i \in Nat
      BY RowType, Types DEF RowsOf, Rows
    <3> QED
      BY <2>1, <2>2, <2>3, <3>1 DEF FindingGoal, Msg, Rows
  <2>4. ASSUME rows = {}, consumer'[q] = IF u = NoUser THEN [pc |-> "done"] ELSE [pc |-> "add", user |-> u]
        PROVE  FindingGoal(consumer'[q], Msg(q)')
    <3>1. \A i \in DOMAIN direct : direct[i].txid # m.txid
      BY <2>4 DEF RowsOf
    <3>2. CASE u = NoUser
      BY <2>1, <2>2, <2>4, <3>2 DEF FindingGoal
    <3>3. CASE u # NoUser
      BY <2>1, <2>2, <2>4, <3>1, <3>3 DEF FindingGoal, Msg, Owned, Known
    <3> QED
      BY <3>2, <3>3
  <2>5. \/ \E i \in rows : consumer'[q] = [pc |-> "update", row |-> i, copy |-> direct[i]]
        \/ /\ rows = {}
           /\ consumer'[q] = IF u = NoUser THEN [pc |-> "done"] ELSE [pc |-> "add", user |-> u]
    BY <1>0, <1>3 DEF ReceivedFind, Continue
  <2> QED
    BY <2>3, <2>4, <2>5
<1>4. CASE ReceivedUpdate
  BY <1>0, <1>4, FindingAt DEF ReceivedUpdate, Continue, Busy, FindingGoal
<1>5. CASE ReceivedConfirm
  BY <1>0, <1>5, FindingAt DEF ReceivedConfirm, Continue, Busy, FindingGoal
<1>6. CASE ReceivedAdd
  BY <1>0, <1>6, FindingAt DEF ReceivedAdd, Continue, Busy, FindingGoal
<1>7. CASE ReceivedAsk
  <2>1. /\ queue[q] # <<>> /\ consumer'[q] = [pc |-> "done"]
        /\ queue'[q] = queue[q]
    BY <1>0, <1>7, FindingAt DEF ReceivedAsk, Continue, Send, Busy
  <2> QED
    BY <2>1 DEF FindingGoal
<1>8. CASE Acknowledge(q) \/ StopConsumer(q)
  BY <1>8, Ends DEF In, FindingGoal
<1>9. CASE /\ UNCHANGED <<tables, consumer>>
           /\ queue'[q] # <<>>
           /\ queue[q] # <<>> => Msg(q)' = Msg(q)
  <2>1. CASE ReceivedAdd
    BY <1>6, <2>1
  <2>2. CASE ~ReceivedAdd
    BY <1>9, <2>2, FindingKept
  <2> QED
    BY <2>1, <2>2
<1>10. CASE UNCHANGED <<consumer[q], queue[q]>>
  <2>1. Msg(q)' = Msg(q)
    BY <1>10 DEF Msg
  <2>2. CASE ReceivedAdd
    BY <1>6, <2>2
  <2>3. CASE ~ReceivedAdd
    BY <1>10, <2>1, <2>3, FindingKept
  <2> QED
    BY <2>2, <2>3
<1> QED
  BY <1>2, <1>3, <1>4, <1>5, <1>6, <1>7, <1>8, <1>9, <1>10, ReceivedQueue

---------------------------------------------------------------------------
(* The types *)

LEMMA Strengthen ==
  ASSUME NEW S, NEW T, NEW s \in Seq(S), \A j \in DOMAIN s : s[j] \in T
  PROVE  s \in Seq(T)
<1>1. Len(s) \in Nat /\ s \in [1 .. Len(s) -> T]
  BY Elements
<1> QED
  BY <1>1

LEMMA Domains ==
  ASSUME Inv, [Next]_vars
  PROVE  DOMAIN queue' = In \union Out /\ DOMAIN consumer' = In
<1>1. DOMAIN queue = In \union Out /\ DOMAIN consumer = In
  BY QueueTypes
<1> QED
  BY <1>1 DEF In, Out, Continue, Send, Take, Next, vars, tables, outside, Visit, Request, Proceed,
     Consume, InternalRequest, InternalSave, ExternalRequest, ExternalSave, SendCoin, AskAddress,
     StopRequest, ReceivedWallet, ReceivedFind, ReceivedUpdate, ReceivedConfirm, ReceivedAdd,
     ReceivedAsk, SentFind, SentSave, ResponseClear, ResponseSave, Acknowledge, StopConsumer,
     Allocate, Broadcast, Deposit, Confirm

LEMMA TypeStep ==
  ASSUME Inv, [Next]_vars
  PROVE  TypeOK'
<1>1. direct' \in Seq([user : Users, amount : Amounts, outgoing : BOOLEAN,
                       txid : 0 .. Len(chain'), confirmations : 0 .. MaxConfirmations])
  <2>1. direct' \in Seq(DirectRow) /\ Len(chain') \in Nat /\ DOMAIN chain' = 1 .. Len(chain')
    BY DirectKept, ChainKept
  <2>2. ASSUME NEW i \in DOMAIN direct'
        PROVE  direct'[i] \in [user : Users, amount : Amounts, outgoing : BOOLEAN,
                               txid : 0 .. Len(chain'), confirmations : 0 .. MaxConfirmations]
    <3>1. direct'[i] \in DirectRow
      BY <2>1, Elements
    <3>2. direct'[i].txid # NoTx => direct'[i].txid \in DOMAIN chain'
      BY RowStep DEF RowInv, Rows, OnChain
    <3>3. direct'[i].txid \in 0 .. Len(chain')
      BY <2>1, <3>1, <3>2 DEF NoTx
    <3> QED
      BY <3>1, <3>3 DEF DirectRow
  <2> QED
    BY <2>1, <2>2, Strengthen
<1>2. transfers' \in Seq([seller : Users, buyer : Users, amount : Amounts])
  <2> DEFINE T == [seller : Users, buyer : Users, amount : Amounts]
  <2>1. transfers \in Seq(T)
    BY DEF Inv, TypeOK
  <2>2. ASSUME NEW r \in Threads, InternalSave(r)
        PROVE  transfers' \in Seq(T)
    <3> DEFINE t == [seller |-> req[r].seller, buyer |-> req[r].buyer, amount |-> req[r].amount]
    <3>1. t \in T /\ transfers' = Append(transfers, t)
      BY <2>2, RequestAt DEF InternalSave
    <3> HIDE DEF t, T
    <3> QED
      BY <2>1, <3>1, Appended
  <2> QED
    BY <2>1, <2>2, TransferSteps
<1>3. wallets' \in Seq([user : Users, address : DOMAIN given', current : BOOLEAN])
  <2>1. wallets' \in Seq(WalletRow)
    BY AddressStep
  <2>2. \A i \in DOMAIN wallets' :
          wallets'[i] \in [user : Users, address : DOMAIN given', current : BOOLEAN]
    BY AddressStep DEF WalletRow
  <2> QED
    BY <2>1, <2>2, Strengthen
<1>4. given' \in Seq(Users)
  BY GivenKept
<1>5. DOMAIN req' = Threads
  BY RequestStep
<1>6. stops' \in 0 .. MaxStops
  <2>1. stops \in 0 .. MaxStops /\ MaxStops \in Nat
    BY WalletAssumption DEF Inv, TypeOK
  <2> QED
    BY <2>1, StopSteps
<1> QED
  BY <1>1, <1>2, <1>3, <1>4, <1>5, <1>6, Domains DEF TypeOK

---------------------------------------------------------------------------
(* The theorems *)

LEMMA InvInit ==
  ASSUME Init
  PROVE  Inv
<1> USE DEF Init
<1>1. TypeOK
  BY WalletAssumption DEF TypeOK
<1>2. CreditedOnce /\ OneCurrentAddress /\ SentForARow
  BY DEF CreditedOnce, OneCurrentAddress, SentForARow, Rows
<1>3. QueueInv /\ RequestInv /\ ChainInv
  <2>1. \A q \in In \union Out : queue[q] = <<>>
    OBVIOUS
  <2>2. /\ queue["wallet"] = <<>> /\ queue["wallet_response"] = <<>>
        /\ queue["wallet_send_coin"] = <<>> /\ queue["wallet_sent_coin"] = <<>>
        /\ queue["coin_received"] = <<>>
    BY <2>1 DEF In, Out
  <2> HIDE DEF Init
  <2>3. \A S : <<>> \in Seq(S)
    OBVIOUS
  <2>4. DOMAIN (<<>>) = {}
    OBVIOUS
  <2>5. QueueInv
    BY <2>2, <2>3, <2>4 DEF QueueInv
  <2> USE DEF Init
  <2>6. RequestInv
    BY DEF RequestInv
  <2>7. ChainInv
    BY DEF ChainInv
  <2> QED
    BY <2>5, <2>6, <2>7
<1>4. Cleared /\ Finding /\ Saving
  BY DEF Cleared, Finding, Saving, In, Busy, Idle
<1>5. SendInv /\ RowInv
  BY DEF SendInv, RowInv, At, Idle, Orders, Rows, In, Out
<1> QED
  BY <1>1, <1>2, <1>3, <1>4, <1>5 DEF Inv, WalletInv

LEMMA InvNext ==
  ASSUME Inv, [Next]_vars
  PROVE  Inv'
BY TypeStep, CreditedStep, AddressStep, SentStep, QueueStep, RequestStep, ChainStep, ClearedStep,
   FindingStep, SavingStep, SendStep, RowStep
   DEF Inv, WalletInv

LEMMA InvAlways == Spec => []Inv
<1>1. Init => Inv
  BY InvInit
<1>2. Inv /\ [Next]_vars => Inv'
  BY InvNext
<1> QED
  BY <1>1, <1>2, PTL DEF Spec

\* Whatever stops, and however often a message is given again, the tables hold what
\* their columns may hold, and the ids in them are ids of transactions that exist.
THEOREM WalletTypes == Spec => []TypeOK
<1>1. Inv => TypeOK
  BY DEF Inv
<1> QED
  BY <1>1, InvAlways, PTL

\* The consumer of notices credits a deposit once at most, with its amount, to the user
\* its address was given to: for any number of users, threads, addresses, deposits,
\* confirmations and stops.
THEOREM DepositsCreditedOnce == Spec => []CreditedOnce
<1>1. Inv => CreditedOnce
  BY DEF Inv
<1> QED
  BY <1>1, InvAlways, PTL

\* The consumer of new addresses leaves a user with one current address at most, the
\* last that was saved.
THEOREM OneAddress == Spec => []OneCurrentAddress
<1>1. Inv => OneCurrentAddress
  BY DEF Inv
<1> QED
  BY <1>1, InvAlways, PTL

\* Coins leave the site for a committed row only, once for each row, with the amount the
\* row deducts.
THEOREM SentForRows == Spec => []SentForARow
<1>1. Inv => SentForARow
  BY DEF Inv
<1> QED
  BY <1>1, InvAlways, PTL

---------------------------------------------------------------------------
(* Confirmations *)

\* The chain only gains confirmations, and a new transaction comes after all that any
\* notice or row is about.
LEMMA ChainConfirms ==
  ASSUME Inv, [Next]_vars, NEW i \in DOMAIN chain
  PROVE  /\ chain[i].confirmations \in Nat
         /\ i \in DOMAIN chain'
         /\ chain'[i].confirmations \in Nat
         /\ chain[i].confirmations <= chain'[i].confirmations
<1>1. chain[i] \in TxRow /\ chain[i].confirmations \in Nat
  <2>1. chain[i] \in TxRow
    BY Types, Elements
  <2> QED
    BY <2>1, WalletAssumption DEF TxRow
<1>2. i \in DOMAIN chain' /\ chain'[i].confirmations \in Nat
  <2>1. i \in DOMAIN chain' /\ chain' \in Seq(TxRow)
    BY ChainKept
  <2>2. chain'[i] \in TxRow
    BY <2>1, Elements
  <2> QED
    BY <2>1, <2>2, WalletAssumption DEF TxRow
<1>3. CASE chain' = chain
  BY <1>1, <1>2, <1>3
<1>4. CASE Broadcast
  <2> DEFINE o == Head(queue["wallet_send_coin"])
             t == Tx(o.address, o.amount, o.row)
  <2>1. chain' = Append(chain, t)
    BY <1>4 DEF Broadcast
  <2> HIDE DEF t
  <2>2. chain'[i] = chain[i]
    BY <2>1, Types
  <2> QED
    BY <1>1, <1>2, <2>2
<1>5. ASSUME NEW a \in Shown, NEW x \in Amounts, Deposit(a, x)
      PROVE  chain[i].confirmations <= chain'[i].confirmations
  <2> DEFINE t == Tx(a, x, 0)
  <2>1. chain' = Append(chain, t)
    BY <1>5 DEF Deposit
  <2> HIDE DEF t
  <2>2. chain'[i] = chain[i]
    BY <2>1, Types
  <2> QED
    BY <1>1, <1>2, <2>2
<1>6. ASSUME NEW k \in DOMAIN chain, Confirm(k)
      PROVE  chain[i].confirmations <= chain'[i].confirmations
  <2>1. chain' = [chain EXCEPT ![k].confirmations = @ + 1]
    BY <1>6 DEF Confirm
  <2>2. CASE i = k
    BY <1>1, <2>1, <2>2 DEF TxRow
  <2>3. CASE i # k
    BY <1>1, <2>1, <2>3
  <2> QED
    BY <2>2, <2>3
<1> QED
  BY <1>1, <1>2, <1>3, <1>4, <1>5, <1>6, ChainSteps

\* A step takes the first notice away, or adds one that says what the chain says.
LEMMA NoticeSteps ==
  ASSUME Inv, [Next]_vars
  PROVE  \/ Shrinks("coin_received")
         \/ \E i \in DOMAIN chain' : Gets("coin_received", Notice(i)) /\ direct' = direct
<1> DEFINE q == "coin_received"
<1>0. queue[q] \in Seq(Received) /\ DOMAIN queue = In \union Out /\ q \in DOMAIN queue
  BY QueueTypes DEF In
<1>1. CASE \/ ReceivedWallet \/ ReceivedFind \/ ReceivedUpdate \/ ReceivedConfirm \/ ReceivedAdd
           \/ ReceivedAsk \/ UNCHANGED <<consumer[q], queue[q]>>
  BY <1>0, <1>1
     DEF ReceivedWallet, ReceivedFind, ReceivedUpdate, ReceivedConfirm, ReceivedAdd, ReceivedAsk, Send, Shrinks
<1>2. CASE Acknowledge(q) \/ StopConsumer(q)
  BY <1>2, Ends DEF In
<1>3. ASSUME NEW a \in Shown, NEW x \in Amounts, Deposit(a, x)
      PROVE  \E i \in DOMAIN chain' : Gets(q, Notice(i)) /\ direct' = direct
  <2>1. chain' = Append(chain, Tx(a, x, 0)) /\ Len(chain) \in Nat
    BY <1>3, Types DEF Deposit
  <2>2. Len(chain') \in DOMAIN chain'
    BY <2>1, Types
  <2>3. Gets(q, Notice(Len(chain'))) /\ direct' = direct
    BY <1>0, <1>3 DEF Deposit, Send, Gets, tables
  <2> QED
    BY <2>2, <2>3
<1>4. ASSUME NEW i \in DOMAIN chain, Confirm(i)
      PROVE  i \in DOMAIN chain' /\ Gets(q, Notice(i)) /\ direct' = direct
  <2>1. i \in DOMAIN chain'
    BY ChainKept
  <2>2. Gets(q, Notice(i)) /\ direct' = direct
    BY <1>0, <1>4 DEF Confirm, Send, Gets, tables
  <2> QED
    BY <2>1, <2>2
<1> QED
  BY <1>1, <1>2, <1>3, <1>4, ReceivedSteps DEF Inv

\* A deposit keeps its confirmations, or gets those of the notice being worked on.
RowAsItWas(i) ==
  /\ i \in Rows
  /\ ~direct[i].outgoing
  /\ direct'[i].txid = direct[i].txid
  /\ direct'[i].confirmations = direct[i].confirmations

RowAsNoticed(i) ==
  /\ queue["coin_received"] # <<>>
  /\ queue'["coin_received"] = queue["coin_received"]
  /\ direct'[i].txid = Msg("coin_received").txid
  /\ direct'[i].confirmations = Msg("coin_received").confirmations

LEMMA RowConfirmed ==
  ASSUME Inv, [Next]_vars, NEW i \in DOMAIN direct', ~direct'[i].outgoing
  PROVE  RowAsItWas(i) \/ RowAsNoticed(i)
<1> DEFINE q == "coin_received"
           m == Msg(q)
<1>0. direct \in Seq(DirectRow) /\ (i \in Rows => direct[i] \in DirectRow)
  BY Types, RowType
<1>1. CASE direct' = direct
  BY <1>1 DEF RowAsItWas, Rows
<1>2. ASSUME NEW r \in Threads, ExternalSave(r)
      PROVE  RowAsItWas(i)
  <2>1. PICK row \in DirectRow : direct' = Append(direct, row) /\ row.outgoing
    BY <1>2, ExternalSaveRow
  <2>2. i \in Rows /\ direct'[i] = direct[i]
    BY <2>1, NewRow
  <2> QED
    BY <2>2 DEF RowAsItWas
<1>3. CASE ReceivedUpdate
  <2> DEFINE c == consumer[q]
             row == [c.copy EXCEPT !.confirmations = m.confirmations]
  <2>1. Busy(q, "update") /\ direct' = [direct EXCEPT ![c.row] = row] /\ queue' = queue
    BY <1>3 DEF ReceivedUpdate
  <2>2. CopyOf(c.copy, c.row) /\ c.copy.txid = m.txid /\ queue[q] # <<>>
    BY <2>1, FindingAt DEF Busy
  <2>3. row.txid = m.txid /\ row.confirmations = m.confirmations
    BY <2>2 DEF CopyOf, DirectRow
  <2>4. i \in Rows
    BY <2>1 DEF Rows
  <2>5. CASE i = c.row
    <3>1. direct'[i] = row
      BY <2>1, <2>4, <2>5 DEF Rows
    <3> QED
      BY <2>1, <2>2, <2>3, <3>1 DEF RowAsNoticed
  <2>6. CASE i # c.row
    <3>1. direct'[i] = direct[i]
      BY <2>1, <2>4, <2>6 DEF Rows
    <3> QED
      BY <2>4, <3>1 DEF RowAsItWas
  <2> QED
    BY <2>5, <2>6
<1>4. CASE ReceivedConfirm
  <2>1. /\ Busy(q, "confirm") /\ queue' = queue /\ i \in Rows
        /\ direct'[i] = IF direct[i].txid = m.txid
                          THEN [direct[i] EXCEPT !.confirmations = m.confirmations] ELSE direct[i]
    BY <1>4 DEF ReceivedConfirm, Rows
  <2>2. queue[q] # <<>>
    BY <2>1, FindingAt DEF Busy
  <2>3. CASE direct[i].txid = m.txid
    <3>1. direct'[i].txid = m.txid /\ direct'[i].confirmations = m.confirmations
      BY <1>0, <2>1, <2>3 DEF DirectRow
    <3> QED
      BY <2>1, <2>2, <3>1 DEF RowAsNoticed
  <2>4. CASE direct[i].txid # m.txid
    BY <2>1, <2>4 DEF RowAsItWas
  <2> QED
    BY <2>3, <2>4
<1>5. CASE ReceivedAdd
  <2> DEFINE row == [user |-> consumer[q].user, amount |-> m.amount, outgoing |-> m.outgoing,
                     txid |-> m.txid, confirmations |-> m.confirmations]
  <2>1. direct' = Append(direct, row) /\ Busy(q, "add") /\ queue' = queue
    BY <1>5 DEF ReceivedAdd
  <2>2. queue[q] # <<>>
    BY <2>1, FindingAt DEF Busy
  <2>3. row.txid = m.txid /\ row.confirmations = m.confirmations
    OBVIOUS
  <2>4. row \in DirectRow
    <3>1. m \in Received
      BY <2>2, ReceivedMsg
    <3>2. consumer[q].user \in Users
      BY <2>1, FindingAt
    <3> QED
      BY <3>1, <3>2 DEF Received, DirectRow
  <2> HIDE DEF row
  <2>5. CASE i \in Rows
    <3>1. direct'[i] = direct[i]
      BY <2>1, <2>4, <2>5, NewRow
    <3> QED
      BY <2>5, <3>1 DEF RowAsItWas
  <2>6. CASE i \notin Rows
    <3>1. direct'[i] = row
      BY <2>1, <2>4, <2>6, NewRow
    <3> QED
      BY <2>1, <2>2, <2>3, <3>1 DEF RowAsNoticed
  <2> QED
    BY <2>5, <2>6
<1>6. CASE SentSave
  <2> DEFINE w == Msg("wallet_sent_coin")
             row == [consumer["wallet_sent_coin"].copy EXCEPT
                       !.amount = w.amount, !.txid = w.txid, !.confirmations = w.confirmations]
  <2>1. Busy("wallet_sent_coin", "save") /\ direct' = [direct EXCEPT ![w.row] = row]
    BY <1>6 DEF SentSave
  <2> HIDE DEF row
  <2>2. i \in Rows /\ (i # w.row => direct'[i] = direct[i])
    BY <2>1 DEF Rows
  <2>3. KeptRow(i)
    BY <2>2, DirectKept
  <2>4. direct[w.row].outgoing
    <3>1. queue["wallet_sent_coin"] # <<>>
      BY <2>1, SavingAt DEF Busy
    <3>2. OnChain(w.txid) /\ chain[w.txid].row = w.row /\ w.row # 0
      BY <3>1, SentMsg
    <3> QED
      BY <3>2 DEF Inv, SentForARow, OnChain
  <2>5. i # w.row
    BY <2>3, <2>4 DEF KeptRow
  <2> QED
    BY <2>2, <2>5 DEF RowAsItWas
<1> QED
  BY <1>1, <1>2, <1>3, <1>4, <1>5, <1>6, DirectSteps

\* What the facts on notices say of one of them and of the chain.
LEMMA NoticeFacts ==
  ASSUME Inv, ConfirmationsInv, [Next]_vars, NEW j \in Notices
  PROVE  /\ NoticeAt(j) \in Received
         /\ NoticeAt(j).confirmations \in Nat
         /\ NoticeAt(j).txid \in DOMAIN chain
         /\ NoticeAt(j).txid \in DOMAIN chain'
         /\ NoticeAt(j).confirmations <= chain[NoticeAt(j).txid].confirmations
         /\ NoticeAt(j).confirmations <= chain'[NoticeAt(j).txid].confirmations
<1>1. NoticeAt(j) \in Received
  BY QueueTypes, Elements DEF Notices, NoticeAt
<1>2. NoticeAt(j).confirmations \in Nat
  BY <1>1, WalletAssumption DEF Received
<1>3. NoticeAt(j).txid \in DOMAIN chain
  BY DEF Inv, WalletInv, QueueInv, OnChain, Notices, NoticeAt
<1>4. NoticeAt(j).confirmations <= chain[NoticeAt(j).txid].confirmations
  BY DEF ConfirmationsInv
<1> QED
  BY <1>1, <1>2, <1>3, <1>4, ChainConfirms

\* The notices after a step: those that were there, in their order, and at the end perhaps
\* one that says what the chain says.
OldNotice(j, k) == k \in Notices /\ queue'["coin_received"][j] = NoticeAt(k)

NewNotice(j) ==
  /\ direct' = direct
  /\ \A k \in DOMAIN queue'["coin_received"] : k <= j
  /\ \E i \in DOMAIN chain' : /\ queue'["coin_received"][j].txid = i
                              /\ queue'["coin_received"][j].confirmations = chain'[i].confirmations

LEMMA NoticesAfter ==
  ASSUME Inv, [Next]_vars
  PROVE  \E d \in {0, 1} : \A j \in DOMAIN queue'["coin_received"] :
           /\ j \in Nat
           /\ OldNotice(j, j + d) \/ (d = 0 /\ NewNotice(j))
<1> DEFINE q == "coin_received"
<1>0. queue[q] \in Seq(Received)
  BY QueueTypes
<1>1. CASE queue'[q] = queue[q]
  BY <1>0, <1>1 DEF OldNotice, Notices, NoticeAt
<1>2. CASE queue[q] # <<>> /\ queue'[q] = Tail(queue[q])
  BY <1>0, <1>2 DEF OldNotice, Notices, NoticeAt
<1>3. ASSUME NEW i \in DOMAIN chain', Gets(q, Notice(i)), direct' = direct
      PROVE  \A j \in DOMAIN queue'[q] : j \in Nat /\ (OldNotice(j, j + 0) \/ NewNotice(j))
  <2> DEFINE m == Notice(i)
  <2>1. m \in Received /\ queue'[q] = Append(queue[q], m)
    BY <1>3, Noticed DEF Gets
  <2>2. m.txid = i /\ m.confirmations = chain'[i].confirmations
    BY DEF Notice
  <2> HIDE DEF m
  <2>3. /\ DOMAIN queue'[q] = 1 .. Len(queue[q]) + 1
        /\ \A j \in DOMAIN queue[q] : queue'[q][j] = queue[q][j]
        /\ queue'[q][Len(queue[q]) + 1] = m
        /\ DOMAIN queue[q] = 1 .. Len(queue[q]) /\ Len(queue[q]) \in Nat
    BY <1>0, <2>1
  <2>4. ASSUME NEW j \in DOMAIN queue[q]
        PROVE  j \in Nat /\ OldNotice(j, j + 0)
    BY <2>3, <2>4 DEF OldNotice, Notices, NoticeAt
  <2>5. NewNotice(Len(queue[q]) + 1)
    BY <1>3, <2>2, <2>3 DEF NewNotice
  <2> QED
    BY <2>3, <2>4, <2>5
<1> QED
  BY <1>1, <1>2, <1>3, NoticeSteps DEF Shrinks

LEMMA ConfirmationsStep ==
  ASSUME Inv, ConfirmationsInv, [Next]_vars
  PROVE  ConfirmationsInv'
<1> DEFINE N == queue'["coin_received"]
<1>1. PICK d \in {0, 1} :
        \A j \in DOMAIN N : j \in Nat /\ (OldNotice(j, j + d) \/ (d = 0 /\ NewNotice(j)))
  BY NoticesAfter
<1>2. ASSUME NEW j \in DOMAIN N
      PROVE  N[j].confirmations <= chain'[N[j].txid].confirmations
  <2>1. CASE OldNotice(j, j + d)
    BY <2>1, NoticeFacts DEF OldNotice
  <2>2. CASE NewNotice(j)
    <3>1. PICK i \in DOMAIN chain' : N[j].txid = i /\ N[j].confirmations = chain'[i].confirmations
      BY <2>2 DEF NewNotice
    <3>2. chain'[i].confirmations \in Nat
      <4>1. chain' \in Seq(TxRow)
        BY ChainKept
      <4>2. chain'[i] \in TxRow
        BY <4>1, Elements
      <4> QED
        BY <4>2, WalletAssumption DEF TxRow
    <3> QED
      BY <3>1, <3>2
  <2> QED
    BY <1>1, <2>1, <2>2
<1>3. ASSUME NEW j \in DOMAIN N, NEW k \in DOMAIN N, j <= k, N[j].txid = N[k].txid
      PROVE  N[j].confirmations <= N[k].confirmations
  <2>0. j \in Nat /\ k \in Nat
    BY <1>1
  <2>1. CASE OldNotice(j, j + d) /\ OldNotice(k, k + d)
    <3>1. j + d \in Notices /\ k + d \in Notices /\ j + d <= k + d
      BY <1>3, <2>0, <2>1 DEF OldNotice
    <3> QED
      BY <1>3, <2>1, <3>1 DEF OldNotice, ConfirmationsInv
  <2>2. CASE NewNotice(k)
    <3>1. N[k].confirmations = chain'[N[k].txid].confirmations
      BY <2>2 DEF NewNotice
    <3> QED
      BY <1>2, <1>3, <3>1
  <2>3. CASE NewNotice(j) /\ ~NewNotice(k)
    <3>1. k <= j
      BY <2>3 DEF NewNotice
    <3> QED
      BY <1>3, <2>0, <2>3, <3>1
  <2> QED
    BY <1>1, <2>1, <2>2, <2>3
<1>4. ASSUME NEW i \in DOMAIN direct', ~direct'[i].outgoing
      PROVE  /\ direct'[i].confirmations <= chain'[direct'[i].txid].confirmations
             /\ \A j \in DOMAIN N :
                  N[j].txid = direct'[i].txid => direct'[i].confirmations <= N[j].confirmations
  <2>0. direct'[i].confirmations \in Nat
    <3>1. direct' \in Seq(DirectRow)
      BY DirectKept
    <3>2. direct'[i] \in DirectRow
      BY <3>1, Elements
    <3> QED
      BY <3>2, WalletAssumption DEF DirectRow
  <2>1. CASE RowAsItWas(i)
    <3>1. /\ direct[i].txid \in DOMAIN chain
          /\ direct[i].confirmations <= chain[direct[i].txid].confirmations
          /\ \A k \in Notices :
               NoticeAt(k).txid = direct[i].txid => direct[i].confirmations <= NoticeAt(k).confirmations
      BY <2>1 DEF RowAsItWas, ConfirmationsInv, Inv, WalletInv, RowInv, OnChain
    <3>2. direct'[i].confirmations <= chain'[direct'[i].txid].confirmations
      BY <2>0, <2>1, <3>1, ChainConfirms DEF RowAsItWas
    <3>3. ASSUME NEW j \in DOMAIN N, N[j].txid = direct'[i].txid
          PROVE  direct'[i].confirmations <= N[j].confirmations
      <4>1. CASE OldNotice(j, j + d)
        BY <2>1, <3>1, <3>3, <4>1 DEF OldNotice, RowAsItWas
      <4>2. CASE NewNotice(j)
        BY <3>2, <3>3, <4>2 DEF NewNotice
      <4> QED
        BY <1>1, <4>1, <4>2
    <3> QED
      BY <3>2, <3>3
  <2>2. CASE RowAsNoticed(i)
    <3>1. 1 \in Notices /\ Msg("coin_received") = NoticeAt(1)
      BY <2>2, QueueTypes, Headed DEF RowAsNoticed, Msg, Notices, NoticeAt
    <3>2. direct'[i].confirmations <= chain'[direct'[i].txid].confirmations
      BY <2>2, <3>1, NoticeFacts DEF RowAsNoticed
    <3>3. ASSUME NEW j \in DOMAIN N, N[j].txid = direct'[i].txid
          PROVE  direct'[i].confirmations <= N[j].confirmations
      <4>1. j \in Notices /\ N[j] = NoticeAt(j) /\ 1 <= j
        BY <2>2, QueueTypes DEF RowAsNoticed, Notices, NoticeAt
      <4> QED
        BY <2>2, <3>1, <3>3, <4>1 DEF RowAsNoticed, ConfirmationsInv
    <3> QED
      BY <3>2, <3>3
  <2> QED
    BY <1>4, <2>1, <2>2, RowConfirmed
<1> QED
  BY <1>2, <1>3, <1>4 DEF ConfirmationsInv, Notices, NoticeAt, Rows

---------------------------------------------------------------------------
(* The parts of a balance *)

Total(s, I) == SumFunctionOnSet([i \in I |-> s[i].amount], I)

\* The rows that count for u and those that count against, in d and in t.
Credits(d, u) == {i \in DOMAIN d : d[i].user = u /\ ~d[i].outgoing /\ d[i].confirmations >= 1}
Debits(d, u) == {i \in DOMAIN d : d[i].user = u /\ d[i].outgoing}
Gained(t, u) == {i \in DOMAIN t : t[i].buyer = u}
Spent(t, u) == {i \in DOMAIN t : t[i].seller = u}

Sums(d, t, u) ==
  Start[u] + Total(d, Credits(d, u)) - Total(d, Debits(d, u))
           + Total(t, Gained(t, u)) - Total(t, Spent(t, u))

LEMMA BalanceSums ==
  ASSUME NEW u
  PROVE  /\ Balance(u) = Sums(direct, transfers, u)
         /\ Balance(u)' = Sums(direct', transfers', u)
BY DEF Balance, Sums, DirectSum, TransferSum, Total, Incoming, Outgoing, Credits, Debits, Gained, Spent

\* Rows with an amount.
Priced(S) == \A x \in S : x.amount \in Nat

LEMMA TotalNat ==
  ASSUME NEW S, Priced(S), NEW s \in Seq(S), NEW I \in SUBSET DOMAIN s
  PROVE  /\ IsFiniteSet(I)
         /\ NatOn([i \in I |-> s[i].amount], I)
         /\ Total(s, I) \in Nat
<1>1. DOMAIN s = 1 .. Len(s) /\ Len(s) \in Nat /\ \A i \in DOMAIN s : s[i].amount \in Nat
  BY Elements DEF Priced
<1>2. IsFiniteSet(I)
  <2>1. IsFiniteSet(1 .. Len(s))
    BY <1>1, FS_Interval
  <2>2. I \in SUBSET (1 .. Len(s))
    BY <1>1
  <2> QED
    BY <2>1, <2>2, FS_Subset
<1>3. NatOn([i \in I |-> s[i].amount], I)
  BY <1>1 DEF NatOn
<1> QED
  BY <1>2, <1>3, SumIsNat DEF Total

LEMMA TotalGrows ==
  ASSUME NEW S, Priced(S), NEW s \in Seq(S), NEW t \in Seq(S),
         NEW I \in SUBSET DOMAIN s, NEW J \in SUBSET DOMAIN t,
         I \subseteq J, \A i \in I : t[i].amount = s[i].amount
  PROVE  Total(s, I) <= Total(t, J)
<1> DEFINE f == [i \in I |-> s[i].amount]
           g == [i \in J |-> t[i].amount]
<1>1. NatOn(f, I) /\ NatOn(g, J) /\ IsFiniteSet(J)
  BY TotalNat
<1>2. \A i \in I : f[i] = g[i]
  OBVIOUS
<1> HIDE DEF f, g
<1>3. \A i \in I : f[i] <= g[i]
  BY <1>1, <1>2 DEF NatOn
<1>4. SumFunctionOnSet(f, I) <= SumFunctionOnSet(g, J)
  BY <1>1, <1>3, SumMonotone
<1> QED
  BY <1>4 DEF Total, f, g

LEMMA TotalSame ==
  ASSUME NEW S, Priced(S), NEW s \in Seq(S), NEW t \in Seq(S),
         NEW I \in SUBSET DOMAIN s, I \subseteq DOMAIN t, \A i \in I : t[i].amount = s[i].amount
  PROVE  Total(t, I) = Total(s, I)
<1>1. I \in SUBSET DOMAIN t /\ \A i \in I : s[i].amount = t[i].amount
  OBVIOUS
<1>2. Total(s, I) <= Total(t, I)
  BY <1>1, TotalGrows
<1>3. Total(t, I) <= Total(s, I)
  BY <1>1, TotalGrows
<1>4. Total(s, I) \in Nat /\ Total(t, I) \in Nat
  BY <1>1, TotalNat
<1> QED
  BY <1>2, <1>3, <1>4

LEMMA TotalAdds ==
  ASSUME NEW S, Priced(S), NEW s \in Seq(S), NEW t \in Seq(S),
         NEW I \in SUBSET DOMAIN s, NEW k \in DOMAIN t, k \notin I,
         I \subseteq DOMAIN t, \A i \in I : t[i].amount = s[i].amount
  PROVE  Total(t, I \union {k}) = Total(s, I) + t[k].amount
<1> DEFINE J == I \union {k}
           g == [i \in J |-> t[i].amount]
           h == [i \in I |-> t[i].amount]
<1>1. J \in SUBSET DOMAIN t /\ k \in J /\ J \ {k} = I
  OBVIOUS
<1>2. NatOn(g, J) /\ IsFiniteSet(J) /\ NatOn(h, I) /\ IsFiniteSet(I)
  BY <1>1, TotalNat
<1>3. g[k] = t[k].amount /\ \A i \in I : g[i] = h[i]
  OBVIOUS
<1> HIDE DEF g, h
<1>4. SumFunctionOnSet(g, J) = g[k] + SumFunctionOnSet(g, I)
  BY <1>1, <1>2, SumSplit
<1>5. SumFunctionOnSet(g, I) = SumFunctionOnSet(h, I)
  BY <1>2, <1>3, SumSame
<1>6. SumFunctionOnSet(h, I) = Total(s, I)
  BY TotalSame DEF Total, h
<1>7. t[k].amount \in Nat /\ Total(s, I) \in Nat
  BY TotalNat, Elements DEF Priced
<1>8. SumFunctionOnSet(g, J) = Total(s, I) + t[k].amount
  BY <1>3, <1>4, <1>5, <1>6, <1>7
<1> QED
  BY <1>8 DEF Total, g

TransferRow == [seller : Users, buyer : Users, amount : Amounts]

LEMMA RowsPriced == Priced(DirectRow) /\ Priced(TransferRow)
BY WalletAssumption DEF Priced, DirectRow, TransferRow

LEMMA SumsType ==
  ASSUME NEW d \in Seq(DirectRow), NEW t \in Seq(TransferRow), NEW u \in Users
  PROVE  /\ Sums(d, t, u) \in Int
         /\ Start[u] \in Nat
         /\ Total(d, Credits(d, u)) \in Nat
         /\ Total(d, Debits(d, u)) \in Nat
         /\ Total(t, Gained(t, u)) \in Nat
         /\ Total(t, Spent(t, u)) \in Nat
<1>1. /\ Credits(d, u) \in SUBSET DOMAIN d /\ Debits(d, u) \in SUBSET DOMAIN d
      /\ Gained(t, u) \in SUBSET DOMAIN t /\ Spent(t, u) \in SUBSET DOMAIN t
  BY DEF Credits, Debits, Gained, Spent
<1>2. /\ Total(d, Credits(d, u)) \in Nat /\ Total(d, Debits(d, u)) \in Nat
      /\ Total(t, Gained(t, u)) \in Nat /\ Total(t, Spent(t, u)) \in Nat
  BY <1>1, TotalNat, RowsPriced
<1>3. Start[u] \in Nat
  BY WalletAssumption
<1> QED
  BY <1>2, <1>3 DEF Sums

---------------------------------------------------------------------------
(* What the steps do to a balance *)

LEMMA Tables ==
  ASSUME Inv, [Next]_vars
  PROVE  /\ direct \in Seq(DirectRow) /\ direct' \in Seq(DirectRow)
         /\ transfers \in Seq(TransferRow) /\ transfers' \in Seq(TransferRow)
BY Types, DirectKept, TypeStep DEF TypeOK, TransferRow

\* A deposit keeps its confirmations: the notice being worked on is the oldest of those
\* left, and not behind the row.
LEMMA ConfirmationsKept ==
  ASSUME Inv, ConfirmationsInv, [Next]_vars, NEW i \in Rows, ~direct[i].outgoing
  PROVE  direct'[i].confirmations >= direct[i].confirmations
<1>1. direct[i].confirmations \in Nat
  BY RowType, WalletAssumption DEF DirectRow
<1>2. i \in DOMAIN direct' /\ ~direct'[i].outgoing /\ direct'[i].txid = direct[i].txid
  BY DirectKept DEF KeptRow
<1>3. CASE RowAsItWas(i)
  BY <1>1, <1>3 DEF RowAsItWas
<1>4. CASE RowAsNoticed(i)
  <2>1. 1 \in Notices /\ Msg("coin_received") = NoticeAt(1)
    BY <1>4, QueueTypes, Headed DEF RowAsNoticed, Msg, Notices, NoticeAt
  <2>2. direct[i].confirmations <= NoticeAt(1).confirmations
    BY <1>2, <1>4, <2>1 DEF RowAsNoticed, ConfirmationsInv
  <2>3. NoticeAt(1).confirmations \in Nat
    BY <2>1, NoticeFacts
  <2> QED
    BY <1>1, <1>4, <2>1, <2>2, <2>3 DEF RowAsNoticed
<1> QED
  BY <1>2, <1>3, <1>4, RowConfirmed

\* A deposit that counts goes on counting.
LEMMA CreditsKept ==
  ASSUME Inv, ConfirmationsInv, [Next]_vars, NEW u
  PROVE  /\ Credits(direct, u) \subseteq Credits(direct', u)
         /\ \A i \in Rows : i \in DOMAIN direct' /\ direct'[i].amount = direct[i].amount
         /\ Debits(direct, u) \subseteq Debits(direct', u)
<1>1. \A i \in Rows : KeptRow(i)
  BY DirectKept
<1>2. ASSUME NEW i \in Credits(direct, u)
      PROVE  i \in Credits(direct', u)
  <2>1. /\ i \in Rows /\ ~direct[i].outgoing /\ direct[i].user = u
        /\ direct[i].confirmations \in Nat /\ direct[i].confirmations >= 1
    BY RowType, WalletAssumption DEF Credits, Rows, DirectRow
  <2>2. i \in DOMAIN direct' /\ ~direct'[i].outgoing /\ direct'[i].user = u
    BY <1>1, <2>1 DEF KeptRow
  <2>3. direct'[i].confirmations >= direct[i].confirmations
    BY <2>1, ConfirmationsKept
  <2>4. direct'[i].confirmations \in Int
    <3>1. direct' \in Seq(DirectRow)
      BY DirectKept
    <3>2. direct'[i] \in DirectRow
      BY <2>2, <3>1, Elements
    <3> QED
      BY <3>2, WalletAssumption DEF DirectRow
  <2> QED
    BY <2>1, <2>2, <2>3, <2>4 DEF Credits
<1> QED
  BY <1>1, <1>2 DEF KeptRow, Debits, Rows

\* Unless a transfer is saved, nobody loses.
LEMMA NoLoss ==
  ASSUME Inv, ConfirmationsInv, [Next]_vars, NEW u \in Users,
         \A r \in Threads : ~ExternalSave(r) /\ ~InternalSave(r)
  PROVE  Balance(u) <= Balance(u)'
<1>1. transfers' = transfers
  BY TransferSteps
<1>2. Total(direct, Credits(direct, u)) <= Total(direct', Credits(direct', u))
  <2>1. Credits(direct, u) \in SUBSET DOMAIN direct /\ Credits(direct', u) \in SUBSET DOMAIN direct'
    BY DEF Credits
  <2> QED
    BY <2>1, CreditsKept, Tables, RowsPriced, TotalGrows DEF Rows
<1>3. Debits(direct', u) = Debits(direct, u)
  <2>1. ASSUME NEW i \in Debits(direct', u)
        PROVE  i \in Debits(direct, u)
    <3>1. i \in Rows
      <4>1. SUFFICES ASSUME ReceivedAdd, i \notin Rows
                     PROVE  FALSE
        BY RowsAdded DEF Debits
      <4>2. PICK row \in DirectRow : direct' = Append(direct, row) /\ ~row.outgoing
        BY <4>1, ReceivedAddRow
      <4>3. direct'[i] = row
        BY <4>1, <4>2, NewRow DEF Debits
      <4> QED
        BY <4>2, <4>3 DEF Debits
    <3>2. KeptRow(i)
      BY <3>1, DirectKept
    <3> QED
      BY <3>1, <3>2 DEF KeptRow, Debits, Rows
  <2> QED
    BY <2>1, CreditsKept
<1>4. Total(direct', Debits(direct', u)) = Total(direct, Debits(direct, u))
  <2>1. Debits(direct, u) \in SUBSET DOMAIN direct
    BY DEF Debits
  <2>2. Total(direct', Debits(direct, u)) = Total(direct, Debits(direct, u))
    BY <2>1, CreditsKept, Tables, RowsPriced, TotalSame DEF Rows
  <2> QED
    BY <1>3, <2>2
<1>5. /\ Start[u] \in Nat
      /\ Total(direct, Credits(direct, u)) \in Nat /\ Total(direct', Credits(direct', u)) \in Nat
      /\ Total(direct, Debits(direct, u)) \in Nat
      /\ Total(transfers, Gained(transfers, u)) \in Nat /\ Total(transfers, Spent(transfers, u)) \in Nat
  BY Tables, SumsType
<1> QED
  BY <1>1, <1>2, <1>4, <1>5, BalanceSums DEF Sums

\* What an external transfer takes, and from whom.
LEMMA ExternalLoss ==
  ASSUME Inv, ConfirmationsInv, [Next]_vars, NEW u \in Users, NEW r \in Threads, ExternalSave(r)
  PROVE  Balance(u)' >= Balance(u) - (IF req[r].user = u THEN req[r].amount ELSE 0)
<1> DEFINE k == Len(direct) + 1
<1>1. transfers' = transfers /\ req[r].amount \in Nat
  BY RequestAt, WalletAssumption DEF ExternalSave
<1>2. PICK row \in DirectRow : /\ direct' = Append(direct, row)
                               /\ row.outgoing
                               /\ row.amount = req[r].amount
                               /\ row.user = req[r].user
  <2> DEFINE new == [user |-> req[r].user, amount |-> req[r].amount, outgoing |-> TRUE,
                     txid |-> NoTx, confirmations |-> 0]
  <2>1. req[r].user \in Users /\ req[r].amount \in Amounts
    BY RequestAt DEF ExternalSave
  <2>2. new \in DirectRow
    BY <2>1, WalletAssumption DEF DirectRow, NoTx
  <2> QED
    BY <2>2 DEF ExternalSave
<1>3. /\ DOMAIN direct' = Rows \union {k} /\ k \notin Rows /\ direct'[k] = row
      /\ \A i \in Rows : direct'[i] = direct[i]
  BY <1>2, NewRow
<1>4. Total(direct, Credits(direct, u)) <= Total(direct', Credits(direct', u))
  <2>1. Credits(direct, u) \in SUBSET DOMAIN direct /\ Credits(direct', u) \in SUBSET DOMAIN direct'
    BY DEF Credits
  <2> QED
    BY <2>1, CreditsKept, Tables, RowsPriced, TotalGrows DEF Rows
<1> HIDE DEF k
<1>5. Debits(direct, u) \in SUBSET DOMAIN direct /\ Debits(direct, u) \subseteq DOMAIN direct'
      /\ k \in DOMAIN direct' /\ k \notin Debits(direct, u)
      /\ \A i \in Debits(direct, u) : direct'[i].amount = direct[i].amount
  BY <1>3 DEF Debits, Rows
<1>6. /\ Start[u] \in Nat
      /\ Total(direct, Credits(direct, u)) \in Nat /\ Total(direct', Credits(direct', u)) \in Nat
      /\ Total(direct, Debits(direct, u)) \in Nat
      /\ Total(transfers, Gained(transfers, u)) \in Nat /\ Total(transfers, Spent(transfers, u)) \in Nat
  BY Tables, SumsType
<1>7. CASE req[r].user = u
  <2>1. Debits(direct', u) = Debits(direct, u) \union {k}
    BY <1>2, <1>3, <1>7 DEF Debits, Rows
  <2>2. Total(direct', Debits(direct, u) \union {k}) = Total(direct, Debits(direct, u)) + direct'[k].amount
    <3> DEFINE D == Debits(direct, u)
    <3>1. /\ D \in SUBSET DOMAIN direct /\ D \subseteq DOMAIN direct'
          /\ k \in DOMAIN direct' /\ k \notin D
          /\ \A i \in D : direct'[i].amount = direct[i].amount
      BY <1>5
    <3> HIDE DEF D
    <3>2. direct \in Seq(DirectRow) /\ direct' \in Seq(DirectRow) /\ Priced(DirectRow)
      BY Tables, RowsPriced
    <3>3. Total(direct', D \union {k}) = Total(direct, D) + direct'[k].amount
      BY ONLY <3>1, <3>2, TotalAdds
    <3> QED
      BY <3>3 DEF D
  <2>3. Total(direct', Debits(direct', u)) = Total(direct, Debits(direct, u)) + req[r].amount
    BY <1>2, <1>3, <2>1, <2>2
  <2> QED
    BY <1>1, <1>4, <1>6, <1>7, <2>3, BalanceSums DEF Sums
<1>8. CASE req[r].user # u
  <2>1. Debits(direct', u) = Debits(direct, u)
    BY <1>2, <1>3, <1>8 DEF Debits, Rows
  <2>2. Total(direct', Debits(direct, u)) = Total(direct, Debits(direct, u))
    BY <1>5, Tables, RowsPriced, TotalSame
  <2>3. Total(direct', Debits(direct', u)) = Total(direct, Debits(direct, u))
    BY <2>1, <2>2
  <2> QED
    BY <1>1, <1>4, <1>6, <1>8, <2>3, BalanceSums DEF Sums
<1> QED
  BY <1>7, <1>8

\* What an internal transfer takes, and from whom: the buyer only gains.
LEMMA InternalLoss ==
  ASSUME Inv, [Next]_vars, NEW u \in Users, NEW r \in Threads, InternalSave(r)
  PROVE  Balance(u)' >= Balance(u) - (IF req[r].seller = u THEN req[r].amount ELSE 0)
<1> DEFINE k == Len(transfers) + 1
           row == [seller |-> req[r].seller, buyer |-> req[r].buyer, amount |-> req[r].amount]
<1>1. direct' = direct /\ req[r].amount \in Nat
  BY RequestAt, WalletAssumption DEF InternalSave
<1>2. /\ row \in TransferRow /\ transfers' = Append(transfers, row)
      /\ row.seller = req[r].seller /\ row.amount = req[r].amount
  BY RequestAt DEF InternalSave, TransferRow
<1> HIDE DEF row
<1>3. /\ DOMAIN transfers' = DOMAIN transfers \union {k} /\ k \notin DOMAIN transfers /\ transfers'[k] = row
      /\ \A i \in DOMAIN transfers : transfers'[i] = transfers[i]
  BY <1>2, Tables, Appended
<1>4. Total(transfers, Gained(transfers, u)) <= Total(transfers', Gained(transfers', u))
  <2>1. /\ Gained(transfers, u) \in SUBSET DOMAIN transfers
        /\ Gained(transfers', u) \in SUBSET DOMAIN transfers'
        /\ Gained(transfers, u) \subseteq Gained(transfers', u)
        /\ \A i \in Gained(transfers, u) : transfers'[i].amount = transfers[i].amount
    BY <1>3 DEF Gained
  <2> QED
    BY <2>1, Tables, RowsPriced, TotalGrows
<1>5. /\ Spent(transfers, u) \in SUBSET DOMAIN transfers /\ Spent(transfers, u) \subseteq DOMAIN transfers'
      /\ k \in DOMAIN transfers' /\ k \notin Spent(transfers, u)
      /\ \A i \in Spent(transfers, u) : transfers'[i].amount = transfers[i].amount
  BY <1>3 DEF Spent
<1>6. /\ Start[u] \in Nat
      /\ Total(direct, Credits(direct, u)) \in Nat /\ Total(direct, Debits(direct, u)) \in Nat
      /\ Total(transfers, Gained(transfers, u)) \in Nat /\ Total(transfers', Gained(transfers', u)) \in Nat
      /\ Total(transfers, Spent(transfers, u)) \in Nat
  BY Tables, SumsType
<1>7. CASE req[r].seller = u
  <2>1. Spent(transfers', u) = Spent(transfers, u) \union {k}
    BY <1>2, <1>3, <1>7 DEF Spent
  <2>2. Total(transfers', Spent(transfers, u) \union {k})
          = Total(transfers, Spent(transfers, u)) + transfers'[k].amount
    BY <1>5, Tables, RowsPriced, TotalAdds
  <2>3. Total(transfers', Spent(transfers', u)) = Total(transfers, Spent(transfers, u)) + req[r].amount
    BY <1>2, <1>3, <2>1, <2>2
  <2> QED
    BY <1>1, <1>4, <1>6, <1>7, <2>3, BalanceSums DEF Sums
<1>8. CASE req[r].seller # u
  <2>1. Spent(transfers', u) = Spent(transfers, u)
    BY <1>2, <1>3, <1>8 DEF Spent
  <2>2. Total(transfers', Spent(transfers, u)) = Total(transfers, Spent(transfers, u))
    BY <1>5, Tables, RowsPriced, TotalSame
  <2>3. Total(transfers', Spent(transfers', u)) = Total(transfers, Spent(transfers, u))
    BY <2>1, <2>2
  <2> QED
    BY <1>1, <1>4, <1>6, <1>8, <2>3, BalanceSums DEF Sums
<1> QED
  BY <1>7, <1>8

LEMMA ConfirmationsInit ==
  ASSUME Init
  PROVE  ConfirmationsInv
<1>1. queue["coin_received"] = <<>>
  BY DEF Init, In, Out
<1> QED
  BY <1>1 DEF Init, ConfirmationsInv, Notices, Rows

\* A deposit keeps the confirmations it has, whichever notices are given again and
\* whatever stops: for any number of users, threads, transactions and confirmations.
THEOREM DepositsStayConfirmed == Spec => ConfirmationsStay
<1>1. Init => Inv /\ ConfirmationsInv
  BY InvInit, ConfirmationsInit
<1>2. (Inv /\ ConfirmationsInv) /\ [Next]_vars => (Inv /\ ConfirmationsInv)'
  BY InvNext, ConfirmationsStep
<1>3. (Inv /\ ConfirmationsInv) /\ [Next]_vars =>
        [\A i \in Rows : ~direct[i].outgoing => direct'[i].confirmations >= direct[i].confirmations]_vars
  BY ConfirmationsKept
<1> QED
  BY <1>1, <1>2, <1>3, PTL DEF Spec, ConfirmationsStay

---------------------------------------------------------------------------
(* One request at a time *)

SaneInv == Inv /\ ConfirmationsInv /\ FoundInv /\ NoOverdraft

OneThread == \A r, s \in Threads : r = s

LEMMA BalanceType ==
  ASSUME Inv, [Next]_vars, NEW u \in Users
  PROVE  Balance(u) \in Int /\ Balance(u)' \in Int
BY Tables, SumsType, BalanceSums

\* A request that waits to save has just found the coins, or found them before and waits
\* still.
LEMMA Waiting ==
  ASSUME Inv, [Next]_vars, OneThread, NEW r \in Threads
  PROVE  /\ req'[r].pc = "internalSave" =>
              \/ \E u, v \in Users, x \in Amounts : InternalRequest(r, u, v, x)
              \/ At(r, "internalSave") /\ req'[r] = req[r] /\ ~InternalSave(r) /\ ~ExternalSave(r)
         /\ req'[r].pc = "externalSave" =>
              \/ \E u \in Users, x \in Amounts, a \in Shown \union {Elsewhere} : ExternalRequest(r, u, a, x)
              \/ At(r, "externalSave") /\ req'[r] = req[r] /\ ~InternalSave(r) /\ ~ExternalSave(r)
<1>0. DOMAIN req = Threads
  BY DEF Inv, TypeOK
<1>1. CASE InternalSave(r) \/ StopRequest(r) \/ AskAddress(r)
  <2>1. req'[r] = Idle
    BY <1>0, <1>1 DEF InternalSave, StopRequest, AskAddress, Go
  <2> QED
    BY <2>1 DEF Idle
<1>2. CASE ExternalSave(r) \/ SendCoin(r)
  <2>1. req[r] \in [pc : {"externalSave", "sendCoin", "askAddress"}, user : Users,
                    address : Nat, amount : Amounts, row : Nat]
    BY <1>2, RequestAt DEF ExternalSave, SendCoin
  <2>2. req'[r].pc \in {"sendCoin", "askAddress"}
    BY <1>0, <1>2, <2>1 DEF ExternalSave, SendCoin, Go
  <2> QED
    BY <2>2
<1>3. ASSUME NEW u \in Users, NEW v \in Users, NEW x \in Amounts, InternalRequest(r, u, v, x)
      PROVE  req'[r].pc = "internalSave"
  BY <1>0, <1>3 DEF InternalRequest, Go
<1>4. ASSUME NEW u \in Users, NEW x \in Amounts, NEW a \in Shown \union {Elsewhere},
             ExternalRequest(r, u, a, x)
      PROVE  req'[r].pc = "externalSave"
  BY <1>0, <1>4 DEF ExternalRequest, Go
<1>5. CASE req' = req /\ ~InternalSave(r) /\ ~ExternalSave(r)
  BY <1>5 DEF At
<1>6. req' = req \/ RequestSteps(r)
  BY ReqSteps DEF OneThread
<1> QED
  BY <1>1, <1>2, <1>3, <1>4, <1>5, <1>6 DEF RequestSteps, Proceed

LEMMA FoundStep ==
  ASSUME SaneInv, [Next]_vars, OneThread
  PROVE  FoundInv'
<1> DEFINE After(u) == Sums(direct', transfers', u)
<1> SUFFICES ASSUME NEW r \in Threads
             PROVE  /\ req'[r].pc = "internalSave" => After(req'[r].seller) >= req'[r].amount
                    /\ req'[r].pc = "externalSave" => After(req'[r].user) >= req'[r].amount
  BY DEF FoundInv, At, Balance, DirectSum, TransferSum, Incoming, Outgoing,
         Sums, Total, Credits, Debits, Gained, Spent
<1>0. \A u \in Users : After(u) \in Int /\ Balance(u) \in Int
  BY Tables, SumsType, BalanceSums DEF SaneInv
<1> HIDE DEF After
<1>1. ASSUME NEW u \in Users, NEW v \in Users, NEW x \in Amounts, InternalRequest(r, u, v, x)
      PROVE  req'[r].seller = u /\ req'[r].amount = x /\ req'[r].pc = "internalSave" /\ After(u) >= x
  <2>1. req'[r] = [pc |-> "internalSave", seller |-> u, buyer |-> v, amount |-> x]
    BY <1>1 DEF InternalRequest, Go, SaneInv, Inv, TypeOK
  <2>2. Balance(u) > x /\ direct' = direct /\ transfers' = transfers
    BY <1>1 DEF InternalRequest, CanDoTransfer, tables
  <2>3. After(u) = Balance(u)
    BY <2>2, BalanceSums DEF After
  <2> QED
    BY <2>1, <2>2, <2>3, <1>0, WalletAssumption
<1>2. ASSUME NEW u \in Users, NEW x \in Amounts, NEW a \in Shown \union {Elsewhere},
             ExternalRequest(r, u, a, x)
      PROVE  req'[r].user = u /\ req'[r].amount = x /\ req'[r].pc = "externalSave" /\ After(u) >= x
  <2>1. req'[r] = [pc |-> "externalSave", user |-> u, address |-> a, amount |-> x, row |-> 0]
    BY <1>2 DEF ExternalRequest, Go, SaneInv, Inv, TypeOK
  <2>2. Balance(u) > x /\ direct' = direct /\ transfers' = transfers
    BY <1>2 DEF ExternalRequest, CanDoTransfer, tables
  <2>3. After(u) = Balance(u)
    BY <2>2, BalanceSums DEF After
  <2> QED
    BY <2>1, <2>2, <2>3, <1>0, WalletAssumption
<1>3. ASSUME ~InternalSave(r) /\ ~ExternalSave(r), NEW u \in Users
      PROVE  Balance(u) <= After(u)
  BY <1>3, NoLoss, BalanceSums DEF OneThread, SaneInv, After
<1>4. ASSUME At(r, "internalSave"), req'[r] = req[r], ~InternalSave(r) /\ ~ExternalSave(r)
      PROVE  After(req'[r].seller) >= req'[r].amount
  <2>1. PICK u \in Users : u = req[r].seller /\ req[r].amount \in Nat
    BY <1>4, RequestAt, WalletAssumption DEF SaneInv
  <2>2. Balance(u) >= req[r].amount
    BY <1>4, <2>1 DEF SaneInv, FoundInv
  <2>3. After(u) >= req[r].amount
    BY <1>3, <1>4, <2>1, <2>2, <1>0
  <2> QED
    BY <1>4, <2>1, <2>3
<1>5. ASSUME At(r, "externalSave"), req'[r] = req[r], ~InternalSave(r) /\ ~ExternalSave(r)
      PROVE  After(req'[r].user) >= req'[r].amount
  <2>1. PICK u \in Users : u = req[r].user /\ req[r].amount \in Nat
    BY <1>5, RequestAt, WalletAssumption DEF SaneInv
  <2>2. Balance(u) >= req[r].amount
    BY <1>5, <2>1 DEF SaneInv, FoundInv
  <2>3. After(u) >= req[r].amount
    BY <1>3, <1>5, <2>1, <2>2, <1>0
  <2> QED
    BY <1>5, <2>1, <2>3
<1> QED
  BY <1>1, <1>2, <1>4, <1>5, Waiting DEF SaneInv

LEMMA OverdraftStep ==
  ASSUME SaneInv, [Next]_vars
  PROVE  NoOverdraft'
<1> SUFFICES ASSUME NEW u \in Users
             PROVE  Balance(u)' >= 0
  BY DEF NoOverdraft
<1>0. Balance(u) \in Int /\ Balance(u)' \in Int /\ Balance(u) >= 0
  BY BalanceType DEF SaneInv, NoOverdraft
<1>1. ASSUME NEW r \in Threads, ExternalSave(r)
      PROVE  Balance(u)' >= 0
  <2>1. req[r].amount \in Nat /\ Balance(req[r].user) >= req[r].amount
    BY <1>1, RequestAt, WalletAssumption DEF ExternalSave, SaneInv, FoundInv
  <2>2. Balance(u)' >= Balance(u) - (IF req[r].user = u THEN req[r].amount ELSE 0)
    BY <1>1, ExternalLoss DEF SaneInv
  <2> QED
    BY <1>0, <2>1, <2>2
<1>2. ASSUME NEW r \in Threads, InternalSave(r)
      PROVE  Balance(u)' >= 0
  <2>1. req[r].amount \in Nat /\ Balance(req[r].seller) >= req[r].amount
    BY <1>2, RequestAt, WalletAssumption DEF InternalSave, SaneInv, FoundInv
  <2>2. Balance(u)' >= Balance(u) - (IF req[r].seller = u THEN req[r].amount ELSE 0)
    BY <1>2, InternalLoss DEF SaneInv
  <2> QED
    BY <1>0, <2>1, <2>2
<1>3. ASSUME \A r \in Threads : ~ExternalSave(r) /\ ~InternalSave(r)
      PROVE  Balance(u)' >= 0
  <2>1. Balance(u) <= Balance(u)'
    BY <1>3, NoLoss DEF SaneInv
  <2> QED
    BY <1>0, <2>1
<1> QED
  BY <1>1, <1>2, <1>3

LEMMA SaneInit ==
  ASSUME Init
  PROVE  SaneInv
<1>1. Inv
  BY InvInit
<1>3. ConfirmationsInv
  BY ConfirmationsInit
<1>4. FoundInv
  BY DEF Init, FoundInv, At, Idle
<1>5. ASSUME NEW u \in Users
      PROVE  Balance(u) >= 0
  <2>1. direct = <<>> /\ transfers = <<>>
    BY DEF Init
  <2>2. /\ Credits(direct, u) = {} /\ Debits(direct, u) = {}
        /\ Gained(transfers, u) = {} /\ Spent(transfers, u) = {}
    BY <2>1 DEF Credits, Debits, Gained, Spent
  <2>3. /\ Total(direct, Credits(direct, u)) = 0 /\ Total(direct, Debits(direct, u)) = 0
        /\ Total(transfers, Gained(transfers, u)) = 0 /\ Total(transfers, Spent(transfers, u)) = 0
    BY <2>2, SumOfNone DEF Total
  <2>4. Start[u] \in Nat
    BY WalletAssumption
  <2> QED
    BY <2>3, <2>4, BalanceSums DEF Sums
<1> QED
  BY <1>1, <1>3, <1>4, <1>5 DEF SaneInv, NoOverdraft

\* While requests are served one at a time, transfers leave nobody below zero: whatever
\* the consumers do meanwhile, whatever stops and whichever notices come again, because
\* a deposit that was confirmed stays so and a request saves no more than it has found.
THEOREM NobodyBelowZero ==
  ASSUME \A r, s \in Threads : r = s
  PROVE  Spec => []NoOverdraft
<1>1. Init => SaneInv
  BY SaneInit
<1>2. SaneInv /\ [Next]_vars => SaneInv'
  <2> SUFFICES ASSUME SaneInv, [Next]_vars
               PROVE  SaneInv'
    OBVIOUS
  <2> QED
    BY InvNext, ConfirmationsStep, FoundStep, OverdraftStep DEF SaneInv, OneThread
<1>3. SaneInv => NoOverdraft
  BY DEF SaneInv
<1> QED
  BY <1>1, <1>2, <1>3, PTL DEF Spec
=============================================================================
