-------------------------- MODULE TradeProperties --------------------------
(***************************************************************************)
(* What is claimed of TradeRequests.  The first group holds when requests  *)
(* come one at a time, the second whatever their interleaving; the last    *)
(* states what messages and comments of the program say and TLC refutes.   *)
(***************************************************************************)
EXTENDS TradeRequests

Pcs == {"process", "unescrow", "releaseFind", "releaseSave",
        "escrowFind", "escrowSave", "adSave", "save"}

Working(w) == w.pc \in Pcs
On(r, t) == Working(req[r]) /\ req[r].trade = t

WorkOK(w, table) ==
  /\ DOMAIN w = {"pc", "op", "user", "trade", "was", "copy", "rows", "ad", "hit", "row"}
  /\ w.op \in Ops
  /\ w.user \in Users
  /\ w.trade \in Trades
  /\ w.was \in Statuses
  /\ w.copy \in TradeRow
  /\ DOMAIN w.rows \subseteq DOMAIN table[w.trade]
  /\ \A i \in DOMAIN w.rows : w.rows[i] \in EscrowRow
  /\ w.ad \in AdRow
  /\ w.row \in EscrowRow
  /\ w.hit \in DOMAIN table[w.trade] \union {0}
  /\ w.pc = "releaseSave" => w.hit # 0

Editing(w) == w \in [pc : {"editSave"}, adId : Ads, ad : AdRow]

\* A user on the way back, with both lists.
Saving(w) == w.pc = "userSave"

UserOK(w, table) ==
  /\ DOMAIN w = {"pc", "user", "ads", "trades", "rows"}
  /\ w.user \in Users
  /\ w.ads \in [AdvertiseList(w.user) -> AdRow]
  /\ w.trades \in [TradeList(w.user) -> TradeRow]
  /\ DOMAIN w.rows = TradeList(w.user)
  /\ \A t \in TradeList(w.user) :
       w.rows[t] \in Seq(EscrowRow) /\ DOMAIN w.rows[t] \subseteq DOMAIN table[t]

RequestOK(w, table) ==
  \/ w = Idle
  \/ Editing(w)
  \/ Saving(w) /\ UserOK(w, table)
  \/ Working(w) /\ WorkOK(w, table)

\* The types of the tables and of the requests.  A request only knows escrow rows
\* that exist: rows are added and never deleted.
TypeOK ==
  /\ trade \in [Trades -> TradeRow]
  /\ escrow \in [Trades -> Seq(EscrowRow)]
  /\ ad \in [Ads -> AdRow]
  /\ now \in 0 .. MaxTime
  /\ seen \in [Trades -> SUBSET Statuses]
  /\ DOMAIN req = Threads
  /\ \A r \in Threads : RequestOK(req[r], escrow)

---------------------------------------------------------------------------
(* One request at a time *)

Paid(t) == \E i \in DOMAIN escrow[t] : escrow[t][i].amount # 0 /\ escrow[t][i].released
Locked(t) == \E i \in DOMAIN escrow[t] : escrow[t][i].amount # 0

MoneyOf(t) == IF Paid(t) THEN "paid" ELSE IF Locked(t) THEN "locked" ELSE "free"

Contract ==
  INSTANCE EscrowContract WITH
    status <- [t \in Trades |-> trade[t].status],
    money <- [t \in Trades |-> MoneyOf(t)]

\* Requests that come one at a time implement the contract of the escrow, even when
\* they stop between two of their transactions: status and coins move together.
KeepsContract == Contract!Spec

\* The amounts are right too: a trade has one row, with the coins and the commission of
\* the trade or nothing, however often an attempt stopped half way is made again.
OneRowOfTheTrade ==
  \A t \in Trades :
    /\ Len(escrow[t]) <= 1
    /\ \A i \in DOMAIN escrow[t] :
         \/ escrow[t][i].amount = Coins[t] /\ escrow[t][i].fee = Fee[t]
         \/ escrow[t][i].amount = 0 /\ escrow[t][i].fee = 0

\* Locking the coins of trade t makes up more than its price was checked with: the owner
\* of the advertisement has raised the rate since the trade was created.
LockedAbovePrice(t) ==
  /\ escrow[t] = <<>>
  /\ escrow'[t] # <<>>
  /\ Coins[t] + Balance(Seller[t])' > Cost[t][ad[AdOf[t]].terms]

\* Cancelling trade t takes back coins a release left half way had paid.
TakenBack(t) ==
  /\ Paid(t)
  /\ trade[t].status = "BITCOIN_ESCROWED"
  /\ trade'[t].status = "CANCELLED"

\* Nobody's balance falls below zero but in two ways: the seller's, by less than the
\* coins his trade locks exceed the price processEscrow checked (present rate against
\* the btcAmount of the creation), and the buyer's, when a trade is cancelled after a
\* release of it stopped half way.
NoOtherOverdraft ==
  [][\A u \in Users :
       Balance(u)' < Balance(u) /\ Balance(u)' < 0 =>
         \/ \E t \in Sold(u) : LockedAbovePrice(t)
         \/ \E t \in Bought(u) : TakenBack(t)]_vars

\* processEscrow hides an advertisement its owner can no longer serve: when a trade
\* becomes escrowed, the minimum of the advertisement is left to the seller once the
\* trade is paid at its present price, or the advertisement is hidden.  (Where the
\* rate was raised that is more than his balance is left with: the row locks Coins.)
HiddenWhenShort ==
  [][\A t \in Trades :
       trade[t].status = "INPROCESS" /\ trade'[t].status = "BITCOIN_ESCROWED" =>
         LET a == ad'[AdOf[t]] IN
         \/ a.hidden
         \/ MinCoins[AdOf[t]][a.terms] + Cost[t][a.terms] <= Balance(Seller[t])' + Coins[t]]_vars

---------------------------------------------------------------------------
(* What the proofs of the first group rest on *)

\* Requests come one at a time, and the database answers.
Serial ==
  /\ \A r, s \in Threads : r = s
  /\ "dbError" \notin Faults

Full(t) == [amount |-> Coins[t], fee |-> Fee[t], released |-> FALSE]
Paying(t) == [amount |-> Coins[t], fee |-> Fee[t], released |-> TRUE]
Emptied(row) == [row EXCEPT !.amount = 0, !.fee = 0]

\* The rows of a trade that has one, and of a trade that was cancelled.
Funded(t) == {<<Full(t)>>, <<Paying(t)>>}
GivenBack(t) == {<<Emptied(Full(t))>>, <<Emptied(Paying(t))>>}

\* The rows a trade may have in each status.
Fit(t, status, rows) ==
  \/ status = "INPROCESS" /\ rows \in Funded(t) \union {<<>>}
  \/ status \in {"BITCOIN_ESCROWED", "PAYMENT_SENT"} /\ rows \in Funded(t)
  \/ status = "COMPLETED" /\ rows = <<Paying(t)>>
  \/ status = "CANCELLED" /\ rows \in GivenBack(t)

\* A request that saves the copy will leave the rows that fit the status it saves.
LeavesFit(w, rows) ==
  LET t == w.trade
      saved == Overlay(w.rows, rows) IN
  /\ rows \in Funded(t)
  /\ \/ w.copy.status \in {"BITCOIN_ESCROWED", "PAYMENT_SENT"} /\ saved = rows
     \/ w.copy.status = "CANCELLED" /\ saved = <<Emptied(rows[1])>>
     \/ w.copy.status = "COMPLETED" /\ rows = <<Paying(t)>> /\ saved = rows

\* What a request has loaded of its trade is still there.
Fresh(w, status, rows) ==
  /\ w.was = status
  /\ w.pc \notin {"adSave", "save"} => w.rows = rows
  /\ w.pc \in {"process", "escrowFind"} => w.hit = 0 /\ w.row = NoRow
  /\ w.pc = "releaseSave" => w.hit = 1 /\ w.row = rows[1]
  /\ w.pc = "escrowSave" =>
       IF rows = <<>> THEN w.hit = 0 /\ w.row = NoRow ELSE w.hit = 1 /\ w.row = rows[1]
  /\ w.pc \in {"adSave", "save"} => LeavesFit(w, rows)

\* A user on the way back carries what is there.
FreshUser(w) ==
  /\ \A a \in AdvertiseList(w.user) : w.ads[a] = ad[a]
  /\ \A t \in TradeList(w.user) : w.trades[t] = trade[t] /\ w.rows[t] = escrow[t]

SerialInv ==
  /\ \A t \in Trades :
       Fit(t, trade[t].status, escrow[t])
  /\ \A r \in Threads :
       /\ Working(req[r]) => Fresh(req[r], trade[req[r].trade].status, escrow[req[r].trade])
       /\ Saving(req[r]) => FreshUser(req[r])

\* What the seller has left once the trade has its row.
Remains(t) ==
  Balance(Seller[t]) - (IF escrow[t] = <<>> THEN Coins[t] + Fee[t] ELSE 0)

Price(w) == Cost[w.trade][w.ad.terms]

Serves(w) ==
  \/ w.ad.hidden
  \/ MinCoins[AdOf[w.trade]][w.ad.terms] + Price(w) <= Remains(w.trade) + Coins[w.trade]

\* A request that is escrowing a trade has found its price, and has hidden the
\* advertisement where those were the last coins.
Escrowing(w) ==
  w.pc \in {"escrowFind", "escrowSave", "adSave", "save"} /\ w.copy.status = "BITCOIN_ESCROWED" =>
    Serves(w) /\ (w.pc = "save" => ad[AdOf[w.trade]] = w.ad)

Covered(w) ==
  /\ w.pc \in {"process", "escrowFind", "escrowSave"} => w.ad.terms = ad[AdOf[w.trade]].terms
  /\ w.pc \in {"escrowFind", "escrowSave"} => Remains(w.trade) + Coins[w.trade] > Price(w)

BalanceInv ==
  \A r \in Threads : Working(req[r]) => Escrowing(req[r]) /\ Covered(req[r])

---------------------------------------------------------------------------
(* Any interleaving *)

\* Whatever the interleaving, a status is only ever written that the trade has had, or
\* that follows from one it has had; and until the trade has been cancelled its coins
\* are locked before they are paid, are not given back, and are paid when COMPLETED is
\* written anew.
KeepsHistory == Contract!HistorySpec

\* The parties are told that the coins are escrowed, or the trade completed, only after
\* a row was committed; and no row loses its coins before the trade was cancelled, nor
\* has it ever other than the coins of the trade.
RowsBeforeStatus ==
  \A t \in Trades :
    /\ {"BITCOIN_ESCROWED", "COMPLETED"} \intersect seen[t] # {} => escrow[t] # <<>>
    /\ \A i \in DOMAIN escrow[t] :
         escrow[t][i].amount = Coins[t] \/ (escrow[t][i].amount = 0 /\ "CANCELLED" \in seen[t])

\* escrowBitcoins looks for a row before it adds one, so only requests that overlap
\* can add a second: there are never more rows than requests at a time.
RowsBounded == \A t \in Trades : Len(escrow[t]) <= Cardinality(Threads)

\* What a request carries of the trade, its status and the amounts of its rows, is
\* what the database holds.
UpToDate(w) ==
  /\ w.was = trade[w.trade].status
  /\ DOMAIN w.rows = DOMAIN escrow[w.trade]
  /\ \A i \in DOMAIN w.rows : w.rows[i].amount = escrow[w.trade][i].amount
  /\ w.pc = "releaseSave" => w.row.amount = escrow[w.trade][w.hit].amount

\* The same of the copy of trade t that a user on the way back carries.
Carries(r, t) == Saving(req[r]) /\ t \in TradeList(req[r].user)

CopyUpToDate(w, t) ==
  /\ w.trades[t].status = trade[t].status
  /\ DOMAIN w.rows[t] = DOMAIN escrow[t]
  /\ \A i \in DOMAIN w.rows[t] : w.rows[t][i].amount = escrow[t][i].amount

\* A trade is settled when it is final and no request still running has loaded it
\* before that.
Settled(t) ==
  /\ trade[t].status \in {"COMPLETED", "CANCELLED"}
  /\ \A r \in Threads : On(r, t) => UpToDate(req[r])
  /\ \A r \in Threads : Carries(r, t) => CopyUpToDate(req[r], t)

\* The one row of the trade is credited, and no user on the way back has it uncredited.
Credited(t) ==
  /\ Len(escrow[t]) = 1
  /\ escrow[t][1].released
  /\ \A r \in Threads : Carries(r, t) => req[r].rows[t][1].released

\* A settled trade stays as it is, whatever is asked for later from pages still
\* open: its status does not change, no row is emptied or filled, and the credit of
\* the buyer is not taken back (where overlapping attempts left two rows, it can be).
SettledForGood ==
  [][\A t \in Trades :
       Settled(t) =>
         /\ Settled(t)'
         /\ trade'[t].status = trade[t].status
         /\ Len(escrow'[t]) = Len(escrow[t])
         /\ \A i \in DOMAIN escrow[t] : escrow'[t][i].amount = escrow[t][i].amount
         /\ Credited(t) => Credited(t)']_vars

---------------------------------------------------------------------------
(* What the proofs of the second group rest on *)

\* How far a request has got tells what it found and what it is about to write.
Progress(w) ==
  /\ w.was \in seen[w.trade] \ {"CANCELLED"}
  /\ w.pc = "process" => w.copy.status = w.was
  /\ w.pc \in {"escrowFind", "escrowSave", "adSave"} =>
       w.was = "INPROCESS" /\ w.copy.status = "BITCOIN_ESCROWED"
  /\ w.pc = "unescrow" => w.was = "BITCOIN_ESCROWED" /\ w.copy.status = "CANCELLED"
  /\ w.pc \in {"releaseFind", "releaseSave"} =>
       w.op = "bitcoinreleased" /\ w.copy.status = "COMPLETED"
  /\ w.pc = "save" =>
       \/ w.was = "INPROCESS" /\ w.copy.status = "BITCOIN_ESCROWED"
       \/ w.was = "BITCOIN_ESCROWED" /\ w.copy.status \in {"PAYMENT_SENT", "CANCELLED"}
       \/ /\ w.op = "bitcoinreleased" /\ w.copy.status = "COMPLETED"
          /\ \E i \in DOMAIN w.rows : w.rows[i].released

\* A request that goes on to write that the coins are escrowed has found or added a row.
RowFirst(w) ==
  w.pc \in {"adSave", "save"} /\ w.copy.status = "BITCOIN_ESCROWED" => escrow[w.trade] # <<>>

HistoryInv ==
  /\ \A t \in Trades :
       /\ trade[t].status \in seen[t]
       /\ "BITCOIN_RELEASED" \notin seen[t]
       /\ "BITCOIN_ESCROWED" \in seen[t] => escrow[t] # <<>>
  /\ \A r \in Threads : Working(req[r]) => Progress(req[r]) /\ RowFirst(req[r])

\* A user on the way back carries statuses the trades have had.
CopiesInv ==
  \A r \in Threads :
    Saving(req[r]) => \A t \in TradeList(req[r].user) : req[r].trades[t].status \in seen[t]

\* A row holds the coins of its trade, or nothing once the trade has been cancelled.
Holds(t, past, row) == row.amount = Coins[t] \/ (row.amount = 0 /\ "CANCELLED" \in past)
HoldAll(t, past, rows) == \A i \in DOMAIN rows : Holds(t, past, rows[i])

\* What a request carries; the rows it is about to save, as of the status it saves.
Carried(w, past) ==
  /\ HoldAll(w.trade, IF w.pc = "save" THEN past \union {w.copy.status} ELSE past, w.rows)
  /\ w.hit # 0 => Holds(w.trade, past, w.row)

CoinsInv ==
  /\ \A t \in Trades :
       /\ HoldAll(t, seen[t], escrow[t])
       /\ "COMPLETED" \in seen[t] => escrow[t] # <<>>
  /\ \A r \in Threads : Working(req[r]) => Carried(req[r], seen[req[r].trade])
  /\ \A r \in Threads :
       Saving(req[r]) => \A t \in TradeList(req[r].user) : HoldAll(t, seen[t], req[r].rows[t])

---------------------------------------------------------------------------
(* What the program says of itself *)

\* "Error changing trade status. Try again later": the seller whose coins were locked
\* by an attempt that failed half way has the balance for another attempt.
RetryIsCovered ==
  \A r \in Threads :
    /\ Processing(r, "bitcoinescrowed")
    /\ req[r].copy.status = "INPROCESS"
    /\ req[r].user = Seller[req[r].trade]
    /\ Locked(req[r].trade)
    => Left(req[r], Balance(req[r].user)) > 0

===========================================================================
