--------------------------- MODULE TradeRequests ---------------------------
(***************************************************************************)
(* The requests that move a trade: TradeController.tradeStatusChange with  *)
(* TradeProcess, and the escrow half of ServiceUtil.                       *)
(*                                                                         *)
(* Every call to a service is a database transaction of its own, and what  *)
(* it returns is a detached copy.  A request is therefore a sequence of    *)
(* steps, one per transaction: it loads the trade, decides on that copy,   *)
(* works on the escrow rows, and at the end writes the whole copy back,    *)
(* the escrow rows it carries included (Trade.escrowSet cascades).  Steps  *)
(* of different requests interleave, and a request may stop between two.   *)
(*                                                                         *)
(* Every page reports that its user is active, and every message saves its *)
(* sender: both load the user with advertisements and trades, and write    *)
(* the whole graph back (User.advertiseList and tradeList cascade too).    *)
(***************************************************************************)
EXTENDS Integers, Sequences, FiniteSetsExt

CONSTANTS
  Users, Trades, Ads,
  Threads,       \* the servlet threads: as many requests at a time
  Buyer, Seller, \* the parties of each trade
  AdOf,          \* the advertisement each trade answers
  Owner,         \* who placed each advertisement
  BuyAds,        \* the advertisements that buy coins
  Terms,         \* what the owner may set the rate and the limits of an advertisement to
  FirstTerms,
  Cost,          \* Cost[t][x]: amount / btcRate of trade t under terms x, in coins
  MinCoins,      \* MinCoins[a][x]: the minimum limit of advertisement a under x, in coins
  MaxCoins,      \* MaxCoins[a][x]: its maximum limit and the commission on it, in coins
  Coins,         \* btcAmount of each trade
  Fee,           \* commission on the trade's btcAmount
  Funds,         \* per user: deposits and transfers, in minus out
  Timeout,       \* minutes until the seller may cancel
  MaxTime,       \* bound of the clock
  Active,        \* the users whose pages report them as active, or who send messages
  Faults         \* "crash": a request stops between two transactions;
                 \* "dbError": a transaction inside ServiceUtil fails

Ops == {"bitcoinescrowed", "sendpayment", "bitcoinreleased", "bitcoinreceived", "cancel"}

ASSUME PartiesAssumption ==
  /\ Buyer \in [Trades -> Users]
  /\ Seller \in [Trades -> Users]
  /\ \A t \in Trades : Buyer[t] # Seller[t]
  /\ AdOf \in [Trades -> Ads]
  /\ Owner \in [Ads -> Users]
  /\ BuyAds \subseteq Ads

ASSUME AmountsAssumption ==
  /\ FirstTerms \in [Ads -> Terms]
  /\ Cost \in [Trades -> [Terms -> Nat]]
  /\ MinCoins \in [Ads -> [Terms -> Nat]]
  /\ MaxCoins \in [Ads -> [Terms -> Nat]]
  /\ Coins \in [Trades -> Nat \ {0}]
  /\ Fee \in [Trades -> Nat]
  /\ Funds \in [Users -> Int]

ASSUME EnvironmentAssumption ==
  /\ Timeout \in Nat
  /\ MaxTime \in Nat
  /\ Active \subseteq Users
  /\ Faults \subseteq {"crash", "dbError"}

VARIABLES
  trade,    \* trade_master: status and time of escrow
  escrow,   \* bitcoin_escrow: the rows of each trade
  ad,       \* advertise: terms and the hidden flag
  req,      \* what each thread is doing
  now,
  seen      \* history: every status the trade has had

db == <<trade, escrow, ad>>
vars == <<db, req, now, seen>>

Statuses ==
  {"INPROCESS", "BITCOIN_ESCROWED", "PAYMENT_SENT", "BITCOIN_RELEASED", "COMPLETED", "CANCELLED"}

NoTime == -1

TradeRow == [status : Statuses, escrowTime : Int]
EscrowRow == [amount : Nat, fee : Nat, released : BOOLEAN]
AdRow == [terms : Terms, hidden : BOOLEAN]

NoRow == [amount |-> 0, fee |-> 0, released |-> FALSE]

Idle == [pc |-> "idle"]

---------------------------------------------------------------------------
(* The ledger that ServiceUtil sums from the rows *)

Amounts(t, I) == SumFunctionOnSet([i \in I |-> escrow[t][i].amount], I)
Fees(t, I) == SumFunctionOnSet([i \in I |-> escrow[t][i].fee], I)
Released(t) == {i \in DOMAIN escrow[t] : escrow[t][i].released}
Held(t) == {i \in DOMAIN escrow[t] : ~escrow[t][i].released}

Bought(u) == {t \in Trades : Buyer[t] = u}
Sold(u) == {t \in Trades : Seller[t] = u}

ReleasedCoins == [t \in Trades |-> Amounts(t, Released(t))]
HeldCoins == [t \in Trades |-> Amounts(t, Held(t))]
HeldFees == [t \in Trades |-> Fees(t, Held(t))]

Balance(u) ==
  Funds[u] + SumFunctionOnSet(ReleasedCoins, Bought(u))
           - SumFunctionOnSet(ReleasedCoins, Sold(u))
           - SumFunctionOnSet(HeldCoins, Sold(u))
           - SumFunctionOnSet(HeldFees, Sold(u))

\* What getCurrentUserBalance may answer: a failed query makes it answer 0.
BalanceRead(u) == {Balance(u)} \union (IF "dbError" \in Faults THEN {0} ELSE {})

\* Without a time of escrow no minutes have been spent.
SpentMinutes(row) == IF row.escrowTime = NoTime THEN 0 ELSE now - row.escrowTime

\* Mutant: the timeout runs from the creation of the trade.
MayCancelUnescrowed(row) == now > Timeout /\ row.status \in {"INPROCESS", "BITCOIN_ESCROWED"}

SellerMayCancel(row) ==
  /\ SpentMinutes(row) > Timeout
  /\ row.status = "BITCOIN_ESCROWED"

---------------------------------------------------------------------------
(* Requests *)

At(r, pc) == req[r].pc = pc
Go(r, work) == req' = [req EXCEPT ![r] = work]
Finish(r) == Go(r, Idle)

Tick ==
  /\ now < MaxTime
  /\ now' = now + 1
  /\ UNCHANGED <<db, req, seen>>

\* The detached copies a request works on.
Load(u, t, op) ==
  [pc |-> "process", op |-> op, user |-> u, trade |-> t,
   was |-> trade[t].status, copy |-> trade[t], rows |-> escrow[t],
   ad |-> ad[AdOf[t]], hit |-> 0, row |-> NoRow]

\* Mutant: cancelled trades are not turned away.
RequestAnyTrade(r, u, t, op) ==
  /\ At(r, "idle")
  /\ Go(r, Load(u, t, op))
  /\ UNCHANGED <<db, now, seen>>

\* tradeStatusChange up to the switch: load the trade, with its escrow rows and
\* its advertisement, and return at once if it is cancelled.  It is a plain GET: any
\* user may ask for any operation at any time, whatever buttons his pages show.
Request(r, u, t, op) ==
  /\ At(r, "idle")
  /\ trade[t].status # "CANCELLED"
  /\ Go(r, Load(u, t, op))
  /\ UNCHANGED <<db, now, seen>>

Processing(r, op) == At(r, "process") /\ req[r].op = op

\* The copy takes a new status, and the request goes on at pc.
Set(r, s, pc) == Go(r, [req[r] EXCEPT !.copy.status = s, !.pc = pc])

\* Mutant: the buyer's payment takes the status of the disabled "paymentreceived".
SendPaymentReceived(r) ==
  /\ Processing(r, "sendpayment")
  /\ Set(r, "PAYMENT_RECEIVED", "save")
  /\ UNCHANGED <<db, now, seen>>

SendPayment(r) ==
  LET w == req[r] IN
  /\ Processing(r, "sendpayment")
  /\ IF w.copy.status = "BITCOIN_ESCROWED" /\ w.user = Buyer[w.trade]
       THEN Set(r, "PAYMENT_SENT", "save")
       ELSE Finish(r)
  /\ UNCHANGED <<db, now, seen>>

BitcoinReceived(r) ==
  LET w == req[r] IN
  /\ Processing(r, "bitcoinreceived")
  /\ IF w.copy.status = "BITCOIN_RELEASED" /\ w.user = Buyer[w.trade]
       THEN Set(r, "COMPLETED", "save")
       ELSE Finish(r)
  /\ UNCHANGED <<db, now, seen>>

\* Mutant: cancelling leaves the escrow rows alone.
CancelStatusOnly(r) ==
  /\ Processing(r, "cancel")
  /\ Set(r, "CANCELLED", "save")
  /\ UNCHANGED <<db, now, seen>>

Cancel(r) ==
  LET w == req[r] IN
  /\ Processing(r, "cancel")
  /\ IF \/ w.copy.status = "BITCOIN_ESCROWED" /\ w.user = Buyer[w.trade]
        \/ w.user = Seller[w.trade] /\ SellerMayCancel(w.copy)
       THEN Set(r, "CANCELLED", "unescrow")
       ELSE Finish(r)
  /\ UNCHANGED <<db, now, seen>>

\* Some row of the trade; no query states an order.
Hits(t) == DOMAIN escrow[t]

\* The rows the copy carries become the one row found, emptied; saving the
\* copy is what will write it.  A failed query leaves them as they were.
UnEscrow(r) ==
  LET w == req[r] IN
  /\ At(r, "unescrow")
  /\ \/ \E i \in Hits(w.trade) :
          Go(r, [w EXCEPT !.rows = [j \in {i} |-> [escrow[w.trade][j] EXCEPT !.amount = 0, !.fee = 0]],
                          !.pc = "save"])
     \/ /\ Hits(w.trade) = {} \/ "dbError" \in Faults
        /\ Go(r, [w EXCEPT !.pc = "save"])
  /\ UNCHANGED <<db, now, seen>>

\* Only the balance decides: neither the status nor the user is asked for.
BitcoinReleased(r) ==
  LET w == req[r] IN
  /\ Processing(r, "bitcoinreleased")
  /\ \E b \in BalanceRead(w.user) :
       IF b + Cost[w.trade][w.ad.terms] > 0
         THEN Set(r, "COMPLETED", "releaseFind")
         ELSE Finish(r)
  /\ UNCHANGED <<db, now, seen>>

\* tradeStatusChange marks one row of its own copy released; without one it fails.
MarkReleased(r, w) ==
  IF DOMAIN w.rows = {}
    THEN Finish(r)
    ELSE \E i \in DOMAIN w.rows : Go(r, [w EXCEPT !.rows[i].released = TRUE, !.pc = "save"])

ReleaseFind(r) ==
  LET w == req[r] IN
  /\ At(r, "releaseFind")
  /\ \/ \E i \in Hits(w.trade) :
          Go(r, [w EXCEPT !.hit = i, !.row = escrow[w.trade][i], !.pc = "releaseSave"])
     \/ /\ Hits(w.trade) = {} \/ "dbError" \in Faults
        /\ MarkReleased(r, w)
  /\ UNCHANGED <<db, now, seen>>

\* The answer of releaseBitcoins is not looked at: a failure goes on like a success.
ReleaseSave(r) ==
  LET w == req[r] IN
  /\ At(r, "releaseSave")
  /\ \/ escrow' = [escrow EXCEPT ![w.trade][w.hit] = [w.row EXCEPT !.released = TRUE]]
     \/ "dbError" \in Faults /\ UNCHANGED escrow
  /\ MarkReleased(r, w)
  /\ UNCHANGED <<trade, ad, now, seen>>

\* Mutant: only the commission is deducted.
LeftWithoutTrade(w, balance) == balance - Fee[w.trade]

\* What the seller has left after the trade, as processEscrow computes it.
Left(w, balance) == balance - Cost[w.trade][w.ad.terms] - Fee[w.trade]

Escrow(r) ==
  LET w == req[r] IN
  /\ Processing(r, "bitcoinescrowed")
  /\ IF w.copy.status = "INPROCESS" /\ w.user = Seller[w.trade]
       THEN \E b \in BalanceRead(w.user) :
              IF Left(w, b) > 0
                THEN Go(r, [w EXCEPT
                       !.copy = [status |-> "BITCOIN_ESCROWED", escrowTime |-> now],
                       !.ad.hidden = @ \/ MinCoins[AdOf[w.trade]][w.ad.terms] > Left(w, b),
                       !.pc = "escrowFind"])
                ELSE Finish(r)
       ELSE Finish(r)
  /\ UNCHANGED <<db, now, seen>>

\* Mutant: escrowBitcoins does not look for a row.
EscrowFindNothing(r) ==
  /\ At(r, "escrowFind")
  /\ Go(r, [req[r] EXCEPT !.pc = "escrowSave"])
  /\ UNCHANGED <<db, now, seen>>

EscrowFind(r) ==
  LET w == req[r] IN
  /\ At(r, "escrowFind")
  /\ \/ \E i \in Hits(w.trade) :
          Go(r, [w EXCEPT !.hit = i, !.row = escrow[w.trade][i], !.pc = "escrowSave"])
     \/ Hits(w.trade) = {} /\ Go(r, [w EXCEPT !.pc = "escrowSave"])
     \/ "dbError" \in Faults /\ Finish(r)
  /\ UNCHANGED <<db, now, seen>>

\* The row for trade t, new or found, takes the trade's amounts.
Fund(t, row) == [row EXCEPT !.amount = Coins[t], !.fee = Fee[t]]

EscrowSave(r) ==
  LET w == req[r] IN
  /\ At(r, "escrowSave")
  /\ \/ /\ escrow' = IF w.hit = 0
                       THEN [escrow EXCEPT ![w.trade] = Append(@, Fund(w.trade, NoRow))]
                       ELSE [escrow EXCEPT ![w.trade][w.hit] = Fund(w.trade, w.row)]
        /\ Go(r, [w EXCEPT !.pc = "adSave"])
     \/ "dbError" \in Faults /\ UNCHANGED escrow /\ Finish(r)
  /\ UNCHANGED <<trade, ad, now, seen>>

\* Mutant: the hidden flag is set on the copy and never written.
AdNotSaved(r) ==
  /\ At(r, "adSave")
  /\ Go(r, [req[r] EXCEPT !.pc = "save"])
  /\ UNCHANGED <<db, now, seen>>

AdSave(r) ==
  LET w == req[r] IN
  /\ At(r, "adSave")
  /\ ad' = [ad EXCEPT ![AdOf[w.trade]] = w.ad]
  /\ Go(r, [w EXCEPT !.pc = "save"])
  /\ UNCHANGED <<trade, escrow, now, seen>>

\* Rows of f where it has them, the others as they are in rows.
Overlay(f, rows) == [i \in DOMAIN rows |-> IF i \in DOMAIN f THEN f[i] ELSE rows[i]]

\* tradeService.saveOrUpdate(trade): every column of the copy, and its escrow rows.
Save(r) ==
  LET w == req[r] IN
  /\ At(r, "save")
  /\ trade' = [trade EXCEPT ![w.trade] = w.copy]
  /\ escrow' = [escrow EXCEPT ![w.trade] = Overlay(w.rows, @)]
  /\ seen' = [seen EXCEPT ![w.trade] = @ \union {w.copy.status}]
  /\ Finish(r)
  /\ UNCHANGED <<ad, now>>

\* inlineAdvertiseEdit by the owner: load the advertisement, write it back with new
\* terms when isAdvertiseAllowed finds the balance to serve them.
EditRequest(r, a, x) ==
  /\ At(r, "idle")
  /\ x # ad[a].terms
  /\ Go(r, [pc |-> "editSave", adId |-> a, ad |-> [ad[a] EXCEPT !.terms = x]])
  /\ UNCHANGED <<db, now, seen>>

IsAdvertiseAllowed(a, x, balance) == a \in BuyAds \/ balance >= MaxCoins[a][x]

EditSave(r) ==
  LET w == req[r] IN
  /\ At(r, "editSave")
  /\ \E b \in BalanceRead(Owner[w.adId]) :
       IF IsAdvertiseAllowed(w.adId, w.ad.terms, b)
         THEN ad' = [ad EXCEPT ![w.adId] = w.ad]
         ELSE UNCHANGED ad
  /\ Finish(r)
  /\ UNCHANGED <<trade, escrow, now, seen>>

\* The trades a user's tradeList holds: those on the user's advertisements.
TradeList(u) == {t \in Trades : Owner[AdOf[t]] = u}
AdvertiseList(u) == {a \in Ads : Owner[a] = u}

\* getUserFromUsernameOrEmail, for the ping of a page or for a message: the user is
\* loaded with both lists.
LoadUser(r, u) ==
  /\ At(r, "idle")
  /\ Go(r, [pc |-> "userSave", user |-> u,
            ads |-> [a \in AdvertiseList(u) |-> ad[a]],
            trades |-> [t \in TradeList(u) |-> trade[t]],
            rows |-> [t \in TradeList(u) |-> escrow[t]]])
  /\ UNCHANGED <<db, now, seen>>

\* Mutant: rows added since the user was loaded are taken for orphans.
SaveUserOrphans(r) ==
  LET w == req[r] IN
  /\ At(r, "userSave")
  /\ ad' = Overlay(w.ads, ad)
  /\ trade' = Overlay(w.trades, trade)
  /\ escrow' = [t \in Trades |-> IF t \in DOMAIN w.rows THEN w.rows[t] ELSE escrow[t]]
  /\ seen' = [t \in Trades |-> seen[t] \union {trade'[t].status}]
  /\ Finish(r)
  /\ UNCHANGED <<now>>

\* userService.saveOrUpdate(user): every row of the lists, as it was loaded.
SaveUser(r) ==
  LET w == req[r] IN
  /\ At(r, "userSave")
  /\ ad' = Overlay(w.ads, ad)
  /\ trade' = Overlay(w.trades, trade)
  /\ escrow' = [t \in Trades |->
                  IF t \in DOMAIN w.rows THEN Overlay(w.rows[t], escrow[t]) ELSE escrow[t]]
  /\ seen' = [t \in Trades |-> seen[t] \union {trade'[t].status}]
  /\ Finish(r)
  /\ UNCHANGED <<now>>

\* An exception or a restart between two transactions: what is committed stays.
Crash(r) ==
  /\ "crash" \in Faults
  /\ ~At(r, "idle")
  /\ Finish(r)
  /\ UNCHANGED <<db, now, seen>>

---------------------------------------------------------------------------

Init ==
  /\ trade = [t \in Trades |-> [status |-> "INPROCESS", escrowTime |-> NoTime]]
  /\ escrow = [t \in Trades |-> <<>>]
  /\ ad = [a \in Ads |-> [terms |-> FirstTerms[a], hidden |-> FALSE]]
  /\ req = [r \in Threads |-> Idle]
  /\ now = 0
  /\ seen = [t \in Trades |-> {"INPROCESS"}]

Step(r) ==
  \/ SendPayment(r) \/ BitcoinReceived(r)
  \/ Cancel(r) \/ UnEscrow(r)
  \/ BitcoinReleased(r) \/ ReleaseFind(r) \/ ReleaseSave(r)
  \/ Escrow(r) \/ EscrowFind(r) \/ EscrowSave(r) \/ AdSave(r)
  \/ Save(r) \/ EditSave(r) \/ SaveUser(r) \/ Crash(r)

Next ==
  \/ Tick
  \/ \E r \in Threads :
       \/ \E u \in Users, t \in Trades, op \in Ops : Request(r, u, t, op)
       \/ \E a \in Ads, x \in Terms : EditRequest(r, a, x)
       \/ \E u \in Active : LoadUser(r, u)
       \/ Step(r)

Spec == Init /\ [][Next]_vars

===========================================================================
