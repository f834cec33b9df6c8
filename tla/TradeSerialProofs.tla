------------------------- MODULE TradeSerialProofs -------------------------
(***************************************************************************)
(* What holds of TradeRequests when requests come one at a time, for any   *)
(* users, trades, advertisements and amounts, whatever request stops       *)
(* where: the contract of the escrow is kept, a trade has one row with its *)
(* amounts, nobody is overdrawn but by a rate raised since the creation or *)
(* a release left half way, and an advertisement whose owner is short at   *)
(* its present rate is hidden.                                             *)
(***************************************************************************)
EXTENDS TradeProofs, SumProofs

---------------------------------------------------------------------------
(* Rows *)

\* A sequence of one row.
LEMMA OneRow ==
  ASSUME NEW x
  PROVE  DOMAIN <<x>> = {1} /\ <<x>>[1] = x /\ <<x>> # << >>
OBVIOUS

LEMMA IsOneRow ==
  ASSUME NEW s, NEW x, s = [i \in {1} |-> x]
  PROVE  s = <<x>>
OBVIOUS

\* Saving rows that have not changed, or none, leaves them as they are.
LEMMA OverlaySame ==
  ASSUME NEW x
  PROVE  /\ Overlay(<<x>>, <<x>>) = <<x>>
         /\ Overlay(<< >>, <<x>>) = <<x>>
BY DEF Overlay

LEMMA OverlayOne ==
  ASSUME NEW x, NEW y
  PROVE  Overlay([i \in {1} |-> y], <<x>>) = <<y>>
BY DEF Overlay

LEMMA OverlayItself ==
  ASSUME NEW s, s = [i \in DOMAIN s |-> s[i]]
  PROVE  Overlay(s, s) = s
BY DEF Overlay

LEMMA SameRow ==
  ASSUME NEW a \in EscrowRow, NEW b \in EscrowRow,
         a.amount = b.amount, a.fee = b.fee, a.released = b.released
  PROVE  a = b
BY DEF EscrowRow

LEMMA ReleasedRow ==
  ASSUME NEW a \in EscrowRow
  PROVE  LET b == [a EXCEPT !.released = TRUE] IN
         b \in EscrowRow /\ b.amount = a.amount /\ b.fee = a.fee /\ b.released
BY DEF EscrowRow

LEMMA EmptiedRow ==
  ASSUME NEW a \in EscrowRow
  PROVE  LET b == [a EXCEPT !.amount = 0, !.fee = 0] IN
         b \in EscrowRow /\ b.amount = 0 /\ b.fee = 0 /\ b.released = a.released
BY DEF EscrowRow

LEMMA FundedRow ==
  ASSUME NEW t \in Trades, NEW a \in EscrowRow
  PROVE  /\ Fund(t, a) \in EscrowRow
         /\ Fund(t, a).amount = Coins[t] /\ Fund(t, a).fee = Fee[t]
         /\ Fund(t, a).released = a.released
BY AmountsAssumption DEF Fund, EscrowRow

LEMMA RowAmounts ==
  ASSUME NEW t \in Trades
  PROVE  /\ Full(t) \in EscrowRow
         /\ Paying(t) \in EscrowRow
         /\ Full(t) # Paying(t) /\ Full(t) # NoRow /\ Paying(t) # NoRow
         /\ [Full(t) EXCEPT !.released = TRUE] = Paying(t)
         /\ [Paying(t) EXCEPT !.released = TRUE] = Paying(t)
         /\ Fund(t, NoRow) = Full(t)
         /\ Fund(t, Full(t)) = Full(t)
         /\ Fund(t, Paying(t)) = Paying(t)
<1>1. Coins[t] \in Nat \ {0} /\ Fee[t] \in Nat
  BY AmountsAssumption
<1>2. Full(t) \in EscrowRow /\ Paying(t) \in EscrowRow
  BY <1>1 DEF Full, Paying, EscrowRow
<1>3. Full(t) # Paying(t) /\ NoRow \in EscrowRow
  BY DEF Full, Paying, NoRow, EscrowRow
<1>4. Full(t) # NoRow /\ Paying(t) # NoRow
  BY <1>1 DEF Full, Paying, NoRow
<1>5. /\ [Full(t) EXCEPT !.released = TRUE] = Paying(t)
      /\ [Paying(t) EXCEPT !.released = TRUE] = Paying(t)
  <2>1. /\ Full(t).amount = Paying(t).amount /\ Full(t).fee = Paying(t).fee
        /\ Paying(t).released = TRUE
    BY DEF Full, Paying
  <2> QED BY <1>2, <2>1, ReleasedRow, SameRow
<1>6. Fund(t, NoRow) = Full(t) /\ Fund(t, Full(t)) = Full(t)
  <2>1. /\ Full(t).amount = Coins[t] /\ Full(t).fee = Fee[t]
        /\ Full(t).released = NoRow.released
    BY DEF Full, NoRow
  <2> QED BY <1>2, <1>3, <2>1, FundedRow, SameRow
<1>7. Fund(t, Paying(t)) = Paying(t)
  <2>1. Paying(t).amount = Coins[t] /\ Paying(t).fee = Fee[t]
    BY DEF Paying
  <2> QED BY <1>2, <2>1, FundedRow, SameRow
<1> QED
  BY <1>2, <1>3, <1>4, <1>5, <1>6, <1>7

\* A row that is emptied keeps its flag.
LEMMA EmptiedAmounts ==
  ASSUME NEW t \in Trades, NEW x \in {Full(t), Paying(t)}
  PROVE  /\ [x EXCEPT !.amount = 0, !.fee = 0] = Emptied(x)
         /\ Emptied(x) \in EscrowRow
         /\ Emptied(x).amount = 0 /\ Emptied(x).fee = 0
         /\ Emptied(x).released = x.released
BY RowAmounts, EmptiedRow DEF Emptied

\* A trade with rows that fit has one.
LEMMA FundedOne ==
  ASSUME NEW t \in Trades, NEW rows \in Funded(t)
  PROVE  /\ rows # << >> /\ DOMAIN rows = {1} /\ rows[1] \in {Full(t), Paying(t)}
         /\ rows = <<rows[1]>>
BY OneRow DEF Funded

---------------------------------------------------------------------------
(* One request at a time *)

\* The request moves on to w, and the rows of every trade fit its status.
LEMMA SerialStep ==
  ASSUME Serial, TypeOK, NEW r \in Threads, NEW w, Go(r, w),
         \A t \in Trades : Fit(t, trade'[t].status, escrow'[t]),
         Working(w) => Fresh(w, trade'[w.trade].status, escrow'[w.trade]),
         ~Saving(w)
  PROVE  SerialInv'
<1>1. ASSUME NEW q \in Threads
      PROVE  req'[q] = w
  BY DEF Serial, Go, TypeOK
<1> QED
  BY <1>1 DEF SerialInv, Working, Saving

\* The same where the tables stay as they are.
LEMMA SerialLocal ==
  ASSUME Serial, TypeOK, SerialInv, NEW r \in Threads, NEW w, Go(r, w),
         UNCHANGED <<trade, escrow>>,
         Working(w) => Fresh(w, trade[w.trade].status, escrow[w.trade]),
         ~Saving(w)
  PROVE  SerialInv'
BY SerialStep DEF SerialInv

LEMMA SerialIdle == ~Working(Idle) /\ ~Saving(Idle)
BY DEF Working, Saving, Idle, Pcs

\* What a request that is at work knows.
LEMMA SerialAt ==
  ASSUME TypeOK, HistoryInv, SerialInv, NEW r \in Threads, req[r].pc \in Pcs
  PROVE  LET w == req[r] IN
         /\ WorkOK(w, escrow)
         /\ Working(w) /\ ~Saving(w)
         /\ w.trade \in Trades
         /\ Progress(w)
         /\ Fresh(w, trade[w.trade].status, escrow[w.trade])
         /\ Fit(w.trade, trade[w.trade].status, escrow[w.trade])
         /\ w.was # "BITCOIN_RELEASED"
BY WorkingOK DEF WorkOK, Working, Saving, HistoryInv, Progress, SerialInv, Pcs

LEMMA RequestSerial ==
  ASSUME Serial, TypeOK, SerialInv, NEW r \in Threads, NEW u \in Users, NEW t \in Trades,
         NEW op \in Ops, Request(r, u, t, op)
  PROVE  SerialInv'
<1> DEFINE w == Load(u, t, op)
<1>1. Fresh(w, trade[w.trade].status, escrow[w.trade]) /\ ~Saving(w)
  BY DEF Fresh, Load, Saving
<1> QED
  BY <1>1, SerialLocal DEF Request, db

\* sendPayment, cancel and bitcoinReceived decide from the status and the user.
LEMMA DecisionSerial ==
  ASSUME Serial, TypeOK, HistoryInv, SerialInv, NEW r \in Threads,
         SendPayment(r) \/ BitcoinReceived(r) \/ Cancel(r) \/ BitcoinReleased(r)
  PROVE  SerialInv'
<1> DEFINE w == req[r]
           t == w.trade
           v(s, pc) == [w EXCEPT !.copy.status = s, !.pc = pc]
<1>1. /\ WorkOK(w, escrow) /\ w.pc = "process" /\ t \in Trades
      /\ w.copy.status = w.was /\ w.was # "BITCOIN_RELEASED"
      /\ Fresh(w, trade[t].status, escrow[t])
      /\ Fit(t, trade[t].status, escrow[t])
  BY SerialAt DEF SendPayment, BitcoinReceived, Cancel, BitcoinReleased, Processing, At, Pcs, Progress
<1>2. UNCHANGED <<trade, escrow>>
  BY DEF SendPayment, BitcoinReceived, Cancel, BitcoinReleased, db
<1>3. CASE Finish(r)
  BY <1>2, <1>3, SerialLocal, SerialIdle DEF Finish
<1>4. CASE SendPayment(r) /\ ~Finish(r)
  <2>1. Go(r, v("PAYMENT_SENT", "save")) /\ trade[t].status = "BITCOIN_ESCROWED"
    BY <1>1, <1>4 DEF SendPayment, Set, Fresh
  <2>2. /\ v("PAYMENT_SENT", "save").copy.status = "PAYMENT_SENT"
        /\ v("PAYMENT_SENT", "save").pc = "save"
        /\ v("PAYMENT_SENT", "save").trade = t /\ v("PAYMENT_SENT", "save").rows = w.rows
        /\ v("PAYMENT_SENT", "save").was = w.was /\ v("PAYMENT_SENT", "save").op = w.op
    BY <1>1 DEF WorkOK, TradeRow
  <2>3. w.rows = escrow[t] /\ escrow[t] \in Funded(t)
    BY <1>1, <2>1 DEF Fresh, Fit
  <2>4. Overlay(escrow[t], escrow[t]) = escrow[t]
    BY <1>1, <2>3, FundedOne, OverlaySame
  <2> HIDE DEF v
  <2>5. LeavesFit(v("PAYMENT_SENT", "save"), escrow[t])
    BY <2>2, <2>3, <2>4 DEF LeavesFit
  <2>6. Fresh(v("PAYMENT_SENT", "save"), trade[t].status, escrow[t]) /\ ~Saving(v("PAYMENT_SENT", "save"))
    BY <1>1, <2>2, <2>5 DEF Fresh, Saving
  <2> QED
    BY <1>2, <2>1, <2>2, <2>6, SerialLocal
<1>5. CASE Cancel(r) /\ ~Finish(r)
  <2>1. Go(r, v("CANCELLED", "unescrow"))
    BY <1>1, <1>5 DEF Cancel, Set
  <2>2. /\ v("CANCELLED", "unescrow").pc = "unescrow"
        /\ v("CANCELLED", "unescrow").trade = t /\ v("CANCELLED", "unescrow").rows = w.rows
        /\ v("CANCELLED", "unescrow").was = w.was /\ v("CANCELLED", "unescrow").op = w.op
    BY <1>1 DEF WorkOK, TradeRow
  <2>3. Fresh(v("CANCELLED", "unescrow"), trade[t].status, escrow[t]) /\ ~Saving(v("CANCELLED", "unescrow"))
    BY <1>1, <2>2 DEF Fresh, Saving
  <2> QED
    BY <1>2, <2>1, <2>2, <2>3, SerialLocal
<1>6. CASE BitcoinReleased(r) /\ ~Finish(r)
  <2>1. Go(r, v("COMPLETED", "releaseFind"))
    BY <1>6 DEF BitcoinReleased, Set
  <2>2. /\ v("COMPLETED", "releaseFind").pc = "releaseFind"
        /\ v("COMPLETED", "releaseFind").trade = t /\ v("COMPLETED", "releaseFind").rows = w.rows
        /\ v("COMPLETED", "releaseFind").was = w.was /\ v("COMPLETED", "releaseFind").op = w.op
    BY <1>1 DEF WorkOK, TradeRow
  <2>3. Fresh(v("COMPLETED", "releaseFind"), trade[t].status, escrow[t]) /\ ~Saving(v("COMPLETED", "releaseFind"))
    BY <1>1, <2>2 DEF Fresh, Saving
  <2> QED
    BY <1>2, <2>1, <2>2, <2>3, SerialLocal
<1>7. CASE BitcoinReceived(r)
  BY <1>1, <1>3, <1>7 DEF BitcoinReceived
<1> QED
  BY <1>3, <1>4, <1>5, <1>6, <1>7

\* unEscrow empties the one row on the copy.
LEMMA UnEscrowSerial ==
  ASSUME Serial, TypeOK, HistoryInv, SerialInv, NEW r \in Threads, UnEscrow(r)
  PROVE  SerialInv'
<1> DEFINE w == req[r]
           t == w.trade
           rows == [j \in {1} |-> Emptied(escrow[t][1])]
           v == [w EXCEPT !.rows = rows, !.pc = "save"]
<1>1. /\ WorkOK(w, escrow) /\ w.pc = "unescrow" /\ t \in Trades
      /\ w.was = "BITCOIN_ESCROWED" /\ w.copy.status = "CANCELLED"
      /\ Fresh(w, trade[t].status, escrow[t])
      /\ escrow[t] \in Funded(t)
  BY SerialAt DEF UnEscrow, At, Pcs, Progress, Fresh, Fit
<1>2. escrow[t] = <<escrow[t][1]>> /\ Hits(t) = {1}
  BY <1>1, FundedOne DEF Hits
<1>3. Go(r, [w EXCEPT !.rows = [j \in {1} |-> [escrow[t][j] EXCEPT !.amount = 0, !.fee = 0]], !.pc = "save"])
  BY <1>2 DEF UnEscrow, Serial
<1>4. [j \in {1} |-> [escrow[t][j] EXCEPT !.amount = 0, !.fee = 0]] = rows
  BY DEF Emptied
<1>5. Go(r, v)
  BY <1>3, <1>4
<1>6. /\ v.pc = "save" /\ v.rows = rows /\ v.trade = t /\ v.was = w.was /\ v.op = w.op
      /\ v.copy = w.copy
  BY <1>1 DEF WorkOK
<1>7. LeavesFit(v, escrow[t])
  <2>1. Overlay(rows, escrow[t]) = <<Emptied(escrow[t][1])>>
    BY <1>2, OverlayOne
  <2> HIDE DEF rows, v
  <2> QED BY <1>1, <1>6, <2>1 DEF LeavesFit
<1>8. Fresh(v, trade[t].status, escrow[t]) /\ ~Saving(v)
  <2> HIDE DEF rows, v
  <2> QED BY <1>1, <1>6, <1>7 DEF Fresh, Saving
<1>9. UNCHANGED <<trade, escrow>>
  BY DEF UnEscrow, db
<1> HIDE DEF v
<1> QED
  BY <1>5, <1>6, <1>8, <1>9, SerialLocal

\* tradeStatusChange marks the one row of the copy released.
LEMMA MarkReleasedSerial ==
  ASSUME TypeOK, NEW r \in Threads, NEW w, WorkOK(w, escrow),
         w.copy.status = "COMPLETED", w.rows \in Funded(w.trade), MarkReleased(r, w)
  PROVE  \E v : /\ Go(r, v)
               /\ ~Saving(v)
               /\ v.trade = w.trade
               /\ Fresh(v, w.was, <<Paying(w.trade)>>)
<1> DEFINE t == w.trade
           v == [w EXCEPT !.rows[1].released = TRUE, !.pc = "save"]
<1>1. t \in Trades
  BY DEF WorkOK
<1>2. DOMAIN w.rows = {1} /\ w.rows[1] \in {Full(t), Paying(t)}
  BY <1>1, FundedOne
<1>3. Go(r, v)
  BY <1>2 DEF MarkReleased
<1>4. v.pc = "save" /\ v.trade = t /\ v.was = w.was /\ v.op = w.op /\ v.copy = w.copy
  BY DEF WorkOK
<1>5. v.rows = [w.rows EXCEPT ![1].released = TRUE]
  BY DEF WorkOK
<1>6. v.rows = <<Paying(t)>>
  <2>1. [w.rows[1] EXCEPT !.released = TRUE] = Paying(t)
    BY <1>1, <1>2, RowAmounts
  <2>2. v.rows = [i \in {1} |-> Paying(t)]
    BY <1>2, <1>5, <2>1
  <2> QED BY <2>2, IsOneRow
<1> HIDE DEF v
<1>7. LeavesFit(v, <<Paying(t)>>)
  BY <1>4, <1>6, OverlaySame DEF LeavesFit, Funded
<1>8. Fresh(v, w.was, <<Paying(t)>>) /\ ~Saving(v)
  BY <1>4, <1>7 DEF Fresh, Saving
<1> QED
  BY <1>3, <1>4, <1>8

LEMMA ReleaseFindSerial ==
  ASSUME Serial, TypeOK, HistoryInv, SerialInv, NEW r \in Threads, ReleaseFind(r)
  PROVE  SerialInv'
<1> DEFINE w == req[r]
           t == w.trade
           v == [w EXCEPT !.hit = 1, !.row = escrow[t][1], !.pc = "releaseSave"]
<1>1. /\ WorkOK(w, escrow) /\ w.pc = "releaseFind" /\ t \in Trades
      /\ Fresh(w, trade[t].status, escrow[t]) /\ Fit(t, trade[t].status, escrow[t])
      /\ w.was # "CANCELLED"
  BY SerialAt DEF ReleaseFind, At, Pcs, Progress
<1>2. UNCHANGED <<trade, escrow>>
  BY DEF ReleaseFind, db
<1>3. escrow[t] = << >> \/ escrow[t] \in Funded(t)
  BY <1>1 DEF Fresh, Fit, Funded
<1>4. CASE escrow[t] = << >>
  <2>1. Hits(t) = {} /\ DOMAIN w.rows = {}
    BY <1>1, <1>4 DEF Hits, Fresh
  <2>2. Finish(r)
    BY <2>1 DEF ReleaseFind, MarkReleased
  <2> QED
    BY <1>2, <2>2, SerialIdle, SerialLocal DEF Finish
<1>5. CASE escrow[t] \in Funded(t)
  <2>1. Hits(t) = {1}
    BY <1>1, <1>5, FundedOne DEF Hits
  <2>2. Go(r, v)
    BY <2>1 DEF ReleaseFind, Serial
  <2>3. /\ v.pc = "releaseSave" /\ v.trade = t /\ v.was = w.was /\ v.op = w.op
        /\ v.rows = w.rows /\ v.hit = 1 /\ v.row = escrow[t][1]
    BY <1>1 DEF WorkOK
  <2> HIDE DEF v
  <2>4. Fresh(v, trade[t].status, escrow[t]) /\ ~Saving(v)
    BY <1>1, <2>3 DEF Fresh, Saving
  <2> QED
    BY <1>2, <2>2, <2>3, <2>4, SerialLocal
<1> QED
  BY <1>3, <1>4, <1>5

\* The row of a trade that is being released is credited.
LEMMA ReleaseSaveRows ==
  ASSUME Serial, TypeOK, HistoryInv, SerialInv, NEW r \in Threads, ReleaseSave(r)
  PROVE  LET t == req[r].trade IN
         /\ t \in Trades
         /\ trade[t].status # "CANCELLED"
         /\ escrow[t] \in Funded(t)
         /\ escrow'[t] = <<Paying(t)>>
         /\ \A s \in Trades \ {t} : escrow'[s] = escrow[s]
         /\ \E w : Go(r, w) /\ ~Saving(w) /\ w.trade = t /\ Fresh(w, trade[t].status, escrow'[t])
<1> DEFINE w == req[r]
           t == w.trade
<1>1. /\ WorkOK(w, escrow) /\ w.pc = "releaseSave" /\ t \in Trades
      /\ Fresh(w, trade[t].status, escrow[t]) /\ Fit(t, trade[t].status, escrow[t])
      /\ w.was # "CANCELLED" /\ w.copy.status = "COMPLETED"
      /\ w.hit \in DOMAIN escrow[t]
  BY SerialAt DEF ReleaseSave, At, Pcs, Progress, WorkOK
<1>2. /\ trade[t].status # "CANCELLED" /\ w.was = trade[t].status /\ w.rows = escrow[t]
      /\ w.hit = 1 /\ w.row = escrow[t][1]
      /\ escrow[t] \in Funded(t)
  <2>1. escrow[t] # << >>
    BY <1>1
  <2> QED
    BY <1>1, <2>1 DEF Fresh, Fit, Funded
<1>3. DOMAIN escrow[t] = {1} /\ escrow[t][1] \in {Full(t), Paying(t)}
  BY <1>1, <1>2, FundedOne
<1>4. [w.row EXCEPT !.released = TRUE] = Paying(t)
  BY <1>1, <1>2, <1>3, RowAmounts
<1>5. escrow' = [escrow EXCEPT ![t][1] = Paying(t)]
  BY <1>2, <1>4 DEF ReleaseSave, Serial
<1>6. escrow'[t] = <<Paying(t)>>
  <2>1. escrow'[t] = [escrow[t] EXCEPT ![1] = Paying(t)]
    BY <1>1, <1>5 DEF TypeOK
  <2>2. escrow'[t] = [i \in {1} |-> Paying(t)]
    BY <1>3, <2>1
  <2> QED BY <2>2, IsOneRow
<1>7. \A s \in Trades \ {t} : escrow'[s] = escrow[s]
  BY <1>5 DEF TypeOK
<1>8. \E v : Go(r, v) /\ ~Saving(v) /\ v.trade = t /\ Fresh(v, w.was, <<Paying(t)>>)
  <2>1. MarkReleased(r, w)
    BY DEF ReleaseSave
  <2> QED
    BY <1>1, <1>2, <2>1, MarkReleasedSerial
<1> QED
  BY <1>1, <1>2, <1>6, <1>7, <1>8

LEMMA ReleaseSaveSerial ==
  ASSUME Serial, TypeOK, HistoryInv, SerialInv, NEW r \in Threads, ReleaseSave(r)
  PROVE  SerialInv'
<1> DEFINE t == req[r].trade
<1>1. /\ t \in Trades /\ trade[t].status # "CANCELLED"
      /\ escrow[t] \in Funded(t) /\ escrow'[t] = <<Paying(t)>>
      /\ \A s \in Trades \ {t} : escrow'[s] = escrow[s]
  BY ReleaseSaveRows
<1>2. PICK w : Go(r, w) /\ ~Saving(w) /\ w.trade = t /\ Fresh(w, trade[t].status, escrow'[t])
  BY ReleaseSaveRows
<1>3. UNCHANGED trade
  BY DEF ReleaseSave
<1>4. \A s \in Trades : Fit(s, trade'[s].status, escrow'[s])
  <2>1. Fit(t, trade'[t].status, escrow'[t])
    BY <1>1, <1>3 DEF SerialInv, Fit, Funded
  <2> QED
    BY <1>1, <1>3, <2>1 DEF SerialInv
<1> QED
  BY <1>2, <1>3, <1>4, SerialStep DEF SerialInv

LEMMA EscrowSerial ==
  ASSUME Serial, TypeOK, HistoryInv, SerialInv, NEW r \in Threads, Escrow(r)
  PROVE  SerialInv'
<1> DEFINE w == req[r]
           t == w.trade
<1>1. /\ WorkOK(w, escrow) /\ w.pc = "process" /\ t \in Trades
      /\ Fresh(w, trade[t].status, escrow[t])
  BY SerialAt DEF Escrow, Processing, At, Pcs
<1>2. UNCHANGED <<trade, escrow>>
  BY DEF Escrow, db
<1>3. CASE Finish(r)
  BY <1>2, <1>3, SerialLocal, SerialIdle DEF Finish
<1>4. CASE ~Finish(r)
  <2>1. PICK c, h :
          Go(r, [w EXCEPT !.copy = c, !.ad.hidden = h, !.pc = "escrowFind"])
    BY <1>4 DEF Escrow
  <2> DEFINE v == [w EXCEPT !.copy = c, !.ad.hidden = h, !.pc = "escrowFind"]
  <2>2. /\ v.pc = "escrowFind" /\ v.trade = t /\ v.was = w.was /\ v.op = w.op
        /\ v.rows = w.rows /\ v.hit = w.hit /\ v.row = w.row
    BY <1>1 DEF WorkOK
  <2> HIDE DEF v
  <2>3. Fresh(v, trade[t].status, escrow[t]) /\ ~Saving(v)
    BY <1>1, <2>2 DEF Fresh, Saving
  <2> QED
    BY <1>2, <2>1, <2>2, <2>3, SerialLocal DEF v
<1> QED
  BY <1>3, <1>4

LEMMA EscrowFindSerial ==
  ASSUME Serial, TypeOK, HistoryInv, SerialInv, NEW r \in Threads, EscrowFind(r)
  PROVE  SerialInv'
<1> DEFINE w == req[r]
           t == w.trade
           found == [w EXCEPT !.hit = 1, !.row = escrow[t][1], !.pc = "escrowSave"]
           none == [w EXCEPT !.pc = "escrowSave"]
<1>1. /\ WorkOK(w, escrow) /\ w.pc = "escrowFind" /\ t \in Trades
      /\ Fresh(w, trade[t].status, escrow[t]) /\ Fit(t, trade[t].status, escrow[t])
      /\ w.was = "INPROCESS"
  BY SerialAt DEF EscrowFind, At, Pcs, Progress
<1>2. UNCHANGED <<trade, escrow>>
  BY DEF EscrowFind, db
<1>3. escrow[t] \in Funded(t) \union {<< >>}
  BY <1>1 DEF Fresh, Fit
<1>4. CASE escrow[t] = << >>
  <2>1. Hits(t) = {}
    BY <1>4 DEF Hits
  <2>2. Go(r, none)
    BY <2>1 DEF EscrowFind, Serial
  <2>3. /\ none.pc = "escrowSave" /\ none.trade = t /\ none.was = w.was /\ none.op = w.op
        /\ none.rows = w.rows /\ none.hit = w.hit /\ none.row = w.row
    BY <1>1 DEF WorkOK
  <2> HIDE DEF none
  <2>4. Fresh(none, trade[t].status, escrow[t]) /\ ~Saving(none)
    BY <1>1, <1>4, <2>3 DEF Fresh, Saving
  <2> QED
    BY <1>2, <2>2, <2>3, <2>4, SerialLocal
<1>5. CASE escrow[t] \in Funded(t)
  <2>1. Hits(t) = {1} /\ escrow[t] # << >>
    BY <1>1, <1>5, FundedOne DEF Hits
  <2>2. Go(r, found)
    BY <2>1 DEF EscrowFind, Serial
  <2>3. /\ found.pc = "escrowSave" /\ found.trade = t /\ found.was = w.was /\ found.op = w.op
        /\ found.rows = w.rows /\ found.hit = 1 /\ found.row = escrow[t][1]
    BY <1>1 DEF WorkOK
  <2> HIDE DEF found
  <2>4. Fresh(found, trade[t].status, escrow[t]) /\ ~Saving(found)
    BY <1>1, <2>1, <2>3 DEF Fresh, Saving
  <2> QED
    BY <1>2, <2>2, <2>3, <2>4, SerialLocal
<1> QED
  BY <1>3, <1>4, <1>5

\* The row of a trade that is being escrowed is added, or found again as it was.
LEMMA EscrowSaveRows ==
  ASSUME Serial, TypeOK, HistoryInv, SerialInv, NEW r \in Threads, EscrowSave(r)
  PROVE  LET t == req[r].trade IN
         /\ t \in Trades
         /\ req[r].pc = "escrowSave"
         /\ trade[t].status = "INPROCESS"
         /\ escrow[t] \in Funded(t) \union {<< >>}
         /\ escrow'[t] = IF escrow[t] = << >> THEN <<Full(t)>> ELSE escrow[t]
         /\ \A s \in Trades \ {t} : escrow'[s] = escrow[s]
         /\ Go(r, [req[r] EXCEPT !.pc = "adSave"])
         /\ req[r].rows = escrow[t]
<1> DEFINE w == req[r]
           t == w.trade
<1>1. /\ WorkOK(w, escrow) /\ w.pc = "escrowSave" /\ t \in Trades
      /\ Fresh(w, trade[t].status, escrow[t]) /\ Fit(t, trade[t].status, escrow[t])
      /\ w.was = "INPROCESS"
  BY SerialAt DEF EscrowSave, At, Pcs, Progress
<1>2. /\ trade[t].status = "INPROCESS" /\ w.rows = escrow[t]
      /\ escrow[t] \in Funded(t) \union {<< >>}
  BY <1>1 DEF Fresh, Fit
<1>3. Go(r, [w EXCEPT !.pc = "adSave"])
  BY DEF EscrowSave, Serial
<1>4. CASE escrow[t] = << >>
  <2>1. w.hit = 0
    BY <1>1, <1>4 DEF Fresh
  <2>2. escrow' = [escrow EXCEPT ![t] = Append(@, Fund(t, NoRow))]
    BY <2>1 DEF EscrowSave, Serial
  <2>3. escrow'[t] = Append(<< >>, Full(t))
    BY <1>1, <1>4, <2>2, RowAmounts DEF TypeOK
  <2>4. escrow'[t] = <<Full(t)>>
    BY <2>3
  <2>5. \A s \in Trades \ {t} : escrow'[s] = escrow[s]
    BY <2>2 DEF TypeOK
  <2> QED
    BY <1>1, <1>2, <1>3, <1>4, <2>4, <2>5
<1>5. ASSUME NEW x \in {Full(t), Paying(t)}, escrow[t] = <<x>>
      PROVE  escrow'[t] = <<x>> /\ \A s \in Trades \ {t} : escrow'[s] = escrow[s]
  <2>1. escrow[t] # << >> /\ DOMAIN escrow[t] = {1} /\ escrow[t][1] = x
    BY <1>5, OneRow
  <2>2. w.hit = 1 /\ w.row = x
    BY <1>1, <2>1 DEF Fresh
  <2>3. escrow' = [escrow EXCEPT ![t][1] = x]
    <3>1. Fund(t, w.row) = x /\ w.hit # 0 /\ w.hit = 1
      <4>1. Fund(t, x) = x
        BY <1>1, <1>5, RowAmounts
      <4> QED BY <2>2, <4>1
    <3>2. escrow' = IF w.hit = 0
                      THEN [escrow EXCEPT ![t] = Append(@, Fund(t, NoRow))]
                      ELSE [escrow EXCEPT ![t][w.hit] = Fund(t, w.row)]
      BY Zenon DEF EscrowSave, Serial
    <3>3. escrow' = [escrow EXCEPT ![t][w.hit] = Fund(t, w.row)]
      BY <3>1, <3>2, Zenon
    <3> QED BY <3>1, <3>3, Zenon
  <2>4. escrow'[t] = [escrow[t] EXCEPT ![1] = x]
    BY <1>1, <2>3 DEF TypeOK
  <2>5. escrow'[t] = [i \in {1} |-> x]
    BY <2>1, <2>4
  <2>6. escrow'[t] = <<x>>
    BY <2>5, IsOneRow
  <2>7. \A s \in Trades \ {t} : escrow'[s] = escrow[s]
    BY <2>3 DEF TypeOK
  <2> QED
    BY <2>6, <2>7
<1>6. CASE escrow[t] \in Funded(t)
  <2>1. escrow[t] # << >> /\ escrow[t][1] \in {Full(t), Paying(t)} /\ escrow[t] = <<escrow[t][1]>>
    BY <1>1, <1>6, FundedOne
  <2>2. escrow'[t] = escrow[t] /\ \A s \in Trades \ {t} : escrow'[s] = escrow[s]
    BY <1>5, <2>1
  <2> QED
    BY <1>1, <1>2, <1>3, <2>1, <2>2
<1> QED
  BY <1>2, <1>4, <1>6

LEMMA EscrowSaveSerial ==
  ASSUME Serial, TypeOK, HistoryInv, SerialInv, NEW r \in Threads, EscrowSave(r)
  PROVE  SerialInv'
<1> DEFINE w == req[r]
           t == w.trade
           v == [w EXCEPT !.pc = "adSave"]
<1>1. /\ t \in Trades /\ trade[t].status = "INPROCESS" /\ w.pc = "escrowSave"
      /\ escrow[t] \in Funded(t) \union {<< >>} /\ w.rows = escrow[t]
      /\ escrow'[t] = IF escrow[t] = << >> THEN <<Full(t)>> ELSE escrow[t]
      /\ \A s \in Trades \ {t} : escrow'[s] = escrow[s]
      /\ Go(r, v)
  BY EscrowSaveRows
<1>2. /\ WorkOK(w, escrow) /\ Fresh(w, trade[t].status, escrow[t])
      /\ w.copy.status = "BITCOIN_ESCROWED"
  BY <1>1, SerialAt DEF Pcs, Progress
<1>3. /\ v.pc = "adSave" /\ v.trade = t /\ v.was = w.was /\ v.op = w.op
      /\ v.rows = w.rows /\ v.copy = w.copy
  BY <1>2 DEF WorkOK
<1> HIDE DEF v
<1>4. escrow'[t] \in Funded(t) /\ Overlay(w.rows, escrow'[t]) = escrow'[t]
  <2>1. CASE escrow[t] = << >>
    BY <1>1, <2>1, OverlaySame DEF Funded
  <2>2. CASE escrow[t] \in Funded(t)
    <3>1. escrow[t] = <<escrow[t][1]>> /\ escrow[t] # << >>
      BY <1>1, <2>2, FundedOne
    <3> QED BY <1>1, <2>2, <3>1, OverlaySame
  <2> QED BY <1>1, <2>1, <2>2
<1>5. LeavesFit(v, escrow'[t])
  BY <1>2, <1>3, <1>4 DEF LeavesFit
<1>6. Fresh(v, trade[t].status, escrow'[t]) /\ ~Saving(v)
  BY <1>2, <1>3, <1>5 DEF Fresh, Saving
<1>7. UNCHANGED trade
  BY DEF EscrowSave
<1>8. \A s \in Trades : Fit(s, trade'[s].status, escrow'[s])
  BY <1>1, <1>4, <1>7 DEF SerialInv, Fit
<1> QED
  BY <1>1, <1>3, <1>6, <1>7, <1>8, SerialStep DEF SerialInv

LEMMA AdSaveSerial ==
  ASSUME Serial, TypeOK, HistoryInv, SerialInv, NEW r \in Threads, AdSave(r)
  PROVE  SerialInv'
<1> DEFINE w == req[r]
           v == [w EXCEPT !.pc = "save"]
<1>1. WorkOK(w, escrow) /\ w.pc = "adSave" /\ Fresh(w, trade[w.trade].status, escrow[w.trade])
  BY SerialAt DEF AdSave, At, Pcs
<1>2. /\ v.pc = "save" /\ v.trade = w.trade /\ v.was = w.was /\ v.op = w.op
      /\ v.rows = w.rows /\ v.copy = w.copy
  BY <1>1 DEF WorkOK
<1>3. Go(r, v) /\ UNCHANGED <<trade, escrow>>
  BY DEF AdSave
<1> HIDE DEF v
<1>4. LeavesFit(v, escrow[w.trade])
  BY <1>1, <1>2 DEF Fresh, LeavesFit
<1>5. Fresh(v, trade[w.trade].status, escrow[w.trade]) /\ ~Saving(v)
  BY <1>1, <1>2, <1>4 DEF Fresh, Saving
<1> QED
  BY <1>2, <1>3, <1>5, SerialLocal

\* What a request that saves its trade changes there.
LEMMA SaveRows ==
  ASSUME Serial, TypeOK, HistoryInv, SerialInv, NEW r \in Threads, Save(r)
  PROVE  LET t == req[r].trade IN
         /\ t \in Trades
         /\ req[r].pc = "save"
         /\ trade' = [trade EXCEPT ![t] = req[r].copy]
         /\ trade'[t].status = req[r].copy.status
         /\ \A s \in Trades \ {t} : trade'[s] = trade[s] /\ escrow'[s] = escrow[s]
         /\ \/ /\ trade[t].status = "INPROCESS" /\ trade'[t].status = "BITCOIN_ESCROWED"
               /\ escrow[t] \in Funded(t) /\ escrow'[t] = escrow[t]
            \/ /\ trade[t].status = "BITCOIN_ESCROWED" /\ trade'[t].status = "PAYMENT_SENT"
               /\ escrow[t] \in Funded(t) /\ escrow'[t] = escrow[t]
            \/ /\ trade[t].status = "BITCOIN_ESCROWED" /\ trade'[t].status = "CANCELLED"
               /\ escrow[t] \in Funded(t) /\ escrow'[t] = <<Emptied(escrow[t][1])>>
            \/ /\ trade[t].status \notin {"CANCELLED", "BITCOIN_RELEASED"}
               /\ trade'[t].status = "COMPLETED"
               /\ escrow[t] = <<Paying(t)>> /\ escrow'[t] = <<Paying(t)>>
<1> DEFINE w == req[r]
           t == w.trade
<1>1. /\ WorkOK(w, escrow) /\ w.pc = "save" /\ t \in Trades /\ Progress(w)
      /\ Fresh(w, trade[t].status, escrow[t]) /\ w.was # "BITCOIN_RELEASED"
  BY SerialAt DEF Save, At, Pcs
<1>2. /\ trade' = [trade EXCEPT ![t] = w.copy]
      /\ trade'[t].status = w.copy.status
      /\ escrow'[t] = Overlay(w.rows, escrow[t])
      /\ \A s \in Trades \ {t} : trade'[s] = trade[s] /\ escrow'[s] = escrow[s]
  BY <1>1 DEF Save, TypeOK
<1>3. w.was = trade[t].status /\ LeavesFit(w, escrow[t])
  BY <1>1 DEF Fresh
<1> QED
  BY <1>1, <1>2, <1>3 DEF Progress, LeavesFit

LEMMA SaveSerial ==
  ASSUME Serial, TypeOK, HistoryInv, SerialInv, NEW r \in Threads, Save(r)
  PROVE  SerialInv'
<1> DEFINE t == req[r].trade
<1>1. Fit(t, trade'[t].status, escrow'[t])
  <2>1. escrow[t] \in Funded(t) => <<Emptied(escrow[t][1])>> \in GivenBack(t)
    BY SaveRows, FundedOne DEF GivenBack
  <2> QED
    BY <2>1, SaveRows DEF Fit
<1>2. \A s \in Trades : Fit(s, trade'[s].status, escrow'[s])
  BY <1>1, SaveRows DEF SerialInv
<1>3. Go(r, Idle)
  BY DEF Save, Finish
<1> QED
  BY <1>2, <1>3, SerialIdle, SerialStep

LEMMA EditSerial ==
  ASSUME Serial, TypeOK, SerialInv, NEW r \in Threads,
         \/ \E a \in Ads, x \in Terms : EditRequest(r, a, x)
         \/ EditSave(r) \/ Crash(r)
  PROVE  SerialInv'
<1>1. UNCHANGED <<trade, escrow>>
  BY DEF EditRequest, EditSave, Crash, db
<1>2. \E w : Go(r, w) /\ ~Working(w) /\ ~Saving(w)
  <2>1. CASE Finish(r)
    BY <2>1, SerialIdle DEF Finish
  <2>2. ASSUME NEW a \in Ads, NEW x \in Terms, EditRequest(r, a, x)
        PROVE  \E w : Go(r, w) /\ ~Working(w) /\ ~Saving(w)
    <3> DEFINE w == [pc |-> "editSave", adId |-> a, ad |-> [ad[a] EXCEPT !.terms = x]]
    <3>1. Go(r, w)
      BY <2>2 DEF EditRequest
    <3>2. ~Working(w) /\ ~Saving(w)
      BY DEF Working, Saving, Pcs
    <3> QED BY <3>1, <3>2
  <2> QED BY <2>1, <2>2 DEF EditSave, Crash
<1> QED
  BY <1>1, <1>2, SerialLocal

LEMMA LoadUserSerial ==
  ASSUME Serial, TypeOK, SerialInv, NEW r \in Threads, NEW u \in Users, LoadUser(r, u)
  PROVE  SerialInv'
<1> DEFINE w == [pc |-> "userSave", user |-> u,
                 ads |-> [a \in AdvertiseList(u) |-> ad[a]],
                 trades |-> [t \in TradeList(u) |-> trade[t]],
                 rows |-> [t \in TradeList(u) |-> escrow[t]]]
<1>1. Go(r, w) /\ UNCHANGED <<trade, escrow, ad>>
  BY DEF LoadUser, db
<1>2. \A q \in Threads : req'[q] = w
  BY <1>1 DEF Serial, Go, TypeOK
<1>3. ~Working(w)
  BY DEF Working, Pcs
<1>4. /\ \A a \in AdvertiseList(u) : w.ads[a] = ad'[a]
      /\ \A t \in TradeList(u) : w.trades[t] = trade'[t] /\ w.rows[t] = escrow'[t]
  BY <1>1
<1>5. w.user = u
  OBVIOUS
<1> HIDE DEF w
<1>6. \A q \in Threads : Saving(req'[q]) => FreshUser(req[q])'
  BY <1>2, <1>4, <1>5 DEF FreshUser, AdvertiseList, TradeList
<1> QED
  BY <1>1, <1>2, <1>3, <1>6 DEF SerialInv

\* A user who comes back alone changes nothing.
LEMMA SaveUserNothing ==
  ASSUME TypeOK, HistoryInv, SerialInv, NEW r \in Threads, SaveUser(r)
  PROVE  UNCHANGED <<trade, escrow, ad, seen>>
<1> DEFINE w == req[r]
<1>1. UserOK(w, escrow) /\ Saving(w) /\ FreshUser(w)
  BY SavingOK DEF SaveUser, At, Saving, SerialInv
<1>2. /\ DOMAIN w.ads = AdvertiseList(w.user) /\ DOMAIN w.trades = TradeList(w.user)
      /\ DOMAIN w.rows = TradeList(w.user)
      /\ TradeList(w.user) \subseteq Trades /\ AdvertiseList(w.user) \subseteq Ads
  BY <1>1 DEF UserOK, TradeList, AdvertiseList
<1>3. ad' = ad
  <2>1. ad' = [a \in Ads |-> ad[a]]
    BY <1>1, <1>2 DEF SaveUser, Overlay, FreshUser, TypeOK
  <2> QED BY <2>1 DEF TypeOK
<1>4. trade' = trade
  <2>1. trade' = [t \in Trades |-> trade[t]]
    BY <1>1, <1>2 DEF SaveUser, Overlay, FreshUser, TypeOK
  <2> QED BY <2>1 DEF TypeOK
<1>5. escrow' = escrow
  <2>1. ASSUME NEW t \in Trades
        PROVE  escrow'[t] = escrow[t]
    <3>1. escrow'[t] = IF t \in DOMAIN w.rows THEN Overlay(w.rows[t], escrow[t]) ELSE escrow[t]
      BY DEF SaveUser
    <3>2. CASE t \in DOMAIN w.rows
      <4>1. w.rows[t] = escrow[t]
        BY <1>1, <1>2, <3>2 DEF FreshUser
      <4>2. escrow[t] = [i \in DOMAIN escrow[t] |-> escrow[t][i]]
        BY DEF TypeOK
      <4> QED BY <3>1, <3>2, <4>1, <4>2, OverlayItself
    <3> QED BY <3>1, <3>2
  <2>2. escrow' = [t \in Trades |-> escrow'[t]]
    BY DEF SaveUser
  <2>3. escrow = [t \in Trades |-> escrow[t]]
    BY DEF TypeOK
  <2> QED BY <2>1, <2>2, <2>3
<1>6. seen' = seen
  <2>1. seen' = [t \in Trades |-> seen[t] \union {trade[t].status}]
    BY <1>4 DEF SaveUser
  <2>2. seen = [t \in Trades |-> seen[t]]
    BY DEF TypeOK
  <2> QED BY <2>1, <2>2 DEF HistoryInv
<1> QED
  BY <1>3, <1>4, <1>5, <1>6

LEMMA SaveUserSerial ==
  ASSUME Serial, TypeOK, HistoryInv, SerialInv, NEW r \in Threads, SaveUser(r)
  PROVE  SerialInv'
<1>1. UNCHANGED <<trade, escrow>> /\ Go(r, Idle)
  BY SaveUserNothing DEF SaveUser, Finish
<1> QED
  BY <1>1, SerialIdle, SerialLocal

LEMMA SerialNextStep ==
  ASSUME Serial
  PROVE  TypeOK /\ HistoryInv /\ SerialInv /\ [Next]_vars => SerialInv'
<1> SUFFICES ASSUME TypeOK, HistoryInv, SerialInv, [Next]_vars
             PROVE  SerialInv'
  OBVIOUS
<1>2. CASE Tick \/ UNCHANGED vars
  BY <1>2 DEF Tick, vars, db, SerialInv, Working, Saving, FreshUser
<1>3. ASSUME NEW r \in Threads, NEW u \in Users, NEW t \in Trades, NEW op \in Ops,
             Request(r, u, t, op)
      PROVE  SerialInv'
  BY <1>3, RequestSerial
<1>4. ASSUME NEW r \in Threads, NEW a \in Ads, NEW x \in Terms, EditRequest(r, a, x)
      PROVE  SerialInv'
  BY <1>4, EditSerial
<1>5. ASSUME NEW r \in Threads, NEW u \in Active, LoadUser(r, u)
      PROVE  SerialInv'
  BY <1>5, EnvironmentAssumption, LoadUserSerial
<1>6. ASSUME NEW r \in Threads, Step(r)
      PROVE  SerialInv'
  BY <1>6, DecisionSerial, UnEscrowSerial, ReleaseFindSerial, ReleaseSaveSerial, EscrowSerial,
     EscrowFindSerial, EscrowSaveSerial, AdSaveSerial, SaveSerial, EditSerial, SaveUserSerial
  DEF Step
<1> QED
  BY <1>2, <1>3, <1>4, <1>5, <1>6 DEF Next

LEMMA InitSerial == Init => SerialInv
BY SerialIdle DEF Init, SerialInv, Fit

LEMMA SerialCorrect ==
  ASSUME Serial
  PROVE  Spec => [](TypeOK /\ HistoryInv /\ CopiesInv /\ SerialInv)
BY InitType, TypeStep, InitHistory, HistoryNextStep, InitCopies, CopiesNextStep,
   InitSerial, SerialNextStep, PTL DEF Spec

\* When requests come one at a time, a trade has one escrow row at most, which holds the
\* coins and the commission of the trade or nothing, wherever a request stops.
THEOREM OneRowPerTrade ==
  ASSUME Serial
  PROVE  Spec => []OneRowOfTheTrade
<1>1. SerialInv => OneRowOfTheTrade
  <2> SUFFICES ASSUME SerialInv, NEW t \in Trades
               PROVE  /\ Len(escrow[t]) <= 1
                      /\ \A i \in DOMAIN escrow[t] :
                           \/ escrow[t][i].amount = Coins[t] /\ escrow[t][i].fee = Fee[t]
                           \/ escrow[t][i].amount = 0 /\ escrow[t][i].fee = 0
    BY DEF OneRowOfTheTrade
  <2> DEFINE possible == {Full(t), Paying(t), Emptied(Full(t)), Emptied(Paying(t))}
  <2>1. escrow[t] = << >> \/ \E row \in possible : escrow[t] = <<row>>
    BY DEF SerialInv, Fit, Funded, GivenBack
  <2>2. /\ Full(t).amount = Coins[t] /\ Full(t).fee = Fee[t]
        /\ Paying(t).amount = Coins[t] /\ Paying(t).fee = Fee[t]
        /\ Emptied(Full(t)).amount = 0 /\ Emptied(Full(t)).fee = 0
        /\ Emptied(Paying(t)).amount = 0 /\ Emptied(Paying(t)).fee = 0
    BY EmptiedAmounts DEF Full, Paying
  <2>3. CASE escrow[t] = << >>
    BY <2>3
  <2>4. ASSUME NEW row \in possible, escrow[t] = <<row>>
        PROVE  /\ Len(escrow[t]) <= 1
               /\ \A i \in DOMAIN escrow[t] :
                    \/ escrow[t][i].amount = Coins[t] /\ escrow[t][i].fee = Fee[t]
                    \/ escrow[t][i].amount = 0 /\ escrow[t][i].fee = 0
    <3>1. Len(escrow[t]) = 1 /\ DOMAIN escrow[t] = {1} /\ escrow[t][1] = row
      BY <2>4
    <3> QED BY <2>2, <3>1
  <2> QED
    BY <2>1, <2>3, <2>4
<1> QED
  BY <1>1, SerialCorrect, PTL

---------------------------------------------------------------------------
(* The contract *)

MoneyIn(rows) ==
  IF \E i \in DOMAIN rows : rows[i].amount # 0 /\ rows[i].released THEN "paid"
  ELSE IF \E i \in DOMAIN rows : rows[i].amount # 0 THEN "locked" ELSE "free"

LEMMA MoneyByRow ==
  ASSUME NEW t \in Trades
  PROVE  /\ MoneyIn(<< >>) = "free"
         /\ MoneyIn(<<Full(t)>>) = "locked"
         /\ MoneyIn(<<Paying(t)>>) = "paid"
         /\ \A x \in {Full(t), Paying(t)} :
              MoneyIn(<<x>>) # "free" /\ MoneyIn(<<Emptied(x)>>) = "free"
<1>1. /\ Full(t).amount # 0 /\ ~Full(t).released
      /\ Paying(t).amount # 0 /\ Paying(t).released
      /\ \A x \in {Full(t), Paying(t)} : Emptied(x).amount = 0
  BY AmountsAssumption, EmptiedAmounts DEF Full, Paying
<1>2. ASSUME NEW x
      PROVE  MoneyIn(<<x>>) =
               IF x.amount # 0 /\ x.released THEN "paid" ELSE IF x.amount # 0 THEN "locked" ELSE "free"
  BY OneRow DEF MoneyIn
<1>3. MoneyIn(<< >>) = "free"
  BY DEF MoneyIn
<1> QED
  BY <1>1, <1>2, <1>3

\* Where the rows of one trade change, so does its money, and no other.
LEMMA MoneyMoves ==
  ASSUME NEW t \in Trades, \A s \in Trades \ {t} : escrow'[s] = escrow[s]
  PROVE  [s \in Trades |-> MoneyOf(s)]'
           = [[s \in Trades |-> MoneyOf(s)] EXCEPT ![t] = MoneyIn(escrow'[t])]
<1>1. \A s \in Trades \ {t} : MoneyOf(s)' = MoneyOf(s)
  BY DEF MoneyOf, Paid, Locked
<1>2. MoneyOf(t)' = MoneyIn(escrow'[t])
  BY DEF MoneyOf, Paid, Locked, MoneyIn
<1> QED
  BY <1>1, <1>2

LEMMA MoneyStays ==
  ASSUME NEW t \in Trades, \A s \in Trades \ {t} : escrow'[s] = escrow[s],
         MoneyIn(escrow'[t]) = MoneyIn(escrow[t])
  PROVE  UNCHANGED [s \in Trades |-> MoneyOf(s)]
<1>1. \A s \in Trades : MoneyOf(s)' = MoneyOf(s)
  BY DEF MoneyOf, Paid, Locked, MoneyIn
<1> QED
  BY <1>1

LEMMA MoneyHere ==
  ASSUME NEW t \in Trades
  PROVE  [s \in Trades |-> MoneyOf(s)][t] = MoneyIn(escrow[t])
BY DEF MoneyOf, Paid, Locked, MoneyIn

LEMMA EscrowSaveLocks ==
  ASSUME Serial, TypeOK, HistoryInv, SerialInv, NEW r \in Threads, EscrowSave(r)
  PROVE  Contract!Next \/ UNCHANGED Contract!vars
<1>1. PICK t \in Trades :
        /\ trade[t].status = "INPROCESS"
        /\ escrow'[t] = IF escrow[t] = << >> THEN <<Full(t)>> ELSE escrow[t]
        /\ \A s \in Trades \ {t} : escrow'[s] = escrow[s]
  BY EscrowSaveRows
<1>2. UNCHANGED <<trade, seen>>
  BY DEF EscrowSave
<1>3. CASE escrow[t] = << >>
  <2>1. [s \in Trades |-> MoneyOf(s)]' = [[s \in Trades |-> MoneyOf(s)] EXCEPT ![t] = "locked"]
    BY <1>1, <1>3, MoneyMoves, MoneyByRow
  <2>2. [s \in Trades |-> MoneyOf(s)][t] = "free"
    BY <1>3, MoneyHere, MoneyByRow
  <2>3. Contract!Lock(t)
    BY <1>1, <1>2, <2>1, <2>2 DEF Contract!Lock, Contract!Put
  <2> QED
    BY <2>3 DEF Contract!Next
<1>4. CASE escrow[t] # << >>
  <2>1. UNCHANGED [s \in Trades |-> MoneyOf(s)]
    BY <1>1, <1>4, MoneyStays
  <2> QED
    BY <1>2, <2>1 DEF Contract!vars
<1> QED
  BY <1>3, <1>4

LEMMA ReleaseSavePays ==
  ASSUME Serial, TypeOK, HistoryInv, SerialInv, NEW r \in Threads, ReleaseSave(r)
  PROVE  Contract!Next \/ UNCHANGED Contract!vars
<1>1. PICK t \in Trades :
        /\ trade[t].status # "CANCELLED"
        /\ escrow[t] \in Funded(t)
        /\ escrow'[t] = <<Paying(t)>>
        /\ \A s \in Trades \ {t} : escrow'[s] = escrow[s]
  BY ReleaseSaveRows
<1>2. UNCHANGED <<trade, seen>>
  BY DEF ReleaseSave
<1>3. CASE escrow[t] = <<Full(t)>>
  <2>1. trade[t].status # "COMPLETED"
    <3>1. <<Full(t)>> # <<Paying(t)>>
      BY MoneyByRow
    <3> QED BY <1>1, <1>3, <3>1 DEF SerialInv, Fit
  <2>2. [s \in Trades |-> MoneyOf(s)][t] = "locked"
    BY <1>3, MoneyHere, MoneyByRow
  <2>3. [s \in Trades |-> MoneyOf(s)]' = [[s \in Trades |-> MoneyOf(s)] EXCEPT ![t] = "paid"]
    BY <1>1, MoneyMoves, MoneyByRow
  <2>4. Contract!PayOut(t)
    BY <1>1, <1>2, <2>1, <2>2, <2>3 DEF Contract!PayOut, Contract!Put, Contract!Final
  <2> QED
    BY <2>4 DEF Contract!Next
<1>4. CASE escrow[t] = <<Paying(t)>>
  <2>1. UNCHANGED [s \in Trades |-> MoneyOf(s)]
    BY <1>1, <1>4, MoneyStays
  <2> QED
    BY <1>2, <2>1 DEF Contract!vars
<1> QED
  BY <1>1, <1>3, <1>4 DEF Funded

LEMMA SaveFollows ==
  ASSUME Serial, TypeOK, HistoryInv, SerialInv, NEW r \in Threads, Save(r)
  PROVE  Contract!Next \/ UNCHANGED Contract!vars
<1> DEFINE money == [u \in Trades |-> MoneyOf(u)]
<1>1. PICK t \in Trades, s \in Statuses :
        /\ t = req[r].trade /\ s = req[r].copy.status
        /\ trade'[t].status = s
        /\ \A u \in Trades \ {t} : trade'[u] = trade[u] /\ escrow'[u] = escrow[u]
        /\ \/ /\ trade[t].status = "INPROCESS" /\ s = "BITCOIN_ESCROWED"
              /\ escrow[t] \in Funded(t) /\ escrow'[t] = escrow[t]
           \/ /\ trade[t].status = "BITCOIN_ESCROWED" /\ s = "PAYMENT_SENT"
              /\ escrow[t] \in Funded(t) /\ escrow'[t] = escrow[t]
           \/ /\ trade[t].status = "BITCOIN_ESCROWED" /\ s = "CANCELLED"
              /\ escrow[t] \in Funded(t) /\ escrow'[t] = <<Emptied(escrow[t][1])>>
           \/ /\ trade[t].status \notin {"CANCELLED", "BITCOIN_RELEASED"} /\ s = "COMPLETED"
              /\ escrow[t] = <<Paying(t)>> /\ escrow'[t] = <<Paying(t)>>
  <2>1. req[r].copy.status \in Statuses
    BY SerialAt DEF Save, At, Pcs, WorkOK, TradeRow
  <2> QED BY <2>1, SaveRows
<1>2. Contract!Become(t, s)
  <2>1. [u \in Trades |-> trade[u].status]' = [[u \in Trades |-> trade[u].status] EXCEPT ![t] = s]
    BY <1>1
  <2>2. seen' = [seen EXCEPT ![t] = @ \union {s}]
    BY <1>1 DEF Save
  <2> QED BY <2>1, <2>2 DEF Contract!Become
<1>3. escrow[t] \in Funded(t) => money[t] # "free"
  BY MoneyHere, MoneyByRow, FundedOne
<1>4. escrow'[t] = escrow[t] => money' = money
  BY <1>1, MoneyStays
<1>5. CASE s = "BITCOIN_ESCROWED"
  <2>1. Contract!Escrow(t)
    BY <1>1, <1>2, <1>3, <1>4, <1>5 DEF Contract!Escrow
  <2> QED BY <2>1 DEF Contract!Next
<1>6. CASE s = "PAYMENT_SENT"
  <2>1. Contract!SendPayment(t)
    BY <1>1, <1>2, <1>4, <1>6 DEF Contract!SendPayment
  <2> QED BY <2>1 DEF Contract!Next
<1>7. CASE s = "CANCELLED"
  <2>1. /\ trade[t].status = "BITCOIN_ESCROWED" /\ escrow[t] \in Funded(t)
        /\ escrow'[t] = <<Emptied(escrow[t][1])>>
    BY <1>1, <1>7
  <2>2. money' = [money EXCEPT ![t] = "free"]
    <3>1. money' = [money EXCEPT ![t] = MoneyIn(escrow'[t])]
      BY <1>1, MoneyMoves
    <3>2. MoneyIn(escrow'[t]) = "free"
      BY <2>1, MoneyByRow, FundedOne
    <3> HIDE DEF money
    <3> QED BY <3>1, <3>2
  <2>3. Contract!Cancel(t)
    BY <1>2, <1>3, <1>7, <2>1, <2>2 DEF Contract!Cancel, Contract!Put
  <2> QED BY <2>3 DEF Contract!Next
<1>8. CASE s = "COMPLETED"
  <2>1. /\ trade[t].status \notin {"CANCELLED", "BITCOIN_RELEASED"}
        /\ escrow[t] = <<Paying(t)>> /\ escrow'[t] = escrow[t]
    BY <1>1, <1>8
  <2>2. money[t] = "paid" /\ money' = money
    BY <1>4, <2>1, MoneyHere, MoneyByRow
  <2>3. CASE trade[t].status # "COMPLETED"
    <3>1. Contract!Complete(t)
      BY <1>2, <1>8, <2>1, <2>2, <2>3 DEF Contract!Complete, Contract!Final
    <3> QED BY <3>1 DEF Contract!Next
  <2>4. CASE trade[t].status = "COMPLETED"
    <3>1. UNCHANGED [u \in Trades |-> trade[u].status]
      BY <1>1, <1>8, <2>4
    <3>2. seen' = seen
      <4>1. seen' = [seen EXCEPT ![t] = @ \union {"COMPLETED"}]
        BY <1>1, <1>8 DEF Save
      <4>2. "COMPLETED" \in seen[t]
        BY <2>4 DEF HistoryInv
      <4> QED BY <4>1, <4>2 DEF TypeOK
    <3> QED BY <2>2, <3>1, <3>2 DEF Contract!vars
  <2> QED BY <2>3, <2>4
<1> QED
  BY <1>1, <1>5, <1>6, <1>7, <1>8

LEMMA ContractRefined ==
  ASSUME Serial
  PROVE  TypeOK /\ HistoryInv /\ SerialInv /\ [Next]_vars => [Contract!Next]_(Contract!vars)
<1> SUFFICES ASSUME TypeOK, HistoryInv, SerialInv, [Next]_vars
             PROVE  Contract!Next \/ UNCHANGED Contract!vars
  OBVIOUS
<1>1. CASE Tick \/ UNCHANGED vars
  BY <1>1, StutterStep DEF Tick, vars, db
<1>2. ASSUME NEW r \in Threads,
             \/ \E u \in Users, t \in Trades, op \in Ops : Request(r, u, t, op)
             \/ \E a \in Ads, x \in Terms : EditRequest(r, a, x)
             \/ \E u \in Active : LoadUser(r, u)
      PROVE  UNCHANGED Contract!vars
  BY <1>2, StutterStep DEF Request, EditRequest, LoadUser, db
<1>3. ASSUME NEW r \in Threads, Step(r)
      PROVE  Contract!Next \/ UNCHANGED Contract!vars
  <2>1. CASE Save(r)
    BY <2>1, SaveFollows
  <2>2. CASE ReleaseSave(r)
    BY <2>2, ReleaseSavePays
  <2>3. CASE EscrowSave(r)
    BY <2>3, EscrowSaveLocks
  <2>4. CASE ~(Save(r) \/ ReleaseSave(r) \/ EscrowSave(r))
    <3>1. UNCHANGED <<trade, escrow, seen>>
      BY <1>3, <2>4, SaveUserNothing DEF Step, SendPayment, BitcoinReceived, Cancel, UnEscrow,
         BitcoinReleased, ReleaseFind, Escrow, EscrowFind, AdSave, EditSave, Crash, db
    <3> QED
      BY <3>1, StutterStep
  <2> QED
    BY <2>1, <2>2, <2>3, <2>4
<1> QED
  BY <1>1, <1>2, <1>3 DEF Next

\* Requests that come one at a time implement the contract of the escrow, even when
\* they stop between two of their transactions: status and coins move together.
THEOREM ContractKept ==
  ASSUME Serial
  PROVE  Spec => KeepsContract
BY SerialCorrect, InitRefined, ContractRefined, PTL DEF Spec, KeepsContract, Contract!Spec

---------------------------------------------------------------------------
(* The balances *)

PaidIn(rows) ==
  LET I == {i \in DOMAIN rows : rows[i].released} IN
  SumFunctionOnSet([i \in I |-> rows[i].amount], I)

HeldIn(rows) ==
  LET I == {i \in DOMAIN rows : ~rows[i].released} IN
  SumFunctionOnSet([i \in I |-> rows[i].amount], I)

FeesIn(rows) ==
  LET I == {i \in DOMAIN rows : ~rows[i].released} IN
  SumFunctionOnSet([i \in I |-> rows[i].fee], I)

\* What the ledger sums is, for each trade, the sum over its rows.
LEMMA LedgerByRows ==
  ASSUME NEW t \in Trades
  PROVE  /\ ReleasedCoins[t] = PaidIn(escrow[t]) /\ ReleasedCoins'[t] = PaidIn(escrow'[t])
         /\ HeldCoins[t] = HeldIn(escrow[t]) /\ HeldCoins'[t] = HeldIn(escrow'[t])
         /\ HeldFees[t] = FeesIn(escrow[t]) /\ HeldFees'[t] = FeesIn(escrow'[t])
<1>1. ReleasedCoins[t] = PaidIn(escrow[t]) /\ ReleasedCoins'[t] = PaidIn(escrow'[t])
  BY DEF ReleasedCoins, Amounts, Released, PaidIn
<1>2. HeldCoins[t] = HeldIn(escrow[t]) /\ HeldCoins'[t] = HeldIn(escrow'[t])
  BY DEF HeldCoins, Amounts, Held, HeldIn
<1>3. HeldFees[t] = FeesIn(escrow[t]) /\ HeldFees'[t] = FeesIn(escrow'[t])
  BY DEF HeldFees, Fees, Held, FeesIn
<1> QED
  BY <1>1, <1>2, <1>3

LEMMA SumsOfNoRows == PaidIn(<< >>) = 0 /\ HeldIn(<< >>) = 0 /\ FeesIn(<< >>) = 0
<1>1. /\ {i \in DOMAIN << >> : << >>[i].released} = {}
      /\ {i \in DOMAIN << >> : ~<< >>[i].released} = {}
  OBVIOUS
<1> QED
  BY <1>1, SumOfNone DEF PaidIn, HeldIn, FeesIn

LEMMA SumsOfOneRow ==
  ASSUME NEW x \in EscrowRow
  PROVE  /\ PaidIn(<<x>>) = IF x.released THEN x.amount ELSE 0
         /\ HeldIn(<<x>>) = IF x.released THEN 0 ELSE x.amount
         /\ FeesIn(<<x>>) = IF x.released THEN 0 ELSE x.fee
<1> DEFINE s == <<x>>
           R == {i \in DOMAIN s : s[i].released}
           H == {i \in DOMAIN s : ~s[i].released}
<1>1. DOMAIN s = {1} /\ s[1] = x /\ x.amount \in Nat /\ x.fee \in Nat
  BY OneRow DEF EscrowRow
<1>2. PaidIn(s) = SumFunctionOnSet([i \in R |-> s[i].amount], R)
  BY DEF PaidIn
<1>3. HeldIn(s) = SumFunctionOnSet([i \in H |-> s[i].amount], H)
  BY DEF HeldIn
<1>4. FeesIn(s) = SumFunctionOnSet([i \in H |-> s[i].fee], H)
  BY DEF FeesIn
<1>5. CASE x.released
  <2>1. R = {1} /\ H = {}
    BY <1>1, <1>5
  <2> HIDE DEF s, R, H
  <2>2. [i \in R |-> s[i].amount][1] = x.amount
    BY <1>1, <2>1
  <2> QED BY <1>1, <1>2, <1>3, <1>4, <1>5, <2>1, <2>2, SumOfOne, SumOfNone DEF s
<1>6. CASE ~x.released
  <2>1. R = {} /\ H = {1}
    BY <1>1, <1>6
  <2> HIDE DEF s, R, H
  <2>2. [i \in H |-> s[i].amount][1] = x.amount /\ [i \in H |-> s[i].fee][1] = x.fee
    BY <1>1, <2>1
  <2> QED BY <1>1, <1>2, <1>3, <1>4, <1>6, <2>1, <2>2, SumOfOne, SumOfNone DEF s
<1> QED
  BY <1>5, <1>6

\* What the rows of a trade give to its buyer and take from its seller.
LEMMA SumsByRow ==
  ASSUME NEW t \in Trades
  PROVE  /\ Coins[t] \in Nat /\ Fee[t] \in Nat
         /\ PaidIn(<< >>) = 0 /\ HeldIn(<< >>) = 0 /\ FeesIn(<< >>) = 0
         /\ \A x \in {Full(t), Paying(t)} :
              PaidIn(<<Emptied(x)>>) = 0 /\ HeldIn(<<Emptied(x)>>) = 0 /\ FeesIn(<<Emptied(x)>>) = 0
         /\ PaidIn(<<Full(t)>>) = 0 /\ HeldIn(<<Full(t)>>) = Coins[t]
         /\ FeesIn(<<Full(t)>>) = Fee[t]
         /\ PaidIn(<<Paying(t)>>) = Coins[t] /\ HeldIn(<<Paying(t)>>) = 0
         /\ FeesIn(<<Paying(t)>>) = 0
<1>1. Coins[t] \in Nat /\ Fee[t] \in Nat
  BY AmountsAssumption
<1>2. Full(t) \in EscrowRow /\ Paying(t) \in EscrowRow
  BY RowAmounts
<1>3. /\ Full(t).amount = Coins[t] /\ Full(t).fee = Fee[t] /\ ~Full(t).released
      /\ Paying(t).amount = Coins[t] /\ Paying(t).released
  BY DEF Full, Paying
<1>4. ASSUME NEW x \in {Full(t), Paying(t)}
      PROVE  PaidIn(<<Emptied(x)>>) = 0 /\ HeldIn(<<Emptied(x)>>) = 0 /\ FeesIn(<<Emptied(x)>>) = 0
  BY EmptiedAmounts, SumsOfOneRow
<1>5. /\ PaidIn(<<Full(t)>>) = 0 /\ HeldIn(<<Full(t)>>) = Coins[t]
      /\ FeesIn(<<Full(t)>>) = Fee[t]
  BY <1>2, <1>3, SumsOfOneRow
<1>6. /\ PaidIn(<<Paying(t)>>) = Coins[t] /\ HeldIn(<<Paying(t)>>) = 0
      /\ FeesIn(<<Paying(t)>>) = 0
  BY <1>2, <1>3, SumsOfOneRow
<1> QED
  BY <1>1, <1>4, <1>5, <1>6, SumsOfNoRows

LEMMA FitSums ==
  ASSUME NEW t \in Trades, NEW status, NEW rows, Fit(t, status, rows)
  PROVE  PaidIn(rows) \in Nat /\ HeldIn(rows) \in Nat /\ FeesIn(rows) \in Nat
<1>1. rows = << >> \/ rows \in Funded(t) \/ rows \in GivenBack(t)
  BY DEF Fit, Funded
<1>2. CASE rows = << >>
  BY <1>2, SumsOfNoRows
<1>3. CASE rows \in GivenBack(t)
  <2>1. PICK x \in {Full(t), Paying(t)} : rows = <<Emptied(x)>>
    BY <1>3 DEF GivenBack
  <2>2. PaidIn(<<Emptied(x)>>) = 0 /\ HeldIn(<<Emptied(x)>>) = 0 /\ FeesIn(<<Emptied(x)>>) = 0
    BY SumsByRow
  <2> QED BY <2>1, <2>2
<1>4. CASE rows = <<Full(t)>>
  <2>1. /\ PaidIn(<<Full(t)>>) = 0 /\ HeldIn(<<Full(t)>>) = Coins[t]
        /\ FeesIn(<<Full(t)>>) = Fee[t]
        /\ Coins[t] \in Nat /\ Fee[t] \in Nat
    BY SumsByRow
  <2> QED BY <1>4, <2>1
<1>5. CASE rows = <<Paying(t)>>
  <2>1. /\ PaidIn(<<Paying(t)>>) = Coins[t] /\ HeldIn(<<Paying(t)>>) = 0
        /\ FeesIn(<<Paying(t)>>) = 0
        /\ Coins[t] \in Nat /\ Fee[t] \in Nat
    BY SumsByRow
  <2> QED BY <1>5, <2>1
<1> QED
  BY <1>1, <1>2, <1>3, <1>4, <1>5 DEF Funded

\* The amounts of the ledger before and after a step.
LEMMA LedgerIsNat ==
  ASSUME SerialInv, SerialInv', NEW S, S \subseteq Trades
  PROVE  /\ NatOn(ReleasedCoins, S) /\ NatOn(ReleasedCoins', S)
         /\ NatOn(HeldCoins, S) /\ NatOn(HeldCoins', S)
         /\ NatOn(HeldFees, S) /\ NatOn(HeldFees', S)
<1>1. ASSUME NEW t \in Trades
      PROVE  /\ Fit(t, trade[t].status, escrow[t])
             /\ Fit(t, trade'[t].status, escrow'[t])
  BY DEF SerialInv
<1>2. ASSUME NEW t \in Trades
      PROVE  /\ ReleasedCoins[t] \in Nat /\ ReleasedCoins'[t] \in Nat
             /\ HeldCoins[t] \in Nat /\ HeldCoins'[t] \in Nat
             /\ HeldFees[t] \in Nat /\ HeldFees'[t] \in Nat
  BY <1>1, FitSums, LedgerByRows
<1> QED
  BY <1>2 DEF NatOn

\* Where the rows of one trade change, its parties' balances change by what its rows
\* give and take, and no other does.
LEMMA BalanceMoves ==
  ASSUME IsFiniteSet(Trades), SerialInv, SerialInv', NEW t \in Trades,
         \A s \in Trades \ {t} : escrow'[s] = escrow[s], NEW u \in Users
  PROVE  LET paid == PaidIn(escrow'[t]) - PaidIn(escrow[t])
             held == HeldIn(escrow'[t]) - HeldIn(escrow[t])
             fees == FeesIn(escrow'[t]) - FeesIn(escrow[t]) IN
         /\ Balance(u) \in Int
         /\ Balance(u)' = Balance(u) + (IF Buyer[t] = u THEN paid ELSE 0)
                                     - (IF Seller[t] = u THEN paid + held + fees ELSE 0)
<1> DEFINE B == Bought(u)
           S == Sold(u)
<1>1. /\ B \subseteq Trades /\ S \subseteq Trades /\ IsFiniteSet(B) /\ IsFiniteSet(S)
      /\ (t \in B <=> Buyer[t] = u) /\ (t \in S <=> Seller[t] = u)
  BY FS_Subset DEF Bought, Sold
<1>2. \A s \in Trades \ {t} :
        /\ ReleasedCoins'[s] = ReleasedCoins[s]
        /\ HeldCoins'[s] = HeldCoins[s]
        /\ HeldFees'[s] = HeldFees[s]
  BY LedgerByRows
<1>3. /\ ReleasedCoins[t] = PaidIn(escrow[t]) /\ ReleasedCoins'[t] = PaidIn(escrow'[t])
      /\ HeldCoins[t] = HeldIn(escrow[t]) /\ HeldCoins'[t] = HeldIn(escrow'[t])
      /\ HeldFees[t] = FeesIn(escrow[t]) /\ HeldFees'[t] = FeesIn(escrow'[t])
  BY LedgerByRows
<1>4. /\ ReleasedCoins[t] \in Nat /\ ReleasedCoins'[t] \in Nat
      /\ HeldCoins[t] \in Nat /\ HeldCoins'[t] \in Nat
      /\ HeldFees[t] \in Nat /\ HeldFees'[t] \in Nat
  BY LedgerIsNat DEF NatOn
<1>5. Funds[u] \in Int
  BY AmountsAssumption
<1>6. /\ Balance(u) = Funds[u] + SumFunctionOnSet(ReleasedCoins, B)
                        - SumFunctionOnSet(ReleasedCoins, S)
                        - SumFunctionOnSet(HeldCoins, S) - SumFunctionOnSet(HeldFees, S)
      /\ Balance(u)' = Funds[u] + SumFunctionOnSet(ReleasedCoins', B)
                         - SumFunctionOnSet(ReleasedCoins', S)
                         - SumFunctionOnSet(HeldCoins', S) - SumFunctionOnSet(HeldFees', S)
  BY DEF Balance, Bought, Sold
<1> HIDE DEF B, S
<1>7. /\ SumFunctionOnSet(ReleasedCoins, B) \in Nat
      /\ SumFunctionOnSet(ReleasedCoins', B) = SumFunctionOnSet(ReleasedCoins, B)
           + (IF t \in B THEN ReleasedCoins'[t] - ReleasedCoins[t] ELSE 0)
  <2>1. NatOn(ReleasedCoins, B) /\ NatOn(ReleasedCoins', B)
    BY <1>1, LedgerIsNat
  <2>2. \A s \in B \ {t} : ReleasedCoins'[s] = ReleasedCoins[s]
    BY <1>1, <1>2
  <2> QED BY <1>1, <2>1, <2>2, SumMoves
<1>8. /\ SumFunctionOnSet(ReleasedCoins, S) \in Nat
      /\ SumFunctionOnSet(ReleasedCoins', S) = SumFunctionOnSet(ReleasedCoins, S)
           + (IF t \in S THEN ReleasedCoins'[t] - ReleasedCoins[t] ELSE 0)
  <2>1. NatOn(ReleasedCoins, S) /\ NatOn(ReleasedCoins', S)
    BY <1>1, LedgerIsNat
  <2>2. \A s \in S \ {t} : ReleasedCoins'[s] = ReleasedCoins[s]
    BY <1>1, <1>2
  <2> QED BY <1>1, <2>1, <2>2, SumMoves
<1>9. /\ SumFunctionOnSet(HeldCoins, S) \in Nat
      /\ SumFunctionOnSet(HeldCoins', S) = SumFunctionOnSet(HeldCoins, S)
           + (IF t \in S THEN HeldCoins'[t] - HeldCoins[t] ELSE 0)
  <2>1. NatOn(HeldCoins, S) /\ NatOn(HeldCoins', S)
    BY <1>1, LedgerIsNat
  <2>2. \A s \in S \ {t} : HeldCoins'[s] = HeldCoins[s]
    BY <1>1, <1>2
  <2> QED BY <1>1, <2>1, <2>2, SumMoves
<1>10. /\ SumFunctionOnSet(HeldFees, S) \in Nat
       /\ SumFunctionOnSet(HeldFees', S) = SumFunctionOnSet(HeldFees, S)
            + (IF t \in S THEN HeldFees'[t] - HeldFees[t] ELSE 0)
  <2>1. NatOn(HeldFees, S) /\ NatOn(HeldFees', S)
    BY <1>1, LedgerIsNat
  <2>2. \A s \in S \ {t} : HeldFees'[s] = HeldFees[s]
    BY <1>1, <1>2
  <2> QED BY <1>1, <2>1, <2>2, SumMoves
<1> QED
  BY <1>1, <1>3, <1>4, <1>5, <1>6, <1>7, <1>8, <1>9, <1>10

\* Without a change of rows there is none of balances.
LEMMA BalanceStays ==
  ASSUME UNCHANGED escrow, NEW u
  PROVE  Balance(u)' = Balance(u)
BY DEF Balance, ReleasedCoins, HeldCoins, HeldFees, Amounts, Fees, Released, Held, Bought, Sold

---------------------------------------------------------------------------
(* What a request that escrows has found *)

LEMMA BalanceIsInt ==
  ASSUME IsFiniteSet(Trades), SerialInv, NEW u \in Users
  PROVE  Balance(u) \in Int
<1>1. /\ IsFiniteSet(Bought(u)) /\ IsFiniteSet(Sold(u))
      /\ Bought(u) \subseteq Trades /\ Sold(u) \subseteq Trades
  BY FS_Subset DEF Bought, Sold
<1>2. ASSUME NEW t \in Trades
      PROVE  ReleasedCoins[t] \in Nat /\ HeldCoins[t] \in Nat /\ HeldFees[t] \in Nat
  <2>1. Fit(t, trade[t].status, escrow[t])
    BY DEF SerialInv
  <2> QED BY <2>1, FitSums, LedgerByRows
<1>3. /\ SumFunctionOnSet(ReleasedCoins, Bought(u)) \in Nat
      /\ SumFunctionOnSet(ReleasedCoins, Sold(u)) \in Nat
      /\ SumFunctionOnSet(HeldCoins, Sold(u)) \in Nat
      /\ SumFunctionOnSet(HeldFees, Sold(u)) \in Nat
  <2>1. /\ NatOn(ReleasedCoins, Bought(u)) /\ NatOn(ReleasedCoins, Sold(u))
        /\ NatOn(HeldCoins, Sold(u)) /\ NatOn(HeldFees, Sold(u))
    BY <1>1, <1>2 DEF NatOn
  <2> QED BY <1>1, <2>1, SumIsNat
<1>4. Funds[u] \in Int
  BY AmountsAssumption
<1> QED
  BY <1>3, <1>4 DEF Balance

\* Once its trade has the row, the seller is left with what the balance is then.
LEMMA EscrowSaveRemains ==
  ASSUME Serial, IsFiniteSet(Trades), TypeOK, HistoryInv, SerialInv, SerialInv',
         NEW r \in Threads, EscrowSave(r), NEW t \in Trades, t = req[r].trade
  PROVE  /\ Balance(Seller[t])' = Remains(t)
         /\ \A u \in Users \ {Seller[t]} : Balance(u)' = Balance(u)
         /\ escrow'[t] # << >>
<1>1. /\ escrow[t] = << >> => escrow'[t] = <<Full(t)>>
      /\ escrow[t] # << >> => escrow'[t] = escrow[t]
      /\ \A s \in Trades \ {t} : escrow'[s] = escrow[s]
  BY EscrowSaveRows
<1>2. Seller[t] \in Users /\ Buyer[t] # Seller[t]
  BY PartiesAssumption
<1>3. /\ PaidIn(<<Full(t)>>) = 0 /\ HeldIn(<<Full(t)>>) = Coins[t] /\ FeesIn(<<Full(t)>>) = Fee[t]
      /\ PaidIn(<< >>) = 0 /\ HeldIn(<< >>) = 0 /\ FeesIn(<< >>) = 0
      /\ Coins[t] \in Nat /\ Fee[t] \in Nat
  BY SumsByRow
<1>4. <<Full(t)>> # << >>
  BY OneRow
<1>5. PaidIn(escrow[t]) \in Nat /\ HeldIn(escrow[t]) \in Nat /\ FeesIn(escrow[t]) \in Nat
  BY FitSums DEF SerialInv
<1>6. ASSUME NEW u \in Users
      PROVE  /\ Balance(u) \in Int
             /\ Balance(u)' = IF Seller[t] = u
                                THEN Balance(u) - (IF escrow[t] = << >> THEN Coins[t] + Fee[t] ELSE 0)
                                ELSE Balance(u)
  <2> DEFINE paid == PaidIn(escrow'[t]) - PaidIn(escrow[t])
             held == HeldIn(escrow'[t]) - HeldIn(escrow[t])
             fees == FeesIn(escrow'[t]) - FeesIn(escrow[t])
  <2>1. /\ Balance(u) \in Int
        /\ Balance(u)' = Balance(u) + (IF Buyer[t] = u THEN paid ELSE 0)
                                    - (IF Seller[t] = u THEN paid + held + fees ELSE 0)
    BY <1>1, BalanceMoves
  <2>2. CASE escrow[t] = << >>
    <3>1. paid = 0 /\ held = Coins[t] /\ fees = Fee[t]
      BY <1>1, <1>3, <2>2
    <3> HIDE DEF paid, held, fees
    <3> QED BY <1>3, <2>1, <2>2, <3>1
  <2>3. CASE escrow[t] # << >>
    <3>1. paid = 0 /\ held = 0 /\ fees = 0
      BY <1>1, <1>5, <2>3
    <3> HIDE DEF paid, held, fees
    <3> QED BY <2>1, <2>3, <3>1
  <2> QED
    BY <2>2, <2>3
<1>7. Balance(Seller[t])' = Remains(t)
  BY <1>2, <1>6 DEF Remains
<1>8. \A u \in Users \ {Seller[t]} : Balance(u)' = Balance(u)
  BY <1>6
<1>9. escrow'[t] # << >>
  BY <1>1, <1>4
<1> QED
  BY <1>7, <1>8, <1>9

\* Releasing credits the buyer and gives the seller the commission back; cancelling
\* gives the seller everything back, and takes from the buyer what was paid.
LEMMA WhoLoses ==
  ASSUME IsFiniteSet(Trades), SerialInv, SerialInv', NEW t \in Trades,
         \A s \in Trades \ {t} : escrow'[s] = escrow[s],
         \/ escrow'[t] = escrow[t]
         \/ escrow[t] \in Funded(t) /\ escrow'[t] = <<Paying(t)>>
         \/ escrow[t] \in Funded(t) /\ escrow'[t] = <<Emptied(escrow[t][1])>>,
         NEW u \in Users
  PROVE  /\ Balance(u) \in Int /\ Balance(u)' \in Int
         /\ Balance(u)' < Balance(u) =>
              Buyer[t] = u /\ escrow[t] = <<Paying(t)>> /\ escrow'[t] = <<Emptied(Paying(t))>>
<1> DEFINE paid == PaidIn(escrow'[t]) - PaidIn(escrow[t])
           held == HeldIn(escrow'[t]) - HeldIn(escrow[t])
           fees == FeesIn(escrow'[t]) - FeesIn(escrow[t])
<1>1. /\ Balance(u) \in Int
      /\ Balance(u)' = Balance(u) + (IF Buyer[t] = u THEN paid ELSE 0)
                                  - (IF Seller[t] = u THEN paid + held + fees ELSE 0)
  BY BalanceMoves
<1>2. /\ Coins[t] \in Nat /\ Fee[t] \in Nat
      /\ \A x \in {Full(t), Paying(t)} :
           PaidIn(<<Emptied(x)>>) = 0 /\ HeldIn(<<Emptied(x)>>) = 0 /\ FeesIn(<<Emptied(x)>>) = 0
      /\ PaidIn(<<Full(t)>>) = 0 /\ HeldIn(<<Full(t)>>) = Coins[t]
      /\ FeesIn(<<Full(t)>>) = Fee[t]
      /\ PaidIn(<<Paying(t)>>) = Coins[t] /\ HeldIn(<<Paying(t)>>) = 0
      /\ FeesIn(<<Paying(t)>>) = 0
  BY SumsByRow
<1>3. PaidIn(escrow[t]) \in Nat /\ HeldIn(escrow[t]) \in Nat /\ FeesIn(escrow[t]) \in Nat
  BY FitSums DEF SerialInv
<1>4. CASE escrow'[t] = escrow[t]
  <2>1. paid = 0 /\ held = 0 /\ fees = 0
    BY <1>3, <1>4
  <2> HIDE DEF paid, held, fees
  <2> QED BY <1>1, <2>1
<1>5. CASE escrow[t] = <<Full(t)>> /\ escrow'[t] = <<Paying(t)>>
  <2>1. paid = Coins[t] /\ held = 0 - Coins[t] /\ fees = 0 - Fee[t]
    BY <1>2, <1>5
  <2> HIDE DEF paid, held, fees
  <2> QED BY <1>1, <1>2, <2>1
<1>6. CASE escrow[t] = <<Full(t)>> /\ escrow'[t] = <<Emptied(escrow[t][1])>>
  <2>1. escrow'[t] = <<Emptied(Full(t))>>
    BY <1>6, OneRow
  <2>2. paid = 0 /\ held = 0 - Coins[t] /\ fees = 0 - Fee[t]
    BY <1>2, <1>6, <2>1
  <2> HIDE DEF paid, held, fees
  <2> QED BY <1>1, <1>2, <2>2
<1>7. CASE escrow[t] = <<Paying(t)>> /\ escrow'[t] = <<Emptied(escrow[t][1])>>
  <2>1. escrow'[t] = <<Emptied(Paying(t))>>
    BY <1>7, OneRow
  <2>2. paid = 0 - Coins[t] /\ held = 0 /\ fees = 0
    BY <1>2, <1>7, <2>1
  <2> HIDE DEF paid, held, fees
  <2> QED BY <1>1, <1>2, <1>7, <2>1, <2>2
<1> QED
  BY <1>4, <1>5, <1>6, <1>7 DEF Funded

\* The request moves on to w, and what it has found still holds there.
LEMMA BalanceStep ==
  ASSUME Serial, TypeOK, NEW r \in Threads, NEW w, Go(r, w),
         Working(w) => /\ (Escrowing(req[r]))' /\ (Covered(req[r]))'
  PROVE  BalanceInv'
<1>1. ASSUME NEW q \in Threads
      PROVE  req'[q] = w /\ q = r
  BY DEF Serial, Go, TypeOK
<1> QED
  BY <1>1 DEF BalanceInv, Working

\* Nor is there anything to find where the request does not escrow.
LEMMA NotEscrowing ==
  ASSUME Serial, TypeOK, NEW r \in Threads, NEW w, Go(r, w),
         \/ ~Working(w)
         \/ w.pc = "process" /\ w.ad.terms = ad'[AdOf[w.trade]].terms
         \/ w.pc \in {"unescrow", "releaseFind", "releaseSave"}
         \/ w.pc = "save" /\ w.copy.status # "BITCOIN_ESCROWED"
  PROVE  BalanceInv'
<1>1. req'[r] = w
  BY DEF Go, TypeOK
<1>2. Working(w) => (Escrowing(req[r]))' /\ (Covered(req[r]))'
  BY <1>1 DEF Escrowing, Covered
<1> QED
  BY <1>2, BalanceStep

LEMMA EscrowBalance ==
  ASSUME Serial, IsFiniteSet(Trades), TypeOK, HistoryInv, SerialInv, BalanceInv,
         NEW r \in Threads, Escrow(r)
  PROVE  BalanceInv'
<1> DEFINE w == req[r]
<1>1. PICK t \in Trades, x \in Terms :
        /\ t = w.trade /\ x = w.ad.terms /\ x = ad[AdOf[t]].terms
        /\ WorkOK(w, escrow) /\ Fresh(w, trade[t].status, escrow[t])
  <2>1. /\ WorkOK(req[r], escrow) /\ req[r].trade \in Trades /\ req[r].pc = "process"
        /\ Fresh(req[r], trade[req[r].trade].status, escrow[req[r].trade])
        /\ Working(req[r])
    BY SerialAt DEF Escrow, Processing, At, Pcs
  <2>2. req[r].ad.terms \in Terms /\ req[r].ad.terms = ad[AdOf[req[r].trade]].terms
    BY <2>1 DEF WorkOK, AdRow, BalanceInv, Covered
  <2> QED BY <2>1, <2>2
<1>2. CASE Finish(r)
  BY <1>2, NotEscrowing, SerialIdle DEF Finish
<1>3. CASE ~Finish(r)
  <2>1. PICK b : b = Balance(Seller[t])
    OBVIOUS
  <2> DEFINE least == MinCoins[AdOf[t]][x]
             v == [w EXCEPT !.copy = [status |-> "BITCOIN_ESCROWED", escrowTime |-> now],
                            !.ad.hidden = @ \/ least > Left(w, b),
                            !.pc = "escrowFind"]
  <2>2. Left(w, b) > 0 /\ Go(r, v)
    <3>1. BalanceRead(Seller[t]) = {b}
      BY <2>1 DEF BalanceRead, Serial
    <3> QED BY <1>1, <1>3, <3>1 DEF Escrow
  <2>3. req'[r] = v
    BY <2>2 DEF Go, TypeOK
  <2>4. /\ v.pc = "escrowFind" /\ v.trade = t /\ v.ad.terms = x
        /\ v.ad.hidden = (w.ad.hidden \/ least > Left(w, b))
    BY <1>1 DEF WorkOK, AdRow
  <2>5. b \in Int /\ Cost[t][x] \in Nat /\ Coins[t] \in Nat /\ Fee[t] \in Nat /\ least \in Nat
    BY <1>1, <2>1, BalanceIsInt, AmountsAssumption, PartiesAssumption
  <2>6. Left(w, b) = b - Cost[t][x] - Fee[t]
    BY <1>1 DEF Left
  <2>7. UNCHANGED <<escrow, ad>>
    BY DEF Escrow, db
  <2>8. Balance(Seller[t])' = b
    BY <2>1, <2>7, BalanceStays
  <2>9. Remains(t)' = b - (IF escrow[t] = << >> THEN Coins[t] + Fee[t] ELSE 0)
    BY <2>7, <2>8 DEF Remains
  <2> DEFINE rest == Remains(t)'
             left == Left(w, b)
             cost == Cost[t][x]
  <2>10. /\ rest + Coins[t] >= left + cost
         /\ rest \in Int /\ left \in Int /\ cost \in Nat
    BY <2>5, <2>6, <2>9
  <2> HIDE DEF rest, left, cost, least
  <2>11. rest + Coins[t] > cost
    BY <2>2, <2>5, <2>10 DEF left
  <2>12. v.ad.hidden \/ least + cost <= rest + Coins[t]
    <3>1. (least > left) \/ least <= left
      BY <2>5, <2>10
    <3>2. least <= left => least + cost <= rest + Coins[t]
      BY <2>5, <2>10
    <3> HIDE DEF v
    <3> QED BY <2>4, <3>1, <3>2 DEF left
  <2> HIDE DEF v
  <2>13. (Escrowing(req[r]))' /\ (Covered(req[r]))'
    BY <1>1, <2>2, <2>3, <2>4, <2>7, <2>11, <2>12
       DEF Escrowing, Covered, Serves, Price, rest, cost, least
  <2> QED
    BY <2>2, <2>13, BalanceStep
<1> QED
  BY <1>2, <1>3

\* The row that was looked for changes nothing yet.
LEMMA EscrowFindBalance ==
  ASSUME Serial, TypeOK, HistoryInv, SerialInv, BalanceInv, NEW r \in Threads, EscrowFind(r)
  PROVE  BalanceInv'
<1> DEFINE w == req[r]
<1>1. PICK t \in Trades :
        /\ t = w.trade
        /\ WorkOK(w, escrow) /\ Working(w) /\ w.pc = "escrowFind"
        /\ w.copy.status = "BITCOIN_ESCROWED"
  BY SerialAt DEF EscrowFind, At, Pcs, Progress
<1>2. PICK h, row : Go(r, [w EXCEPT !.hit = h, !.row = row, !.pc = "escrowSave"])
  <2>1. \/ \E i \in Hits(t) :
              Go(r, [w EXCEPT !.hit = i, !.row = escrow[t][i], !.pc = "escrowSave"])
        \/ Go(r, [w EXCEPT !.pc = "escrowSave"])
    BY <1>1 DEF EscrowFind, Serial
  <2>2. [w EXCEPT !.pc = "escrowSave"] = [w EXCEPT !.hit = w.hit, !.row = w.row, !.pc = "escrowSave"]
    BY <1>1 DEF WorkOK
  <2> QED BY <2>1, <2>2
<1> DEFINE v == [w EXCEPT !.hit = h, !.row = row, !.pc = "escrowSave"]
<1>3. v.pc = "escrowSave" /\ v.trade = t /\ v.ad = w.ad /\ v.copy = w.copy /\ req'[r] = v
  BY <1>1, <1>2 DEF WorkOK, Go, TypeOK
<1> HIDE DEF v
<1>4. UNCHANGED <<escrow, ad>>
  BY DEF EscrowFind, db
<1>5. Remains(t)' = Remains(t)
  BY <1>4, BalanceStays DEF Remains
<1>6. Escrowing(w) /\ Covered(w)
  BY <1>1 DEF BalanceInv
<1>7. (Escrowing(req[r]))' /\ (Covered(req[r]))'
  BY <1>1, <1>3, <1>4, <1>5, <1>6 DEF Escrowing, Covered, Serves, Price
<1> QED
  BY <1>2, <1>7, BalanceStep DEF v

LEMMA EscrowSaveBalance ==
  ASSUME Serial, IsFiniteSet(Trades), TypeOK, HistoryInv, SerialInv, SerialInv', BalanceInv,
         NEW r \in Threads, EscrowSave(r)
  PROVE  BalanceInv'
<1> DEFINE w == req[r]
<1>1. PICK t \in Trades :
        /\ t = w.trade
        /\ WorkOK(w, escrow) /\ Working(w) /\ w.pc = "escrowSave"
        /\ w.copy.status = "BITCOIN_ESCROWED"
  BY SerialAt DEF EscrowSave, At, Pcs, Progress
<1> DEFINE v == [w EXCEPT !.pc = "adSave"]
<1>2. Go(r, v)
  BY <1>1, EscrowSaveRows
<1>3. v.pc = "adSave" /\ v.trade = t /\ v.ad = w.ad /\ v.copy = w.copy /\ req'[r] = v
  BY <1>1, <1>2 DEF WorkOK, Go, TypeOK
<1> HIDE DEF v
<1>4. Escrowing(w)
  BY <1>1 DEF BalanceInv
<1>5. Balance(Seller[t])' = Remains(t) /\ Remains(t) \in Int /\ escrow'[t] # << >>
  <2>1. Seller[t] \in Users
    BY PartiesAssumption
  <2>2. Balance(Seller[t])' = Remains(t) /\ escrow'[t] # << >>
    BY <1>1, EscrowSaveRemains
  <2>3. Remains(t) \in Int
    BY <2>1, BalanceIsInt, AmountsAssumption DEF Remains
  <2> QED BY <2>2, <2>3
<1>6. Remains(t)' = Remains(t)
  BY <1>5 DEF Remains
<1>7. (Escrowing(req[r]))' /\ (Covered(req[r]))'
  BY <1>1, <1>3, <1>4, <1>6 DEF Escrowing, Covered, Serves, Price
<1> QED
  BY <1>2, <1>7, BalanceStep

LEMMA AdSaveBalance ==
  ASSUME Serial, TypeOK, HistoryInv, SerialInv, BalanceInv, NEW r \in Threads, AdSave(r)
  PROVE  BalanceInv'
<1> DEFINE w == req[r]
<1>1. PICK t \in Trades :
        /\ t = w.trade
        /\ WorkOK(w, escrow) /\ Working(w) /\ w.pc = "adSave"
        /\ w.copy.status = "BITCOIN_ESCROWED"
  BY SerialAt DEF AdSave, At, Pcs, Progress
<1> DEFINE v == [w EXCEPT !.pc = "save"]
<1>2. Go(r, v) /\ UNCHANGED escrow /\ ad' = [ad EXCEPT ![AdOf[t]] = w.ad]
  BY <1>1 DEF AdSave
<1>3. v.pc = "save" /\ v.trade = t /\ v.ad = w.ad /\ v.copy = w.copy /\ req'[r] = v
  BY <1>1, <1>2 DEF WorkOK, Go, TypeOK
<1> HIDE DEF v
<1>4. Escrowing(w)
  BY <1>1 DEF BalanceInv
<1>5. ad'[AdOf[t]] = w.ad
  BY <1>2, PartiesAssumption DEF TypeOK
<1>6. Remains(t)' = Remains(t)
  BY <1>2, BalanceStays DEF Remains
<1>7. (Escrowing(req[r]))' /\ (Covered(req[r]))'
  BY <1>1, <1>3, <1>4, <1>5, <1>6 DEF Escrowing, Covered, Serves, Price
<1> QED
  BY <1>2, <1>7, BalanceStep

\* No other request is escrowing.
LEMMA OthersBalance ==
  ASSUME Serial, TypeOK, HistoryInv, SerialInv, NEW r \in Threads,
         \/ \E u \in Users, t \in Trades, op \in Ops : Request(r, u, t, op)
         \/ \E a \in Ads, x \in Terms : EditRequest(r, a, x)
         \/ \E u \in Active : LoadUser(r, u)
         \/ SendPayment(r) \/ BitcoinReceived(r) \/ Cancel(r) \/ UnEscrow(r)
         \/ BitcoinReleased(r) \/ ReleaseFind(r) \/ ReleaseSave(r)
         \/ Save(r) \/ EditSave(r) \/ SaveUser(r) \/ Crash(r)
  PROVE  BalanceInv'
<1>1. CASE Finish(r)
  BY <1>1, NotEscrowing, SerialIdle DEF Finish
<1>2. ASSUME NEW u \in Users, NEW t \in Trades, NEW op \in Ops, Request(r, u, t, op)
      PROVE  BalanceInv'
  <2> DEFINE w == Load(u, t, op)
  <2>1. /\ Go(r, w) /\ w.pc = "process"
        /\ w.ad.terms = ad'[AdOf[w.trade]].terms
    BY <1>2 DEF Request, Load, db
  <2> HIDE DEF w
  <2> QED BY <2>1, NotEscrowing
<1>3. ASSUME NEW w, Go(r, w), w.pc \in {"editSave", "userSave"}
      PROVE  BalanceInv'
  BY <1>3, NotEscrowing DEF Working, Pcs
<1>4. CASE \/ \E a \in Ads, x \in Terms : EditRequest(r, a, x)
           \/ \E u \in Active : LoadUser(r, u)
  BY <1>3, <1>4 DEF EditRequest, LoadUser
<1>5. CASE SendPayment(r) \/ BitcoinReceived(r) \/ Cancel(r) \/ BitcoinReleased(r)
  <2> DEFINE w == req[r]
             v(s, pc) == [w EXCEPT !.copy.status = s, !.pc = pc]
  <2>1. /\ WorkOK(w, escrow) /\ w.copy.status # "BITCOIN_RELEASED"
    BY <1>5, SerialAt DEF SendPayment, BitcoinReceived, Cancel, BitcoinReleased, Processing, At,
       Pcs, Progress
  <2>2. \/ Finish(r) \/ Go(r, v("PAYMENT_SENT", "save")) \/ Go(r, v("CANCELLED", "unescrow"))
        \/ Go(r, v("COMPLETED", "releaseFind"))
    BY <1>5, <2>1 DEF SendPayment, BitcoinReceived, Cancel, BitcoinReleased, Set
  <2>3. /\ v("PAYMENT_SENT", "save").pc = "save"
        /\ v("PAYMENT_SENT", "save").copy.status = "PAYMENT_SENT"
        /\ v("CANCELLED", "unescrow").pc = "unescrow"
        /\ v("COMPLETED", "releaseFind").pc = "releaseFind"
    BY <2>1 DEF WorkOK, TradeRow
  <2> HIDE DEF v
  <2> QED BY <1>1, <2>2, <2>3, NotEscrowing
<1>6. ASSUME NEW w, Go(r, w), w.pc = "save", w.copy.status \in {"CANCELLED", "COMPLETED"}
      PROVE  BalanceInv'
  BY <1>6, NotEscrowing
<1>7. CASE UnEscrow(r)
  <2> DEFINE w == req[r]
             v(rows) == [w EXCEPT !.rows = rows, !.pc = "save"]
  <2>1. WorkOK(w, escrow) /\ w.copy.status = "CANCELLED"
    BY <1>7, SerialAt DEF UnEscrow, At, Pcs, Progress
  <2>2. (\E rows : Go(r, v(rows))) \/ Go(r, [w EXCEPT !.pc = "save"])
    BY <1>7 DEF UnEscrow
  <2>3. /\ \A rows : v(rows).pc = "save" /\ v(rows).copy = w.copy
        /\ [w EXCEPT !.pc = "save"].pc = "save" /\ [w EXCEPT !.pc = "save"].copy = w.copy
    BY <2>1 DEF WorkOK
  <2> QED BY <1>6, <2>1, <2>2, <2>3
<1>8. CASE MarkReleased(r, req[r]) /\ (ReleaseFind(r) \/ ReleaseSave(r))
  <2> DEFINE w == req[r]
             v(i) == [w EXCEPT !.rows[i].released = TRUE, !.pc = "save"]
  <2>1. WorkOK(w, escrow) /\ w.copy.status = "COMPLETED"
    BY <1>8, SerialAt DEF ReleaseFind, ReleaseSave, At, Pcs, Progress
  <2>2. Finish(r) \/ \E i : Go(r, v(i))
    BY <1>8 DEF MarkReleased
  <2>3. \A i : v(i).pc = "save" /\ v(i).copy = w.copy
    BY <2>1 DEF WorkOK
  <2> QED BY <1>1, <1>6, <2>1, <2>2, <2>3
<1>9. CASE ReleaseFind(r)
  <2> DEFINE w == req[r]
             v(i) == [w EXCEPT !.hit = i, !.row = escrow[w.trade][i], !.pc = "releaseSave"]
  <2>1. WorkOK(w, escrow)
    BY <1>9, SerialAt DEF ReleaseFind, At, Pcs
  <2>2. MarkReleased(r, w) \/ \E i : Go(r, v(i))
    BY <1>9 DEF ReleaseFind
  <2>3. \A i : v(i).pc = "releaseSave"
    BY <2>1 DEF WorkOK
  <2>4. ASSUME NEW i, Go(r, v(i))
        PROVE  BalanceInv'
    BY <2>3, <2>4, NotEscrowing
  <2> QED BY <1>8, <1>9, <2>2, <2>4
<1>10. CASE ReleaseSave(r)
  BY <1>8, <1>10 DEF ReleaseSave
<1> QED
  BY <1>1, <1>2, <1>4, <1>5, <1>7, <1>9, <1>10 DEF Save, EditSave, SaveUser, Crash

LEMMA BalanceNextStep ==
  ASSUME Serial, IsFiniteSet(Trades)
  PROVE  TypeOK /\ HistoryInv /\ SerialInv /\ BalanceInv /\ [Next]_vars => BalanceInv'
<1> SUFFICES ASSUME TypeOK, HistoryInv, SerialInv, BalanceInv, [Next]_vars
             PROVE  BalanceInv'
  OBVIOUS
<1>1. SerialInv'
  BY SerialNextStep
<1>2. CASE Tick \/ UNCHANGED vars
  <2>1. UNCHANGED <<req, ad, escrow>>
    BY <1>2 DEF Tick, vars, db
  <2>2. \A t \in Trades : Remains(t)' = Remains(t)
    BY <2>1, BalanceStays DEF Remains
  <2>3. ASSUME NEW r \in Threads, Working(req'[r])
        PROVE  (Escrowing(req[r]))' /\ (Covered(req[r]))'
    <3>1. Working(req[r]) /\ req[r].trade \in Trades
      BY <2>1, <2>3, SerialAt DEF Working
    <3>2. Escrowing(req[r]) /\ Covered(req[r])
      BY <3>1 DEF BalanceInv
    <3> QED BY <2>1, <2>2, <3>1, <3>2 DEF Escrowing, Covered, Serves, Price
  <2> QED BY <2>3 DEF BalanceInv, Working
<1>3. ASSUME NEW r \in Threads,
             \/ \E u \in Users, t \in Trades, op \in Ops : Request(r, u, t, op)
             \/ \E a \in Ads, x \in Terms : EditRequest(r, a, x)
             \/ \E u \in Active : LoadUser(r, u)
      PROVE  BalanceInv'
  BY <1>3, OthersBalance
<1>4. ASSUME NEW r \in Threads, Step(r)
      PROVE  BalanceInv'
  BY <1>1, <1>4, OthersBalance, EscrowBalance, EscrowFindBalance, EscrowSaveBalance,
     AdSaveBalance DEF Step
<1> QED
  BY <1>2, <1>3, <1>4 DEF Next

LEMMA InitBalance == Init => BalanceInv
BY SerialIdle DEF Init, BalanceInv

\* When a trade becomes escrowed, the minimum of the advertisement is left to the
\* seller once the trade is paid at its present price, or the advertisement is hidden:
\* no other request comes between the check and the save.
THEOREM ShortAdsHidden ==
  ASSUME Serial, IsFiniteSet(Trades)
  PROVE  Spec => HiddenWhenShort
<1> DEFINE Shown(t) == LET a == ad'[AdOf[t]] IN
                       \/ a.hidden
                       \/ MinCoins[AdOf[t]][a.terms] + Cost[t][a.terms]
                            <= Balance(Seller[t])' + Coins[t]
<1>1. TypeOK /\ HistoryInv /\ SerialInv /\ BalanceInv /\ [Next]_vars =>
        \A t \in Trades :
          trade[t].status = "INPROCESS" /\ trade'[t].status = "BITCOIN_ESCROWED" => Shown(t)
  <2> SUFFICES ASSUME TypeOK, HistoryInv, SerialInv, BalanceInv, [Next]_vars,
                      NEW t \in Trades,
                      trade[t].status = "INPROCESS", trade'[t].status = "BITCOIN_ESCROWED"
               PROVE  Shown(t)
    OBVIOUS
  <2>1. PICK r \in Threads : Save(r)
    <3>1. trade' # trade
      OBVIOUS
    <3> QED
      BY <3>1, SaveUserNothing DEF Next, Step, vars, db, Tick, Request, EditRequest,
         LoadUser, SendPayment, BitcoinReceived, Cancel, UnEscrow, BitcoinReleased, ReleaseFind,
         ReleaseSave, Escrow, EscrowFind, EscrowSave, AdSave, EditSave, Crash
  <2> DEFINE w == req[r]
  <2>2. /\ w.trade = t /\ w.pc = "save" /\ w.copy.status = "BITCOIN_ESCROWED"
        /\ escrow[t] \in Funded(t)
        /\ Working(w)
    <3>1. w.trade = t
      BY <2>1, SaveRows
    <3>2. /\ w.pc = "save" /\ w.copy.status = "BITCOIN_ESCROWED" /\ escrow[t] \in Funded(t)
      BY <2>1, <3>1, SaveRows
    <3> QED BY <3>1, <3>2 DEF Working, Pcs
  <2>3. escrow' = escrow
    <3>1. escrow' = [escrow EXCEPT ![t] = Overlay(w.rows, @)]
      BY <2>1, <2>2 DEF Save
    <3>2. escrow'[t] = escrow[t]
      BY <2>1, <2>2, SaveRows
    <3> QED BY <3>1, <3>2 DEF TypeOK
  <2>4. Balance(Seller[t])' = Balance(Seller[t])
    BY <2>3, BalanceStays
  <2>5. Remains(t) = Balance(Seller[t])
    <3>1. escrow[t] # << >>
      BY <2>2, FundedOne
    <3>2. Balance(Seller[t]) \in Int
      BY BalanceIsInt, PartiesAssumption
    <3> QED BY <3>1, <3>2 DEF Remains
  <2>6. Serves(w) /\ ad[AdOf[t]] = w.ad
    BY <2>2 DEF BalanceInv, Escrowing
  <2>7. ad' = ad
    BY <2>1 DEF Save
  <2> QED
    BY <2>2, <2>4, <2>5, <2>6, <2>7 DEF Serves, Price
<1> QED
  BY <1>1, SerialCorrect, InitBalance, BalanceNextStep, PTL DEF Spec, HiddenWhenShort

---------------------------------------------------------------------------
(* Nobody is overdrawn but in two ways *)

\* Adding a row takes its coins from the seller, who had more than the price.
LEMMA EscrowSaveTakes ==
  ASSUME Serial, IsFiniteSet(Trades), TypeOK, HistoryInv, SerialInv, SerialInv', BalanceInv,
         NEW r \in Threads, EscrowSave(r), NEW u \in Users, Balance(u)' < Balance(u)
  PROVE  \E t \in Sold(u) : LockedAbovePrice(t)
<1>1. PICK t \in Trades : t = req[r].trade /\ req[r].pc = "escrowSave" /\ Working(req[r])
  BY EscrowSaveRows DEF Working, Pcs
<1>2. /\ Balance(Seller[t])' = Remains(t) /\ escrow'[t] # << >>
      /\ \A v \in Users \ {Seller[t]} : Balance(v)' = Balance(v)
  BY <1>1, EscrowSaveRemains
<1>3. Balance(u) \in Int
  BY BalanceIsInt
<1>4. u = Seller[t]
  BY <1>2, <1>3
<1>5. escrow[t] = << >>
  BY <1>2, <1>3, <1>4 DEF Remains
<1>6. Remains(t) + Coins[t] > Cost[t][ad[AdOf[t]].terms]
  BY <1>1 DEF BalanceInv, Covered, Price
<1>7. Remains(t) \in Int /\ Coins[t] \in Int
  BY <1>3, <1>4, AmountsAssumption DEF Remains
<1>8. Coins[t] + Balance(Seller[t])' > Cost[t][ad[AdOf[t]].terms]
  BY <1>2, <1>6, <1>7
<1> QED
  BY <1>1, <1>2, <1>4, <1>5, <1>8 DEF LockedAbovePrice, Sold

\* Cancelling takes from the buyer what a release left half way had paid.
LEMMA SaveTakes ==
  ASSUME Serial, IsFiniteSet(Trades), TypeOK, HistoryInv, SerialInv, SerialInv',
         NEW r \in Threads, Save(r), NEW u \in Users, Balance(u)' < Balance(u)
  PROVE  \E t \in Bought(u) : TakenBack(t)
<1>1. PICK t \in Trades :
        /\ \A s \in Trades \ {t} : escrow'[s] = escrow[s]
        /\ \/ escrow'[t] = escrow[t]
           \/ /\ trade[t].status = "BITCOIN_ESCROWED" /\ trade'[t].status = "CANCELLED"
              /\ escrow[t] \in Funded(t) /\ escrow'[t] = <<Emptied(escrow[t][1])>>
  BY SaveRows
<1>2. /\ Buyer[t] = u /\ escrow[t] = <<Paying(t)>> /\ escrow'[t] = <<Emptied(Paying(t))>>
      /\ Balance(u) \in Int
  <2>1. Balance(u) \in Int
    BY BalanceIsInt
  <2> QED
    BY <1>1, <2>1, WhoLoses
<1>3. escrow'[t] # escrow[t]
  <2>1. Emptied(Paying(t)).amount = 0 /\ Paying(t).amount # 0
    BY EmptiedAmounts, AmountsAssumption DEF Paying
  <2>2. <<Emptied(Paying(t))>>[1] # <<Paying(t)>>[1]
    BY <2>1, OneRow
  <2> QED
    BY <1>2, <2>2
<1>4. Paid(t)
  <2>1. 1 \in DOMAIN escrow[t] /\ escrow[t][1] = Paying(t)
    BY <1>2, OneRow
  <2>2. Paying(t).amount # 0 /\ Paying(t).released
    BY AmountsAssumption DEF Paying
  <2> QED
    BY <2>1, <2>2 DEF Paid
<1> QED
  BY <1>1, <1>2, <1>3, <1>4 DEF TakenBack, Bought

\* When requests come one at a time, nobody's balance falls below zero but the seller's,
\* where the rate was raised between the creation and the escrow, and the buyer's, where
\* a trade is cancelled after a release of it stopped half way.
THEOREM NoOneElseOverdrawn ==
  ASSUME Serial, IsFiniteSet(Trades)
  PROVE  Spec => NoOtherOverdraft
<1>1. TypeOK /\ HistoryInv /\ SerialInv /\ BalanceInv /\ [Next]_vars =>
        \A u \in Users :
          Balance(u)' < Balance(u) /\ Balance(u)' < 0 =>
            \/ \E t \in Sold(u) : LockedAbovePrice(t)
            \/ \E t \in Bought(u) : TakenBack(t)
  <2> SUFFICES ASSUME TypeOK, HistoryInv, SerialInv, BalanceInv, [Next]_vars,
                      NEW u \in Users, Balance(u)' < Balance(u)
               PROVE  \/ \E t \in Sold(u) : LockedAbovePrice(t)
                      \/ \E t \in Bought(u) : TakenBack(t)
    OBVIOUS
  <2>1. SerialInv'
    BY SerialNextStep
  <2>2. Balance(u) \in Int
    BY BalanceIsInt
  <2>3. ASSUME NEW r \in Threads, EscrowSave(r)
        PROVE  \E t \in Sold(u) : LockedAbovePrice(t)
    BY <2>1, <2>3, EscrowSaveTakes
  <2>4. ASSUME NEW r \in Threads, Save(r)
        PROVE  \E t \in Bought(u) : TakenBack(t)
    BY <2>1, <2>4, SaveTakes
  <2>5. ASSUME NEW r \in Threads, ReleaseSave(r)
        PROVE  FALSE
    <3>1. PICK t \in Trades :
            /\ escrow[t] \in Funded(t)
            /\ escrow'[t] = <<Paying(t)>>
            /\ \A s \in Trades \ {t} : escrow'[s] = escrow[s]
      BY <2>5, ReleaseSaveRows
    <3>2. escrow'[t] = <<Emptied(Paying(t))>>
      BY <2>1, <3>1, WhoLoses
    <3>3. Emptied(Paying(t)).amount = 0 /\ Paying(t).amount # 0
      BY EmptiedAmounts, AmountsAssumption DEF Paying
    <3>4. <<Emptied(Paying(t))>>[1] # <<Paying(t)>>[1]
      BY <3>3, OneRow
    <3> QED
      BY <3>1, <3>2, <3>4
  <2>6. CASE \A r \in Threads : ~EscrowSave(r) /\ ~ReleaseSave(r) /\ ~Save(r)
    <3>1. UNCHANGED escrow
      BY <2>6, SaveUserNothing DEF Next, Step, vars, db, Tick, Request, EditRequest,
         LoadUser, SendPayment, BitcoinReceived, Cancel, UnEscrow, BitcoinReleased, ReleaseFind,
         Escrow, EscrowFind, AdSave, EditSave, Crash
    <3>2. Balance(u)' = Balance(u)
      BY <3>1, BalanceStays
    <3> QED
      BY <2>2, <3>2
  <2> QED
    BY <2>3, <2>4, <2>5, <2>6
<1> QED
  BY <1>1, SerialCorrect, InitBalance, BalanceNextStep, PTL DEF Spec, NoOtherOverdraft

=============================================================================
