---------------------------- MODULE TradeProofs ----------------------------
(***************************************************************************)
(* Theorems about TradeRequests, for any number of users, trades,          *)
(* advertisements and threads, any amounts and any interleaving: the types *)
(* and the bound on rows, then the history a trade keeps, then that what   *)
(* is settled stays so.  What a balance is plays no part in them: Balance  *)
(* is never expanded.                                                      *)
(***************************************************************************)
EXTENDS TradeProperties, SequenceTheorems, FiniteSetTheorems, TLAPS

LEMMA OverlaySeq ==
  ASSUME NEW s \in Seq(EscrowRow), NEW f,
         DOMAIN f \subseteq DOMAIN s,
         \A i \in DOMAIN f : f[i] \in EscrowRow
  PROVE  Overlay(f, s) \in Seq(EscrowRow) /\ DOMAIN Overlay(f, s) = DOMAIN s
<1>1. Len(s) \in Nat /\ DOMAIN s = 1 .. Len(s) /\ s \in [1 .. Len(s) -> EscrowRow]
  BY LenProperties
<1>2. Overlay(f, s) \in [1 .. Len(s) -> EscrowRow]
  BY <1>1 DEF Overlay
<1>3. Overlay(f, s) \in Seq(EscrowRow)
  BY <1>1, <1>2, SeqDef
<1> QED
  BY <1>1, <1>3 DEF Overlay

\* Requests stay well formed while escrow rows are only added.
LEMMA RowsOnlyAdded ==
  ASSUME NEW w, NEW old, NEW new, RequestOK(w, old),
         \A t \in Trades : DOMAIN old[t] \subseteq DOMAIN new[t]
  PROVE  RequestOK(w, new)
BY DEF RequestOK, WorkOK, UserOK, TradeList

\* A step of one request that leaves the tables alone.
LEMMA RequestStep ==
  ASSUME TypeOK, NEW r \in Threads, NEW w, RequestOK(w, escrow), Go(r, w),
         UNCHANGED <<db, now, seen>>
  PROVE  TypeOK'
BY DEF TypeOK, Go, db

LEMMA WorkingOK ==
  ASSUME TypeOK, NEW r \in Threads, req[r].pc \in Pcs
  PROVE  WorkOK(req[r], escrow)
BY DEF TypeOK, RequestOK, Editing, Saving, Idle, Pcs

LEMMA SavingOK ==
  ASSUME TypeOK, NEW r \in Threads, At(r, "userSave")
  PROVE  UserOK(req[r], escrow)
BY DEF TypeOK, At, RequestOK, Editing, Working, Idle, Pcs

LEMMA IdleOK == RequestOK(Idle, escrow)
BY DEF RequestOK

\* The requests that change only their own copies.
LEMMA SetOK ==
  ASSUME NEW w, WorkOK(w, escrow), NEW s \in Statuses, NEW pc \in Pcs \ {"releaseSave"}
  PROVE  RequestOK([w EXCEPT !.copy.status = s, !.pc = pc], escrow)
<1> DEFINE v == [w EXCEPT !.copy.status = s, !.pc = pc]
<1>1. v.copy \in TradeRow
  BY DEF WorkOK, TradeRow
<1>2. WorkOK(v, escrow)
  BY <1>1 DEF WorkOK, Pcs
<1> QED
  BY <1>2 DEF RequestOK, Working, WorkOK

LEMMA RequestType ==
  ASSUME TypeOK, NEW r \in Threads, NEW u \in Users, NEW t \in Trades, NEW op \in Ops,
         Request(r, u, t, op)
  PROVE  TypeOK'
<1>1. WorkOK(Load(u, t, op), escrow)
  <2>1. escrow[t] \in Seq(EscrowRow)
    BY DEF TypeOK
  <2>2. \A i \in DOMAIN escrow[t] : escrow[t][i] \in EscrowRow
    BY <2>1, ElementOfSeq, LenProperties
  <2>3. NoRow \in EscrowRow
    BY DEF NoRow, EscrowRow
  <2>4. trade[t] \in TradeRow /\ trade[t].status \in Statuses /\ ad[AdOf[t]] \in AdRow
    BY PartiesAssumption DEF TypeOK, TradeRow
  <2> QED
    BY <2>2, <2>3, <2>4 DEF WorkOK, Load
<1>2. RequestOK(Load(u, t, op), escrow)
  BY <1>1 DEF RequestOK, Working, Load, Pcs
<1> QED
  BY <1>2, RequestStep DEF Request

LEMMA DecisionType ==
  ASSUME TypeOK, NEW r \in Threads,
         SendPayment(r) \/ BitcoinReceived(r) \/ Cancel(r) \/ BitcoinReleased(r)
  PROVE  TypeOK'
<1>1. WorkOK(req[r], escrow)
  BY WorkingOK DEF SendPayment, BitcoinReceived, Cancel, BitcoinReleased, Processing, At, Pcs
<1>2. UNCHANGED <<db, now, seen>>
  BY DEF SendPayment, BitcoinReceived, Cancel, BitcoinReleased
<1>3. \/ Finish(r)
      \/ \E s \in Statuses, pc \in Pcs \ {"releaseSave"} : Set(r, s, pc)
  BY DEF SendPayment, BitcoinReceived, Cancel, BitcoinReleased, Statuses, Pcs
<1> QED
  BY <1>1, <1>2, <1>3, SetOK, IdleOK, RequestStep DEF Set, Finish

\* A row of the table.
LEMMA RowOK ==
  ASSUME TypeOK, NEW t \in Trades
  PROVE  /\ escrow[t] \in Seq(EscrowRow)
         /\ Len(escrow[t]) \in Nat
         /\ DOMAIN escrow[t] = 1 .. Len(escrow[t])
         /\ \A i \in DOMAIN escrow[t] : escrow[t][i] \in EscrowRow
<1>1. escrow[t] \in Seq(EscrowRow)
  BY DEF TypeOK
<1> QED
  BY <1>1, ElementOfSeq, LenProperties

LEMMA MarkReleasedOK ==
  ASSUME NEW w, WorkOK(w, escrow), NEW i \in DOMAIN w.rows
  PROVE  RequestOK([w EXCEPT !.rows[i].released = TRUE, !.pc = "save"], escrow)
<1> DEFINE v == [w EXCEPT !.rows[i].released = TRUE, !.pc = "save"]
<1>1. /\ DOMAIN v.rows = DOMAIN w.rows
      /\ \A j \in DOMAIN v.rows : v.rows[j] \in EscrowRow
  BY DEF WorkOK, EscrowRow
<1>2. WorkOK(v, escrow)
  BY <1>1 DEF WorkOK
<1> QED
  BY <1>2 DEF RequestOK, Working, WorkOK, Pcs

LEMMA UnEscrowType ==
  ASSUME TypeOK, NEW r \in Threads, UnEscrow(r)
  PROVE  TypeOK'
<1> DEFINE w == req[r]
           emptied(i) == [w EXCEPT !.rows = [j \in {i} |-> [escrow[w.trade][j] EXCEPT !.amount = 0, !.fee = 0]],
                                   !.pc = "save"]
<1>1. WorkOK(w, escrow)
  BY WorkingOK DEF UnEscrow, At, Pcs
<1>2. \A i \in Hits(w.trade) : RequestOK(emptied(i), escrow)
  <2> SUFFICES ASSUME NEW i \in Hits(w.trade)
               PROVE  RequestOK(emptied(i), escrow)
    OBVIOUS
  <2>1. escrow[w.trade][i] \in EscrowRow
    BY <1>1, RowOK DEF WorkOK, Hits
  <2>2. WorkOK(emptied(i), escrow)
    BY <1>1, <2>1 DEF WorkOK, Hits, EscrowRow
  <2> QED
    BY <2>2 DEF RequestOK, Working, WorkOK, Pcs
<1>3. RequestOK([w EXCEPT !.pc = "save"], escrow)
  BY <1>1 DEF RequestOK, Working, WorkOK, Pcs
<1> QED
  BY <1>2, <1>3, RequestStep DEF UnEscrow

LEMMA ReleaseFindType ==
  ASSUME TypeOK, NEW r \in Threads, ReleaseFind(r)
  PROVE  TypeOK'
<1> DEFINE w == req[r]
           found(i) == [w EXCEPT !.hit = i, !.row = escrow[w.trade][i], !.pc = "releaseSave"]
<1>1. WorkOK(w, escrow)
  BY WorkingOK DEF ReleaseFind, At, Pcs
<1>2. \A i \in Hits(w.trade) : RequestOK(found(i), escrow)
  <2> SUFFICES ASSUME NEW i \in Hits(w.trade)
               PROVE  RequestOK(found(i), escrow)
    OBVIOUS
  <2>1. escrow[w.trade][i] \in EscrowRow /\ i # 0
    BY <1>1, RowOK DEF WorkOK, Hits
  <2>2. WorkOK(found(i), escrow)
    BY <1>1, <2>1 DEF WorkOK, Hits
  <2> QED
    BY <2>2 DEF RequestOK, Working, WorkOK, Pcs
<1> QED
  BY <1>1, <1>2, MarkReleasedOK, IdleOK, RequestStep DEF ReleaseFind, MarkReleased, Finish

LEMMA EscrowType ==
  ASSUME TypeOK, NEW r \in Threads, Escrow(r)
  PROVE  TypeOK'
<1> DEFINE w == req[r]
           locked(b) ==
             [w EXCEPT !.copy = [status |-> "BITCOIN_ESCROWED", escrowTime |-> now],
                       !.ad.hidden = @ \/ MinCoins[AdOf[w.trade]][w.ad.terms] > Left(w, b),
                       !.pc = "escrowFind"]
<1>1. WorkOK(w, escrow)
  BY WorkingOK DEF Escrow, Processing, At, Pcs
<1>2. ASSUME NEW b PROVE RequestOK(locked(b), escrow)
  <2>1. locked(b).copy \in TradeRow
    BY <1>1, EnvironmentAssumption DEF WorkOK, TradeRow, Statuses, TypeOK
  <2>2. locked(b).ad \in AdRow
    BY <1>1 DEF WorkOK, AdRow
  <2>3. WorkOK(locked(b), escrow)
    BY <1>1, <2>1, <2>2 DEF WorkOK
  <2> QED
    BY <2>3 DEF RequestOK, Working, WorkOK, Pcs
<1> QED
  BY <1>2, IdleOK, RequestStep DEF Escrow, Finish

LEMMA EscrowFindType ==
  ASSUME TypeOK, NEW r \in Threads, EscrowFind(r)
  PROVE  TypeOK'
<1> DEFINE w == req[r]
           found(i) == [w EXCEPT !.hit = i, !.row = escrow[w.trade][i], !.pc = "escrowSave"]
<1>1. WorkOK(w, escrow)
  BY WorkingOK DEF EscrowFind, At, Pcs
<1>2. \A i \in Hits(w.trade) : RequestOK(found(i), escrow)
  <2> SUFFICES ASSUME NEW i \in Hits(w.trade)
               PROVE  RequestOK(found(i), escrow)
    OBVIOUS
  <2>1. escrow[w.trade][i] \in EscrowRow
    BY <1>1, RowOK DEF WorkOK, Hits
  <2>2. WorkOK(found(i), escrow)
    BY <1>1, <2>1 DEF WorkOK, Hits
  <2> QED
    BY <2>2 DEF RequestOK, Working, WorkOK, Pcs
<1>3. RequestOK([w EXCEPT !.pc = "escrowSave"], escrow)
  BY <1>1 DEF RequestOK, Working, WorkOK, Pcs
<1> QED
  BY <1>2, <1>3, IdleOK, RequestStep DEF EscrowFind, Finish

\* A step of one request that writes escrow rows: none disappears.
LEMMA EscrowStep ==
  ASSUME TypeOK, NEW r \in Threads, NEW w, RequestOK(w, escrow'), Go(r, w),
         escrow' \in [Trades -> Seq(EscrowRow)],
         \A t \in Trades : DOMAIN escrow[t] \subseteq DOMAIN escrow'[t],
         trade' \in [Trades -> TradeRow],
         seen' \in [Trades -> SUBSET Statuses],
         UNCHANGED <<ad, now>>
  PROVE  TypeOK'
<1>1. \A q \in Threads : RequestOK(req[q], escrow')
  BY RowsOnlyAdded DEF TypeOK
<1> QED
  BY <1>1 DEF TypeOK, Go

LEMMA ReleaseSaveType ==
  ASSUME TypeOK, NEW r \in Threads, ReleaseSave(r)
  PROVE  TypeOK'
<1> DEFINE w == req[r]
           row == [w.row EXCEPT !.released = TRUE]
<1>1. WorkOK(w, escrow) /\ w.hit \in DOMAIN escrow[w.trade]
  BY WorkingOK DEF ReleaseSave, At, Pcs, WorkOK
<1>2. \/ Go(r, Idle)
      \/ \E i \in DOMAIN w.rows : Go(r, [w EXCEPT !.rows[i].released = TRUE, !.pc = "save"])
  BY DEF ReleaseSave, MarkReleased, Finish
<1>3. CASE UNCHANGED escrow
  BY <1>1, <1>2, <1>3, MarkReleasedOK, IdleOK, RequestStep DEF ReleaseSave, db
<1>4. CASE escrow' = [escrow EXCEPT ![w.trade][w.hit] = row]
  <2>1. row \in EscrowRow
    BY <1>1 DEF WorkOK, EscrowRow
  <2>2. [escrow[w.trade] EXCEPT ![w.hit] = row] \in Seq(EscrowRow)
    BY <1>1, <2>1, RowOK, ExceptSeq DEF WorkOK
  <2>3. /\ escrow' \in [Trades -> Seq(EscrowRow)]
        /\ \A t \in Trades : DOMAIN escrow[t] = DOMAIN escrow'[t]
    BY <1>1, <1>4, <2>2 DEF TypeOK, WorkOK
  <2>4. \A v : RequestOK(v, escrow) => RequestOK(v, escrow')
    BY <2>3, RowsOnlyAdded
  <2> QED
    BY <1>1, <1>2, <2>3, <2>4, MarkReleasedOK, IdleOK, EscrowStep DEF ReleaseSave, TypeOK
<1> QED
  BY <1>3, <1>4 DEF ReleaseSave

LEMMA EscrowSaveType ==
  ASSUME TypeOK, NEW r \in Threads, EscrowSave(r)
  PROVE  TypeOK'
<1> DEFINE w == req[r]
           t == w.trade
<1>1. WorkOK(w, escrow)
  BY WorkingOK DEF EscrowSave, At, Pcs
<1>2. RequestOK([w EXCEPT !.pc = "adSave"], escrow)
  BY <1>1 DEF RequestOK, Working, WorkOK, Pcs
<1>3. \A row \in EscrowRow : Fund(t, row) \in EscrowRow
  BY <1>1, AmountsAssumption DEF WorkOK, Fund, EscrowRow
<1>4. CASE UNCHANGED escrow /\ Finish(r)
  BY <1>4, IdleOK, RequestStep DEF EscrowSave, Finish, db
<1>5. CASE w.hit = 0 /\ escrow' = [escrow EXCEPT ![t] = Append(@, Fund(t, NoRow))]
                    /\ Go(r, [w EXCEPT !.pc = "adSave"])
  <2>1. Fund(t, NoRow) \in EscrowRow
    BY <1>3 DEF NoRow, EscrowRow
  <2>2. /\ Append(escrow[t], Fund(t, NoRow)) \in Seq(EscrowRow)
        /\ DOMAIN escrow[t] \subseteq DOMAIN Append(escrow[t], Fund(t, NoRow))
    BY <1>1, <2>1, RowOK, AppendProperties DEF WorkOK
  <2>3. /\ escrow' \in [Trades -> Seq(EscrowRow)]
        /\ \A s \in Trades : DOMAIN escrow[s] \subseteq DOMAIN escrow'[s]
    BY <1>1, <1>5, <2>2 DEF TypeOK, WorkOK
  <2> QED
    BY <1>2, <1>5, <2>3, RowsOnlyAdded, EscrowStep DEF EscrowSave, TypeOK
<1>6. CASE w.hit # 0 /\ escrow' = [escrow EXCEPT ![t][w.hit] = Fund(t, w.row)]
                    /\ Go(r, [w EXCEPT !.pc = "adSave"])
  <2>1. [escrow[t] EXCEPT ![w.hit] = Fund(t, w.row)] \in Seq(EscrowRow)
    BY <1>1, <1>3, <1>6, RowOK, ExceptSeq DEF WorkOK
  <2>2. /\ escrow' \in [Trades -> Seq(EscrowRow)]
        /\ \A s \in Trades : DOMAIN escrow[s] = DOMAIN escrow'[s]
    BY <1>1, <1>6, <2>1 DEF TypeOK, WorkOK
  <2> QED
    BY <1>2, <1>6, <2>2, RowsOnlyAdded, EscrowStep DEF EscrowSave, TypeOK
<1> QED
  BY <1>4, <1>5, <1>6 DEF EscrowSave

LEMMA SaveType ==
  ASSUME TypeOK, NEW r \in Threads, Save(r)
  PROVE  TypeOK'
<1> DEFINE w == req[r]
           t == w.trade
<1>1. WorkOK(w, escrow)
  BY WorkingOK DEF Save, At, Pcs
<1>2. /\ Overlay(w.rows, escrow[t]) \in Seq(EscrowRow)
      /\ DOMAIN Overlay(w.rows, escrow[t]) = DOMAIN escrow[t]
  BY <1>1, RowOK, OverlaySeq DEF WorkOK
<1>3. /\ escrow' \in [Trades -> Seq(EscrowRow)]
      /\ \A s \in Trades : DOMAIN escrow[s] = DOMAIN escrow'[s]
  BY <1>1, <1>2 DEF Save, TypeOK, WorkOK
<1>4. trade' \in [Trades -> TradeRow] /\ seen' \in [Trades -> SUBSET Statuses]
  BY <1>1 DEF Save, TypeOK, WorkOK, TradeRow
<1>5. RequestOK(Idle, escrow')
  BY DEF RequestOK
<1> QED
  BY <1>3, <1>4, <1>5, EscrowStep DEF Save, Finish

LEMMA AdvertiseType ==
  ASSUME TypeOK, NEW r \in Threads,
         \/ AdSave(r)
         \/ \E a \in Ads, x \in Terms : EditRequest(r, a, x)
         \/ EditSave(r)
  PROVE  TypeOK'
<1>1. CASE AdSave(r)
  <2>1. WorkOK(req[r], escrow)
    BY <1>1, WorkingOK DEF AdSave, At, Pcs
  <2>2. RequestOK([req[r] EXCEPT !.pc = "save"], escrow)
    BY <2>1 DEF RequestOK, Working, WorkOK, Pcs
  <2>3. ad' \in [Ads -> AdRow]
    BY <1>1, <2>1, PartiesAssumption DEF AdSave, TypeOK, WorkOK
  <2> QED
    BY <1>1, <2>2, <2>3 DEF AdSave, Go, TypeOK
<1>2. ASSUME NEW a \in Ads, NEW x \in Terms, EditRequest(r, a, x)
      PROVE  TypeOK'
  <2> DEFINE w == [pc |-> "editSave", adId |-> a, ad |-> [ad[a] EXCEPT !.terms = x]]
  <2>1. [ad[a] EXCEPT !.terms = x] \in AdRow
    BY DEF TypeOK, AdRow
  <2>2. RequestOK(w, escrow)
    BY <2>1 DEF RequestOK, Editing
  <2> QED
    BY <1>2, <2>2, RequestStep DEF EditRequest
<1>3. CASE EditSave(r)
  <2>1. Editing(req[r])
    <3>1. req[r].pc = "editSave"
      BY <1>3 DEF EditSave, At
    <3>2. RequestOK(req[r], escrow)
      BY DEF TypeOK
    <3> QED
      BY <3>1, <3>2 DEF RequestOK, Idle, Working, Saving, Pcs
  <2>2. ad' \in [Ads -> AdRow]
    BY <1>3, <2>1 DEF EditSave, Editing, TypeOK
  <2> QED
    BY <1>3, <2>2, IdleOK DEF EditSave, Finish, Go, TypeOK
<1> QED
  BY <1>1, <1>2, <1>3

LEMMA LoadUserType ==
  ASSUME TypeOK, NEW r \in Threads, NEW u \in Users, LoadUser(r, u)
  PROVE  TypeOK'
<1> DEFINE w == [pc |-> "userSave", user |-> u,
                 ads |-> [a \in AdvertiseList(u) |-> ad[a]],
                 trades |-> [t \in TradeList(u) |-> trade[t]],
                 rows |-> [t \in TradeList(u) |-> escrow[t]]]
<1>1. w.ads \in [AdvertiseList(u) -> AdRow] /\ w.trades \in [TradeList(u) -> TradeRow]
  BY DEF TypeOK, AdvertiseList, TradeList
<1>2. \A t \in TradeList(u) :
        w.rows[t] \in Seq(EscrowRow) /\ DOMAIN w.rows[t] \subseteq DOMAIN escrow[t]
  BY DEF TypeOK, TradeList
<1>3. RequestOK(w, escrow)
  BY <1>1, <1>2 DEF RequestOK, Saving, UserOK
<1> QED
  BY <1>3, RequestStep DEF LoadUser

\* Saving a user writes rows over rows: their number does not change.
LEMMA SaveUserRows ==
  ASSUME TypeOK, NEW r \in Threads, SaveUser(r), NEW t \in Trades
  PROVE  /\ escrow'[t] \in Seq(EscrowRow)
         /\ DOMAIN escrow'[t] = DOMAIN escrow[t]
         /\ Len(escrow'[t]) = Len(escrow[t])
<1> DEFINE w == req[r]
<1>1. UserOK(w, escrow)
  BY SavingOK DEF SaveUser
<1>2. escrow'[t] = IF t \in DOMAIN w.rows THEN Overlay(w.rows[t], escrow[t]) ELSE escrow[t]
  BY DEF SaveUser
<1>3. CASE t \in DOMAIN w.rows
  <2>1. /\ w.rows[t] \in Seq(EscrowRow)
        /\ DOMAIN w.rows[t] \subseteq DOMAIN escrow[t]
    BY <1>1, <1>3 DEF UserOK
  <2>2. \A i \in DOMAIN w.rows[t] : w.rows[t][i] \in EscrowRow
    BY <2>1, ElementOfSeq, LenProperties
  <2>3. escrow'[t] \in Seq(EscrowRow) /\ DOMAIN escrow'[t] = DOMAIN escrow[t]
    BY <1>2, <1>3, <2>1, <2>2, RowOK, OverlaySeq
  <2>4. Len(escrow'[t]) = Len(escrow[t])
    BY <2>3, RowOK, LenProperties
  <2> QED
    BY <2>3, <2>4
<1>4. CASE t \notin DOMAIN w.rows
  BY <1>2, <1>4, RowOK
<1> QED
  BY <1>3, <1>4

LEMMA SaveUserType ==
  ASSUME TypeOK, NEW r \in Threads, SaveUser(r)
  PROVE  TypeOK'
<1> DEFINE w == req[r]
<1>1. UserOK(w, escrow)
  BY SavingOK DEF SaveUser
<1>2. ad' \in [Ads -> AdRow]
  BY <1>1 DEF SaveUser, Overlay, UserOK, TypeOK
<1>3. trade' \in [Trades -> TradeRow]
  BY <1>1 DEF SaveUser, Overlay, UserOK, TypeOK
<1>4. seen' \in [Trades -> SUBSET Statuses]
  <2>1. \A t \in Trades : trade'[t].status \in Statuses
    BY <1>3 DEF TradeRow
  <2> QED
    BY <2>1 DEF SaveUser, TypeOK
<1>5. escrow' \in [Trades -> Seq(EscrowRow)]
  <2>1. escrow' = [t \in Trades |-> escrow'[t]]
    BY DEF SaveUser
  <2> QED
    BY <2>1, SaveUserRows
<1>6. \A q \in Threads : RequestOK(req[q], escrow')
  BY SaveUserRows, RowsOnlyAdded DEF TypeOK
<1>7. req' = [req EXCEPT ![r] = Idle] /\ UNCHANGED now
  BY DEF SaveUser, Finish, Go
<1>8. RequestOK(Idle, escrow')
  BY DEF RequestOK
<1> QED
  BY <1>2, <1>3, <1>4, <1>5, <1>6, <1>7, <1>8 DEF TypeOK

LEMMA InitType == Init => TypeOK
<1> SUFFICES ASSUME Init PROVE TypeOK
  OBVIOUS
<1>1. trade \in [Trades -> TradeRow]
  BY DEF Init, TradeRow, Statuses, NoTime
<1>2. escrow \in [Trades -> Seq(EscrowRow)]
  BY EmptySeq DEF Init
<1>3. ad \in [Ads -> AdRow]
  BY AmountsAssumption DEF Init, AdRow
<1>4. \A r \in Threads : RequestOK(req[r], escrow)
  BY IdleOK DEF Init
<1> QED
  BY <1>1, <1>2, <1>3, <1>4, EnvironmentAssumption DEF Init, TypeOK, Statuses

LEMMA TypeStep == TypeOK /\ [Next]_vars => TypeOK'
<1> SUFFICES ASSUME TypeOK, [Next]_vars PROVE TypeOK'
  OBVIOUS
<1>2. CASE Tick
  BY <1>2, EnvironmentAssumption DEF Tick, db, TypeOK
<1>3. ASSUME NEW r \in Threads, NEW u \in Users, NEW t \in Trades, NEW op \in Ops,
             Request(r, u, t, op)
      PROVE  TypeOK'
  BY <1>3, RequestType
<1>4. ASSUME NEW r \in Threads, NEW a \in Ads, NEW x \in Terms, EditRequest(r, a, x)
      PROVE  TypeOK'
  BY <1>4, AdvertiseType
<1>5. ASSUME NEW r \in Threads, Step(r)
      PROVE  TypeOK'
  <2>1. CASE SendPayment(r) \/ BitcoinReceived(r) \/ Cancel(r) \/ BitcoinReleased(r)
    BY <2>1, DecisionType
  <2>2. CASE UnEscrow(r)
    BY <2>2, UnEscrowType
  <2>3. CASE ReleaseFind(r)
    BY <2>3, ReleaseFindType
  <2>4. CASE ReleaseSave(r)
    BY <2>4, ReleaseSaveType
  <2>5. CASE Escrow(r)
    BY <2>5, EscrowType
  <2>6. CASE EscrowFind(r)
    BY <2>6, EscrowFindType
  <2>7. CASE EscrowSave(r)
    BY <2>7, EscrowSaveType
  <2>8. CASE AdSave(r) \/ EditSave(r)
    BY <2>8, AdvertiseType
  <2>9. CASE Save(r)
    BY <2>9, SaveType
  <2>10. CASE SaveUser(r)
    BY <2>10, SaveUserType
  <2>11. CASE Crash(r)
    BY <2>11, IdleOK, RequestStep DEF Crash, Finish
  <2> QED
    BY <1>5, <2>1, <2>2, <2>3, <2>4, <2>5, <2>6, <2>7, <2>8, <2>9, <2>10, <2>11 DEF Step
<1>6. CASE UNCHANGED vars
  BY <1>6 DEF vars, db, TypeOK
<1>7. ASSUME NEW r \in Threads, NEW u \in Active, LoadUser(r, u)
      PROVE  TypeOK'
  BY <1>7, EnvironmentAssumption, LoadUserType
<1> QED
  BY <1>2, <1>3, <1>4, <1>5, <1>6, <1>7 DEF Next

\* The tables and the requests of TradeRequests always have their types: whatever the
\* interleaving, no request ever works on an escrow row that does not exist.
THEOREM TypeCorrect == Spec => []TypeOK
BY InitType, TypeStep, PTL DEF Spec

---------------------------------------------------------------------------
(* How many rows a trade can get *)

\* The requests that have looked for a row, found none, and will add one.
Adding(t) == {r \in Threads : On(r, t) /\ req[r].pc = "escrowSave" /\ req[r].hit = 0}

AddingBounded == \A t \in Trades : Len(escrow[t]) + Cardinality(Adding(t)) <= Cardinality(Threads)

LEMMA AddingFinite ==
  ASSUME IsFiniteSet(Threads), NEW S, S \subseteq Threads
  PROVE  /\ IsFiniteSet(S) /\ Cardinality(S) \in Nat
         /\ Cardinality(Threads) \in Nat /\ Cardinality(S) <= Cardinality(Threads)
BY FS_Subset, FS_CardinalityType

\* No more requests will add a row than before, and there are as many rows.
LEMMA NoneAdded ==
  ASSUME IsFiniteSet(Threads), TypeOK, AddingBounded, NEW t \in Trades,
         Len(escrow'[t]) = Len(escrow[t]), Adding(t)' \subseteq Adding(t)
  PROVE  Len(escrow'[t]) + Cardinality(Adding(t)') <= Cardinality(Threads)
<1>1. Adding(t) \subseteq Threads
  BY DEF Adding
<1>2. /\ IsFiniteSet(Adding(t)) /\ Cardinality(Adding(t)) \in Nat
      /\ Cardinality(Threads) \in Nat
  BY <1>1, AddingFinite
<1>3. Cardinality(Adding(t)') \in Nat /\ Cardinality(Adding(t)') <= Cardinality(Adding(t))
  BY <1>2, FS_Subset, FS_CardinalityType
<1>4. Len(escrow[t]) \in Nat /\ Len(escrow[t]) + Cardinality(Adding(t)) <= Cardinality(Threads)
  BY RowOK DEF AddingBounded
<1> QED
  BY <1>2, <1>3, <1>4

\* Only escrowBitcoins, having found no row, sets out to add one.
LEMMA AddingStep ==
  ASSUME TypeOK, NEW r \in Threads, NEW w, Go(r, w),
         w.pc # "escrowSave" \/ w.hit # 0
  PROVE  \A t \in Trades : Adding(t)' \subseteq Adding(t) \ {r}
<1>1. req'[r] = w /\ \A q \in Threads \ {r} : req'[q] = req[q]
  BY DEF Go, TypeOK
<1>2. ASSUME NEW t \in Trades, NEW q \in Adding(t)'
      PROVE  q \in Adding(t) \ {r}
  <2>1. q \in Threads /\ On(q, t)' /\ req'[q].pc = "escrowSave" /\ req'[q].hit = 0
    BY <1>2 DEF Adding
  <2>2. q # r
    BY <1>1, <2>1
  <2> QED
    BY <1>1, <2>1, <2>2 DEF Adding, On, Working
<1> QED
  BY <1>2

LEMMA StepNotAdding ==
  ASSUME TypeOK, NEW r \in Threads, Step(r), ~EscrowFind(r)
  PROVE  \E w : Go(r, w) /\ w.pc \notin {"escrowSave", "userSave"}
<1> DEFINE w == req[r]
<1>1. CASE Finish(r)
  BY <1>1 DEF Finish, Idle
<1>2. ASSUME ~Finish(r)
      PROVE  WorkOK(w, escrow)
  BY <1>2, WorkingOK DEF Step, SendPayment, BitcoinReceived, Cancel, UnEscrow, BitcoinReleased,
     ReleaseFind, ReleaseSave, Escrow, EscrowFind, EscrowSave, AdSave, Save, EditSave, SaveUser,
     Crash, Processing, At, Pcs
<1>3. ASSUME ~Finish(r), NEW s, NEW pc, Set(r, s, pc), pc \notin {"escrowSave", "userSave"}
      PROVE  \E v : Go(r, v) /\ v.pc \notin {"escrowSave", "userSave"}
  <2>1. [w EXCEPT !.copy.status = s, !.pc = pc].pc = pc
    BY <1>2, <1>3 DEF WorkOK
  <2> QED
    BY <1>3, <2>1 DEF Set
<1>4. ASSUME ~Finish(r), MarkReleased(r, w)
      PROVE  \E v : Go(r, v) /\ v.pc \notin {"escrowSave", "userSave"}
  <2>1. PICK i \in DOMAIN w.rows : Go(r, [w EXCEPT !.rows[i].released = TRUE, !.pc = "save"])
    BY <1>4 DEF MarkReleased
  <2>2. [w EXCEPT !.rows[i].released = TRUE, !.pc = "save"].pc = "save"
    BY <1>2, <1>4 DEF WorkOK
  <2> QED
    BY <2>1, <2>2
<1>5. CASE SendPayment(r) \/ BitcoinReceived(r) \/ Cancel(r) \/ BitcoinReleased(r)
  BY <1>1, <1>3, <1>5 DEF SendPayment, BitcoinReceived, Cancel, BitcoinReleased
<1>6. CASE UnEscrow(r)
  <2> DEFINE v(rows) == [w EXCEPT !.rows = rows, !.pc = "save"]
             v0 == [w EXCEPT !.pc = "save"]
  <2>1. v0.pc = "save" /\ \A rows : v(rows).pc = "save"
    BY <1>6, WorkingOK DEF UnEscrow, At, Pcs, WorkOK
  <2>2. Go(r, v0) \/ \E rows : Go(r, v(rows))
    BY <1>6 DEF UnEscrow
  <2> QED
    BY <2>1, <2>2
<1>7. CASE ReleaseFind(r) /\ ~MarkReleased(r, w)
  <2> DEFINE v(i) == [w EXCEPT !.hit = i, !.row = escrow[w.trade][i], !.pc = "releaseSave"]
  <2>1. \A i : v(i).pc = "releaseSave"
    BY <1>7, WorkingOK DEF ReleaseFind, At, Pcs, WorkOK
  <2> QED
    BY <1>7, <2>1 DEF ReleaseFind
<1>8. CASE Escrow(r) /\ ~Finish(r)
  <2>1. PICK b \in BalanceRead(w.user) :
          Go(r, [w EXCEPT !.copy = [status |-> "BITCOIN_ESCROWED", escrowTime |-> now],
                          !.ad.hidden = @ \/ MinCoins[AdOf[w.trade]][w.ad.terms] > Left(w, b),
                          !.pc = "escrowFind"])
    BY <1>8 DEF Escrow
  <2>2. [w EXCEPT !.copy = [status |-> "BITCOIN_ESCROWED", escrowTime |-> now],
                  !.ad.hidden = @ \/ MinCoins[AdOf[w.trade]][w.ad.terms] > Left(w, b),
                  !.pc = "escrowFind"].pc = "escrowFind"
    BY <1>2, <1>8 DEF WorkOK
  <2> QED
    BY <2>1, <2>2
<1>9. CASE (EscrowSave(r) \/ AdSave(r)) /\ ~Finish(r)
  <2>1. Go(r, [w EXCEPT !.pc = "adSave"]) \/ Go(r, [w EXCEPT !.pc = "save"])
    BY <1>9 DEF EscrowSave, AdSave
  <2>2. /\ [w EXCEPT !.pc = "adSave"].pc \notin {"escrowSave", "userSave"}
        /\ [w EXCEPT !.pc = "save"].pc \notin {"escrowSave", "userSave"}
    BY <1>2, <1>9 DEF WorkOK
  <2> QED
    BY <2>1, <2>2
<1> QED
  BY <1>1, <1>4, <1>5, <1>6, <1>7, <1>8, <1>9
     DEF Step, ReleaseFind, ReleaseSave, Save, EditSave, SaveUser, Crash

\* A request on a trade or an advertisement stays one: only LoadUser loads a user.
LEMMA StepNotLoading ==
  ASSUME TypeOK, NEW r \in Threads, Step(r)
  PROVE  \E w : Go(r, w) /\ ~Saving(w)
<1> DEFINE w == req[r]
           v(i) == [w EXCEPT !.hit = i, !.row = escrow[w.trade][i], !.pc = "escrowSave"]
           v0 == [w EXCEPT !.pc = "escrowSave"]
<1>1. CASE EscrowFind(r)
  <2>1. WorkOK(w, escrow)
    BY <1>1, WorkingOK DEF EscrowFind, At, Pcs
  <2>2. v0.pc = "escrowSave" /\ \A i : v(i).pc = "escrowSave"
    BY <2>1 DEF WorkOK
  <2>3. Finish(r) \/ Go(r, v0) \/ \E i : Go(r, v(i))
    BY <1>1 DEF EscrowFind
  <2>4. CASE Finish(r)
    BY <2>4 DEF Finish, Idle, Saving
  <2>5. CASE Go(r, v0)
    BY <2>2, <2>5 DEF Saving
  <2>6. ASSUME NEW i, Go(r, v(i)) PROVE \E x : Go(r, x) /\ ~Saving(x)
    BY <2>2, <2>6 DEF Saving
  <2> QED
    BY <2>3, <2>4, <2>5, <2>6
<1>2. CASE ~EscrowFind(r)
  BY <1>2, StepNotAdding DEF Saving
<1> QED
  BY <1>1, <1>2

\* One row at most is added by a step, by a request that was about to.
LEMMA RowAdded ==
  ASSUME IsFiniteSet(Threads), TypeOK, AddingBounded, NEW r \in Threads, EscrowSave(r),
         NEW t \in Trades
  PROVE  Len(escrow'[t]) + Cardinality(Adding(t)') <= Cardinality(Threads)
<1> DEFINE w == req[r]
<1>1. WorkOK(w, escrow) /\ w.pc = "escrowSave"
  BY WorkingOK DEF EscrowSave, At, Pcs
<1>2. PICK v : Go(r, v) /\ v.pc # "escrowSave"
  <2>1. EscrowSave(r) => ~EscrowFind(r)
    BY DEF EscrowSave, EscrowFind, At
  <2> QED
    BY <2>1, StepNotAdding DEF Step
<1>3. Adding(t)' \subseteq Adding(t) \ {r}
  BY <1>2, AddingStep
<1>4. CASE w.hit = 0 /\ w.trade = t /\ escrow' = [escrow EXCEPT ![t] = Append(@, Fund(t, NoRow))]
  <2>1. r \in Adding(t)
    BY <1>1, <1>4 DEF Adding, On, Working, Pcs
  <2>2. IsFiniteSet(Adding(t)) /\ Cardinality(Adding(t)) \in Nat /\ Cardinality(Threads) \in Nat
    BY AddingFinite DEF Adding
  <2>3. /\ IsFiniteSet(Adding(t) \ {r})
        /\ Cardinality(Adding(t) \ {r}) = Cardinality(Adding(t)) - 1
    BY <2>1, <2>2, FS_RemoveElement
  <2>4. Cardinality(Adding(t)') <= Cardinality(Adding(t)) - 1 /\ Cardinality(Adding(t)') \in Nat
    BY <1>3, <2>3, FS_Subset, FS_CardinalityType
  <2>5. Fund(t, NoRow) \in EscrowRow
    BY AmountsAssumption DEF Fund, NoRow, EscrowRow
  <2>6. Len(escrow'[t]) = Len(escrow[t]) + 1
    BY <1>4, <2>5, RowOK, AppendProperties DEF TypeOK
  <2>7. Len(escrow[t]) \in Nat /\ Len(escrow[t]) + Cardinality(Adding(t)) <= Cardinality(Threads)
    BY RowOK DEF AddingBounded
  <2> QED
    BY <2>2, <2>4, <2>6, <2>7
<1>5. CASE Len(escrow'[t]) = Len(escrow[t])
  BY <1>3, <1>5, NoneAdded
<1>6. CASE w.trade # t \/ UNCHANGED escrow
  <2>1. escrow'[t] = escrow[t]
    BY <1>1, <1>6 DEF EscrowSave, TypeOK, WorkOK
  <2> QED
    BY <1>5, <2>1
<1>7. CASE w.trade = t /\ w.hit # 0 /\ escrow' = [escrow EXCEPT ![t][w.hit] = Fund(t, w.row)]
  <2>1. escrow'[t] = [escrow[t] EXCEPT ![w.hit] = Fund(t, w.row)]
    BY <1>7 DEF TypeOK
  <2>2. Fund(t, w.row) \in EscrowRow
    BY <1>1, AmountsAssumption DEF Fund, EscrowRow, WorkOK
  <2>3. Len(escrow'[t]) = Len(escrow[t])
    BY <1>1, <1>7, <2>1, <2>2, RowOK, ExceptSeq DEF WorkOK
  <2> QED
    BY <1>5, <2>3
<1> QED
  BY <1>4, <1>6, <1>7 DEF EscrowSave

LEMMA SameLength ==
  ASSUME TypeOK, NEW r \in Threads, Step(r), ~EscrowSave(r), NEW t \in Trades
  PROVE  Len(escrow'[t]) = Len(escrow[t])
<1> DEFINE w == req[r]
<1>1. CASE ReleaseSave(r)
  <2>1. WorkOK(w, escrow) /\ w.hit \in DOMAIN escrow[w.trade]
    BY <1>1, WorkingOK DEF ReleaseSave, At, Pcs, WorkOK
  <2>2. [w.row EXCEPT !.released = TRUE] \in EscrowRow
    BY <2>1 DEF WorkOK, EscrowRow
  <2>3. Len([escrow[w.trade] EXCEPT ![w.hit] = [w.row EXCEPT !.released = TRUE]]) = Len(escrow[w.trade])
    BY <2>1, <2>2, RowOK, ExceptSeq DEF WorkOK
  <2> QED
    BY <1>1, <2>1, <2>3 DEF ReleaseSave, TypeOK, WorkOK
<1>2. CASE Save(r)
  <2>1. WorkOK(w, escrow)
    BY <1>2, WorkingOK DEF Save, At, Pcs
  <2>2. /\ Overlay(w.rows, escrow[w.trade]) \in Seq(EscrowRow)
        /\ DOMAIN Overlay(w.rows, escrow[w.trade]) = DOMAIN escrow[w.trade]
    BY <2>1, RowOK, OverlaySeq DEF WorkOK
  <2>3. Len(Overlay(w.rows, escrow[w.trade])) = Len(escrow[w.trade])
    BY <2>1, <2>2, RowOK, LenProperties DEF WorkOK
  <2> QED
    BY <1>2, <2>1, <2>3 DEF Save, TypeOK, WorkOK
<1>3. CASE ~ReleaseSave(r) /\ ~Save(r) /\ ~SaveUser(r)
  BY <1>3 DEF Step, SendPayment, BitcoinReceived, Cancel, UnEscrow, BitcoinReleased,
     ReleaseFind, Escrow, EscrowFind, EscrowSave, AdSave, EditSave, Crash, db
<1>4. CASE SaveUser(r)
  BY <1>4, SaveUserRows
<1> QED
  BY <1>1, <1>2, <1>3, <1>4

LEMMA FindBounded ==
  ASSUME IsFiniteSet(Threads), TypeOK, AddingBounded, NEW r \in Threads, EscrowFind(r),
         NEW t \in Trades
  PROVE  Len(escrow'[t]) + Cardinality(Adding(t)') <= Cardinality(Threads)
<1> DEFINE w == req[r]
           found(i) == [w EXCEPT !.hit = i, !.row = escrow[w.trade][i], !.pc = "escrowSave"]
           none == [w EXCEPT !.pc = "escrowSave"]
<1>1. WorkOK(w, escrow) /\ w.pc = "escrowFind"
  BY WorkingOK DEF EscrowFind, At, Pcs
<1>2. UNCHANGED escrow
  BY DEF EscrowFind, db
<1>3. CASE Finish(r)
  <2>1. Adding(t)' \subseteq Adding(t)
    BY <1>3, AddingStep DEF Finish, Idle
  <2> QED
    BY <1>2, <2>1, NoneAdded
<1>4. ASSUME NEW i \in Hits(w.trade), Go(r, found(i))
      PROVE  Len(escrow'[t]) + Cardinality(Adding(t)') <= Cardinality(Threads)
  <2>1. i # 0
    BY <1>1, RowOK DEF Hits, WorkOK
  <2>2. found(i).hit = i
    BY <1>1 DEF WorkOK
  <2>3. Adding(t)' \subseteq Adding(t)
    BY <1>4, <2>1, <2>2, AddingStep
  <2> QED
    BY <1>2, <2>3, NoneAdded
<1>5. CASE Hits(w.trade) = {} /\ Go(r, none)
  <2>1. CASE t = w.trade
    <3>1. Len(escrow'[t]) = 0
      BY <1>2, <1>5, <2>1, RowOK DEF Hits
    <3>2. Adding(t)' \subseteq Threads
      BY DEF Adding
    <3>3. /\ Cardinality(Adding(t)') \in Nat
          /\ Cardinality(Adding(t)') <= Cardinality(Threads)
      BY <3>2, AddingFinite
    <3> QED
      BY <3>1, <3>3
  <2>2. CASE t # w.trade
    <3>1. none.trade = w.trade
      BY <1>1 DEF WorkOK
    <3>2. req'[r] = none /\ \A q \in Threads \ {r} : req'[q] = req[q]
      BY <1>5 DEF Go, TypeOK
    <3>3. Adding(t)' \subseteq Adding(t)
      BY <2>2, <3>1, <3>2 DEF Adding, On, Working
    <3> QED
      BY <1>2, <3>3, NoneAdded
  <2> QED
    BY <2>1, <2>2
<1> QED
  BY <1>3, <1>4, <1>5 DEF EscrowFind

LEMMA BoundedStep ==
  ASSUME IsFiniteSet(Threads)
  PROVE  TypeOK /\ AddingBounded /\ [Next]_vars => AddingBounded'
<1> SUFFICES ASSUME TypeOK, AddingBounded, [Next]_vars, NEW t \in Trades
             PROVE  Len(escrow'[t]) + Cardinality(Adding(t)') <= Cardinality(Threads)
  BY DEF AddingBounded
<1>1. CASE Tick \/ UNCHANGED vars
  <2>1. UNCHANGED <<escrow, req>>
    BY <1>1 DEF Tick, vars, db
  <2>2. Adding(t)' = Adding(t)
    BY <2>1 DEF Adding, On, Working
  <2> QED
    BY <2>1, <2>2, NoneAdded
<1>2. ASSUME NEW r \in Threads,
             \/ \E u \in Users, s \in Trades, op \in Ops : Request(r, u, s, op)
             \/ \E a \in Ads, x \in Terms : EditRequest(r, a, x)
             \/ \E u \in Active : LoadUser(r, u)
      PROVE  Len(escrow'[t]) + Cardinality(Adding(t)') <= Cardinality(Threads)
  <2>1. UNCHANGED escrow
    BY <1>2 DEF Request, EditRequest, LoadUser, db
  <2>2. CASE \E u \in Users, s \in Trades, op \in Ops : Request(r, u, s, op)
    <3>1. PICK u \in Users, s \in Trades, op \in Ops : Go(r, Load(u, s, op))
      BY <2>2 DEF Request
    <3>2. Load(u, s, op).pc # "escrowSave"
      BY DEF Load
    <3> QED
      BY <2>1, <3>1, <3>2, AddingStep, NoneAdded
  <2>3. CASE \E a \in Ads, x \in Terms : EditRequest(r, a, x)
    <3> DEFINE w(a, x) == [pc |-> "editSave", adId |-> a, ad |-> [ad[a] EXCEPT !.terms = x]]
    <3>1. PICK a \in Ads, x \in Terms : Go(r, w(a, x))
      BY <2>3 DEF EditRequest
    <3>2. w(a, x).pc # "escrowSave"
      OBVIOUS
    <3> QED
      BY <2>1, <3>1, <3>2, AddingStep, NoneAdded
  <2>4. CASE \E u \in Active : LoadUser(r, u)
    <3>1. \E v : Go(r, v) /\ v.pc # "escrowSave"
      BY <2>4 DEF LoadUser
    <3> QED
      BY <2>1, <3>1, AddingStep, NoneAdded
  <2> QED
    BY <1>2, <2>2, <2>3, <2>4
<1>3. ASSUME NEW r \in Threads, Step(r)
      PROVE  Len(escrow'[t]) + Cardinality(Adding(t)') <= Cardinality(Threads)
  <2>1. CASE ~EscrowFind(r) /\ ~EscrowSave(r)
    <3>1. Adding(t)' \subseteq Adding(t)
      BY <1>3, <2>1, StepNotAdding, AddingStep
    <3> QED
      BY <1>3, <2>1, <3>1, SameLength, NoneAdded
  <2> QED
    BY <1>3, <2>1, FindBounded, RowAdded
<1> QED
  BY <1>1, <1>2, <1>3 DEF Next

LEMMA InitBounded ==
  ASSUME IsFiniteSet(Threads)
  PROVE  Init => AddingBounded
<1> SUFFICES ASSUME Init, NEW t \in Trades
             PROVE  Len(escrow[t]) + Cardinality(Adding(t)) <= Cardinality(Threads)
  BY DEF AddingBounded
<1>1. Len(escrow[t]) = 0
  BY EmptySeq DEF Init
<1>2. Adding(t) \subseteq Threads
  BY DEF Adding
<1>3. Cardinality(Adding(t)) \in Nat /\ Cardinality(Adding(t)) <= Cardinality(Threads)
  BY <1>2, AddingFinite
<1> QED
  BY <1>1, <1>3

\* A trade has never more escrow rows than there are requests at a time: escrowBitcoins
\* looks for a row before it adds one, so only requests that overlap add a second.
THEOREM RowsAreBounded ==
  ASSUME IsFiniteSet(Threads)
  PROVE  Spec => []RowsBounded
<1>1. TypeOK /\ AddingBounded => RowsBounded
  <2> SUFFICES ASSUME TypeOK, AddingBounded, NEW t \in Trades
               PROVE  Len(escrow[t]) <= Cardinality(Threads)
    BY DEF RowsBounded
  <2>1. Adding(t) \subseteq Threads
    BY DEF Adding
  <2>2. Cardinality(Adding(t)) \in Nat /\ Cardinality(Threads) \in Nat /\ Len(escrow[t]) \in Nat
    BY <2>1, AddingFinite, RowOK
  <2> QED
    BY <2>2 DEF AddingBounded
<1> QED
  BY <1>1, InitType, TypeStep, InitBounded, BoundedStep, PTL DEF Spec

---------------------------------------------------------------------------
(* The history of a trade *)

\* One request moves on to w; rows and statuses are only added.
LEMMA HistoryStep ==
  ASSUME TypeOK, HistoryInv, NEW r \in Threads, NEW w, Go(r, w),
         Working(w) => Progress(w) /\ w.trade \in Trades,
         Working(w) /\ w.pc \in {"adSave", "save"} /\ w.copy.status = "BITCOIN_ESCROWED" =>
           escrow'[w.trade] # <<>>,
         \A t \in Trades :
           /\ escrow[t] # <<>> => escrow'[t] # <<>>
           /\ seen[t] \subseteq seen'[t]
           /\ trade'[t].status \in seen'[t]
           /\ "BITCOIN_RELEASED" \notin seen'[t]
           /\ "BITCOIN_ESCROWED" \in seen'[t] => escrow'[t] # <<>>
  PROVE  HistoryInv'
<1>1. ASSUME NEW q \in Threads, Working(req'[q])
      PROVE  Progress(req[q])' /\ RowFirst(req[q])'
  <2>1. CASE q = r
    <3>1. req'[q] = w
      BY <2>1 DEF Go, TypeOK
    <3> QED
      BY <1>1, <3>1 DEF Progress, RowFirst
  <2>2. CASE q # r
    <3>1. req'[q] = req[q] /\ req[q].trade \in Trades
      BY <1>1, <2>2 DEF Go, TypeOK, RequestOK, Working, WorkOK, Idle, Editing,
         Saving, Pcs
    <3> QED
      BY <1>1, <3>1 DEF HistoryInv, Progress, RowFirst, Working
  <2> QED
    BY <2>1, <2>2
<1> QED
  BY <1>1 DEF HistoryInv, Working

LEMMA HistoryLocal ==
  ASSUME TypeOK, HistoryInv, NEW r \in Threads, NEW w, Go(r, w),
         Working(w) => Progress(w) /\ RowFirst(w) /\ w.trade \in Trades,
         UNCHANGED <<db, now, seen>>
  PROVE  HistoryInv'
<1>1. \A t \in Trades :
        /\ trade[t].status \in seen[t]
        /\ "BITCOIN_RELEASED" \notin seen[t]
        /\ "BITCOIN_ESCROWED" \in seen[t] => escrow[t] # <<>>
  BY DEF HistoryInv
<1> QED
  BY <1>1, HistoryStep DEF RowFirst, db

\* A request that stops.
LEMMA HistoryIdle == ~Working(Idle)
BY DEF Working, Idle, Pcs

LEMMA ProgressAt ==
  ASSUME TypeOK, HistoryInv, NEW r \in Threads, req[r].pc \in Pcs
  PROVE  /\ WorkOK(req[r], escrow)
         /\ Progress(req[r])
         /\ RowFirst(req[r])
BY WorkingOK DEF HistoryInv, Working

LEMMA RequestHistory ==
  ASSUME TypeOK, HistoryInv, NEW r \in Threads,
         NEW u \in Users, NEW t \in Trades, NEW op \in Ops, Request(r, u, t, op)
  PROVE  HistoryInv'
<1> DEFINE w == Load(u, t, op)
<1>1. Progress(w) /\ RowFirst(w) /\ w.trade \in Trades
  BY DEF Request, Load, Progress, RowFirst, HistoryInv
<1> QED
  BY <1>1, HistoryLocal DEF Request

LEMMA DecisionHistory ==
  ASSUME TypeOK, HistoryInv, NEW r \in Threads,
         SendPayment(r) \/ BitcoinReceived(r) \/ Cancel(r) \/ BitcoinReleased(r)
  PROVE  HistoryInv'
<1> DEFINE w == req[r]
           decided(s, pc) == [w EXCEPT !.copy.status = s, !.pc = pc]
<1>1. WorkOK(w, escrow) /\ Progress(w) /\ w.pc = "process"
  BY ProgressAt DEF SendPayment, BitcoinReceived, Cancel, BitcoinReleased, Processing, At, Pcs
<1>2. w.was # "BITCOIN_RELEASED" /\ w.copy.status = w.was
  BY <1>1 DEF Progress, HistoryInv, WorkOK
<1>3. \/ Finish(r)
      \/ Go(r, decided("PAYMENT_SENT", "save")) /\ w.was = "BITCOIN_ESCROWED"
      \/ Go(r, decided("CANCELLED", "unescrow")) /\ w.was = "BITCOIN_ESCROWED"
      \/ Go(r, decided("COMPLETED", "releaseFind")) /\ w.op = "bitcoinreleased"
  BY <1>2 DEF SendPayment, BitcoinReceived, Cancel, BitcoinReleased, Processing, Set, SellerMayCancel
<1>4. ASSUME NEW s, NEW pc
      PROVE  LET v == decided(s, pc) IN
             /\ v.copy.status = s /\ v.pc = pc
             /\ v.was = w.was /\ v.op = w.op /\ v.trade = w.trade /\ v.rows = w.rows
  BY <1>1 DEF WorkOK, TradeRow
<1>5. ASSUME NEW s, NEW pc,
             \/ s = "PAYMENT_SENT" /\ pc = "save" /\ w.was = "BITCOIN_ESCROWED"
             \/ s = "CANCELLED" /\ pc = "unescrow" /\ w.was = "BITCOIN_ESCROWED"
             \/ s = "COMPLETED" /\ pc = "releaseFind" /\ w.op = "bitcoinreleased"
      PROVE  LET v == decided(s, pc) IN Progress(v) /\ RowFirst(v) /\ v.trade \in Trades
  BY <1>1, <1>4, <1>5 DEF Progress, RowFirst, WorkOK
<1>6. UNCHANGED <<db, now, seen>>
  BY DEF SendPayment, BitcoinReceived, Cancel, BitcoinReleased
<1> QED
  BY <1>3, <1>5, <1>6, HistoryLocal, HistoryIdle DEF Finish

LEMMA UnEscrowHistory ==
  ASSUME TypeOK, HistoryInv, NEW r \in Threads, UnEscrow(r)
  PROVE  HistoryInv'
<1> DEFINE w == req[r]
<1>1. WorkOK(w, escrow) /\ Progress(w) /\ w.pc = "unescrow"
  BY ProgressAt DEF UnEscrow, At, Pcs
<1> DEFINE saved(rows) == [w EXCEPT !.rows = rows, !.pc = "save"]
<1>2. ASSUME NEW rows
      PROVE  LET v == saved(rows) IN
             v.pc = "save" /\ v.was = w.was /\ v.copy = w.copy /\ v.trade = w.trade
  BY <1>1 DEF WorkOK
<1>3. ASSUME NEW rows
      PROVE  LET v == saved(rows) IN Progress(v) /\ RowFirst(v) /\ v.trade \in Trades
  BY <1>1, <1>2 DEF Progress, RowFirst, WorkOK
<1>4. \E rows : Go(r, saved(rows))
  <2>1. CASE \E i \in Hits(w.trade) :
               Go(r, saved([j \in {i} |-> [escrow[w.trade][j] EXCEPT !.amount = 0, !.fee = 0]]))
    BY <2>1
  <2>2. CASE Go(r, [w EXCEPT !.pc = "save"])
    <3>1. [w EXCEPT !.pc = "save"] = saved(w.rows)
      BY <1>1 DEF WorkOK
    <3> QED
      BY <2>2, <3>1
  <2> QED
    BY <2>1, <2>2 DEF UnEscrow
<1> QED
  BY <1>3, <1>4, HistoryLocal DEF UnEscrow

\* Marking a row of the copy released ends the release.
LEMMA MarkReleasedProgress ==
  ASSUME NEW r \in Threads, NEW w, WorkOK(w, escrow), Progress(w),
         w.pc \in {"releaseFind", "releaseSave"}, MarkReleased(r, w)
  PROVE  \/ Finish(r)
         \/ \E v : Go(r, v) /\ Progress(v) /\ RowFirst(v) /\ v.trade \in Trades
<1> DEFINE v(i) == [w EXCEPT !.rows[i].released = TRUE, !.pc = "save"]
<1>1. ASSUME NEW i \in DOMAIN w.rows
      PROVE  /\ v(i).pc = "save" /\ v(i).was = w.was /\ v(i).op = w.op
             /\ v(i).copy = w.copy /\ v(i).trade = w.trade
             /\ i \in DOMAIN v(i).rows /\ v(i).rows[i].released
  BY <1>1 DEF WorkOK, EscrowRow
<1>2. ASSUME NEW i \in DOMAIN w.rows
      PROVE  Progress(v(i)) /\ RowFirst(v(i)) /\ v(i).trade \in Trades
  BY <1>1 DEF Progress, RowFirst, WorkOK
<1> QED
  BY <1>2 DEF MarkReleased

LEMMA ReleaseHistory ==
  ASSUME TypeOK, HistoryInv, NEW r \in Threads, ReleaseFind(r) \/ ReleaseSave(r)
  PROVE  HistoryInv'
<1> DEFINE w == req[r]
<1>1. WorkOK(w, escrow) /\ Progress(w) /\ w.pc \in {"releaseFind", "releaseSave"}
  BY ProgressAt DEF ReleaseFind, ReleaseSave, At, Pcs
<1>2. CASE ReleaseFind(r) /\ ~MarkReleased(r, w)
  <2>1. PICK i \in Hits(w.trade) :
          Go(r, [w EXCEPT !.hit = i, !.row = escrow[w.trade][i], !.pc = "releaseSave"])
    BY <1>2 DEF ReleaseFind
  <2> DEFINE v == [w EXCEPT !.hit = i, !.row = escrow[w.trade][i], !.pc = "releaseSave"]
  <2>2. Progress(v) /\ RowFirst(v) /\ v.trade \in Trades
    BY <1>1, <1>2 DEF ReleaseFind, At, Progress, RowFirst, WorkOK
  <2> QED
    BY <1>2, <2>1, <2>2, HistoryLocal DEF ReleaseFind
<1>3. CASE MarkReleased(r, w)
  <2>1. PICK v : Go(r, v) /\ (Working(v) => Progress(v) /\ RowFirst(v) /\ v.trade \in Trades)
    BY <1>1, <1>3, MarkReleasedProgress, HistoryIdle DEF Finish
  <2>2. \A t \in Trades : escrow[t] # <<>> => escrow'[t] # <<>>
    <3>1. CASE UNCHANGED escrow
      BY <3>1
    <3>2. CASE ReleaseSave(r) /\ escrow' = [escrow EXCEPT ![w.trade][w.hit] = [w.row EXCEPT !.released = TRUE]]
      <4>1. w.hit \in DOMAIN escrow[w.trade]
        BY <1>1, <3>2 DEF WorkOK, ReleaseSave, At
      <4>2. DOMAIN escrow'[w.trade] = DOMAIN escrow[w.trade]
        BY <1>1, <3>2 DEF TypeOK, WorkOK
      <4> QED
        BY <1>1, <3>2, <4>1, <4>2 DEF TypeOK, WorkOK
    <3> QED
      BY <1>3, <3>1, <3>2 DEF ReleaseFind, ReleaseSave, db
  <2>3. UNCHANGED <<trade, seen>>
    BY DEF ReleaseFind, ReleaseSave, db
  <2> QED
    BY <2>1, <2>2, <2>3, HistoryStep DEF HistoryInv, RowFirst
<1> QED
  BY <1>2, <1>3 DEF ReleaseSave

LEMMA EscrowHistory ==
  ASSUME TypeOK, HistoryInv, NEW r \in Threads, Escrow(r) \/ EscrowFind(r)
  PROVE  HistoryInv'
<1> DEFINE w == req[r]
<1>1. WorkOK(w, escrow) /\ Progress(w)
  BY ProgressAt DEF Escrow, EscrowFind, Processing, At, Pcs
<1>2. UNCHANGED <<db, now, seen>>
  BY DEF Escrow, EscrowFind
<1>3. CASE Finish(r)
  BY <1>2, <1>3, HistoryLocal, HistoryIdle DEF Finish
<1>4. ASSUME Escrow(r), ~Finish(r)
      PROVE  HistoryInv'
  <2>1. PICK b \in BalanceRead(w.user) :
          Go(r, [w EXCEPT !.copy = [status |-> "BITCOIN_ESCROWED", escrowTime |-> now],
                          !.ad.hidden = @ \/ MinCoins[AdOf[w.trade]][w.ad.terms] > Left(w, b),
                          !.pc = "escrowFind"])
    BY <1>4 DEF Escrow
  <2> DEFINE v == [w EXCEPT !.copy = [status |-> "BITCOIN_ESCROWED", escrowTime |-> now],
                            !.ad.hidden = @ \/ MinCoins[AdOf[w.trade]][w.ad.terms] > Left(w, b),
                            !.pc = "escrowFind"]
  <2>2. w.copy.status = "INPROCESS" /\ w.pc = "process"
    BY <1>4 DEF Escrow, Processing, At
  <2>3. Progress(v) /\ RowFirst(v) /\ v.trade \in Trades
    BY <1>1, <2>2 DEF Progress, RowFirst, WorkOK
  <2> QED
    BY <1>2, <2>1, <2>3, HistoryLocal
<1>5. ASSUME EscrowFind(r), ~Finish(r)
      PROVE  HistoryInv'
  <2> DEFINE v(i) == [w EXCEPT !.hit = i, !.row = escrow[w.trade][i], !.pc = "escrowSave"]
             v0 == [w EXCEPT !.pc = "escrowSave"]
  <2>1. w.pc = "escrowFind"
    BY <1>5 DEF EscrowFind, At
  <2>2. \A i : Progress(v(i)) /\ RowFirst(v(i)) /\ v(i).trade \in Trades
    BY <1>1, <2>1 DEF Progress, RowFirst, WorkOK
  <2>3. Progress(v0) /\ RowFirst(v0) /\ v0.trade \in Trades
    BY <1>1, <2>1 DEF Progress, RowFirst, WorkOK
  <2>4. Go(r, v0) \/ \E i : Go(r, v(i))
    BY <1>5 DEF EscrowFind
  <2> QED
    BY <1>2, <2>2, <2>3, <2>4, HistoryLocal
<1> QED
  BY <1>3, <1>4, <1>5

LEMMA EscrowSaveHistory ==
  ASSUME TypeOK, HistoryInv, NEW r \in Threads, EscrowSave(r)
  PROVE  HistoryInv'
<1> DEFINE w == req[r]
           v == [w EXCEPT !.pc = "adSave"]
<1>1. WorkOK(w, escrow) /\ Progress(w) /\ w.pc = "escrowSave"
  BY ProgressAt DEF EscrowSave, At, Pcs
<1>2. CASE UNCHANGED escrow /\ Finish(r)
  BY <1>2, HistoryLocal, HistoryIdle DEF EscrowSave, Finish, db
<1>3. CASE ~UNCHANGED escrow \/ ~Finish(r)
  <2>1. Go(r, v)
    BY <1>3 DEF EscrowSave
  <2>2. /\ escrow'[w.trade] # <<>>
        /\ \A t \in Trades : escrow[t] # <<>> => escrow'[t] # <<>>
    <3>1. CASE w.hit = 0 /\ escrow' = [escrow EXCEPT ![w.trade] = Append(@, Fund(w.trade, NoRow))]
      <4>1. Append(escrow[w.trade], Fund(w.trade, NoRow)) # <<>>
        BY <1>1, RowOK DEF WorkOK
      <4> QED
        BY <1>1, <3>1, <4>1 DEF TypeOK, WorkOK
    <3>2. CASE w.hit # 0 /\ escrow' = [escrow EXCEPT ![w.trade][w.hit] = Fund(w.trade, w.row)]
      <4>1. w.hit \in DOMAIN escrow[w.trade]
        BY <1>1, <3>2 DEF WorkOK
      <4>2. DOMAIN escrow'[w.trade] = DOMAIN escrow[w.trade]
        BY <1>1, <3>2 DEF TypeOK, WorkOK
      <4> QED
        BY <1>1, <3>2, <4>1, <4>2 DEF TypeOK, WorkOK
    <3> QED
      BY <1>3, <3>1, <3>2 DEF EscrowSave
  <2>3. Progress(v) /\ v.trade \in Trades /\ v.trade = w.trade
    BY <1>1 DEF Progress, WorkOK
  <2> QED
    BY <2>1, <2>2, <2>3, HistoryStep DEF EscrowSave, HistoryInv
<1> QED
  BY <1>2, <1>3

LEMMA AdSaveHistory ==
  ASSUME TypeOK, HistoryInv, NEW r \in Threads, AdSave(r)
  PROVE  HistoryInv'
<1> DEFINE w == req[r]
           v == [w EXCEPT !.pc = "save"]
<1>1. WorkOK(w, escrow) /\ Progress(w) /\ RowFirst(w) /\ w.pc = "adSave"
  BY ProgressAt DEF AdSave, At, Pcs
<1>2. Progress(v) /\ RowFirst(v) /\ v.trade \in Trades
  BY <1>1 DEF Progress, RowFirst, WorkOK
<1> QED
  BY <1>2, HistoryStep DEF AdSave, HistoryInv, RowFirst

LEMMA SaveHistory ==
  ASSUME TypeOK, HistoryInv, NEW r \in Threads, Save(r)
  PROVE  HistoryInv'
<1> DEFINE w == req[r]
           t == w.trade
<1>1. WorkOK(w, escrow) /\ Progress(w) /\ RowFirst(w) /\ w.pc = "save"
  BY ProgressAt DEF Save, At, Pcs
<1>2. w.copy.status # "BITCOIN_RELEASED"
  BY <1>1 DEF Progress
<1>3. DOMAIN Overlay(w.rows, escrow[t]) = DOMAIN escrow[t]
  BY DEF Overlay
<1>4. \A s \in Trades : escrow[s] # <<>> => escrow'[s] # <<>>
  BY <1>1, <1>3 DEF Save, TypeOK, WorkOK
<1>5. w.copy.status = "BITCOIN_ESCROWED" => escrow[t] # <<>>
  BY <1>1 DEF RowFirst
<1>6. /\ trade' = [trade EXCEPT ![t] = w.copy]
      /\ seen' = [seen EXCEPT ![t] = @ \union {w.copy.status}]
  BY DEF Save
<1>7. ASSUME NEW s \in Trades
      PROVE  /\ seen[s] \subseteq seen'[s]
             /\ trade'[s].status \in seen'[s]
             /\ "BITCOIN_RELEASED" \notin seen'[s]
             /\ "BITCOIN_ESCROWED" \in seen'[s] => escrow'[s] # <<>>
  BY <1>1, <1>2, <1>4, <1>5, <1>6 DEF HistoryInv, TypeOK, WorkOK
<1> QED
  BY <1>4, <1>7, HistoryStep, HistoryIdle DEF Save, Finish

LEMMA EditHistory ==
  ASSUME TypeOK, HistoryInv, NEW r \in Threads,
         (\E a \in Ads, x \in Terms : EditRequest(r, a, x)) \/ EditSave(r)
  PROVE  HistoryInv'
<1>1. UNCHANGED <<trade, escrow, seen>>
  BY DEF EditRequest, EditSave, db
<1> DEFINE w(a, x) == [pc |-> "editSave", adId |-> a, ad |-> [ad[a] EXCEPT !.terms = x]]
<1>2. \A a, x : ~Working(w(a, x))
  BY DEF Working, Pcs
<1>3. Finish(r) \/ \E a, x : Go(r, w(a, x))
  BY DEF EditRequest, EditSave
<1> QED
  BY <1>1, <1>2, <1>3, HistoryIdle, HistoryStep DEF HistoryInv, Finish

LEMMA SavingNotWorking ==
  ASSUME NEW w, Saving(w)
  PROVE  ~Working(w)
BY DEF Saving, Working, Pcs

LEMMA LoadUserHistory ==
  ASSUME TypeOK, HistoryInv, NEW r \in Threads, NEW u \in Users, LoadUser(r, u)
  PROVE  HistoryInv'
<1>1. \E w : Go(r, w) /\ Saving(w)
  BY DEF LoadUser, Saving
<1> QED
  BY <1>1, SavingNotWorking, HistoryLocal DEF LoadUser

\* Saving a user brings back only statuses the trades have had.
LEMMA SaveUserStatuses ==
  ASSUME TypeOK, HistoryInv, CopiesInv, NEW r \in Threads, SaveUser(r), NEW t \in Trades
  PROVE  trade'[t].status \in seen[t] /\ seen'[t] = seen[t]
<1> DEFINE w == req[r]
<1>1. UserOK(w, escrow) /\ Saving(w)
  BY SavingOK DEF SaveUser, At, Saving
<1>2. trade'[t] = IF t \in DOMAIN w.trades THEN w.trades[t] ELSE trade[t]
  BY DEF SaveUser, Overlay, TypeOK
<1>3. trade'[t].status \in seen[t]
  <2>1. CASE t \in DOMAIN w.trades
    BY <1>1, <1>2, <2>1 DEF CopiesInv, UserOK
  <2>2. CASE t \notin DOMAIN w.trades
    BY <1>2, <2>2 DEF HistoryInv
  <2> QED
    BY <2>1, <2>2
<1>4. seen'[t] = seen[t] \union {trade'[t].status}
  BY DEF SaveUser
<1> QED
  BY <1>3, <1>4

LEMMA SaveUserHistory ==
  ASSUME TypeOK, HistoryInv, CopiesInv, NEW r \in Threads, SaveUser(r)
  PROVE  HistoryInv'
<1>1. ASSUME NEW t \in Trades
      PROVE  /\ escrow[t] # <<>> => escrow'[t] # <<>>
             /\ seen[t] \subseteq seen'[t]
             /\ trade'[t].status \in seen'[t]
             /\ "BITCOIN_RELEASED" \notin seen'[t]
             /\ "BITCOIN_ESCROWED" \in seen'[t] => escrow'[t] # <<>>
  <2>1. escrow[t] # <<>> => escrow'[t] # <<>>
    BY SaveUserRows, RowOK
  <2> QED
    BY <2>1, SaveUserStatuses DEF HistoryInv
<1>2. Go(r, Idle)
  BY DEF SaveUser, Finish
<1> QED
  BY <1>1, <1>2, HistoryStep, HistoryIdle

\* No step takes a status out of the history of a trade.
LEMMA SeenGrows ==
  ASSUME TypeOK, [Next]_vars, NEW t \in Trades
  PROVE  seen[t] \subseteq seen'[t]
<1>1. CASE Tick \/ UNCHANGED vars
  BY <1>1 DEF Tick, vars, db
<1>2. ASSUME NEW r \in Threads,
             \/ \E u \in Users, s \in Trades, op \in Ops : Request(r, u, s, op)
             \/ \E a \in Ads, x \in Terms : EditRequest(r, a, x)
             \/ \E u \in Active : LoadUser(r, u)
      PROVE  seen[t] \subseteq seen'[t]
  BY <1>2 DEF Request, EditRequest, LoadUser
<1>3. ASSUME NEW r \in Threads, Step(r)
      PROVE  seen[t] \subseteq seen'[t]
  <2>1. CASE Save(r)
    BY <2>1 DEF Save, TypeOK
  <2>2. CASE SaveUser(r)
    BY <2>2 DEF SaveUser
  <2>3. CASE ~Save(r) /\ ~SaveUser(r)
    BY <1>3, <2>3 DEF Step, SendPayment, BitcoinReceived, Cancel, UnEscrow, BitcoinReleased,
       ReleaseFind, ReleaseSave, Escrow, EscrowFind, EscrowSave, AdSave, EditSave, Crash
  <2> QED
    BY <2>1, <2>2, <2>3
<1> QED
  BY <1>1, <1>2, <1>3 DEF Next

\* The users on the way back after a step were on the way before it, or one has just
\* been loaded.
LEMMA OnTheWay ==
  ASSUME TypeOK, [Next]_vars, NEW q \in Threads, Saving(req'[q])
  PROVE  req'[q] = req[q] \/ \E u \in Users : LoadUser(q, u)
<1>1. CASE Tick \/ UNCHANGED vars
  BY <1>1 DEF Tick, vars
<1>2. ASSUME NEW r \in Threads, \E w : Go(r, w) /\ ~Saving(w)
      PROVE  req'[q] = req[q]
  BY <1>2 DEF Go, TypeOK
<1>3. ASSUME NEW r \in Threads, NEW u \in Users, NEW t \in Trades, NEW op \in Ops,
             Request(r, u, t, op)
      PROVE  req'[q] = req[q]
  BY <1>2, <1>3 DEF Request, Load, Saving
<1>4. ASSUME NEW r \in Threads, NEW a \in Ads, NEW x \in Terms, EditRequest(r, a, x)
      PROVE  req'[q] = req[q]
  <2>1. \E w : Go(r, w) /\ ~Saving(w)
    BY <1>4 DEF EditRequest, Saving
  <2> QED
    BY <1>2, <2>1
<1>5. ASSUME NEW r \in Threads, NEW u \in Active, LoadUser(r, u)
      PROVE  req'[q] = req[q] \/ \E v \in Users : LoadUser(q, v)
  <2>1. CASE q = r
    BY <1>5, <2>1, EnvironmentAssumption
  <2>2. CASE q # r
    BY <1>5, <2>2 DEF LoadUser, Go, TypeOK
  <2> QED
    BY <2>1, <2>2
<1>6. ASSUME NEW r \in Threads, Step(r)
      PROVE  req'[q] = req[q]
  BY <1>2, <1>6, StepNotLoading
<1> QED
  BY <1>1, <1>3, <1>4, <1>5, <1>6 DEF Next

\* The copies a user has just been loaded with.
LEMMA JustLoaded ==
  ASSUME TypeOK, NEW r \in Threads, NEW u \in Users, LoadUser(r, u)
  PROVE  /\ req'[r].user = u
         /\ \A t \in TradeList(u) : req'[r].trades[t] = trade[t] /\ req'[r].rows[t] = escrow[t]
         /\ UNCHANGED <<trade, escrow, ad, seen>>
BY DEF LoadUser, Go, TypeOK, db

LEMMA CopiesNextStep == TypeOK /\ HistoryInv /\ CopiesInv /\ [Next]_vars => CopiesInv'
<1> SUFFICES ASSUME TypeOK, HistoryInv, CopiesInv, [Next]_vars,
                    NEW q \in Threads, Saving(req'[q]), NEW t \in TradeList(req'[q].user)
             PROVE  req'[q].trades[t].status \in seen'[t]
  BY DEF CopiesInv, Saving
<1>1. t \in Trades
  BY DEF TradeList
<1>2. CASE req'[q] = req[q]
  BY <1>1, <1>2, SeenGrows DEF CopiesInv
<1>3. ASSUME NEW u \in Users, LoadUser(q, u)
      PROVE  req'[q].trades[t].status \in seen'[t]
  BY <1>1, <1>3, JustLoaded DEF HistoryInv
<1> QED
  BY <1>2, <1>3, OnTheWay

LEMMA HistoryNextStep == TypeOK /\ CopiesInv /\ HistoryInv /\ [Next]_vars => HistoryInv'
<1> SUFFICES ASSUME TypeOK, CopiesInv, HistoryInv, [Next]_vars PROVE HistoryInv'
  OBVIOUS
<1>1. CASE Tick \/ UNCHANGED vars
  BY <1>1 DEF Tick, vars, db, HistoryInv, Progress, RowFirst
<1>2. ASSUME NEW r \in Threads, NEW u \in Users, NEW t \in Trades, NEW op \in Ops,
             Request(r, u, t, op)
      PROVE  HistoryInv'
  BY <1>2, RequestHistory
<1>3. ASSUME NEW r \in Threads, NEW a \in Ads, NEW x \in Terms, EditRequest(r, a, x)
      PROVE  HistoryInv'
  BY <1>3, EditHistory
<1>4. ASSUME NEW r \in Threads, Step(r)
      PROVE  HistoryInv'
  <2>1. CASE Crash(r)
    BY <2>1, HistoryLocal, HistoryIdle DEF Crash, Finish
  <2> QED
    BY <1>4, <2>1, DecisionHistory, UnEscrowHistory, ReleaseHistory, EscrowHistory,
       EscrowSaveHistory, AdSaveHistory, SaveHistory, EditHistory, SaveUserHistory DEF Step
<1>5. ASSUME NEW r \in Threads, NEW u \in Active, LoadUser(r, u)
      PROVE  HistoryInv'
  BY <1>5, EnvironmentAssumption, LoadUserHistory
<1> QED
  BY <1>1, <1>2, <1>3, <1>4, <1>5 DEF Next

LEMMA InitHistory == Init => HistoryInv
BY HistoryIdle DEF Init, HistoryInv

LEMMA InitCopies == Init => CopiesInv
BY DEF Init, CopiesInv, Saving, Idle

\* What every request has found and is about to write is known from how far it has
\* got, and a status that says the coins are escrowed has a row to show for it.
THEOREM HistoryCorrect == Spec => []HistoryInv
BY InitHistory, HistoryNextStep, InitCopies, CopiesNextStep, InitType, TypeStep, PTL DEF Spec

---------------------------------------------------------------------------
(* The coins of a trade that has not been cancelled *)

LEMMA HoldsLater ==
  ASSUME NEW t, NEW past, NEW later, past \subseteq later, NEW row, Holds(t, past, row)
  PROVE  Holds(t, later, row)
BY DEF Holds

LEMMA HoldAllLater ==
  ASSUME NEW t, NEW past, NEW later, past \subseteq later, NEW rows, HoldAll(t, past, rows)
  PROVE  HoldAll(t, later, rows)
BY HoldsLater DEF HoldAll

\* The same of all that a request carries.
LEMMA CarriedLater ==
  ASSUME NEW w, NEW past, NEW later, past \subseteq later, Carried(w, past)
  PROVE  Carried(w, later)
<1>1. CASE w.pc = "save"
  <2>1. HoldAll(w.trade, past \union {w.copy.status}, w.rows)
    BY <1>1 DEF Carried
  <2>2. HoldAll(w.trade, later \union {w.copy.status}, w.rows)
    BY <2>1, HoldAllLater
  <2> QED
    BY <1>1, <2>2, HoldsLater DEF Carried
<1>2. CASE w.pc # "save"
  <2>1. HoldAll(w.trade, past, w.rows)
    BY <1>2 DEF Carried
  <2>2. HoldAll(w.trade, later, w.rows)
    BY <2>1, HoldAllLater
  <2> QED
    BY <1>2, <2>2, HoldsLater DEF Carried
<1> QED
  BY <1>1, <1>2

\* A request that does not carry its rows emptied carries them whatever it goes on to.
LEMMA CarriedByRows ==
  ASSUME NEW w, NEW past, HoldAll(w.trade, past, w.rows),
         w.hit # 0 => Holds(w.trade, past, w.row)
  PROVE  Carried(w, past)
BY HoldAllLater DEF Carried

LEMMA CoinsStep ==
  ASSUME TypeOK, CoinsInv, NEW r \in Threads, NEW w, Go(r, w),
         Working(w) => w.trade \in Trades /\ Carried(w, seen'[w.trade]),
         Saving(w) => \A t \in TradeList(w.user) : HoldAll(t, seen'[t], w.rows[t]),
         \A t \in Trades :
           /\ seen[t] \subseteq seen'[t]
           /\ HoldAll(t, seen'[t], escrow'[t])
           /\ "COMPLETED" \in seen'[t] => escrow'[t] # << >>
  PROVE  CoinsInv'
<1>1. ASSUME NEW q \in Threads
      PROVE  /\ Working(req'[q]) => Carried(req'[q], seen'[req'[q].trade])
             /\ Saving(req'[q]) =>
                  \A t \in TradeList(req'[q].user) : HoldAll(t, seen'[t], req'[q].rows[t])
  <2>1. CASE q = r
    <3>1. req'[q] = w
      BY <2>1 DEF Go, TypeOK
    <3> QED
      BY <3>1
  <2>2. CASE q # r
    <3>1. req'[q] = req[q]
      BY <2>2 DEF Go, TypeOK
    <3>2. Working(req[q]) => Carried(req[q], seen'[req[q].trade])
      <4>1. Working(req[q]) => req[q].trade \in Trades
        BY WorkingOK DEF Working, WorkOK
      <4> QED
        BY <4>1, CarriedLater DEF CoinsInv
    <3>3. ASSUME Saving(req[q]), NEW t \in TradeList(req[q].user)
          PROVE  HoldAll(t, seen'[t], req[q].rows[t])
      <4>1. t \in Trades /\ HoldAll(t, seen[t], req[q].rows[t])
        BY <3>3 DEF CoinsInv, TradeList
      <4> QED
        BY <4>1, HoldAllLater
    <3> QED
      BY <3>1, <3>2, <3>3
  <2> QED
    BY <2>1, <2>2
<1> QED
  BY <1>1 DEF CoinsInv, Working, Saving, Carried, HoldAll, Holds

LEMMA CoinsLocal ==
  ASSUME TypeOK, CoinsInv, NEW r \in Threads, NEW w, Go(r, w),
         Working(w) => w.trade \in Trades /\ Carried(w, seen[w.trade]),
         Saving(w) => \A t \in TradeList(w.user) : HoldAll(t, seen[t], w.rows[t]),
         UNCHANGED <<escrow, seen>>
  PROVE  CoinsInv'
BY CoinsStep DEF CoinsInv

LEMMA IdleNotSaving == ~Saving(Idle)
BY DEF Saving, Idle

\* What is known of a request at work that is not yet about to save.
LEMMA CoinsAt ==
  ASSUME TypeOK, HistoryInv, CoinsInv, NEW r \in Threads, req[r].pc \in Pcs
  PROVE  LET w == req[r] IN
         /\ WorkOK(w, escrow) /\ Progress(w) /\ RowFirst(w)
         /\ w.trade \in Trades
         /\ Carried(w, seen[w.trade])
         /\ HoldAll(w.trade, seen[w.trade], escrow[w.trade])
         /\ w.pc # "save" => HoldAll(w.trade, seen[w.trade], w.rows)
         /\ w.hit # 0 => Holds(w.trade, seen[w.trade], w.row)
BY ProgressAt DEF CoinsInv, Working, WorkOK, Carried

LEMMA RequestCoins ==
  ASSUME TypeOK, CoinsInv, NEW r \in Threads,
         NEW u \in Users, NEW t \in Trades, NEW op \in Ops, Request(r, u, t, op)
  PROVE  CoinsInv'
<1> DEFINE w == Load(u, t, op)
<1>1. Carried(w, seen[t]) /\ w.trade = t /\ ~Saving(w)
  BY CarriedByRows DEF Load, CoinsInv, Saving
<1> QED
  BY <1>1, CoinsLocal DEF Request, db

LEMMA DecisionCoins ==
  ASSUME TypeOK, HistoryInv, CoinsInv, NEW r \in Threads,
         \/ SendPayment(r) \/ BitcoinReceived(r) \/ Cancel(r) \/ BitcoinReleased(r)
         \/ Escrow(r)
  PROVE  CoinsInv'
<1> DEFINE w == req[r]
<1>1. /\ WorkOK(w, escrow) /\ HoldAll(w.trade, seen[w.trade], w.rows)
      /\ w.hit # 0 => Holds(w.trade, seen[w.trade], w.row)
  BY CoinsAt
     DEF SendPayment, BitcoinReceived, Cancel, BitcoinReleased, Escrow, Processing, At, Pcs
<1>2. UNCHANGED <<escrow, seen>>
  BY DEF SendPayment, BitcoinReceived, Cancel, BitcoinReleased, Escrow, db
<1> DEFINE v(copy, adv, pc) == [w EXCEPT !.copy = copy, !.ad = adv, !.pc = pc]
<1>3. ASSUME NEW copy, NEW adv, NEW pc
      PROVE  LET x == v(copy, adv, pc) IN
             x.trade \in Trades /\ Carried(x, seen[x.trade]) /\ x.pc = pc
  <2>1. LET x == v(copy, adv, pc) IN
        x.trade = w.trade /\ x.rows = w.rows /\ x.hit = w.hit /\ x.row = w.row /\ x.pc = pc
    BY <1>1 DEF WorkOK
  <2> QED
    BY <1>1, <2>1, CarriedByRows DEF WorkOK
<1>4. ASSUME NEW s, NEW pc
      PROVE  [w EXCEPT !.copy.status = s, !.pc = pc] = v([w.copy EXCEPT !.status = s], w.ad, pc)
  BY <1>1 DEF WorkOK
<1>5. Finish(r) \/ \E copy, adv, pc : pc \in Pcs /\ Go(r, v(copy, adv, pc))
  <2>1. CASE SendPayment(r) \/ BitcoinReceived(r) \/ Cancel(r) \/ BitcoinReleased(r)
    <3>1. Finish(r) \/ \E s, pc : pc \in Pcs /\ Set(r, s, pc)
      BY <2>1 DEF SendPayment, BitcoinReceived, Cancel, BitcoinReleased, Pcs
    <3>2. ASSUME NEW s, NEW pc, Set(r, s, pc)
          PROVE  Go(r, v([w.copy EXCEPT !.status = s], w.ad, pc))
      BY <1>4, <3>2 DEF Set
    <3> QED
      BY <3>1, <3>2
  <2>2. ASSUME Escrow(r), ~Finish(r)
        PROVE  \E copy, adv : Go(r, v(copy, adv, "escrowFind"))
    <3>1. PICK b \in BalanceRead(w.user) :
            Go(r, [w EXCEPT !.copy = [status |-> "BITCOIN_ESCROWED", escrowTime |-> now],
                            !.ad.hidden = @ \/ MinCoins[AdOf[w.trade]][w.ad.terms] > Left(w, b),
                            !.pc = "escrowFind"])
      BY <2>2 DEF Escrow
    <3> QED
      BY <3>1
  <2> QED
    BY <2>1, <2>2 DEF Pcs
<1>6. \A copy, adv, pc : pc \in Pcs => ~Saving(v(copy, adv, pc))
  BY <1>3 DEF Saving, Pcs
<1> QED
  BY <1>2, <1>3, <1>5, <1>6, HistoryIdle, IdleNotSaving, CoinsLocal DEF Finish

LEMMA UnEscrowCoins ==
  ASSUME TypeOK, HistoryInv, CoinsInv, NEW r \in Threads, UnEscrow(r)
  PROVE  CoinsInv'
<1> DEFINE w == req[r]
           t == w.trade
           emptied(i) == [j \in {i} |-> [escrow[t][j] EXCEPT !.amount = 0, !.fee = 0]]
           v(i) == [w EXCEPT !.rows = emptied(i), !.pc = "save"]
           v0 == [w EXCEPT !.pc = "save"]
<1>1. /\ WorkOK(w, escrow) /\ HoldAll(t, seen[t], w.rows) /\ t \in Trades
      /\ w.hit # 0 => Holds(t, seen[t], w.row)
      /\ w.copy.status = "CANCELLED"
  BY CoinsAt DEF UnEscrow, At, Pcs, Progress
<1>2. v0.trade = t /\ Carried(v0, seen[t]) /\ ~Saving(v0)
  <2>1. v0.trade = t /\ v0.rows = w.rows /\ v0.hit = w.hit /\ v0.row = w.row /\ v0.pc = "save"
    BY <1>1 DEF WorkOK
  <2> QED
    BY <1>1, <2>1, CarriedByRows DEF Saving
<1>3. ASSUME NEW i \in Hits(t)
      PROVE  v(i).trade = t /\ Carried(v(i), seen[t]) /\ ~Saving(v(i))
  <2>1. /\ v(i).trade = t /\ v(i).rows = emptied(i) /\ v(i).hit = w.hit /\ v(i).row = w.row
        /\ v(i).pc = "save" /\ v(i).copy.status = "CANCELLED"
    BY <1>1 DEF WorkOK
  <2>2. HoldAll(t, seen[t] \union {"CANCELLED"}, emptied(i))
    <3>1. escrow[t][i] \in EscrowRow
      BY <1>1, RowOK DEF WorkOK, Hits
    <3>2. DOMAIN emptied(i) = {i} /\ emptied(i)[i].amount = 0
      BY <3>1 DEF EscrowRow
    <3> QED
      BY <3>2 DEF HoldAll, Holds
  <2> QED
    BY <1>1, <2>1, <2>2 DEF Carried, Saving
<1>4. Go(r, v0) \/ \E i \in Hits(t) : Go(r, v(i))
  BY DEF UnEscrow
<1>5. UNCHANGED <<escrow, seen>>
  BY DEF UnEscrow, db
<1> QED
  BY <1>1, <1>2, <1>3, <1>4, <1>5, CoinsLocal

\* Marking a row of the copy released leaves its coins.
LEMMA MarkReleasedCoins ==
  ASSUME TypeOK, NEW r \in Threads, NEW w, WorkOK(w, escrow), NEW past,
         HoldAll(w.trade, past, w.rows), w.hit # 0 => Holds(w.trade, past, w.row),
         MarkReleased(r, w)
  PROVE  \E v : Go(r, v) /\ ~Saving(v)
           /\ (Working(v) => v.trade = w.trade /\ Carried(v, past))
<1> DEFINE v(i) == [w EXCEPT !.rows[i].released = TRUE, !.pc = "save"]
<1>1. CASE Finish(r)
  BY <1>1, HistoryIdle, IdleNotSaving DEF Finish
<1>2. ASSUME NEW i \in DOMAIN w.rows
      PROVE  ~Saving(v(i)) /\ v(i).trade = w.trade /\ Carried(v(i), past)
  <2>1. /\ v(i).pc = "save" /\ v(i).trade = w.trade
        /\ v(i).hit = w.hit /\ v(i).row = w.row
        /\ DOMAIN v(i).rows = DOMAIN w.rows
        /\ \A j \in DOMAIN w.rows : v(i).rows[j].amount = w.rows[j].amount
    BY <1>2 DEF WorkOK, EscrowRow
  <2>2. HoldAll(v(i).trade, past, v(i).rows)
    BY <2>1 DEF HoldAll, Holds
  <2> QED
    BY <2>1, <2>2, CarriedByRows DEF Saving
<1>3. Finish(r) \/ \E i \in DOMAIN w.rows : Go(r, v(i))
  BY DEF MarkReleased
<1> QED
  BY <1>1, <1>2, <1>3

LEMMA ReleaseCoins ==
  ASSUME TypeOK, HistoryInv, CoinsInv, NEW r \in Threads, ReleaseFind(r) \/ ReleaseSave(r)
  PROVE  CoinsInv'
<1> DEFINE w == req[r]
           t == w.trade
           v(i) == [w EXCEPT !.hit = i, !.row = escrow[t][i], !.pc = "releaseSave"]
           row == [w.row EXCEPT !.released = TRUE]
<1>1. /\ WorkOK(w, escrow) /\ HoldAll(t, seen[t], w.rows) /\ t \in Trades
      /\ HoldAll(t, seen[t], escrow[t])
      /\ w.hit # 0 => Holds(t, seen[t], w.row)
  BY CoinsAt DEF ReleaseFind, ReleaseSave, At, Pcs
<1>2. UNCHANGED seen
  BY DEF ReleaseFind, ReleaseSave, db
<1>3. \E x : Go(r, x) /\ ~Saving(x) /\ (Working(x) => x.trade = t /\ Carried(x, seen[t]))
  <2>1. CASE MarkReleased(r, w)
    BY <1>1, <2>1, MarkReleasedCoins
  <2>2. ASSUME NEW i \in Hits(t), Go(r, v(i))
        PROVE  ~Saving(v(i)) /\ v(i).trade = t /\ Carried(v(i), seen[t])
    <3>1. /\ v(i).trade = t /\ v(i).rows = w.rows /\ v(i).hit = i /\ v(i).row = escrow[t][i]
          /\ v(i).pc = "releaseSave"
      BY <1>1 DEF WorkOK
    <3>2. Holds(t, seen[t], escrow[t][i])
      BY <1>1 DEF HoldAll, Hits
    <3> QED
      BY <1>1, <3>1, <3>2, CarriedByRows DEF Saving
  <2> QED
    BY <2>1, <2>2 DEF ReleaseFind, ReleaseSave
<1>4. ASSUME NEW s \in Trades
      PROVE  HoldAll(s, seen[s], escrow'[s]) /\ (escrow[s] # << >> => escrow'[s] # << >>)
  <2>1. CASE UNCHANGED escrow
    BY <2>1 DEF CoinsInv
  <2>2. CASE ReleaseSave(r) /\ escrow' = [escrow EXCEPT ![t][w.hit] = row]
    <3>1. w.hit \in DOMAIN escrow[t] /\ Holds(t, seen[t], w.row)
      BY <1>1, <2>2 DEF ReleaseSave, At, WorkOK
    <3>2. Holds(t, seen[t], row)
      BY <1>1, <3>1 DEF Holds, WorkOK, EscrowRow
    <3>3. CASE s = t
      <4>1. escrow'[s] = [escrow[t] EXCEPT ![w.hit] = row]
        BY <1>1, <2>2, <3>3 DEF TypeOK
      <4> QED
        BY <1>1, <3>1, <3>2, <3>3, <4>1 DEF HoldAll
    <3>4. CASE s # t
      BY <1>1, <2>2, <3>4 DEF TypeOK, CoinsInv
    <3> QED
      BY <3>3, <3>4
  <2> QED
    BY <2>1, <2>2 DEF ReleaseFind, ReleaseSave, db
<1> QED
  BY <1>1, <1>2, <1>3, <1>4, CoinsStep DEF CoinsInv

LEMMA EscrowCoins ==
  ASSUME TypeOK, HistoryInv, CoinsInv, NEW r \in Threads, EscrowFind(r) \/ EscrowSave(r)
  PROVE  CoinsInv'
<1> DEFINE w == req[r]
           t == w.trade
           found(i) == [w EXCEPT !.hit = i, !.row = escrow[t][i], !.pc = "escrowSave"]
           next(pc) == [w EXCEPT !.pc = pc]
<1>1. /\ WorkOK(w, escrow) /\ HoldAll(t, seen[t], w.rows) /\ t \in Trades
      /\ HoldAll(t, seen[t], escrow[t])
      /\ w.hit # 0 => Holds(t, seen[t], w.row)
  BY CoinsAt DEF EscrowFind, EscrowSave, At, Pcs
<1>2. ASSUME NEW pc \in Pcs
      PROVE  next(pc).trade = t /\ Carried(next(pc), seen[t]) /\ ~Saving(next(pc))
  <2>1. /\ next(pc).trade = t /\ next(pc).rows = w.rows /\ next(pc).hit = w.hit
        /\ next(pc).row = w.row /\ next(pc).pc = pc
    BY <1>1 DEF WorkOK
  <2> QED
    BY <1>1, <2>1, CarriedByRows DEF Saving, Pcs
<1>3. ASSUME NEW i \in Hits(t)
      PROVE  found(i).trade = t /\ Carried(found(i), seen[t]) /\ ~Saving(found(i))
  <2>1. /\ found(i).trade = t /\ found(i).rows = w.rows /\ found(i).hit = i
        /\ found(i).row = escrow[t][i] /\ found(i).pc = "escrowSave"
    BY <1>1 DEF WorkOK
  <2>2. Holds(t, seen[t], escrow[t][i])
    BY <1>1 DEF HoldAll, Hits
  <2> QED
    BY <1>1, <2>1, <2>2, CarriedByRows DEF Saving
<1>4. CASE EscrowFind(r)
  <2>1. \/ Finish(r)
        \/ Go(r, next("escrowSave"))
        \/ \E i \in Hits(t) : Go(r, found(i))
    BY <1>4 DEF EscrowFind
  <2>2. UNCHANGED <<escrow, seen>>
    BY <1>4 DEF EscrowFind, db
  <2>3. "escrowSave" \in Pcs
    BY DEF Pcs
  <2> QED
    BY <1>1, <1>2, <1>3, <2>1, <2>2, <2>3, HistoryIdle, IdleNotSaving, CoinsLocal DEF Finish
<1>5. CASE EscrowSave(r)
  <2>1. Finish(r) \/ (Go(r, next("adSave")) /\ "adSave" \in Pcs)
    BY <1>5 DEF EscrowSave, Pcs
  <2>2. Holds(t, seen[t], Fund(t, NoRow)) /\ Holds(t, seen[t], Fund(t, w.row))
    BY <1>1 DEF Holds, Fund, NoRow, WorkOK, EscrowRow
  <2>3. HoldAll(t, seen[t], escrow'[t]) /\ (escrow[t] # << >> => escrow'[t] # << >>)
    <3>1. CASE UNCHANGED escrow
      BY <1>1, <3>1
    <3>2. CASE escrow' = [escrow EXCEPT ![t] = Append(@, Fund(t, NoRow))]
      <4>1. escrow'[t] = Append(escrow[t], Fund(t, NoRow))
        BY <1>1, <3>2 DEF TypeOK
      <4>2. Fund(t, NoRow) \in EscrowRow
        BY <1>1, AmountsAssumption DEF Fund, NoRow, EscrowRow
      <4> QED
        BY <1>1, <2>2, <4>1, <4>2, RowOK, AppendProperties DEF HoldAll
    <3>3. CASE w.hit # 0 /\ escrow' = [escrow EXCEPT ![t][w.hit] = Fund(t, w.row)]
      <4>1. escrow'[t] = [escrow[t] EXCEPT ![w.hit] = Fund(t, w.row)]
        BY <1>1, <3>3 DEF TypeOK
      <4>2. w.hit \in DOMAIN escrow[t]
        BY <1>1, <3>3 DEF WorkOK
      <4> QED
        BY <1>1, <2>2, <4>1, <4>2 DEF HoldAll
    <3> QED
      BY <1>5, <3>1, <3>2, <3>3 DEF EscrowSave
  <2>4. \A s \in Trades : s # t => escrow'[s] = escrow[s]
    BY <1>1, <1>5 DEF EscrowSave, TypeOK
  <2>5. UNCHANGED seen
    BY <1>5 DEF EscrowSave
  <2>6. \A s \in Trades :
          /\ HoldAll(s, seen'[s], escrow'[s])
          /\ "COMPLETED" \in seen'[s] => escrow'[s] # << >>
    BY <2>3, <2>4, <2>5 DEF CoinsInv
  <2> QED
    BY <1>1, <1>2, <2>1, <2>5, <2>6, HistoryIdle, IdleNotSaving, CoinsStep DEF Finish
<1> QED
  BY <1>4, <1>5

\* Saving a trade writes the rows the request carries, and shows the status it carries.
LEMMA SaveShows ==
  ASSUME TypeOK, HistoryInv, CoinsInv, NEW r \in Threads, Save(r)
  PROVE  LET w == req[r] IN
         /\ w.trade \in Trades
         /\ \A s \in Trades : s # w.trade => escrow'[s] = escrow[s] /\ seen'[s] = seen[s]
         /\ escrow'[w.trade] = Overlay(w.rows, escrow[w.trade])
         /\ DOMAIN escrow'[w.trade] = DOMAIN escrow[w.trade]
         /\ seen'[w.trade] = seen[w.trade] \union {w.copy.status}
         /\ HoldAll(w.trade, seen'[w.trade], escrow'[w.trade])
         /\ w.copy.status = "COMPLETED" =>
              \E i \in DOMAIN escrow[w.trade] : escrow'[w.trade][i].released
<1> DEFINE w == req[r]
           t == w.trade
<1>1. /\ WorkOK(w, escrow) /\ Progress(w) /\ t \in Trades /\ w.pc = "save"
      /\ Carried(w, seen[t]) /\ HoldAll(t, seen[t], escrow[t])
  BY CoinsAt DEF Save, At, Pcs
<1>2. /\ \A s \in Trades : s # t => escrow'[s] = escrow[s] /\ seen'[s] = seen[s]
      /\ escrow'[t] = Overlay(w.rows, escrow[t])
      /\ seen'[t] = seen[t] \union {w.copy.status}
  BY <1>1 DEF Save, TypeOK
<1>3. DOMAIN escrow'[t] = DOMAIN escrow[t]
  BY <1>2 DEF Overlay
<1>4. HoldAll(t, seen'[t], w.rows) /\ HoldAll(t, seen'[t], escrow[t])
  <2>1. HoldAll(t, seen'[t], w.rows)
    BY <1>1, <1>2 DEF Carried
  <2>2. seen[t] \subseteq seen'[t]
    BY <1>2
  <2> QED
    BY <1>1, <2>1, <2>2, HoldAllLater
<1>5. HoldAll(t, seen'[t], escrow'[t])
  BY <1>2, <1>4 DEF HoldAll, Overlay
<1>6. w.copy.status = "COMPLETED" => \E i \in DOMAIN escrow[t] : escrow'[t][i].released
  <2> SUFFICES ASSUME w.copy.status = "COMPLETED"
               PROVE  \E i \in DOMAIN escrow[t] : escrow'[t][i].released
    OBVIOUS
  <2>1. PICK i \in DOMAIN w.rows : w.rows[i].released
    BY <1>1 DEF Progress
  <2>2. i \in DOMAIN escrow[t] /\ escrow'[t][i] = w.rows[i]
    BY <1>1, <1>2, <2>1 DEF WorkOK, Overlay
  <2> QED
    BY <2>1, <2>2
<1> QED
  BY <1>1, <1>2, <1>3, <1>5, <1>6

LEMMA SaveCoins ==
  ASSUME TypeOK, HistoryInv, CoinsInv, NEW r \in Threads, AdSave(r) \/ Save(r)
  PROVE  CoinsInv'
<1> DEFINE w == req[r]
           t == w.trade
<1>1. CASE AdSave(r)
  <2> DEFINE v == [w EXCEPT !.pc = "save"]
  <2>1. /\ WorkOK(w, escrow) /\ HoldAll(t, seen[t], w.rows) /\ t \in Trades
        /\ w.hit # 0 => Holds(t, seen[t], w.row)
    BY <1>1, CoinsAt DEF AdSave, At, Pcs
  <2>2. v.trade = t /\ v.rows = w.rows /\ v.hit = w.hit /\ v.row = w.row /\ v.pc = "save"
    BY <2>1 DEF WorkOK
  <2>3. Carried(v, seen[v.trade]) /\ ~Saving(v)
    BY <2>1, <2>2, CarriedByRows DEF Saving
  <2> QED
    BY <1>1, <2>1, <2>2, <2>3, CoinsLocal DEF AdSave
<1>2. CASE Save(r)
  <2>1. \A s \in Trades :
          /\ seen[s] \subseteq seen'[s]
          /\ HoldAll(s, seen'[s], escrow'[s])
          /\ "COMPLETED" \in seen'[s] => escrow'[s] # << >>
    <3>1. ASSUME NEW s \in Trades, s # t
          PROVE  /\ seen[s] \subseteq seen'[s]
                 /\ HoldAll(s, seen'[s], escrow'[s])
                 /\ "COMPLETED" \in seen'[s] => escrow'[s] # << >>
      BY <1>2, <3>1, SaveShows DEF CoinsInv
    <3>2. /\ seen[t] \subseteq seen'[t]
          /\ HoldAll(t, seen'[t], escrow'[t])
          /\ "COMPLETED" \in seen'[t] => escrow'[t] # << >>
      BY <1>2, SaveShows DEF CoinsInv
    <3> QED
      BY <3>1, <3>2
  <2> QED
    BY <1>2, <2>1, HistoryIdle, IdleNotSaving, CoinsStep DEF Save, Finish
<1> QED
  BY <1>1, <1>2

LEMMA EditCoins ==
  ASSUME TypeOK, CoinsInv, NEW r \in Threads,
         \/ \E a \in Ads, x \in Terms : EditRequest(r, a, x)
         \/ EditSave(r) \/ Crash(r)
  PROVE  CoinsInv'
<1> DEFINE w(a, x) == [pc |-> "editSave", adId |-> a, ad |-> [ad[a] EXCEPT !.terms = x]]
<1>1. \A a, x : ~Working(w(a, x)) /\ ~Saving(w(a, x))
  BY DEF Working, Saving, Pcs
<1>2. Finish(r) \/ \E a, x : Go(r, w(a, x))
  BY DEF EditRequest, EditSave, Crash
<1> QED
  BY <1>1, <1>2, HistoryIdle, IdleNotSaving, CoinsLocal
     DEF EditRequest, EditSave, Crash, Finish, db

LEMMA LoadUserCoins ==
  ASSUME TypeOK, CoinsInv, NEW r \in Threads, NEW u \in Users, LoadUser(r, u)
  PROVE  CoinsInv'
<1>1. PICK w : Go(r, w) /\ Saving(w) /\ w = req'[r]
  BY DEF LoadUser, Saving, Go, TypeOK
<1>2. ASSUME NEW t \in TradeList(w.user)
      PROVE  HoldAll(t, seen[t], w.rows[t])
  <2>1. w.rows[t] = escrow[t] /\ t \in Trades
    BY <1>1, <1>2, JustLoaded DEF TradeList
  <2> QED
    BY <2>1 DEF CoinsInv
<1> QED
  BY <1>1, <1>2, SavingNotWorking, CoinsLocal DEF LoadUser, db

\* The rows a user brings back hold their coins too.
LEMMA SaveUserHolds ==
  ASSUME TypeOK, CoinsInv, NEW r \in Threads, SaveUser(r), NEW t \in Trades
  PROVE  HoldAll(t, seen[t], escrow'[t]) /\ DOMAIN escrow'[t] = DOMAIN escrow[t]
<1> DEFINE w == req[r]
<1>1. UserOK(w, escrow) /\ Saving(w)
  BY SavingOK DEF SaveUser, At, Saving
<1>2. escrow'[t] = IF t \in DOMAIN w.rows THEN Overlay(w.rows[t], escrow[t]) ELSE escrow[t]
  BY DEF SaveUser
<1>3. HoldAll(t, seen[t], escrow[t])
  BY DEF CoinsInv
<1>4. CASE t \in DOMAIN w.rows
  <2>1. HoldAll(t, seen[t], w.rows[t])
    BY <1>1, <1>4 DEF CoinsInv, UserOK
  <2> QED
    BY <1>2, <1>3, <1>4, <2>1 DEF HoldAll, Overlay
<1> QED
  BY <1>2, <1>3, <1>4

LEMMA SaveUserCoins ==
  ASSUME TypeOK, HistoryInv, CopiesInv, CoinsInv, NEW r \in Threads, SaveUser(r)
  PROVE  CoinsInv'
<1>1. \A t \in Trades : seen'[t] = seen[t]
  BY SaveUserStatuses
<1>2. Go(r, Idle)
  BY DEF SaveUser, Finish
<1>3. \A t \in Trades :
        /\ HoldAll(t, seen'[t], escrow'[t])
        /\ "COMPLETED" \in seen'[t] => escrow'[t] # << >>
  BY <1>1, SaveUserHolds DEF CoinsInv
<1> QED
  BY <1>1, <1>2, <1>3, CoinsStep, HistoryIdle, IdleNotSaving

LEMMA CoinsNextStep ==
  TypeOK /\ HistoryInv /\ CopiesInv /\ CoinsInv /\ [Next]_vars => CoinsInv'
<1> SUFFICES ASSUME TypeOK, HistoryInv, CopiesInv, CoinsInv, [Next]_vars
             PROVE  CoinsInv'
  OBVIOUS
<1>1. CASE Tick \/ UNCHANGED vars
  BY <1>1 DEF Tick, vars, db, CoinsInv, HoldAll, Holds, Carried, Working, Saving
<1>2. ASSUME NEW r \in Threads, NEW u \in Users, NEW t \in Trades, NEW op \in Ops,
             Request(r, u, t, op)
      PROVE  CoinsInv'
  BY <1>2, RequestCoins
<1>3. ASSUME NEW r \in Threads, NEW a \in Ads, NEW x \in Terms, EditRequest(r, a, x)
      PROVE  CoinsInv'
  BY <1>3, EditCoins
<1>4. ASSUME NEW r \in Threads, Step(r)
      PROVE  CoinsInv'
  BY <1>4, DecisionCoins, UnEscrowCoins, ReleaseCoins, EscrowCoins, SaveCoins,
     EditCoins, SaveUserCoins DEF Step
<1>5. ASSUME NEW r \in Threads, NEW u \in Active, LoadUser(r, u)
      PROVE  CoinsInv'
  BY <1>5, EnvironmentAssumption, LoadUserCoins
<1> QED
  BY <1>1, <1>2, <1>3, <1>4, <1>5 DEF Next

LEMMA InitCoins == Init => CoinsInv
BY HistoryIdle, IdleNotSaving DEF Init, CoinsInv, HoldAll

\* The parties are told that the coins are escrowed, or the trade completed, only after
\* a row was committed, and no row loses its coins before the trade was cancelled: for
\* any number of requests at a time, whatever they ask for and whoever asks, failures
\* and crashes included.
THEOREM RowsFirst == Spec => []RowsBeforeStatus
<1>1. HistoryInv /\ CoinsInv => RowsBeforeStatus
  BY DEF HistoryInv, CoinsInv, HoldAll, Holds, RowsBeforeStatus
<1> QED
  BY <1>1, InitType, TypeStep, InitHistory, HistoryNextStep, InitCopies, CopiesNextStep,
     InitCoins, CoinsNextStep, PTL DEF Spec

---------------------------------------------------------------------------
(* The history of statuses *)

\* Until a trade has been cancelled its coins are free exactly while it has no row.
LEMMA MoneyOfRows ==
  ASSUME NEW t \in Trades, NEW rows, NEW past, HoldAll(t, past, rows), "CANCELLED" \notin past
  PROVE  /\ \A i \in DOMAIN rows : rows[i].amount # 0
         /\ (\E i \in DOMAIN rows : rows[i].amount # 0) <=> DOMAIN rows # {}
BY AmountsAssumption DEF HoldAll, Holds

LEMMA MoneyFollows ==
  ASSUME NEW t \in Trades, seen[t] \subseteq seen'[t],
         HoldAll(t, seen[t], escrow[t]), HoldAll(t, seen'[t], escrow'[t]),
         DOMAIN escrow[t] \subseteq DOMAIN escrow'[t],
         DOMAIN escrow[t] = {} => \A i \in DOMAIN escrow'[t] : ~escrow'[t][i].released,
         "CANCELLED" \notin seen'[t]
  PROVE  \/ MoneyOf(t) = "free" /\ MoneyOf(t)' \in {"free", "locked"}
         \/ MoneyOf(t) # "free" /\ MoneyOf(t)' # "free"
<1>1. /\ MoneyOf(t) = "free" <=> DOMAIN escrow[t] = {}
      /\ Paid(t) => DOMAIN escrow[t] # {}
  BY MoneyOfRows DEF MoneyOf, Paid, Locked
<1>2. MoneyOf(t)' = "free" <=> DOMAIN escrow'[t] = {}
  BY MoneyOfRows DEF MoneyOf, Paid, Locked
<1>3. DOMAIN escrow[t] = {} => MoneyOf(t)' \in {"free", "locked"}
  BY DEF MoneyOf, Paid, Locked
<1> QED
  BY <1>1, <1>2, <1>3

LEMMA MoneyStep ==
  ASSUME NEW t \in Trades, \A s \in Trades \ {t} : escrow'[s] = escrow[s]
  PROVE  LET money == [s \in Trades |-> MoneyOf(s)] IN
         \E m \in Contract!Money : money' = [money EXCEPT ![t] = m]
<1> DEFINE money == [s \in Trades |-> MoneyOf(s)]
<1>1. \A s \in Trades \ {t} : MoneyOf(s)' = MoneyOf(s)
  BY DEF MoneyOf, Paid, Locked
<1>2. MoneyOf(t)' \in Contract!Money
  BY DEF MoneyOf, Contract!Money
<1>3. money' = [s \in Trades |-> MoneyOf(s)']
  OBVIOUS
<1>4. money' = [money EXCEPT ![t] = MoneyOf(t)']
  BY <1>1, <1>3
<1> QED
  BY <1>2, <1>4

\* The coins of trade t follow in the sense of the contract.
LEMMA CoinsFollowed ==
  ASSUME NEW t \in Trades, seen[t] \subseteq seen'[t],
         HoldAll(t, seen[t], escrow[t]), HoldAll(t, seen'[t], escrow'[t]),
         DOMAIN escrow[t] \subseteq DOMAIN escrow'[t],
         DOMAIN escrow[t] = {} => \A i \in DOMAIN escrow'[t] : ~escrow'[t][i].released
  PROVE  Contract!CoinsFollow(t)
<1>1. /\ [s \in Trades |-> MoneyOf(s)][t] = MoneyOf(t)
      /\ [s \in Trades |-> MoneyOf(s)]'[t] = MoneyOf(t)'
  OBVIOUS
<1> QED
  BY <1>1, MoneyFollows DEF Contract!CoinsFollow

\* A step that does not save a status moves coins of one trade at most.
LEMMA QuietStep ==
  ASSUME NEW t \in Trades, \A s \in Trades \ {t} : escrow'[s] = escrow[s],
         UNCHANGED <<trade, seen>>, Contract!CoinsFollow(t)
  PROVE  Contract!HistoryNext
<1>1. Contract!MoveCoins(t)
  BY MoneyStep DEF Contract!MoveCoins, Contract!Put
<1> QED
  BY <1>1 DEF Contract!HistoryNext

LEMMA StutterStep ==
  ASSUME UNCHANGED <<trade, escrow, seen>>
  PROVE  UNCHANGED Contract!vars
BY DEF Contract!vars, MoneyOf, Paid, Locked

\* Finding or adding a row, and releasing one.
LEMMA RowSaveMoves ==
  ASSUME TypeOK, HistoryInv, CopiesInv, CoinsInv, CoinsInv', NEW r \in Threads,
         ReleaseSave(r) \/ EscrowSave(r)
  PROVE  Contract!HistoryNext
<1> DEFINE w == req[r]
           t == w.trade
<1>1. WorkOK(w, escrow) /\ t \in Trades
  BY CoinsAt DEF ReleaseSave, EscrowSave, At, Pcs
<1>2. \A s \in Trades \ {t} : escrow'[s] = escrow[s]
  BY <1>1 DEF ReleaseSave, EscrowSave, TypeOK
<1>3. UNCHANGED <<trade, seen>>
  BY DEF ReleaseSave, EscrowSave
<1>4. HoldAll(t, seen[t], escrow[t]) /\ HoldAll(t, seen'[t], escrow'[t])
  <2>1. HoldAll(t, seen[t], escrow[t])
    BY <1>1 DEF CoinsInv
  <2>2. HoldAll(t, seen'[t], escrow'[t])
    BY <1>1 DEF CoinsInv, HoldAll, Holds
  <2> QED
    BY <2>1, <2>2
<1>5. /\ DOMAIN escrow[t] \subseteq DOMAIN escrow'[t]
      /\ DOMAIN escrow[t] = {} => \A i \in DOMAIN escrow'[t] : ~escrow'[t][i].released
  <2>1. CASE UNCHANGED escrow
    BY <2>1
  <2>2. CASE \E row : w.hit # 0 /\ escrow' = [escrow EXCEPT ![t][w.hit] = row]
    <3>1. w.hit \in DOMAIN escrow[t] /\ DOMAIN escrow'[t] = DOMAIN escrow[t]
      BY <1>1, <2>2 DEF WorkOK, TypeOK
    <3> QED
      BY <3>1
  <2>3. CASE escrow' = [escrow EXCEPT ![t] = Append(@, Fund(t, NoRow))]
    <3>1. escrow'[t] = Append(escrow[t], Fund(t, NoRow)) /\ Fund(t, NoRow) \in EscrowRow
      BY <1>1, <2>3, AmountsAssumption DEF TypeOK, Fund, NoRow, EscrowRow
    <3>2. ~Fund(t, NoRow).released
      BY DEF Fund, NoRow
    <3>3. escrow[t] \in Seq(EscrowRow)
      BY <1>1 DEF TypeOK
    <3>4. /\ DOMAIN escrow'[t] = 1 .. Len(escrow[t]) + 1
          /\ escrow'[t][Len(escrow[t]) + 1] = Fund(t, NoRow)
          /\ DOMAIN escrow[t] = 1 .. Len(escrow[t]) /\ Len(escrow[t]) \in Nat
      BY <3>1, <3>3, AppendProperties
    <3> QED
      BY <3>2, <3>4
  <2>4. \/ UNCHANGED escrow
        \/ \E row : w.hit # 0 /\ escrow' = [escrow EXCEPT ![t][w.hit] = row]
        \/ escrow' = [escrow EXCEPT ![t] = Append(@, Fund(t, NoRow))]
    <3>1. CASE EscrowSave(r)
      BY <3>1 DEF EscrowSave
    <3>2. CASE ReleaseSave(r)
      BY <1>1, <3>2 DEF ReleaseSave, At, WorkOK
    <3> QED
      BY <3>1, <3>2
  <2> QED
    BY <2>1, <2>2, <2>3, <2>4
<1>6. Contract!CoinsFollow(t)
  BY <1>1, <1>3, <1>4, <1>5, CoinsFollowed
<1> QED
  BY <1>1, <1>2, <1>3, <1>6, QuietStep

LEMMA NonEmpty ==
  ASSUME NEW S, NEW s \in Seq(S), s # << >>
  PROVE  DOMAIN s # {}
<1>1. DOMAIN s = 1 .. Len(s) /\ Len(s) \in Nat /\ Len(s) # 0
  BY EmptySeq, LenProperties
<1>2. 1 \in 1 .. Len(s)
  BY <1>1
<1> QED
  BY <1>1, <1>2

\* Where the coins of trade t are after a step, by its rows.
LEMMA MoneyAfter ==
  ASSUME NEW t \in Trades,
         \A i \in DOMAIN escrow'[t] : escrow'[t][i].amount # 0
  PROVE  /\ DOMAIN escrow'[t] # {} => MoneyOf(t)' # "free"
         /\ (\E i \in DOMAIN escrow'[t] : escrow'[t][i].released) => MoneyOf(t)' = "paid"
<1>1. Locked(t)' <=> \E i \in DOMAIN escrow'[t] : escrow'[t][i].amount # 0
  BY DEF Locked
<1>2. Paid(t)' <=> \E i \in DOMAIN escrow'[t] : escrow'[t][i].amount # 0 /\ escrow'[t][i].released
  BY DEF Paid
<1>3. MoneyOf(t)' = IF Paid(t)' THEN "paid" ELSE IF Locked(t)' THEN "locked" ELSE "free"
  BY DEF MoneyOf
<1> QED
  BY <1>1, <1>2, <1>3

\* Where the coins of trade t are fits the status written, by its rows.
LEMMA CoinsFitted ==
  ASSUME NEW t \in Trades, NEW s, DOMAIN escrow'[t] # {}, HoldAll(t, seen'[t], escrow'[t]),
         s = "COMPLETED" => \E i \in DOMAIN escrow'[t] : escrow'[t][i].released
  PROVE  Contract!CoinsFit(t, s)
<1>1. [u \in Trades |-> MoneyOf(u)]'[t] = MoneyOf(t)'
  OBVIOUS
<1>2. "CANCELLED" \notin seen'[t] => \A i \in DOMAIN escrow'[t] : escrow'[t][i].amount # 0
  BY AmountsAssumption DEF HoldAll, Holds
<1>3. "CANCELLED" \notin seen'[t] => MoneyOf(t)' # "free"
  BY <1>2, MoneyAfter
<1>4. "CANCELLED" \notin seen'[t] /\ s = "COMPLETED" => MoneyOf(t)' = "paid"
  BY <1>2, MoneyAfter
<1> QED
  BY <1>1, <1>3, <1>4 DEF Contract!CoinsFit

LEMMA SaveOverwrites ==
  ASSUME TypeOK, HistoryInv, CoinsInv, NEW r \in Threads, Save(r)
  PROVE  Contract!HistoryNext
<1> DEFINE w == req[r]
           t == w.trade
           s == w.copy.status
<1>1. WorkOK(w, escrow) /\ Progress(w) /\ RowFirst(w) /\ w.pc = "save" /\ t \in Trades
  BY CoinsAt DEF Save, At, Pcs
<1>2. s \in Contract!LeadsTo(seen[t])
  BY <1>1 DEF Progress, Contract!LeadsTo, Contract!Statuses
<1>3. [u \in Trades |-> trade[u].status]' = [[u \in Trades |-> trade[u].status] EXCEPT ![t] = s]
  BY <1>1 DEF Save, TypeOK
<1>4. /\ \A u \in Trades \ {t} : escrow'[u] = escrow[u]
      /\ DOMAIN escrow'[t] = DOMAIN escrow[t]
      /\ seen'[t] = seen[t] \union {s}
      /\ HoldAll(t, seen'[t], escrow'[t])
      /\ s = "COMPLETED" => \E i \in DOMAIN escrow[t] : escrow'[t][i].released
  BY SaveShows
<1>5. \E m \in Contract!Money :
        [u \in Trades |-> MoneyOf(u)]' = [[u \in Trades |-> MoneyOf(u)] EXCEPT ![t] = m]
  BY <1>1, <1>4, MoneyStep
<1>6. seen' = [seen EXCEPT ![t] = @ \union {s}]
  BY DEF Save
<1>7. Contract!CoinsFollow(t)
  <2>1. HoldAll(t, seen[t], escrow[t])
    BY <1>1 DEF CoinsInv
  <2> QED
    BY <1>1, <1>4, <2>1, CoinsFollowed
<1>8. Contract!CoinsFit(t, s)
  <2>1. DOMAIN escrow[t] # {}
    <3>1. CASE s = "COMPLETED"
      BY <1>4, <3>1
    <3>2. CASE s # "COMPLETED"
      <4>1. escrow[t] # << >>
        BY <1>1, <3>2 DEF Progress, RowFirst, HistoryInv
      <4>2. escrow[t] \in Seq(EscrowRow)
        BY <1>1 DEF TypeOK
      <4> QED
        BY ONLY <4>1, <4>2, NonEmpty
    <3> QED
      BY <3>1, <3>2
  <2>2. PICK u \in Trades : u = t
    BY <1>1
  <2>3. Contract!CoinsFit(u, s)
    <3>1. DOMAIN escrow'[u] # {} /\ HoldAll(u, seen'[u], escrow'[u])
      BY <1>4, <2>1, <2>2
    <3>2. s = "COMPLETED" => \E i \in DOMAIN escrow'[u] : escrow'[u][i].released
      BY <1>4, <2>2
    <3> HIDE DEF s
    <3> QED
      BY <3>1, <3>2, CoinsFitted
  <2> QED
    BY <2>2, <2>3
<1>9. Contract!Overwrite(t)
  BY <1>2, <1>3, <1>5, <1>6, <1>7, <1>8
     DEF Contract!Overwrite, Contract!Become, Contract!Put
<1> QED
  BY <1>1, <1>9 DEF Contract!HistoryNext

\* Saving a user restores statuses of several trades at once.
LEMMA SaveUserRestores ==
  ASSUME TypeOK, HistoryInv, CopiesInv, CoinsInv, NEW r \in Threads, SaveUser(r)
  PROVE  Contract!HistoryNext
<1>1. ASSUME NEW t \in Trades
      PROVE  /\ trade'[t].status \in seen[t]
             /\ trade'[t].status \in Contract!Statuses
  <2>1. trade'[t].status \in seen[t]
    BY SaveUserStatuses
  <2>2. seen[t] \subseteq Contract!Statuses
    BY DEF TypeOK, HistoryInv, Statuses, Contract!Statuses
  <2> QED
    BY <2>1, <2>2
<1>2. [t \in Trades |-> trade[t].status]' \in [Trades -> Contract!Statuses]
  BY <1>1
<1>3. [t \in Trades |-> MoneyOf(t)]' \in [Trades -> Contract!Money]
  BY DEF MoneyOf, Contract!Money
<1>4. seen' = seen
  <2>1. seen' = [t \in Trades |-> seen'[t]]
    BY DEF SaveUser
  <2> QED
    BY <2>1, SaveUserStatuses DEF TypeOK
<1>5. ASSUME NEW t \in Trades
      PROVE  Contract!CoinsFollow(t)
  <2>1. HoldAll(t, seen[t], escrow[t])
    BY DEF CoinsInv
  <2>2. HoldAll(t, seen[t], escrow'[t]) /\ DOMAIN escrow'[t] = DOMAIN escrow[t]
    BY SaveUserHolds
  <2> QED
    BY <1>4, <2>1, <2>2, CoinsFollowed
<1>6. Contract!Restore
  BY <1>1, <1>2, <1>3, <1>4, <1>5 DEF Contract!Restore
<1> QED
  BY <1>6 DEF Contract!HistoryNext

LEMMA HistoryRefined ==
  TypeOK /\ HistoryInv /\ CopiesInv /\ CoinsInv /\ [Next]_vars
    => [Contract!HistoryNext]_(Contract!vars)
<1> SUFFICES ASSUME TypeOK, HistoryInv, CopiesInv, CoinsInv, [Next]_vars
             PROVE  Contract!HistoryNext \/ UNCHANGED Contract!vars
  OBVIOUS
<1>1. CASE Tick \/ UNCHANGED vars
  BY <1>1, StutterStep DEF Tick, vars, db
<1>2. ASSUME NEW r \in Threads,
             \/ \E u \in Users, t \in Trades, op \in Ops : Request(r, u, t, op)
             \/ \E a \in Ads, x \in Terms : EditRequest(r, a, x)
             \/ \E u \in Active : LoadUser(r, u)
      PROVE  UNCHANGED Contract!vars
  BY <1>2, StutterStep DEF Request, EditRequest, LoadUser, db
<1>3. ASSUME NEW r \in Threads, Step(r)
      PROVE  Contract!HistoryNext \/ UNCHANGED Contract!vars
  <2>1. CASE Save(r)
    BY <2>1, SaveOverwrites
  <2>2. CASE ReleaseSave(r) \/ EscrowSave(r)
    BY <2>2, CoinsNextStep, RowSaveMoves
  <2>3. CASE ~(Save(r) \/ ReleaseSave(r) \/ EscrowSave(r) \/ SaveUser(r))
    <3>1. UNCHANGED <<trade, escrow, seen>>
      BY <1>3, <2>3 DEF Step, SendPayment, BitcoinReceived, Cancel, UnEscrow, BitcoinReleased,
         ReleaseFind, Escrow, EscrowFind, AdSave, EditSave, Crash, db
    <3> QED
      BY <3>1, StutterStep
  <2>4. CASE SaveUser(r)
    BY <2>4, SaveUserRestores
  <2> QED
    BY <2>1, <2>2, <2>3, <2>4
<1> QED
  BY <1>1, <1>2, <1>3 DEF Next

LEMMA InitRefined == Init => Contract!Init
BY DEF Init, Contract!Init, MoneyOf, Paid, Locked

\* Whatever the interleaving and whoever asks, a status is only ever written that the
\* trade has had or that follows from one it has had, and until the trade was cancelled
\* its coins are locked before they are paid, are never given back, and are paid when
\* COMPLETED is written: TradeRequests implements the history specification of
\* EscrowContract.
THEOREM HistoryKept == Spec => KeepsHistory
BY InitType, TypeStep, InitHistory, HistoryNextStep, InitCopies, CopiesNextStep,
   InitCoins, CoinsNextStep,
   InitRefined, HistoryRefined, PTL DEF Spec, KeepsHistory, Contract!HistorySpec

---------------------------------------------------------------------------
(* A settled trade *)

\* What SettledForGood says of one trade and one step.
StaysSettled(t) ==
  /\ Settled(t)'
  /\ trade'[t].status = trade[t].status
  /\ Len(escrow'[t]) = Len(escrow[t])
  /\ \A i \in DOMAIN escrow[t] : escrow'[t][i].amount = escrow[t][i].amount
  /\ Credited(t) => Credited(t)'

\* A copy of trade t that a user brings back changes nothing.
HarmlessCopy(w, t) ==
  Saving(w) /\ t \in TradeList(w.user) =>
    CopyUpToDate(w, t) /\ (Credited(t) => w.rows[t][1].released)

\* One request moves on to w, and the trade keeps its status and its amounts.
LEMMA SettledStep ==
  ASSUME TypeOK, NEW t \in Trades, Settled(t), NEW r \in Threads, NEW w, Go(r, w),
         Working(w) /\ w.trade = t =>
           UpToDate(w) /\ (w.pc = "releaseSave" => w.hit \in DOMAIN escrow[t]),
         HarmlessCopy(w, t),
         trade'[t].status = trade[t].status,
         DOMAIN escrow'[t] = DOMAIN escrow[t],
         \A i \in DOMAIN escrow[t] : escrow'[t][i].amount = escrow[t][i].amount
  PROVE  Settled(t)'
<1>1. ASSUME NEW q \in Threads, Working(req'[q]), req'[q].trade = t
      PROVE  UpToDate(req[q])'
  <2>1. CASE q = r
    <3>1. req'[q] = w
      BY <2>1 DEF Go, TypeOK
    <3> QED
      BY <1>1, <3>1 DEF UpToDate
  <2>2. CASE q # r
    <3>1. req'[q] = req[q]
      BY <2>2 DEF Go, TypeOK
    <3>2. UpToDate(req[q]) /\ (req[q].pc = "releaseSave" => req[q].hit \in DOMAIN escrow[t])
      BY <1>1, <3>1, WorkingOK DEF Settled, On, Working, WorkOK
    <3> QED
      BY <1>1, <3>1, <3>2 DEF UpToDate
  <2> QED
    BY <2>1, <2>2
<1>2. ASSUME NEW q \in Threads, Saving(req'[q]), t \in TradeList(req'[q].user)
      PROVE  CopyUpToDate(req[q], t)'
  <2>1. CASE q = r
    <3>1. req'[q] = w
      BY <2>1 DEF Go, TypeOK
    <3>2. CopyUpToDate(w, t)
      BY <1>2, <3>1 DEF HarmlessCopy
    <3> QED
      BY <3>1, <3>2 DEF CopyUpToDate
  <2>2. CASE q # r
    <3>1. req'[q] = req[q]
      BY <2>2 DEF Go, TypeOK
    <3>2. CopyUpToDate(req[q], t)
      BY <1>2, <3>1 DEF Settled, Carries
    <3> QED
      BY <3>1, <3>2 DEF CopyUpToDate
  <2> QED
    BY <2>1, <2>2
<1>3. \A q \in Threads : On(q, t)' => UpToDate(req[q])'
  BY <1>1 DEF On, Working
<1>4. \A q \in Threads : Carries(q, t)' => CopyUpToDate(req[q], t)'
  BY <1>2 DEF Carries, Saving, TradeList
<1> QED
  BY <1>3, <1>4 DEF Settled

\* One request moves on to w, and the row that credits the buyer stays.
LEMMA CreditedStep ==
  ASSUME TypeOK, NEW t \in Trades, Credited(t), NEW r \in Threads, NEW w, Go(r, w),
         HarmlessCopy(w, t), Len(escrow'[t]) = Len(escrow[t]), escrow'[t][1].released
  PROVE  Credited(t)'
<1>1. ASSUME NEW q \in Threads, Saving(req'[q]), t \in TradeList(req'[q].user)
      PROVE  req'[q].rows[t][1].released
  <2>1. CASE q = r
    <3>1. req'[q] = w
      BY <2>1 DEF Go, TypeOK
    <3> QED
      BY <1>1, <3>1 DEF HarmlessCopy
  <2>2. CASE q # r
    <3>1. req'[q] = req[q]
      BY <2>2 DEF Go, TypeOK
    <3> QED
      BY <1>1, <3>1 DEF Credited, Carries
  <2> QED
    BY <2>1, <2>2
<1>2. \A q \in Threads : Carries(q, t)' => req'[q].rows[t][1].released
  BY <1>1 DEF Carries, Saving, TradeList
<1> QED
  BY <1>2 DEF Credited

LEMMA SettledLocal ==
  ASSUME TypeOK, NEW t \in Trades, Settled(t), NEW r \in Threads, NEW w, Go(r, w),
         Working(w) /\ w.trade = t =>
           UpToDate(w) /\ (w.pc = "releaseSave" => w.hit \in DOMAIN escrow[t]),
         HarmlessCopy(w, t),
         trade'[t] = trade[t], escrow'[t] = escrow[t]
  PROVE  StaysSettled(t)
<1>1. Settled(t)'
  BY SettledStep
<1>2. Credited(t) => Credited(t)'
  BY CreditedStep DEF Credited
<1> QED
  BY <1>1, <1>2 DEF StaysSettled

\* A request never turns to another trade.
LEMMA SameTrade ==
  ASSUME TypeOK, NEW r \in Threads, Step(r)
  PROVE  \E w : Go(r, w) /\ (Working(w) => Working(req[r]) /\ w.trade = req[r].trade)
<1> DEFINE w == req[r]
           Same(v) == Go(r, v) /\ (Working(v) => Working(w) /\ v.trade = w.trade)
<1>1. CASE Finish(r)
  BY <1>1, HistoryIdle DEF Finish
<1>2. ASSUME ~Finish(r)
      PROVE  WorkOK(w, escrow) /\ w.pc \in Pcs
  BY <1>2, WorkingOK DEF Step, SendPayment, BitcoinReceived, Cancel, UnEscrow, BitcoinReleased,
     ReleaseFind, ReleaseSave, Escrow, EscrowFind, EscrowSave, AdSave, Save, EditSave, SaveUser,
     Crash, Processing, At, Pcs
<1>3. ASSUME ~Finish(r), \E s, pc : Set(r, s, pc)
      PROVE  \E v : Same(v)
  <2>1. PICK s, pc : Set(r, s, pc)
    BY <1>3
  <2>2. Same([w EXCEPT !.copy.status = s, !.pc = pc])
    BY <1>2, <1>3, <2>1 DEF Set, WorkOK, Working
  <2> QED
    BY <2>2
<1>4. ASSUME ~Finish(r), MarkReleased(r, w)
      PROVE  \E v : Same(v)
  <2>1. PICK i \in DOMAIN w.rows : Go(r, [w EXCEPT !.rows[i].released = TRUE, !.pc = "save"])
    BY <1>4 DEF MarkReleased
  <2>2. Same([w EXCEPT !.rows[i].released = TRUE, !.pc = "save"])
    BY <1>2, <1>4, <2>1 DEF WorkOK, Working
  <2> QED
    BY <2>2
<1>5. ASSUME ~Finish(r), \E pc : Go(r, [w EXCEPT !.pc = pc])
      PROVE  \E v : Same(v)
  <2>1. PICK pc : Go(r, [w EXCEPT !.pc = pc])
    BY <1>5
  <2>2. Same([w EXCEPT !.pc = pc])
    BY <1>2, <1>5, <2>1 DEF WorkOK, Working
  <2> QED
    BY <2>2
<1>6. ASSUME ~Finish(r), \E i, pc : Go(r, [w EXCEPT !.hit = i, !.row = escrow[w.trade][i], !.pc = pc])
      PROVE  \E v : Same(v)
  <2>1. PICK i, pc : Go(r, [w EXCEPT !.hit = i, !.row = escrow[w.trade][i], !.pc = pc])
    BY <1>6
  <2>2. Same([w EXCEPT !.hit = i, !.row = escrow[w.trade][i], !.pc = pc])
    BY <1>2, <1>6, <2>1 DEF WorkOK, Working
  <2> QED
    BY <2>2
<1>7. ASSUME ~Finish(r), \E rows, pc : Go(r, [w EXCEPT !.rows = rows, !.pc = pc])
      PROVE  \E v : Same(v)
  <2>1. PICK rows, pc : Go(r, [w EXCEPT !.rows = rows, !.pc = pc])
    BY <1>7
  <2>2. Same([w EXCEPT !.rows = rows, !.pc = pc])
    BY <1>2, <1>7, <2>1 DEF WorkOK, Working
  <2> QED
    BY <2>2
<1>8. ASSUME ~Finish(r), Escrow(r)
      PROVE  \E v : Same(v)
  <2>1. PICK b \in BalanceRead(w.user) :
          Go(r, [w EXCEPT !.copy = [status |-> "BITCOIN_ESCROWED", escrowTime |-> now],
                          !.ad.hidden = @ \/ MinCoins[AdOf[w.trade]][w.ad.terms] > Left(w, b),
                          !.pc = "escrowFind"])
    BY <1>8 DEF Escrow
  <2>2. Same([w EXCEPT !.copy = [status |-> "BITCOIN_ESCROWED", escrowTime |-> now],
                       !.ad.hidden = @ \/ MinCoins[AdOf[w.trade]][w.ad.terms] > Left(w, b),
                       !.pc = "escrowFind"])
    BY <1>2, <1>8, <2>1 DEF WorkOK, Working
  <2> QED
    BY <2>2
<1>9. ASSUME ~Finish(r)
      PROVE  \/ \E s, pc : Set(r, s, pc)
             \/ MarkReleased(r, w)
             \/ \E pc : Go(r, [w EXCEPT !.pc = pc])
             \/ \E i, pc : Go(r, [w EXCEPT !.hit = i, !.row = escrow[w.trade][i], !.pc = pc])
             \/ \E rows, pc : Go(r, [w EXCEPT !.rows = rows, !.pc = pc])
             \/ Escrow(r)
  <2>1. CASE SendPayment(r) \/ BitcoinReceived(r) \/ Cancel(r) \/ BitcoinReleased(r)
    BY <1>9, <2>1 DEF SendPayment, BitcoinReceived, Cancel, BitcoinReleased
  <2>2. CASE UnEscrow(r)
    BY <1>9, <2>2 DEF UnEscrow
  <2>3. CASE ReleaseFind(r) \/ ReleaseSave(r)
    BY <1>9, <2>3 DEF ReleaseFind, ReleaseSave
  <2>4. CASE EscrowFind(r) \/ EscrowSave(r) \/ AdSave(r)
    BY <1>9, <2>4 DEF EscrowFind, EscrowSave, AdSave
  <2> QED
    BY <1>9, <2>1, <2>2, <2>3, <2>4 DEF Step, Save, EditSave, SaveUser, Crash
<1> QED
  BY <1>1, <1>3, <1>4, <1>5, <1>6, <1>7, <1>8, <1>9

\* A request on a settled trade has found it completed.
LEMMA FoundCompleted ==
  ASSUME TypeOK, HistoryInv, NEW t \in Trades, Settled(t), NEW r \in Threads, On(r, t)
  PROVE  /\ WorkOK(req[r], escrow) /\ UpToDate(req[r]) /\ req[r].trade = t
         /\ trade[t].status = "COMPLETED" /\ req[r].was = "COMPLETED"
         /\ req[r].copy.status = "COMPLETED"
         /\ req[r].pc \in {"process", "releaseFind", "releaseSave", "save"}
         /\ req[r].pc = "save" => \E i \in DOMAIN req[r].rows : req[r].rows[i].released
BY ProgressAt DEF Settled, On, Working, UpToDate, Progress, Pcs

LEMMA MarkReleasedSettled ==
  ASSUME TypeOK, NEW t \in Trades, NEW r \in Threads, NEW w,
         WorkOK(w, escrow), UpToDate(w), w.trade = t, MarkReleased(r, w)
  PROVE  \E v : Go(r, v) /\ ~Saving(v) /\ (Working(v) => UpToDate(v) /\ v.pc # "releaseSave")
<1> DEFINE v(i) == [w EXCEPT !.rows[i].released = TRUE, !.pc = "save"]
<1>1. CASE Finish(r)
  BY <1>1, HistoryIdle, IdleNotSaving DEF Finish
<1>2. ASSUME NEW i \in DOMAIN w.rows
      PROVE  UpToDate(v(i)) /\ v(i).pc = "save" /\ ~Saving(v(i))
  <2>1. /\ v(i).pc = "save" /\ v(i).was = w.was /\ v(i).trade = w.trade
        /\ DOMAIN v(i).rows = DOMAIN w.rows
        /\ \A j \in DOMAIN w.rows : v(i).rows[j].amount = w.rows[j].amount
    BY <1>2 DEF WorkOK, EscrowRow
  <2> QED
    BY <2>1 DEF UpToDate, Saving
<1>3. Finish(r) \/ \E i \in DOMAIN w.rows : Go(r, v(i))
  BY DEF MarkReleased
<1> QED
  BY <1>1, <1>2, <1>3

LEMMA SettledDecision ==
  ASSUME TypeOK, HistoryInv, NEW t \in Trades, Settled(t), NEW r \in Threads, On(r, t),
         \/ SendPayment(r) \/ BitcoinReceived(r) \/ Cancel(r) \/ BitcoinReleased(r)
         \/ Escrow(r) \/ Crash(r)
  PROVE  StaysSettled(t)
<1> DEFINE w == req[r]
           v == [w EXCEPT !.copy.status = "COMPLETED", !.pc = "releaseFind"]
<1>1. WorkOK(w, escrow) /\ UpToDate(w) /\ w.copy.status = "COMPLETED" /\ w.trade = t
  BY FoundCompleted
<1>2. Finish(r) \/ Go(r, v)
  BY <1>1 DEF SendPayment, BitcoinReceived, Cancel, BitcoinReleased, Escrow, Crash,
     SellerMayCancel, Set
<1>3. UNCHANGED <<trade, escrow>>
  BY DEF SendPayment, BitcoinReceived, Cancel, BitcoinReleased, Escrow, Crash, db
<1>4. UpToDate(v) /\ v.pc = "releaseFind" /\ ~Saving(v)
  <2>1. v.was = w.was /\ v.trade = w.trade /\ v.rows = w.rows /\ v.pc = "releaseFind"
    BY <1>1 DEF WorkOK
  <2> QED
    BY <1>1, <2>1 DEF UpToDate, Saving
<1> QED
  BY <1>2, <1>3, <1>4, HistoryIdle, IdleNotSaving, SettledLocal DEF Finish, HarmlessCopy

LEMMA SettledReleaseFind ==
  ASSUME TypeOK, HistoryInv, NEW t \in Trades, Settled(t), NEW r \in Threads, On(r, t),
         ReleaseFind(r)
  PROVE  StaysSettled(t)
<1> DEFINE w == req[r]
           v(i) == [w EXCEPT !.hit = i, !.row = escrow[w.trade][i], !.pc = "releaseSave"]
<1>1. WorkOK(w, escrow) /\ UpToDate(w) /\ w.trade = t
  BY FoundCompleted
<1>2. UNCHANGED <<trade, escrow>>
  BY DEF ReleaseFind, db
<1>3. CASE MarkReleased(r, w)
  BY <1>1, <1>2, <1>3, MarkReleasedSettled, SettledLocal DEF HarmlessCopy
<1>4. ASSUME NEW i \in Hits(w.trade), Go(r, v(i))
      PROVE  StaysSettled(t)
  <2>1. UpToDate(v(i)) /\ v(i).hit \in DOMAIN escrow[t] /\ v(i).pc = "releaseSave"
    BY <1>1, <1>4 DEF UpToDate, WorkOK, Hits
  <2> QED
    BY <1>2, <1>4, <2>1, SettledLocal DEF HarmlessCopy, Saving
<1> QED
  BY <1>3, <1>4 DEF ReleaseFind

LEMMA SettledReleaseSave ==
  ASSUME TypeOK, HistoryInv, NEW t \in Trades, Settled(t), NEW r \in Threads, On(r, t),
         ReleaseSave(r)
  PROVE  StaysSettled(t)
<1> DEFINE w == req[r]
           row == [w.row EXCEPT !.released = TRUE]
<1>1. /\ WorkOK(w, escrow) /\ UpToDate(w) /\ w.trade = t /\ w.pc = "releaseSave"
      /\ w.hit \in DOMAIN escrow[t]
  BY FoundCompleted DEF ReleaseSave, At, WorkOK
<1>2. PICK v : Go(r, v) /\ ~Saving(v) /\ (Working(v) => UpToDate(v) /\ v.pc # "releaseSave")
  BY <1>1, MarkReleasedSettled DEF ReleaseSave
<1>3. CASE UNCHANGED escrow
  BY <1>2, <1>3, SettledLocal DEF ReleaseSave, HarmlessCopy
<1>4. CASE escrow' = [escrow EXCEPT ![w.trade][w.hit] = row]
  <2>1. escrow'[t] = [escrow[t] EXCEPT ![w.hit] = row]
    BY <1>1, <1>4 DEF TypeOK
  <2>2. row.amount = escrow[t][w.hit].amount /\ row.released
    BY <1>1 DEF UpToDate, WorkOK, EscrowRow
  <2>3. /\ DOMAIN escrow'[t] = DOMAIN escrow[t]
        /\ Len(escrow'[t]) = Len(escrow[t])
        /\ \A i \in DOMAIN escrow[t] :
             /\ escrow'[t][i].amount = escrow[t][i].amount
             /\ escrow[t][i].released => escrow'[t][i].released
    <3>1. Len(escrow'[t]) = Len(escrow[t])
      BY <1>1, <2>1, RowOK, ExceptSeq DEF WorkOK, EscrowRow
    <3> QED
      BY <1>1, <2>1, <2>2, <3>1
  <2>4. Len(escrow[t]) = 1 => 1 \in DOMAIN escrow[t]
    BY RowOK
  <2>5. Settled(t)'
    BY <1>2, <2>3, SettledStep DEF ReleaseSave, HarmlessCopy
  <2>6. Credited(t) => escrow'[t][1].released
    BY <2>3, <2>4 DEF Credited
  <2>7. Credited(t) => Credited(t)'
    BY <1>2, <2>3, <2>6, CreditedStep DEF HarmlessCopy
  <2> QED
    BY <2>3, <2>5, <2>7 DEF StaysSettled, ReleaseSave
<1> QED
  BY <1>3, <1>4 DEF ReleaseSave

LEMMA SettledSave ==
  ASSUME TypeOK, HistoryInv, NEW t \in Trades, Settled(t), NEW r \in Threads, On(r, t),
         Save(r)
  PROVE  StaysSettled(t)
<1> DEFINE w == req[r]
<1>1. /\ WorkOK(w, escrow) /\ UpToDate(w) /\ w.trade = t
      /\ w.copy.status = trade[t].status
      /\ \E i \in DOMAIN w.rows : w.rows[i].released
  BY FoundCompleted DEF Save, At
<1>2. trade'[t].status = trade[t].status
  BY <1>1 DEF Save, TypeOK
<1>3. escrow'[t] = Overlay(w.rows, escrow[t])
  BY <1>1 DEF Save, TypeOK
<1>4. /\ DOMAIN escrow'[t] = DOMAIN escrow[t]
      /\ \A i \in DOMAIN escrow[t] : escrow'[t][i] = w.rows[i]
  BY <1>1, <1>3 DEF Overlay, UpToDate
<1>5. \A i \in DOMAIN escrow[t] : escrow'[t][i].amount = escrow[t][i].amount
  BY <1>1, <1>4 DEF UpToDate
<1>6. Len(escrow'[t]) = Len(escrow[t])
  <2>1. escrow'[t] \in Seq(EscrowRow)
    BY <1>1, <1>3, RowOK, OverlaySeq DEF WorkOK
  <2> QED
    BY <1>4, <2>1, RowOK, LenProperties
<1>7. Len(escrow[t]) = 1 => escrow'[t][1].released
  BY <1>1, <1>4, RowOK DEF UpToDate
<1>8. Settled(t)'
  BY <1>2, <1>4, <1>5, HistoryIdle, IdleNotSaving, SettledStep DEF Save, Finish, HarmlessCopy
<1>9. Credited(t) => Credited(t)'
  <2>1. Go(r, Idle) /\ HarmlessCopy(Idle, t)
    BY IdleNotSaving DEF Save, Finish, HarmlessCopy
  <2>2. Credited(t) => escrow'[t][1].released
    BY <1>7 DEF Credited
  <2> QED
    BY <1>6, <2>1, <2>2, CreditedStep
<1> QED
  BY <1>2, <1>5, <1>6, <1>8, <1>9 DEF StaysSettled

\* A user brings back a settled trade as it is.
LEMMA SettledSaveUser ==
  ASSUME TypeOK, NEW t \in Trades, Settled(t), NEW r \in Threads, SaveUser(r)
  PROVE  StaysSettled(t)
<1> DEFINE w == req[r]
<1>1. UserOK(w, escrow) /\ Saving(w)
  BY SavingOK DEF SaveUser, At, Saving
<1>2. /\ trade'[t] = IF t \in DOMAIN w.trades THEN w.trades[t] ELSE trade[t]
      /\ escrow'[t] = IF t \in DOMAIN w.rows THEN Overlay(w.rows[t], escrow[t]) ELSE escrow[t]
  BY DEF SaveUser, Overlay, TypeOK
<1>3. Go(r, Idle) /\ HarmlessCopy(Idle, t) /\ ~Working(Idle)
  BY IdleNotSaving, HistoryIdle DEF SaveUser, Finish, HarmlessCopy
<1>4. CASE t \in TradeList(w.user)
  <2>1. CopyUpToDate(w, t)
    BY <1>1, <1>4 DEF Settled, Carries
  <2>2. trade'[t].status = trade[t].status
    BY <1>1, <1>2, <1>4, <2>1 DEF UserOK, CopyUpToDate
  <2>3. escrow'[t] = Overlay(w.rows[t], escrow[t]) /\ DOMAIN w.rows[t] = DOMAIN escrow[t]
    BY <1>1, <1>2, <1>4, <2>1 DEF UserOK, CopyUpToDate
  <2>4. /\ DOMAIN escrow'[t] = DOMAIN escrow[t]
        /\ \A i \in DOMAIN escrow[t] : escrow'[t][i] = w.rows[t][i]
    BY <2>3 DEF Overlay
  <2>5. \A i \in DOMAIN escrow[t] : escrow'[t][i].amount = escrow[t][i].amount
    BY <2>1, <2>4 DEF CopyUpToDate
  <2>6. Len(escrow'[t]) = Len(escrow[t])
    BY SaveUserRows
  <2>7. Settled(t)'
    BY <1>3, <2>2, <2>4, <2>5, SettledStep
  <2>8. Credited(t) => Credited(t)'
    <3>1. Credited(t) => w.rows[t][1].released
      BY <1>1, <1>4 DEF Credited, Carries
    <3>2. Credited(t) => 1 \in DOMAIN escrow[t]
      BY RowOK DEF Credited
    <3>3. Credited(t) => escrow'[t][1].released
      BY <2>4, <3>1, <3>2
    <3> QED
      BY <1>3, <2>6, <3>3, CreditedStep
  <2> QED
    BY <2>2, <2>5, <2>6, <2>7, <2>8 DEF StaysSettled
<1>5. CASE t \notin TradeList(w.user)
  <2>1. trade'[t] = trade[t] /\ escrow'[t] = escrow[t]
    BY <1>1, <1>2, <1>5 DEF UserOK
  <2> QED
    BY <1>3, <2>1, SettledLocal
<1> QED
  BY <1>4, <1>5

\* A user is loaded with a settled trade as it is.
LEMMA SettledLoadUser ==
  ASSUME TypeOK, NEW t \in Trades, Settled(t), NEW r \in Threads, NEW u \in Users,
         LoadUser(r, u)
  PROVE  StaysSettled(t)
<1> DEFINE w == req'[r]
<1>1. Go(r, w) /\ Saving(w)
  BY DEF LoadUser, Go, TypeOK, Saving
<1>2. t \in TradeList(w.user) => w.trades[t] = trade[t] /\ w.rows[t] = escrow[t]
  BY JustLoaded
<1>3. HarmlessCopy(w, t)
  BY <1>2 DEF HarmlessCopy, CopyUpToDate, Credited
<1>4. UNCHANGED <<trade, escrow>>
  BY JustLoaded
<1> QED
  BY <1>1, <1>3, <1>4, SavingNotWorking, SettledLocal

LEMMA SettledNextStep ==
  ASSUME TypeOK, HistoryInv, [Next]_vars, NEW t \in Trades, Settled(t)
  PROVE  StaysSettled(t)
<1>1. CASE Tick \/ UNCHANGED vars
  BY <1>1 DEF Tick, vars, db, StaysSettled, Settled, On, Working, UpToDate,
     Carries, Saving, CopyUpToDate, Credited
<1>2. ASSUME NEW r \in Threads, NEW u \in Users, NEW s \in Trades, NEW op \in Ops,
             Request(r, u, s, op)
      PROVE  StaysSettled(t)
  <2>1. s = t => UpToDate(Load(u, s, op)) /\ Load(u, s, op).pc # "releaseSave"
    BY DEF UpToDate, Load
  <2>2. HarmlessCopy(Load(u, s, op), t)
    BY DEF HarmlessCopy, Load, Saving
  <2> QED
    BY <1>2, <2>1, <2>2, SettledLocal DEF Request, Load, db
<1>3. ASSUME NEW r \in Threads, NEW a \in Ads, NEW x \in Terms, EditRequest(r, a, x)
      PROVE  StaysSettled(t)
  <2> DEFINE w == [pc |-> "editSave", adId |-> a, ad |-> [ad[a] EXCEPT !.terms = x]]
  <2>1. ~Working(w) /\ HarmlessCopy(w, t)
    BY DEF Working, Pcs, HarmlessCopy, Saving
  <2> QED
    BY <1>3, <2>1, SettledLocal DEF EditRequest, db
<1>4. ASSUME NEW r \in Threads, Step(r), ~On(r, t), ~SaveUser(r)
      PROVE  StaysSettled(t)
  <2>1. PICK w : Go(r, w) /\ (Working(w) => Working(req[r]) /\ w.trade = req[r].trade)
    BY <1>4, SameTrade
  <2>2. ~(Working(w) /\ w.trade = t)
    BY <1>4, <2>1 DEF On
  <2>3. trade'[t] = trade[t] /\ escrow'[t] = escrow[t]
    <3>1. CASE ReleaseSave(r) \/ EscrowSave(r) \/ Save(r)
      <4>1. Working(req[r]) /\ req[r].trade \in Trades /\ req[r].trade # t
        BY <1>4, <3>1, WorkingOK DEF ReleaseSave, EscrowSave, Save, At, On, Working, Pcs, WorkOK
      <4> QED
        BY <3>1, <4>1 DEF ReleaseSave, EscrowSave, Save, TypeOK
    <3>2. CASE ~(ReleaseSave(r) \/ EscrowSave(r) \/ Save(r))
      BY <1>4, <3>2 DEF Step, SendPayment, BitcoinReceived, Cancel, UnEscrow, BitcoinReleased,
         ReleaseFind, Escrow, EscrowFind, AdSave, EditSave, Crash, db
    <3> QED
      BY <3>1, <3>2
  <2>4. ~Saving(w)
    BY <1>4, <2>1, StepNotLoading DEF Go, TypeOK
  <2> QED
    BY <2>1, <2>2, <2>3, <2>4, SettledLocal DEF HarmlessCopy
<1>5. ASSUME NEW r \in Threads, Step(r), On(r, t)
      PROVE  StaysSettled(t)
  <2>1. req[r].pc \in {"process", "releaseFind", "releaseSave", "save"}
    BY <1>5, FoundCompleted
  <2>2. \/ SendPayment(r) \/ BitcoinReceived(r) \/ Cancel(r) \/ BitcoinReleased(r)
        \/ Escrow(r) \/ Crash(r) \/ ReleaseFind(r) \/ ReleaseSave(r) \/ Save(r)
    BY <1>5, <2>1 DEF Step, UnEscrow, EscrowFind, EscrowSave, AdSave, EditSave, SaveUser, At
  <2> QED
    BY <1>5, <2>2, SettledDecision, SettledReleaseFind, SettledReleaseSave, SettledSave
<1>6. ASSUME NEW r \in Threads, NEW u \in Active, LoadUser(r, u)
      PROVE  StaysSettled(t)
  BY <1>6, EnvironmentAssumption, SettledLoadUser
<1> QED
  BY <1>1, <1>2, <1>3, <1>4, <1>5, <1>6, SettledSaveUser DEF Next

\* A settled trade stays as it is, whatever is asked for later:
\* its status does not change, no row is emptied or filled, and the credit of the buyer
\* is not taken back while the trade has one row.
THEOREM SettledCorrect == Spec => SettledForGood
<1>1. TypeOK /\ HistoryInv /\ [Next]_vars =>
        [\A t \in Trades :
           Settled(t) =>
             /\ Settled(t)'
             /\ trade'[t].status = trade[t].status
             /\ Len(escrow'[t]) = Len(escrow[t])
             /\ \A i \in DOMAIN escrow[t] : escrow'[t][i].amount = escrow[t][i].amount
             /\ Credited(t) => Credited(t)']_vars
  BY SettledNextStep DEF StaysSettled
<1> QED
  BY <1>1, InitType, TypeStep, InitHistory, HistoryNextStep, InitCopies, CopiesNextStep,
     PTL DEF Spec, SettledForGood

===========================================================================
