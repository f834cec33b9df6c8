--------------------------- MODULE Advertisements ---------------------------
(***************************************************************************)
(* Placing, editing, switching and deleting advertisements, and opening    *)
(* trades on them: AdvertisementController, TradeController.createTrade    *)
(* and the numbering of ServiceUtil.                                       *)
(*                                                                         *)
(* A request counts, numbers and saves in transactions of their own.  The  *)
(* numbers of a new row are one more than those of the row with the        *)
(* highest id, read before it is saved; the limit of live advertisements   *)
(* is compared before the row that was counted for is written; and every   *)
(* save writes the whole copy, its owner, its switch and its hidden flag   *)
(* included.  Nothing compares the owner of the advertisement with the     *)
(* user who edits or switches it, and what is counted are the live ones of *)
(* that user.  A user who is saved takes all his advertisements along.     *)
(***************************************************************************)
EXTENDS Integers, Sequences, FiniteSets

CONSTANTS
  Users,
  Threads,    \* the servlet threads: as many requests at a time
  MaxLive,    \* live advertisements a user may have (NEW_USER_ALLOWED_ADVERTISEMENT)
  FormNumbers,\* bound: the numbers in a form sent to createAdvertise
  MaxRequests \* bound: requests made in all

ASSUME LimitsAssumption ==
  /\ IsFiniteSet(Threads) /\ Threads # {}
  /\ MaxLive \in Nat
  /\ FormNumbers \subseteq Nat
  /\ MaxRequests \in Nat

VARIABLES
  ads,      \* advertisement_master by id: a deleted row keeps its place
  goneAds,  \* the ids deleted
  trades,   \* trade_master by id, what createTrade writes of it
  goneTrades,
  req,      \* what each thread is doing
  requests, \* how many have been made
  raced     \* history: the tables that got a row not numbered from the list as it was

tables == <<ads, goneAds, trades, goneTrades, raced>>
vars == <<tables, req, requests>>

AdRow == [owner : Users, live : BOOLEAN, hidden : BOOLEAN, num : Nat, seq : Nat]
TradeRow == [ad : Nat, num : Nat, seq : Nat]

Ads == DOMAIN ads \ goneAds
TradesOpen == DOMAIN trades \ goneTrades

LiveAds(u) == {i \in Ads : ads[i].owner = u /\ ads[i].live}

\* Mutant: the rows are counted.
NumberByCount(table, ids, n) == n = Cardinality(ids) + 1

\* n is the sequence number after that of the row with the highest id in ids.
NextNumber(table, ids, n) ==
  \/ ids = {} /\ n = 1
  \/ \E i \in ids : (\A j \in ids : j <= i) /\ n = table[i].seq + 1

\* Where that number is to be found.
Numbers(table, ids) == 1 .. Len(table) + 1 \union {table[i].seq + 1 : i \in ids}

---------------------------------------------------------------------------
(* Requests *)

Idle == [pc |-> "idle"]
At(r, pc) == req[r].pc = pc
Go(r, w) == req' = [req EXCEPT ![r] = w]
Finish(r) == Go(r, Idle)

\* A request begins.
Begin(r, w) ==
  /\ At(r, "idle")
  /\ requests < MaxRequests
  /\ requests' = requests + 1
  /\ Go(r, w)
  /\ UNCHANGED tables

\* A request of a user on advertisement id (0: a new one) with its copy.  known: the
\* lists of rows it read numbers from; room: it found fewer than MaxLive live; seen: the
\* live ones it found, with what it wrote since; was: the row it took its switch and
\* flag from.
Work(pc, u, id, row) ==
  [pc |-> pc, user |-> u, id |-> id, copy |-> row, was |-> row, known |-> {}, seen |-> {},
   room |-> FALSE, num |-> 0, seq |-> 0]

\* editAdvertise without an id: getNewAdvertisementId reads the last row.
NewAd(r, u, live) ==
  LET row(n) == [owner |-> u, live |-> live, hidden |-> FALSE, num |-> n, seq |-> 0] IN
  \E n \in Numbers(ads, Ads) :
    /\ NextNumber(ads, Ads, n)
    /\ Begin(r, [Work("sequence", u, 0, row(n)) EXCEPT !.known = {Ads}])

\* getLastAdvertisementSequenceId reads it again.
ReadSequence(r) ==
  /\ At(r, "sequence")
  /\ \E n \in Numbers(ads, Ads) :
       /\ NextNumber(ads, Ads, n)
       /\ Go(r, [req[r] EXCEPT !.copy.seq = n, !.known = @ \union {Ads}, !.pc = "count"])
  /\ UNCHANGED <<tables, requests>>

\* editAdvertise with an id, from a form opened at any time since the row was placed
\* (once the row is deleted nothing comes of it): the form carries the numbers and
\* the switch, not the hidden flag.  Whoever edits becomes the owner.
EditAd(r, u, i, live) ==
  /\ i \in Ads
  /\ Begin(r, [Work("count", u, i, [ads[i] EXCEPT !.owner = u, !.live = live, !.hidden = FALSE])
               EXCEPT !.was = ads[i]])

\* Mutant: the limit may be reached before a new row, not only approached.
HasRoomForOneMore(u) == Cardinality(LiveAds(u)) <= MaxLive

HasRoom(u) == Cardinality(LiveAds(u)) < MaxLive

\* The limit stops a new row; an edit goes on and keeps the flags of the row.
CountLive(r) ==
  LET w == req[r]
      room == HasRoom(w.user) IN
  /\ At(r, "count")
  /\ IF room
       THEN Go(r, [w EXCEPT !.room = TRUE, !.seen = LiveAds(w.user), !.pc = "save"])
       ELSE IF w.id # 0 THEN Go(r, [w EXCEPT !.pc = "keep"]) ELSE Finish(r)
  /\ UNCHANGED <<tables, requests>>

\* The row is looked up for its switch and hidden flag; without it the request fails.
KeepFlags(r) ==
  LET w == req[r]
      row == ads[w.id] IN
  /\ At(r, "keep")
  /\ IF w.id \in goneAds
       THEN Finish(r)
       ELSE Go(r, [w EXCEPT !.was = row, !.copy.live = row.live, !.copy.hidden = row.hidden,
                            !.seen = LiveAds(w.user), !.pc = "save"])
  /\ UNCHANGED <<tables, requests>>

\* Mutant: the copy does not learn the id of the row it became.
SaveAdAsNew(r) ==
  LET w == req[r] IN
  /\ At(r, "save")
  /\ ads' = IF w.id \in Ads THEN [ads EXCEPT ![w.id] = w.copy] ELSE Append(ads, w.copy)
  /\ Go(r, [w EXCEPT !.pc = "last"])
  /\ UNCHANGED <<goneAds, trades, goneTrades, raced, requests>>

\* The first save of editAdvertise.  A row that is gone makes it fail.
SaveAd(r) ==
  LET w == req[r]
      saw(i) == IF w.copy.live THEN w.seen \union {i} ELSE w.seen \ {i} IN
  /\ At(r, "save")
  /\ \/ /\ w.id = 0
        /\ ads' = Append(ads, w.copy)
        /\ raced' = IF w.known = {Ads} THEN raced ELSE raced \union {"ads"}
        /\ Go(r, [w EXCEPT !.id = Len(ads) + 1, !.known = {}, !.seen = saw(Len(ads) + 1),
                            !.pc = "last"])
     \/ /\ w.id \in Ads
        /\ ads' = [ads EXCEPT ![w.id] = w.copy]
        /\ Go(r, [w EXCEPT !.seen = saw(w.id), !.pc = "last"])
        /\ UNCHANGED raced
     \/ w.id \in goneAds /\ Finish(r) /\ UNCHANGED <<ads, raced>>
  /\ UNCHANGED <<goneAds, trades, goneTrades, requests>>

\* The last save of a request: editAdvertise writes its copy a second time,
\* toggleAdvertiseStatus the row it loaded.
SaveLast(r) ==
  LET w == req[r] IN
  /\ At(r, "last")
  /\ ads' = IF w.id \in Ads THEN [ads EXCEPT ![w.id] = w.copy] ELSE ads
  /\ Finish(r)
  /\ UNCHANGED <<goneAds, trades, goneTrades, raced, requests>>

\* toggleAdvertiseStatus loads the row, then counts.
Toggle(r, u, i) ==
  /\ i \in Ads
  /\ Begin(r, Work("toggle", u, i, ads[i]))

\* Mutant: the limit is not asked for.
FlipAnyway(r) ==
  /\ At(r, "toggle")
  /\ Go(r, [req[r] EXCEPT !.copy.live = ~@, !.pc = "last"])
  /\ UNCHANGED <<tables, requests>>

Flip(r) ==
  LET w == req[r]
      room == HasRoom(w.user) IN
  /\ At(r, "toggle")
  /\ IF room \/ w.copy.live
       THEN Go(r, [w EXCEPT !.copy.live = ~@, !.room = room, !.seen = LiveAds(w.user),
                            !.pc = "last"])
       ELSE Finish(r)
  /\ UNCHANGED <<tables, requests>>

\* createAdvertise, which no page of the application posts to any more: nothing is
\* counted, and the id and the numbers are those of the form.
CreateAd(r, u, i, live, n, m) ==
  /\ i \in Ads \union {0}
  /\ Begin(r, Work("create", u, i,
                    [owner |-> u, live |-> live, hidden |-> FALSE, num |-> n, seq |-> m]))

CreateSave(r) ==
  LET w == req[r] IN
  /\ At(r, "create")
  /\ IF w.id \in goneAds
       THEN UNCHANGED <<ads, raced>>
       ELSE /\ ads' = IF w.id = 0 THEN Append(ads, w.copy) ELSE [ads EXCEPT ![w.id] = w.copy]
            /\ raced' = raced \union {"ads"}
  /\ Finish(r)
  /\ UNCHANGED <<goneAds, trades, goneTrades, requests>>

\* A request that loads advertisements of a user, to write them back in one transaction.
Rewriting(u, ids, hide) ==
  [pc |-> "rewrite", user |-> u, was |-> [i \in ids |-> ads[i]],
   rows |-> [i \in ids |-> [ads[i] EXCEPT !.hidden = @ \/ hide]], seen |-> LiveAds(u)]

\* inlineAdvertiseEdit, and escrowing a trade, which may hide the advertisement.
Rewrite(r, i, hide) ==
  /\ i \in Ads
  /\ Begin(r, Rewriting(ads[i].owner, {i}, hide))

\* A message, or the report that the user is active, loads him with his advertisements.
LoadUser(r, u) == Begin(r, Rewriting(u, {i \in Ads : ads[i].owner = u}, FALSE))

\* All are written, or, when one of them is gone, none.
SaveRows(r) ==
  LET w == req[r] IN
  /\ At(r, "rewrite")
  /\ ads' = IF DOMAIN w.rows \subseteq Ads
              THEN [i \in DOMAIN ads |-> IF i \in DOMAIN w.rows THEN w.rows[i] ELSE ads[i]]
              ELSE ads
  /\ Finish(r)
  /\ UNCHANGED <<goneAds, trades, goneTrades, raced, requests>>

OpenOn(i) == {k \in TradesOpen : trades[k].ad = i}

\* deleteAdvertise cascades to the trades.  Those name users that the cascade tries to
\* delete too, so with trades it may as well be refused, which changes nothing.
DeleteAd(i) ==
  /\ i \in Ads
  /\ requests < MaxRequests
  /\ requests' = requests + 1
  /\ goneAds' = goneAds \union {i}
  /\ goneTrades' = goneTrades \union OpenOn(i)
  /\ UNCHANGED <<ads, trades, req, raced>>

---------------------------------------------------------------------------
(* createTrade *)

\* Verify.canTrade, on the advertisement as loaded.
OpenTrade(r, i) ==
  /\ i \in Ads /\ ads[i].live /\ ~ads[i].hidden
  /\ Begin(r, Work("tradeNumber", ads[i].owner, i, ads[i]))

\* getNewTradeId.
TradeNumber(r) ==
  /\ At(r, "tradeNumber")
  /\ \E n \in Numbers(trades, TradesOpen) :
       /\ NextNumber(trades, TradesOpen, n)
       /\ Go(r, [req[r] EXCEPT !.num = n, !.known = {TradesOpen}, !.pc = "tradeSequence"])
  /\ UNCHANGED <<tables, requests>>

\* getLastTradeSequenceId.
TradeSequence(r) ==
  /\ At(r, "tradeSequence")
  /\ \E n \in Numbers(trades, TradesOpen) :
       /\ NextNumber(trades, TradesOpen, n)
       /\ Go(r, [req[r] EXCEPT !.seq = n, !.known = @ \union {TradesOpen}, !.pc = "tradeSave"])
  /\ UNCHANGED <<tables, requests>>

\* The foreign key refuses a trade of an advertisement that is gone.
TradeSave(r) ==
  LET w == req[r] IN
  /\ At(r, "tradeSave")
  /\ IF w.id \in goneAds
       THEN UNCHANGED <<trades, raced>>
       ELSE /\ trades' = Append(trades, [ad |-> w.id, num |-> w.num, seq |-> w.seq])
            /\ raced' = IF w.known = {TradesOpen} THEN raced ELSE raced \union {"trades"}
  /\ Finish(r)
  /\ UNCHANGED <<ads, goneAds, goneTrades, requests>>

\* Validation, the balance, an exception or a restart: what is committed stays.
GiveUp(r) ==
  /\ ~At(r, "idle")
  /\ Finish(r)
  /\ UNCHANGED <<tables, requests>>

---------------------------------------------------------------------------

Init ==
  /\ ads = <<>>
  /\ goneAds = {}
  /\ trades = <<>>
  /\ goneTrades = {}
  /\ req = [r \in Threads |-> Idle]
  /\ requests = 0
  /\ raced = {}

Step(r) ==
  \/ ReadSequence(r) \/ CountLive(r) \/ KeepFlags(r) \/ SaveAd(r) \/ SaveLast(r)
  \/ Flip(r) \/ CreateSave(r) \/ SaveRows(r)
  \/ TradeNumber(r) \/ TradeSequence(r) \/ TradeSave(r)
  \/ GiveUp(r)

Next ==
  \/ \E i \in DOMAIN ads : DeleteAd(i)
  \/ \E r \in Threads :
       \/ \E u \in Users :
            \/ \E live \in BOOLEAN : NewAd(r, u, live)
            \/ \E i \in DOMAIN ads : Toggle(r, u, i) \/ \E live \in BOOLEAN : EditAd(r, u, i, live)
            \/ \E i \in DOMAIN ads \union {0}, live \in BOOLEAN, n, m \in FormNumbers :
                 CreateAd(r, u, i, live, n, m)
            \/ LoadUser(r, u)
       \/ \E i \in DOMAIN ads : OpenTrade(r, i) \/ \E hide \in BOOLEAN : Rewrite(r, i, hide)
       \/ Step(r)

Spec == Init /\ [][Next]_vars

=============================================================================
