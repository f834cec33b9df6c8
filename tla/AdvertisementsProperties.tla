---------------------- MODULE AdvertisementsProperties ----------------------
(***************************************************************************)
(* What is claimed of Advertisements: how far the limit of live            *)
(* advertisements may be exceeded, when numbers are apart, and who may     *)
(* switch on what its owner or an escrow switched off.                     *)
(***************************************************************************)
EXTENDS Advertisements

AdPcs == {"sequence", "count", "keep", "save", "last", "toggle", "create"}
TradePcs == {"tradeNumber", "tradeSequence", "tradeSave"}

WorkType ==
  [pc : AdPcs \union TradePcs, user : Users, id : Nat, copy : AdRow, was : AdRow,
   known : SUBSET SUBSET Nat, seen : SUBSET Nat, room : BOOLEAN, num : Nat, seq : Nat]

\* A request works on a row that has been placed, or on a new one that it has not
\* saved yet.
WorkOK(w, table) ==
  /\ w \in WorkType
  /\ w.id \in DOMAIN table \union {0}
  /\ w.id = 0 => w.pc \in {"sequence", "count", "save", "create"}
  /\ w.pc = "sequence" => w.id = 0

\* The rows to write back have the ids they were loaded with.
RewriteOK(w, table) ==
  /\ DOMAIN w = {"pc", "user", "was", "rows", "seen"}
  /\ w.pc = "rewrite"
  /\ w.user \in Users
  /\ DOMAIN w.rows \subseteq DOMAIN table
  /\ w.rows \in [DOMAIN w.rows -> AdRow]
  /\ w.was \in [DOMAIN w.rows -> AdRow]
  /\ w.seen \subseteq DOMAIN table

\* The types of the tables and of the requests.
TypeOK ==
  /\ ads \in Seq(AdRow)
  /\ trades \in Seq(TradeRow)
  /\ goneAds \subseteq DOMAIN ads
  /\ goneTrades \subseteq DOMAIN trades
  /\ DOMAIN req = Threads
  /\ \A r \in Threads : req[r] = Idle \/ WorkOK(req[r], ads) \/ RewriteOK(req[r], ads)
  /\ requests \in 0 .. MaxRequests
  /\ raced \subseteq {"ads", "trades"}

---------------------------------------------------------------------------
(* The limit *)

\* The step goes on with what thread r does.
Moves(r) == req'[r] # req[r]

\* What the request counted, or loaded, is no longer so.
OutOfDate(w) == w.seen # LiveAds(w.user)

\* A user gets a live advertisement more, and then has more than the limit, only from
\* createAdvertise, from a request on an advertisement of someone else, or from a
\* request whose count, or whose copies, are out of date: comparing before saving
\* goes wrong in no other way, neither by the two saves of an edit nor by those of a
\* user with all his advertisements.
LimitKept ==
  [][\A u \in Users :
       Cardinality(LiveAds(u)') > MaxLive /\ ~(LiveAds(u)' \subseteq LiveAds(u)) =>
         \E r \in Threads :
           /\ Moves(r)
           /\ \/ req[r].pc = "create"
              \/ req[r].pc \in {"save", "last"} /\ req[r].was.owner # req[r].user
              \/ req[r].pc \in {"save", "last", "rewrite"} /\ OutOfDate(req[r])]_vars

---------------------------------------------------------------------------
(* The numbers *)

InOrder(table, ids) ==
  /\ \A i \in ids : table[i].num = table[i].seq
  /\ \A i, j \in ids : i < j => table[i].seq < table[j].seq

\* Advertisements, and trades, have numbers of their own that grow with their ids and
\* whose two parts agree, unless a row was saved by createAdvertise, or one whose numbers
\* were read from a list that has changed since (and then even rows saved later, one at
\* a time, may repeat the numbers of others).
NumbersApart ==
  /\ "ads" \in raced \/ InOrder(ads, Ads)
  /\ "trades" \in raced \/ InOrder(trades, TradesOpen)

---------------------------------------------------------------------------
(* The switch and the hidden flag *)

Shows(i) ==
  \/ ~ads[i].live /\ ads'[i].live
  \/ ads[i].hidden /\ ~ads'[i].hidden

\* What the step makes row i show, the row it read showed.
Saw(row, i) ==
  /\ row.live \/ ads[i].live \/ ~ads'[i].live
  /\ ~row.hidden \/ ~ads[i].hidden \/ ads'[i].hidden

\* An advertisement that was switched off or hidden is only shown again by
\* createAdvertise, by a request that found room for its user, or by one that overlapped
\* the change: that took the flags from the row while they showed it.  Neither the second
\* save of an edit, nor an edit over the limit, nor an escrow, nor a user saved with his
\* advertisements, does so by itself.
ShownWithRoom ==
  [][\A i \in DOMAIN ads :
       Shows(i) =>
         \E r \in Threads :
           /\ Moves(r)
           /\ \/ req[r].pc = "create" /\ req[r].id = i
              \/ /\ req[r].pc \in {"save", "last"} /\ req[r].id = i
                 /\ req[r].room \/ Saw(req[r].was, i)
              \/ /\ req[r].pc = "rewrite" /\ i \in DOMAIN req[r].rows
                 /\ Saw(req[r].was[i], i)]_vars

---------------------------------------------------------------------------
(* What the proofs rest on *)

\* A copy keeps the numbers of its row, and so do rows to be written back.
Keeps(w, table) ==
  /\ w.pc \in AdPcs \ {"create"} /\ w.id # 0 =>
       w.copy.num = table[w.id].num /\ w.copy.seq = table[w.id].seq
  /\ w.pc = "rewrite" =>
       \A i \in DOMAIN w.rows : w.rows[i].num = table[i].num /\ w.rows[i].seq = table[i].seq

\* Numbers read from one list both follow the last row of that list.
NumberedAd(w, table) ==
  w.pc \in AdPcs \ {"create"} /\ w.id = 0 =>
    /\ w.known # {}
    /\ \A L \in w.known :
         /\ L \subseteq DOMAIN table
         /\ w.known = {L} =>
              /\ NextNumber(table, L, w.copy.num)
              /\ w.pc # "sequence" => NextNumber(table, L, w.copy.seq)

NumberedTrade(w, table) ==
  w.pc \in {"tradeSequence", "tradeSave"} =>
    /\ w.known # {}
    /\ \A L \in w.known :
         /\ L \subseteq DOMAIN table
         /\ w.known = {L} =>
              /\ NextNumber(table, L, w.num)
              /\ w.pc # "tradeSequence" => NextNumber(table, L, w.seq)

AdsInv == \A r \in Threads : Keeps(req[r], ads) /\ NumberedAd(req[r], ads)
TradesInv == \A r \in Threads : NumberedTrade(req[r], trades)

\* What a request on a row of its own user makes live, it saw live, or it found room.
SeenOf(w) ==
  /\ w.pc \in {"sequence", "count", "keep"} => w.copy.owner = w.user
  /\ w.pc = "toggle" => w.copy.owner = w.was.owner
  /\ w.pc \in {"save", "last"} /\ w.was.owner = w.user =>
       /\ w.copy.owner = w.user
       /\ w.copy.live => w.id \in w.seen \/ Cardinality(w.seen) < MaxLive
  /\ w.pc = "rewrite" =>
       \A i \in DOMAIN w.rows :
         w.rows[i].owner = w.user /\ (w.rows[i].live => i \in w.seen)

\* What a request writes without room, it saw.
SawOf(w) ==
  /\ w.pc \in {"save", "last"} /\ ~w.room =>
       /\ w.copy.live => w.was.live
       /\ w.was.hidden => w.copy.hidden
  /\ w.pc = "toggle" => w.copy = w.was
  /\ w.pc = "rewrite" =>
       \A i \in DOMAIN w.rows :
         /\ w.rows[i].live => w.was[i].live
         /\ w.was[i].hidden => w.rows[i].hidden

SawInv == \A r \in Threads : SeenOf(req[r]) /\ SawOf(req[r])

=============================================================================
