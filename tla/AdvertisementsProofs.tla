------------------------ MODULE AdvertisementsProofs ------------------------
(***************************************************************************)
(* Theorems about Advertisements, for any users, threads, limit and number *)
(* of requests.                                                            *)
(***************************************************************************)
EXTENDS AdvertisementsProperties, SequenceTheorems, FiniteSetTheorems, TLAPS

---------------------------------------------------------------------------
(* What each step does to the request it moves *)

LEMMA Tables ==
  ASSUME TypeOK
  PROVE  /\ Len(ads) \in Nat /\ DOMAIN ads = 1 .. Len(ads)
         /\ \A i \in DOMAIN ads : i \in Nat /\ i # 0 /\ ads[i] \in AdRow
         /\ Len(trades) \in Nat /\ DOMAIN trades = 1 .. Len(trades)
         /\ \A k \in DOMAIN trades : k \in Nat /\ trades[k] \in TradeRow
         /\ goneAds \subseteq DOMAIN ads
<1>1. ads \in Seq(AdRow) /\ trades \in Seq(TradeRow)
  BY DEF TypeOK
<1> QED
  BY <1>1, ElementOfSeq, LenProperties DEF TypeOK

\* Numbers are read from the rows.
LEMMA NumbersAreNat ==
  ASSUME TypeOK
  PROVE  /\ \A n \in Numbers(ads, Ads) : n \in Nat
         /\ \A n \in Numbers(trades, TradesOpen) : n \in Nat
         /\ Ads \subseteq Nat /\ TradesOpen \subseteq Nat
BY Tables DEF Numbers, Ads, TradesOpen, AdRow, TradeRow

\* The other requests stay as they are.
Others(r) == DOMAIN req' = Threads /\ \A q \in Threads \ {r} : req'[q] = req[q]

LEMMA GoDoes ==
  ASSUME TypeOK, NEW r \in Threads, NEW w, Go(r, w)
  PROVE  Others(r) /\ req'[r] = w
BY DEF TypeOK, Go, Others

LEMMA BeginDoes ==
  ASSUME TypeOK, NEW r \in Threads, NEW w, Begin(r, w)
  PROVE  /\ Others(r) /\ req'[r] = w
         /\ UNCHANGED tables
         /\ requests' \in 0 .. MaxRequests
<1>1. requests' \in 0 .. MaxRequests
  BY LimitsAssumption DEF TypeOK, Begin
<1> QED
  BY <1>1, GoDoes DEF Begin

LEMMA WorkingType ==
  ASSUME TypeOK, NEW r \in Threads, NEW pc, pc \notin {"idle", "rewrite"}, At(r, pc)
  PROVE  /\ WorkOK(req[r], ads)
         /\ req[r] \in WorkType
         /\ req[r].pc = pc
         /\ requests \in 0 .. MaxRequests
BY DEF TypeOK, At, Idle, WorkOK, RewriteOK

LEMMA RewritingType ==
  ASSUME TypeOK, NEW r \in Threads, At(r, "rewrite")
  PROVE  RewriteOK(req[r], ads) /\ requests \in 0 .. MaxRequests
BY DEF TypeOK, At, Idle, WorkOK, WorkType, AdPcs, TradePcs

LEMMA NewWork ==
  ASSUME TypeOK, NEW pc \in AdPcs \union TradePcs, NEW u \in Users,
         NEW i \in DOMAIN ads \union {0}, NEW row \in AdRow,
         i = 0 => pc \in {"sequence", "count", "save", "create"},
         pc = "sequence" => i = 0
  PROVE  WorkOK(Work(pc, u, i, row), ads)
<1>1. i \in Nat
  BY Tables
<1> QED
  BY <1>1 DEF WorkOK, Work, WorkType

LEMMA NewAdDoes ==
  ASSUME TypeOK, NEW r \in Threads, NEW u \in Users, NEW live \in BOOLEAN, NewAd(r, u, live)
  PROVE  LET v == req'[r] IN
         /\ Others(r) /\ UNCHANGED tables /\ requests' \in 0 .. MaxRequests
         /\ WorkOK(v, ads) /\ v.pc = "sequence" /\ v.user = u /\ v.id = 0
         /\ v.copy.owner = u /\ v.known = {Ads}
         /\ NextNumber(ads, Ads, v.copy.num)
<1> DEFINE row(n) == [owner |-> u, live |-> live, hidden |-> FALSE, num |-> n, seq |-> 0]
           w(n) == [Work("sequence", u, 0, row(n)) EXCEPT !.known = {Ads}]
<1>1. PICK n \in Numbers(ads, Ads) : NextNumber(ads, Ads, n) /\ Begin(r, w(n))
  BY DEF NewAd
<1>2. n \in Nat /\ Ads \subseteq Nat
  BY NumbersAreNat
<1>3. row(n) \in AdRow
  BY <1>2 DEF AdRow
<1>4. WorkOK(w(n), ads)
  BY <1>2, <1>3 DEF WorkOK, Work, WorkType, AdPcs
<1>5. /\ w(n).pc = "sequence" /\ w(n).user = u /\ w(n).id = 0
      /\ w(n).copy.owner = u /\ w(n).copy.num = n /\ w(n).known = {Ads}
  BY DEF Work
<1> QED
  BY <1>1, <1>4, <1>5, BeginDoes

LEMMA SequenceDoes ==
  ASSUME TypeOK, NEW r \in Threads, ReadSequence(r)
  PROVE  LET w == req[r]
             v == req'[r] IN
         /\ Others(r)
         /\ WorkOK(w, ads) /\ w.pc = "sequence" /\ w.id = 0
         /\ WorkOK(v, ads) /\ v.pc = "count" /\ v.user = w.user /\ v.id = 0
         /\ v.copy.owner = w.copy.owner /\ v.copy.num = w.copy.num
         /\ v.known = w.known \union {Ads}
         /\ NextNumber(ads, Ads, v.copy.seq)
<1> DEFINE w == req[r]
           v(n) == [w EXCEPT !.copy.seq = n, !.known = @ \union {Ads}, !.pc = "count"]
<1>1. PICK n \in Numbers(ads, Ads) : NextNumber(ads, Ads, n) /\ Go(r, v(n))
  BY DEF ReadSequence
<1>2. n \in Nat /\ Ads \subseteq Nat
  BY NumbersAreNat
<1>3. WorkOK(w, ads) /\ w.pc = "sequence" /\ w.id = 0 /\ w \in WorkType
  BY WorkingType DEF ReadSequence, WorkOK
<1>4. /\ v(n).pc = "count" /\ v(n).user = w.user /\ v(n).id = 0
      /\ v(n).copy.owner = w.copy.owner /\ v(n).copy.num = w.copy.num
      /\ v(n).copy.seq = n /\ v(n).known = w.known \union {Ads}
  BY <1>3 DEF WorkType, AdRow
<1>5. v(n) \in WorkType
  <2>1. w.known \union {Ads} \in SUBSET SUBSET Nat
    BY <1>2, <1>3 DEF WorkType
  <2> QED
    BY <1>2, <1>3, <2>1 DEF WorkType, AdRow, AdPcs
<1>6. WorkOK(v(n), ads)
  BY <1>4, <1>5 DEF WorkOK
<1> QED
  BY <1>1, <1>3, <1>4, <1>6, GoDoes

LEMMA EditAdDoes ==
  ASSUME TypeOK, NEW r \in Threads, NEW u \in Users, NEW i \in DOMAIN ads,
         NEW live \in BOOLEAN, EditAd(r, u, i, live)
  PROVE  LET v == req'[r] IN
         /\ Others(r) /\ UNCHANGED tables /\ requests' \in 0 .. MaxRequests
         /\ WorkOK(v, ads) /\ v.pc = "count" /\ v.user = u /\ v.id = i
         /\ v.copy.owner = u /\ v.copy.num = ads[i].num /\ v.copy.seq = ads[i].seq
<1> DEFINE row == [ads[i] EXCEPT !.owner = u, !.live = live, !.hidden = FALSE]
           w == [Work("count", u, i, row) EXCEPT !.was = ads[i]]
<1>1. i \in Nat /\ i # 0 /\ ads[i] \in AdRow
  BY Tables
<1>2. /\ row \in AdRow /\ row.owner = u /\ row.num = ads[i].num /\ row.seq = ads[i].seq
  BY <1>1 DEF AdRow
<1> HIDE DEF row
<1>3. /\ WorkOK(w, ads)
      /\ w.pc = "count" /\ w.user = u /\ w.id = i /\ w.copy = row
  BY <1>1, <1>2 DEF WorkOK, Work, WorkType, AdPcs
<1>4. Begin(r, w)
  BY DEF EditAd, row
<1> QED
  BY <1>2, <1>3, <1>4, BeginDoes

\* Toggle, OpenTrade and createAdvertise begin with a copy.
LEMMA WorkDoes ==
  ASSUME TypeOK, NEW r \in Threads, NEW pc \in {"toggle", "tradeNumber", "create"},
         NEW u \in Users, NEW i \in DOMAIN ads \union {0}, NEW row \in AdRow,
         i = 0 => pc = "create", Begin(r, Work(pc, u, i, row))
  PROVE  LET v == req'[r] IN
         /\ Others(r) /\ UNCHANGED tables /\ requests' \in 0 .. MaxRequests
         /\ WorkOK(v, ads) /\ v.pc = pc /\ v.user = u /\ v.id = i
         /\ v.copy = row /\ v.was = row
<1>1. WorkOK(Work(pc, u, i, row), ads)
  BY NewWork DEF AdPcs, TradePcs
<1>2. /\ Work(pc, u, i, row).pc = pc /\ Work(pc, u, i, row).user = u
      /\ Work(pc, u, i, row).id = i /\ Work(pc, u, i, row).copy = row
      /\ Work(pc, u, i, row).was = row
  BY DEF Work
<1> QED
  BY <1>1, <1>2, BeginDoes

LEMMA ToggleDoes ==
  ASSUME TypeOK, NEW r \in Threads, NEW u \in Users, NEW i \in DOMAIN ads, Toggle(r, u, i)
  PROVE  LET v == req'[r] IN
         /\ Others(r) /\ UNCHANGED tables /\ requests' \in 0 .. MaxRequests
         /\ WorkOK(v, ads) /\ v.pc = "toggle" /\ v.user = u /\ v.id = i
         /\ v.copy = ads[i] /\ v.was = ads[i]
BY Tables, WorkDoes DEF Toggle

LEMMA OpenTradeDoes ==
  ASSUME TypeOK, NEW r \in Threads, NEW i \in DOMAIN ads, OpenTrade(r, i)
  PROVE  LET v == req'[r] IN
         /\ Others(r) /\ UNCHANGED tables /\ requests' \in 0 .. MaxRequests
         /\ WorkOK(v, ads) /\ v.pc = "tradeNumber"
<1>1. ads[i] \in AdRow /\ ads[i].owner \in Users /\ i # 0
  BY Tables DEF AdRow
<1> QED
  BY <1>1, WorkDoes DEF OpenTrade

LEMMA CreateAdDoes ==
  ASSUME TypeOK, NEW r \in Threads, NEW u \in Users, NEW i \in DOMAIN ads \union {0},
         NEW live \in BOOLEAN, NEW n \in FormNumbers, NEW m \in FormNumbers,
         CreateAd(r, u, i, live, n, m)
  PROVE  LET v == req'[r] IN
         /\ Others(r) /\ UNCHANGED tables /\ requests' \in 0 .. MaxRequests
         /\ WorkOK(v, ads) /\ v.pc = "create"
<1> DEFINE row == [owner |-> u, live |-> live, hidden |-> FALSE, num |-> n, seq |-> m]
<1>1. row \in AdRow
  BY LimitsAssumption DEF AdRow
<1>2. Begin(r, Work("create", u, i, row))
  BY DEF CreateAd
<1> QED
  BY <1>1, <1>2, WorkDoes

\* v has loaded its rows as they are, to write them back.
Loaded(v) ==
  /\ RewriteOK(v, ads)
  /\ \A i \in DOMAIN v.rows :
       /\ v.was[i] = ads[i]
       /\ v.rows[i].owner = v.user /\ v.rows[i].live = ads[i].live
       /\ ads[i].hidden => v.rows[i].hidden
       /\ v.rows[i].num = ads[i].num /\ v.rows[i].seq = ads[i].seq
       /\ v.rows[i].live => i \in v.seen

LEMMA RewritingDoes ==
  ASSUME TypeOK, NEW r \in Threads, NEW u \in Users, NEW ids \in SUBSET Ads, NEW hide \in BOOLEAN,
         \A i \in ids : ads[i].owner = u,
         Begin(r, Rewriting(u, ids, hide))
  PROVE  /\ Others(r) /\ UNCHANGED tables /\ requests' \in 0 .. MaxRequests
         /\ Loaded(req'[r])
<1> DEFINE row(i) == [ads[i] EXCEPT !.hidden = @ \/ hide]
           v == Rewriting(u, ids, hide)
<1>1. \A i \in ids :
        /\ i \in DOMAIN ads /\ ads[i] \in AdRow
        /\ row(i) \in AdRow /\ row(i).owner = u /\ row(i).live = ads[i].live
        /\ ads[i].hidden => row(i).hidden
        /\ row(i).num = ads[i].num /\ row(i).seq = ads[i].seq
  BY Tables DEF Ads, AdRow
<1>2. /\ DOMAIN v = {"pc", "user", "was", "rows", "seen"}
      /\ v.pc = "rewrite" /\ v.user = u /\ v.was = [i \in ids |-> ads[i]]
      /\ v.rows = [i \in ids |-> row(i)] /\ v.seen = LiveAds(u)
  BY DEF Rewriting
<1>3. /\ v.rows \in [ids -> AdRow] /\ v.was \in [ids -> AdRow] /\ DOMAIN v.rows = ids
      /\ \A i \in ids : v.rows[i] = row(i) /\ v.was[i] = ads[i]
  BY <1>1, <1>2
<1>4. RewriteOK(v, ads)
  BY <1>2, <1>3 DEF RewriteOK, LiveAds, Ads
<1>5. \A i \in ids : ads[i].live => i \in LiveAds(u)
  BY DEF LiveAds
<1> HIDE DEF v, row
<1>6. \A i \in ids :
        /\ v.was[i] = ads[i]
        /\ v.rows[i].owner = v.user /\ v.rows[i].live = ads[i].live
        /\ ads[i].hidden => v.rows[i].hidden
        /\ v.rows[i].num = ads[i].num /\ v.rows[i].seq = ads[i].seq
        /\ v.rows[i].live => i \in v.seen
  BY <1>1, <1>2, <1>3, <1>5
<1>7. Others(r) /\ UNCHANGED tables /\ requests' \in 0 .. MaxRequests /\ req'[r] = v
  BY BeginDoes DEF v
<1> QED
  BY <1>3, <1>4, <1>6, <1>7 DEF Loaded

LEMMA RewriteDoes ==
  ASSUME TypeOK, NEW r \in Threads,
         \/ \E i \in DOMAIN ads, hide \in BOOLEAN : Rewrite(r, i, hide)
         \/ \E u \in Users : LoadUser(r, u)
  PROVE  /\ Others(r) /\ UNCHANGED tables /\ requests' \in 0 .. MaxRequests
         /\ Loaded(req'[r])
<1>1. CASE \E i \in DOMAIN ads, hide \in BOOLEAN : Rewrite(r, i, hide)
  <2>1. PICK i \in DOMAIN ads, hide \in BOOLEAN : Rewrite(r, i, hide)
    BY <1>1
  <2>2. {i} \in SUBSET Ads /\ ads[i].owner \in Users /\ \A j \in {i} : ads[j].owner = ads[i].owner
    BY <2>1, Tables DEF Rewrite, AdRow
  <2> QED
    BY RewritingDoes, <2>1, <2>2 DEF Rewrite
<1>2. CASE \E u \in Users : LoadUser(r, u)
  <2>1. PICK u \in Users : LoadUser(r, u)
    BY <1>2
  <2> DEFINE ids == {i \in Ads : ads[i].owner = u}
  <2>2. ids \in SUBSET Ads /\ FALSE \in BOOLEAN /\ \A j \in ids : ads[j].owner = u
    OBVIOUS
  <2> QED
    BY RewritingDoes, <2>1, <2>2 DEF LoadUser
<1> QED
  BY <1>1, <1>2

LEMMA CountDoes ==
  ASSUME TypeOK, NEW r \in Threads, CountLive(r)
  PROVE  LET w == req[r]
             v == req'[r] IN
         /\ Others(r) /\ WorkOK(w, ads) /\ w.pc = "count"
         /\ \/ v = Idle
            \/ /\ WorkOK(v, ads) /\ v.user = w.user /\ v.id = w.id /\ v.copy = w.copy
               /\ v.known = w.known
               /\ \/ /\ v.pc = "save" /\ v.room
                     /\ v.seen = LiveAds(w.user) /\ HasRoom(w.user)
                  \/ v.pc = "keep" /\ v.id # 0
<1> DEFINE w == req[r]
           v == [w EXCEPT !.room = TRUE, !.seen = LiveAds(w.user), !.pc = "save"]
           x == [w EXCEPT !.pc = "keep"]
<1>1. WorkOK(w, ads) /\ w.pc = "count" /\ w \in WorkType
  BY WorkingType DEF CountLive
<1>2. LiveAds(w.user) \subseteq Nat
  BY NumbersAreNat DEF LiveAds
<1>3. /\ v \in WorkType /\ v.user = w.user /\ v.id = w.id /\ v.copy = w.copy
      /\ v.known = w.known /\ v.pc = "save" /\ v.room /\ v.seen = LiveAds(w.user)
  BY <1>1, <1>2 DEF WorkType, AdPcs
<1>4. /\ x \in WorkType /\ x.user = w.user /\ x.id = w.id /\ x.copy = w.copy
      /\ x.known = w.known /\ x.pc = "keep"
  BY <1>1 DEF WorkType, AdPcs
<1>5. \/ HasRoom(w.user) /\ Go(r, v)
      \/ w.id # 0 /\ Go(r, x)
      \/ Go(r, Idle)
  BY DEF CountLive, Finish
<1> HIDE DEF v, x
<1>6. WorkOK(v, ads) /\ (w.id # 0 => WorkOK(x, ads))
  BY <1>1, <1>3, <1>4 DEF WorkOK
<1> QED
  BY <1>1, <1>3, <1>4, <1>5, <1>6, GoDoes

LEMMA KeepFlagsDoes ==
  ASSUME TypeOK, NEW r \in Threads, KeepFlags(r)
  PROVE  LET w == req[r]
             v == req'[r] IN
         /\ Others(r) /\ WorkOK(w, ads) /\ w.pc = "keep"
         /\ \/ v = Idle
            \/ /\ WorkOK(v, ads) /\ v.pc = "save" /\ v.user = w.user /\ v.id = w.id
               /\ v.id \in Ads /\ v.was = ads[v.id] /\ v.seen = LiveAds(v.user)
               /\ v.copy.owner = w.copy.owner
               /\ v.copy.num = w.copy.num /\ v.copy.seq = w.copy.seq
               /\ v.copy.live = v.was.live /\ v.copy.hidden = v.was.hidden
<1> DEFINE w == req[r]
           v == [w EXCEPT !.was = ads[w.id], !.copy.live = ads[w.id].live,
                          !.copy.hidden = ads[w.id].hidden,
                          !.seen = LiveAds(w.user), !.pc = "save"]
<1>1. WorkOK(w, ads) /\ w.pc = "keep" /\ w \in WorkType
  BY WorkingType DEF KeepFlags
<1>2. w.id # 0 /\ w.id \in DOMAIN ads /\ ads[w.id] \in AdRow
  BY <1>1, Tables DEF WorkOK
<1>3. LiveAds(w.user) \subseteq Nat
  BY NumbersAreNat DEF LiveAds
<1>4. /\ v.user = w.user /\ v.id = w.id /\ v.was = ads[w.id] /\ v.pc = "save"
      /\ v.copy.owner = w.copy.owner /\ v.copy.num = w.copy.num /\ v.copy.seq = w.copy.seq
      /\ v.copy.live = ads[w.id].live /\ v.copy.hidden = ads[w.id].hidden
      /\ v.seen = LiveAds(w.user)
  BY <1>1 DEF WorkType, AdRow
<1>5. v \in WorkType
  BY <1>1, <1>2, <1>3 DEF WorkType, AdRow, AdPcs
<1>6. Go(r, Idle) \/ (w.id \notin goneAds /\ Go(r, v))
  BY DEF KeepFlags, Finish
<1> HIDE DEF v
<1>7. WorkOK(v, ads)
  BY <1>1, <1>2, <1>4, <1>5 DEF WorkOK
<1> QED
  BY <1>1, <1>2, <1>4, <1>6, <1>7, GoDoes DEF Ads

LEMMA FlipDoes ==
  ASSUME TypeOK, NEW r \in Threads, Flip(r)
  PROVE  LET w == req[r]
             v == req'[r] IN
         /\ Others(r) /\ WorkOK(w, ads) /\ w.pc = "toggle"
         /\ \/ v = Idle
            \/ /\ WorkOK(v, ads) /\ v.pc = "last" /\ v.user = w.user /\ v.id = w.id
               /\ v.was = w.was /\ v.seen = LiveAds(v.user) /\ (v.room <=> HasRoom(v.user))
               /\ v.copy.owner = w.copy.owner /\ v.copy.hidden = w.copy.hidden
               /\ v.copy.num = w.copy.num /\ v.copy.seq = w.copy.seq
               /\ (v.copy.live <=> ~w.copy.live) /\ (HasRoom(v.user) \/ w.copy.live)
<1> DEFINE w == req[r]
           v == [w EXCEPT !.copy.live = ~@, !.room = HasRoom(w.user),
                          !.seen = LiveAds(w.user), !.pc = "last"]
<1>1. WorkOK(w, ads) /\ w.pc = "toggle" /\ w \in WorkType
  BY WorkingType DEF Flip
<1>2. LiveAds(w.user) \subseteq Nat
  BY NumbersAreNat DEF LiveAds
<1>3. HasRoom(w.user) \in BOOLEAN
  BY DEF HasRoom
<1>4. /\ v.user = w.user /\ v.id = w.id /\ v.was = w.was /\ v.pc = "last"
      /\ v.copy.owner = w.copy.owner /\ v.copy.num = w.copy.num /\ v.copy.seq = w.copy.seq
      /\ v.copy.live = ~w.copy.live /\ v.copy.hidden = w.copy.hidden
      /\ v.seen = LiveAds(w.user) /\ v.room = HasRoom(w.user)
  BY <1>1 DEF WorkType, AdRow
<1>5. v \in WorkType
  BY <1>1, <1>2, <1>3 DEF WorkType, AdRow, AdPcs
<1>6. Go(r, Idle) \/ ((HasRoom(w.user) \/ w.copy.live) /\ Go(r, v))
  BY DEF Flip, Finish
<1> HIDE DEF v
<1>7. WorkOK(v, ads)
  BY <1>1, <1>4, <1>5 DEF WorkOK
<1> QED
  BY <1>1, <1>4, <1>6, <1>7, GoDoes

\* What a save makes of the table.
Inserted(row) ==
  /\ ads' \in Seq(AdRow)
  /\ DOMAIN ads' = DOMAIN ads \union {Len(ads) + 1}
  /\ ads'[Len(ads) + 1] = row
  /\ \A i \in DOMAIN ads : ads'[i] = ads[i]

Updated(id, row) ==
  /\ id \in Ads
  /\ ads' \in Seq(AdRow)
  /\ DOMAIN ads' = DOMAIN ads
  /\ ads'[id] = row
  /\ \A i \in DOMAIN ads : i # id => ads'[i] = ads[i]

LEMMA SaveDoes ==
  ASSUME TypeOK, NEW row \in AdRow
  PROVE  /\ ads' = Append(ads, row) => Inserted(row)
         /\ \A id \in Ads : ads' = [ads EXCEPT ![id] = row] => Updated(id, row)
<1>1. ads \in Seq(AdRow) /\ Len(ads) \in Nat /\ DOMAIN ads = 1 .. Len(ads)
  BY Tables DEF TypeOK
<1>2. ASSUME ads' = Append(ads, row)
      PROVE  Inserted(row)
  <2>1. /\ ads' \in Seq(AdRow) /\ DOMAIN ads' = 1 .. Len(ads) + 1
        /\ ads'[Len(ads) + 1] = row /\ \A i \in 1 .. Len(ads) : ads'[i] = ads[i]
    BY <1>1, <1>2, AppendProperties, LenProperties
  <2>2. 1 .. Len(ads) + 1 = 1 .. Len(ads) \union {Len(ads) + 1}
    BY <1>1
  <2> QED
    BY <1>1, <2>1, <2>2 DEF Inserted
<1>3. ASSUME NEW id \in Ads, ads' = [ads EXCEPT ![id] = row]
      PROVE  Updated(id, row)
  <2>1. id \in 1 .. Len(ads)
    BY <1>1 DEF Ads
  <2>2. ads' \in Seq(AdRow)
    BY <1>1, <1>3, <2>1, ExceptSeq
  <2> QED
    BY <1>1, <1>3, <2>1, <2>2 DEF Updated
<1> QED
  BY <1>2, <1>3

LEMMA SaveAdDoes ==
  ASSUME TypeOK, NEW r \in Threads, SaveAd(r)
  PROVE  LET w == req[r]
             v == req'[r] IN
         /\ Others(r) /\ WorkOK(w, ads) /\ w.pc = "save"
         /\ UNCHANGED <<goneAds, trades, goneTrades, requests>>
         /\ \/ v = Idle /\ UNCHANGED <<ads, raced>>
            \/ /\ v \in WorkType /\ v.pc = "last" /\ v.user = w.user /\ v.copy = w.copy
               /\ v.was = w.was /\ v.room = w.room /\ (w.copy.live => v.id \in v.seen)
               /\ \/ /\ w.id = 0 /\ v.id = Len(ads) + 1 /\ Inserted(w.copy)
                     /\ raced' = IF w.known = {Ads} THEN raced ELSE raced \union {"ads"}
                  \/ v.id = w.id /\ Updated(w.id, w.copy) /\ raced' = raced
<1> DEFINE w == req[r]
           saw(i) == IF w.copy.live THEN w.seen \union {i} ELSE w.seen \ {i}
           v == [w EXCEPT !.id = Len(ads) + 1, !.known = {}, !.seen = saw(Len(ads) + 1),
                          !.pc = "last"]
           x == [w EXCEPT !.seen = saw(w.id), !.pc = "last"]
<1>1. WorkOK(w, ads) /\ w.pc = "save" /\ w \in WorkType /\ w.copy \in AdRow /\ w.id \in Nat
  BY WorkingType DEF SaveAd, WorkType
<1>2. Len(ads) + 1 \in Nat /\ 0 \notin Ads /\ 0 \notin goneAds
  BY Tables DEF Ads
<1>3. \A i \in Nat : saw(i) \in SUBSET Nat /\ (w.copy.live => i \in saw(i))
  BY <1>1 DEF WorkType
<1> HIDE DEF saw
<1>4. /\ v \in WorkType /\ v.pc = "last" /\ v.user = w.user /\ v.copy = w.copy /\ v.was = w.was
      /\ v.room = w.room /\ v.id = Len(ads) + 1 /\ v.seen = saw(Len(ads) + 1)
  BY <1>1, <1>2, <1>3 DEF WorkType, AdPcs
<1>5. /\ x \in WorkType /\ x.pc = "last" /\ x.user = w.user /\ x.copy = w.copy /\ x.was = w.was
      /\ x.room = w.room /\ x.id = w.id /\ x.seen = saw(w.id)
  BY <1>1, <1>3 DEF WorkType, AdPcs
<1>6. /\ UNCHANGED <<goneAds, trades, goneTrades, requests>>
      /\ \/ /\ w.id = 0 /\ ads' = Append(ads, w.copy) /\ Go(r, v)
            /\ raced' = IF w.known = {Ads} THEN raced ELSE raced \union {"ads"}
         \/ w.id \in Ads /\ ads' = [ads EXCEPT ![w.id] = w.copy] /\ Go(r, x) /\ raced' = raced
         \/ Go(r, Idle) /\ UNCHANGED <<ads, raced>>
  BY DEF SaveAd, Finish, saw
<1> HIDE DEF v, x
<1> QED
  BY <1>1, <1>2, <1>3, <1>4, <1>5, <1>6, SaveDoes, GoDoes

LEMMA SaveLastDoes ==
  ASSUME TypeOK, NEW r \in Threads, SaveLast(r)
  PROVE  LET w == req[r] IN
         /\ Others(r) /\ WorkOK(w, ads) /\ w.pc = "last" /\ w.id # 0 /\ req'[r] = Idle
         /\ UNCHANGED <<goneAds, trades, goneTrades, requests, raced>>
         /\ ads' = ads \/ Updated(w.id, w.copy)
<1> DEFINE w == req[r]
<1>1. WorkOK(w, ads) /\ w.pc = "last" /\ w.id # 0 /\ w.copy \in AdRow
  BY WorkingType DEF SaveLast, WorkOK, WorkType
<1>2. /\ UNCHANGED <<goneAds, trades, goneTrades, requests, raced>> /\ Go(r, Idle)
      /\ ads' = ads \/ (w.id \in Ads /\ ads' = [ads EXCEPT ![w.id] = w.copy])
  BY DEF SaveLast, Finish
<1> QED
  BY <1>1, <1>2, SaveDoes, GoDoes

LEMMA CreateSaveDoes ==
  ASSUME TypeOK, NEW r \in Threads, CreateSave(r)
  PROVE  LET w == req[r] IN
         /\ Others(r) /\ WorkOK(w, ads) /\ w.pc = "create" /\ req'[r] = Idle
         /\ UNCHANGED <<goneAds, trades, goneTrades, requests>>
         /\ \/ UNCHANGED <<ads, raced>>
            \/ raced' = raced \union {"ads"} /\ (Inserted(w.copy) \/ Updated(w.id, w.copy))
<1> DEFINE w == req[r]
<1>1. WorkOK(w, ads) /\ w.pc = "create" /\ w.copy \in AdRow
  BY WorkingType DEF CreateSave, WorkOK, WorkType
<1>2. w.id # 0 /\ w.id \notin goneAds => w.id \in Ads
  BY <1>1 DEF WorkOK, Ads
<1>3. /\ UNCHANGED <<goneAds, trades, goneTrades, requests>> /\ Go(r, Idle)
      /\ \/ UNCHANGED <<ads, raced>>
         \/ /\ raced' = raced \union {"ads"} /\ w.id \notin goneAds
            /\ ads' = IF w.id = 0 THEN Append(ads, w.copy) ELSE [ads EXCEPT ![w.id] = w.copy]
  BY DEF CreateSave, Finish
<1> QED
  BY <1>1, <1>2, <1>3, SaveDoes, GoDoes

LEMMA SaveRowsDoes ==
  ASSUME TypeOK, NEW r \in Threads, SaveRows(r)
  PROVE  LET w == req[r] IN
         /\ Others(r) /\ RewriteOK(w, ads) /\ req'[r] = Idle
         /\ UNCHANGED <<goneAds, trades, goneTrades, requests, raced>>
         /\ ads' \in Seq(AdRow) /\ DOMAIN ads' = DOMAIN ads
         /\ \/ ads' = ads
            \/ \A i \in DOMAIN ads :
                 ads'[i] = IF i \in DOMAIN w.rows THEN w.rows[i] ELSE ads[i]
<1> DEFINE w == req[r]
           table == [i \in DOMAIN ads |-> IF i \in DOMAIN w.rows THEN w.rows[i] ELSE ads[i]]
<1>1. RewriteOK(w, ads)
  BY RewritingType DEF SaveRows
<1>2. /\ ads \in Seq(AdRow) /\ Len(ads) \in Nat /\ DOMAIN ads = 1 .. Len(ads)
      /\ \A i \in DOMAIN ads : ads[i] \in AdRow
  BY Tables DEF TypeOK
<1>3. table \in Seq(AdRow)
  <2>1. \A i \in DOMAIN w.rows : w.rows[i] \in AdRow
    BY <1>1 DEF RewriteOK
  <2>2. table \in [1 .. Len(ads) -> AdRow]
    BY <1>2, <2>1
  <2> QED
    BY <1>2, <2>2, SeqDef
<1>4. /\ UNCHANGED <<goneAds, trades, goneTrades, requests, raced>> /\ Go(r, Idle)
      /\ ads' = ads \/ ads' = table
  BY DEF SaveRows, Finish
<1> QED
  BY <1>1, <1>2, <1>3, <1>4, GoDoes

LEMMA TradeNumberDoes ==
  ASSUME TypeOK, NEW r \in Threads, TradeNumber(r)
  PROVE  LET v == req'[r] IN
         /\ Others(r) /\ WorkOK(v, ads) /\ v.pc = "tradeSequence" /\ v.known = {TradesOpen}
         /\ NextNumber(trades, TradesOpen, v.num)
<1> DEFINE w == req[r]
           v(n) == [w EXCEPT !.num = n, !.known = {TradesOpen}, !.pc = "tradeSequence"]
<1>1. PICK n \in Numbers(trades, TradesOpen) :
        NextNumber(trades, TradesOpen, n) /\ Go(r, v(n))
  BY DEF TradeNumber
<1>2. n \in Nat /\ TradesOpen \subseteq Nat
  BY NumbersAreNat
<1>3. WorkOK(w, ads) /\ w \in WorkType /\ w.id # 0
  BY WorkingType DEF TradeNumber, WorkOK
<1>4. /\ v(n) \in WorkType /\ v(n).pc = "tradeSequence" /\ v(n).id = w.id
      /\ v(n).known = {TradesOpen} /\ v(n).num = n
  BY <1>2, <1>3 DEF WorkType, TradePcs
<1>5. WorkOK(v(n), ads)
  BY <1>3, <1>4 DEF WorkOK
<1> QED
  BY <1>1, <1>4, <1>5, GoDoes

LEMMA TradeSequenceDoes ==
  ASSUME TypeOK, NEW r \in Threads, TradeSequence(r)
  PROVE  LET w == req[r]
             v == req'[r] IN
         /\ Others(r) /\ w.pc = "tradeSequence"
         /\ WorkOK(v, ads) /\ v.pc = "tradeSave" /\ v.num = w.num
         /\ v.known = w.known \union {TradesOpen}
         /\ NextNumber(trades, TradesOpen, v.seq)
<1> DEFINE w == req[r]
           v(n) == [w EXCEPT !.seq = n, !.known = @ \union {TradesOpen}, !.pc = "tradeSave"]
<1>1. PICK n \in Numbers(trades, TradesOpen) :
        NextNumber(trades, TradesOpen, n) /\ Go(r, v(n))
  BY DEF TradeSequence
<1>2. n \in Nat /\ TradesOpen \subseteq Nat
  BY NumbersAreNat
<1>3. WorkOK(w, ads) /\ w \in WorkType /\ w.id # 0 /\ w.pc = "tradeSequence"
  BY WorkingType DEF TradeSequence, WorkOK
<1>4. w.known \union {TradesOpen} \in SUBSET SUBSET Nat
  BY <1>2, <1>3 DEF WorkType
<1>5. /\ v(n) \in WorkType /\ v(n).pc = "tradeSave" /\ v(n).id = w.id
      /\ v(n).known = w.known \union {TradesOpen} /\ v(n).num = w.num /\ v(n).seq = n
  BY <1>2, <1>3, <1>4 DEF WorkType, TradePcs
<1>6. WorkOK(v(n), ads)
  BY <1>3, <1>5 DEF WorkOK
<1> QED
  BY <1>1, <1>3, <1>5, <1>6, GoDoes

LEMMA TradeSaveDoes ==
  ASSUME TypeOK, NEW r \in Threads, TradeSave(r)
  PROVE  LET w == req[r]
             row == [ad |-> w.id, num |-> w.num, seq |-> w.seq] IN
         /\ Others(r) /\ w.pc = "tradeSave" /\ req'[r] = Idle
         /\ UNCHANGED <<ads, goneAds, goneTrades, requests>>
         /\ trades' \in Seq(TradeRow)
         /\ \/ UNCHANGED <<trades, raced>>
            \/ /\ DOMAIN trades' = DOMAIN trades \union {Len(trades) + 1}
               /\ trades'[Len(trades) + 1] = row
               /\ \A k \in DOMAIN trades : trades'[k] = trades[k]
               /\ raced' = IF w.known = {TradesOpen} THEN raced ELSE raced \union {"trades"}
<1> DEFINE w == req[r]
           row == [ad |-> w.id, num |-> w.num, seq |-> w.seq]
<1>1. w \in WorkType /\ w.pc = "tradeSave"
  BY WorkingType DEF TradeSave
<1>2. row \in TradeRow
  BY <1>1 DEF WorkType, TradeRow
<1>3. trades \in Seq(TradeRow) /\ Len(trades) \in Nat /\ DOMAIN trades = 1 .. Len(trades)
  BY Tables DEF TypeOK
<1>4. /\ Append(trades, row) \in Seq(TradeRow)
      /\ DOMAIN Append(trades, row) = 1 .. Len(trades) + 1
      /\ Append(trades, row)[Len(trades) + 1] = row
      /\ \A k \in 1 .. Len(trades) : Append(trades, row)[k] = trades[k]
  BY <1>2, <1>3, AppendProperties, LenProperties
<1>5. 1 .. Len(trades) + 1 = 1 .. Len(trades) \union {Len(trades) + 1}
  BY <1>3
<1>6. /\ UNCHANGED <<ads, goneAds, goneTrades, requests>> /\ Go(r, Idle)
      /\ \/ UNCHANGED <<trades, raced>>
         \/ /\ trades' = Append(trades, row)
            /\ raced' = IF w.known = {TradesOpen} THEN raced ELSE raced \union {"trades"}
  BY DEF TradeSave, Finish
<1> HIDE DEF row
<1>7. Others(r) /\ req'[r] = Idle
  BY <1>6, GoDoes
<1> QED
  BY <1>1, <1>3, <1>4, <1>5, <1>6, <1>7 DEF row

---------------------------------------------------------------------------
(* Types *)

\* A step of thread r, when rows are only added.
LEMMA StepType ==
  ASSUME TypeOK, NEW r \in Threads, Others(r),
         req'[r] = Idle \/ WorkOK(req'[r], ads') \/ RewriteOK(req'[r], ads'),
         ads' \in Seq(AdRow), trades' \in Seq(TradeRow), DOMAIN ads \subseteq DOMAIN ads',
         goneAds' \subseteq DOMAIN ads', goneTrades' \subseteq DOMAIN trades',
         requests' \in 0 .. MaxRequests, raced' \subseteq {"ads", "trades"}
  PROVE  TypeOK'
<1>1. ASSUME NEW q \in Threads
      PROVE  req'[q] = Idle \/ WorkOK(req'[q], ads') \/ RewriteOK(req'[q], ads')
  <2>1. CASE q = r
    BY <2>1
  <2>2. CASE q # r
    <3>1. req'[q] = req[q]
      BY <2>2 DEF Others
    <3>2. WorkOK(req[q], ads) => WorkOK(req[q], ads')
      BY DEF WorkOK
    <3>3. RewriteOK(req[q], ads) => RewriteOK(req[q], ads')
      BY DEF RewriteOK
    <3> QED
      BY <3>1, <3>2, <3>3 DEF TypeOK
  <2> QED
    BY <2>1, <2>2
<1> QED
  BY <1>1 DEF TypeOK, Others

\* A step that writes no row.
LEMMA StayType ==
  ASSUME TypeOK, NEW r \in Threads, Others(r), UNCHANGED tables, requests' \in 0 .. MaxRequests,
         req'[r] = Idle \/ WorkOK(req'[r], ads) \/ RewriteOK(req'[r], ads)
  PROVE  TypeOK'
<1>1. /\ ads \in Seq(AdRow) /\ trades \in Seq(TradeRow)
      /\ goneAds \subseteq DOMAIN ads /\ goneTrades \subseteq DOMAIN trades
      /\ raced \subseteq {"ads", "trades"}
  BY DEF TypeOK
<1> QED
  BY <1>1, StepType DEF tables

\* The steps that begin a request.
Begins(r) ==
  \/ \E u \in Users :
       \/ \E live \in BOOLEAN : NewAd(r, u, live)
       \/ \E i \in DOMAIN ads, live \in BOOLEAN : EditAd(r, u, i, live)
       \/ \E i \in DOMAIN ads : Toggle(r, u, i)
       \/ \E i \in DOMAIN ads \union {0}, live \in BOOLEAN, n, m \in FormNumbers :
            CreateAd(r, u, i, live, n, m)
       \/ LoadUser(r, u)
  \/ \E i \in DOMAIN ads : OpenTrade(r, i) \/ \E hide \in BOOLEAN : Rewrite(r, i, hide)

\* The steps that write no row and go on.
Reads(r) ==
  \/ ReadSequence(r) \/ CountLive(r) \/ KeepFlags(r) \/ Flip(r)
  \/ TradeNumber(r) \/ TradeSequence(r) \/ GiveUp(r)

\* The steps that write rows.
Saves(r) == SaveAd(r) \/ SaveLast(r) \/ CreateSave(r) \/ SaveRows(r) \/ TradeSave(r)

LEMMA Steps ==
  ASSUME Next
  PROVE  \/ \E i \in DOMAIN ads : DeleteAd(i)
         \/ \E r \in Threads : Begins(r) \/ Reads(r) \/ Saves(r)
BY DEF Next, Step, Begins, Reads, Saves

\* Beginning and reading change no table.
LEMMA Quiet ==
  ASSUME NEW r \in Threads, Begins(r) \/ Reads(r)
  PROVE  UNCHANGED tables
BY DEF Begins, Reads, NewAd, EditAd, Toggle, CreateAd, LoadUser, OpenTrade, Rewrite, Begin,
   ReadSequence, CountLive, KeepFlags, Flip, TradeNumber, TradeSequence, GiveUp

LEMMA BeginsType ==
  ASSUME TypeOK, NEW r \in Threads, Begins(r)
  PROVE  TypeOK'
<1>1. ASSUME NEW u \in Users
      PROVE  /\ \A live \in BOOLEAN : NewAd(r, u, live) => TypeOK'
             /\ \A i \in DOMAIN ads : Toggle(r, u, i) => TypeOK'
             /\ \A i \in DOMAIN ads, live \in BOOLEAN : EditAd(r, u, i, live) => TypeOK'
  BY NewAdDoes, ToggleDoes, EditAdDoes, StayType
<1>2. ASSUME NEW u \in Users, NEW i \in DOMAIN ads \union {0}, NEW live \in BOOLEAN,
             NEW n \in FormNumbers, NEW m \in FormNumbers, CreateAd(r, u, i, live, n, m)
      PROVE  TypeOK'
  BY <1>2, CreateAdDoes, StayType
<1>3. \A i \in DOMAIN ads : OpenTrade(r, i) => TypeOK'
  BY OpenTradeDoes, StayType
<1>4. ASSUME \/ \E i \in DOMAIN ads, hide \in BOOLEAN : Rewrite(r, i, hide)
             \/ \E u \in Users : LoadUser(r, u)
      PROVE  TypeOK'
  BY <1>4, RewriteDoes, StayType DEF Loaded
<1> QED
  BY <1>1, <1>2, <1>3, <1>4 DEF Begins

LEMMA ReadsType ==
  ASSUME TypeOK, NEW r \in Threads, Reads(r)
  PROVE  TypeOK'
<1>1. UNCHANGED tables /\ requests' \in 0 .. MaxRequests
  BY Quiet DEF Reads, ReadSequence, CountLive, KeepFlags, Flip, TradeNumber, TradeSequence,
     GiveUp, TypeOK
<1>2. GiveUp(r) => Others(r) /\ req'[r] = Idle
  BY GoDoes DEF GiveUp, Finish
<1> QED
  BY <1>1, <1>2, SequenceDoes, CountDoes, KeepFlagsDoes, FlipDoes, TradeNumberDoes,
     TradeSequenceDoes, StayType DEF Reads

LEMMA SavesType ==
  ASSUME TypeOK, NEW r \in Threads, Saves(r)
  PROVE  TypeOK'
<1>1. /\ ads \in Seq(AdRow) /\ trades \in Seq(TradeRow) /\ Len(ads) + 1 \in Nat /\ Len(ads) + 1 # 0
      /\ goneAds \subseteq DOMAIN ads /\ goneTrades \subseteq DOMAIN trades
      /\ raced \subseteq {"ads", "trades"} /\ requests \in 0 .. MaxRequests
  BY Tables DEF TypeOK
<1>2. /\ \A row : Inserted(row) => ads' \in Seq(AdRow) /\ DOMAIN ads \subseteq DOMAIN ads'
                                  /\ Len(ads) + 1 \in DOMAIN ads'
      /\ \A i, row : Updated(i, row) => ads' \in Seq(AdRow) /\ DOMAIN ads' = DOMAIN ads
  BY DEF Inserted, Updated
<1>3. CASE SaveAd(r)
  <2> DEFINE w == req[r]
             v == req'[r]
  <2>1. /\ Others(r) /\ WorkOK(w, ads)
        /\ UNCHANGED <<goneAds, trades, goneTrades, requests>>
        /\ raced' \subseteq {"ads", "trades"}
    BY <1>1, <1>3, SaveAdDoes
  <2>2. CASE v = Idle /\ ads' = ads
    BY <1>1, <2>1, <2>2, StepType
  <2>3. CASE v \in WorkType /\ v.pc = "last" /\ w.id = 0 /\ v.id = Len(ads) + 1 /\ Inserted(w.copy)
    <3>1. WorkOK(v, ads')
      BY <1>1, <1>2, <2>3 DEF WorkOK
    <3> QED
      BY <1>1, <1>2, <2>1, <2>3, <3>1, StepType
  <2>4. CASE v \in WorkType /\ v.pc = "last" /\ v.id = w.id /\ Updated(w.id, w.copy)
    <3>1. v.id \in DOMAIN ads /\ v.id # 0
      BY <2>4, Tables DEF Updated, Ads
    <3>2. WorkOK(v, ads')
      BY <1>2, <2>4, <3>1 DEF WorkOK
    <3> QED
      BY <1>1, <1>2, <2>1, <2>4, <3>2, StepType
  <2> QED
    BY <1>3, <2>2, <2>3, <2>4, SaveAdDoes
<1>4. CASE SaveLast(r)
  BY <1>1, <1>2, <1>4, SaveLastDoes, StepType
<1>5. CASE CreateSave(r)
  BY <1>1, <1>2, <1>5, CreateSaveDoes, StepType
<1>6. CASE SaveRows(r)
  BY <1>1, <1>6, SaveRowsDoes, StepType
<1>7. CASE TradeSave(r)
  BY <1>1, <1>7, TradeSaveDoes, StepType
<1> QED
  BY <1>3, <1>4, <1>5, <1>6, <1>7 DEF Saves

LEMMA DeleteType ==
  ASSUME TypeOK, NEW i \in DOMAIN ads, DeleteAd(i)
  PROVE  TypeOK'
<1>1. /\ requests' \in 0 .. MaxRequests
      /\ goneAds' \subseteq DOMAIN ads
      /\ goneTrades' \subseteq DOMAIN trades
      /\ UNCHANGED <<ads, trades, req, raced>>
  BY LimitsAssumption DEF TypeOK, DeleteAd, OpenOn, TradesOpen
<1> QED
  BY <1>1 DEF TypeOK

\* TypeOK is preserved by every step.
LEMMA TypeStep ==
  ASSUME TypeOK, [Next]_vars
  PROVE  TypeOK'
<1>1. CASE Next
  BY <1>1, Steps, BeginsType, ReadsType, SavesType, DeleteType
<1>2. CASE UNCHANGED vars
  BY <1>2 DEF vars, tables, TypeOK, WorkOK, RewriteOK
<1> QED
  BY <1>1, <1>2

LEMMA TypeInit == Init => TypeOK
BY LimitsAssumption, EmptySeq DEF Init, TypeOK

\* The rows and the requests of Advertisements are well formed: a request only names
\* rows that were placed, and a new row only until it is saved.
THEOREM AdTypes == Spec => []TypeOK
BY TypeInit, TypeStep, PTL DEF Spec

---------------------------------------------------------------------------
(* What a request saw of the rows it writes *)

LEMMA SawGo ==
  ASSUME SawInv, NEW r \in Threads, Others(r), SeenOf(req'[r]), SawOf(req'[r])
  PROVE  SawInv'
<1>1. ASSUME NEW q \in Threads
      PROVE  SeenOf(req'[q]) /\ SawOf(req'[q])
  BY DEF SawInv, Others
<1> QED
  BY <1>1 DEF SawInv

LEMMA SawIdle == SeenOf(Idle) /\ SawOf(Idle)
BY DEF SeenOf, SawOf, Idle

LEMMA SawBegins ==
  ASSUME TypeOK, SawInv, NEW r \in Threads, Begins(r)
  PROVE  SawInv'
<1> DEFINE v == req'[r]
<1>1. ASSUME v.pc \in {"create", "tradeNumber"}
      PROVE  SeenOf(v) /\ SawOf(v)
  BY <1>1 DEF SeenOf, SawOf
<1>2. ASSUME v.pc \in {"sequence", "count"}, v.copy.owner = v.user
      PROVE  SeenOf(v) /\ SawOf(v)
  BY <1>2 DEF SeenOf, SawOf
<1>3. ASSUME v.pc = "toggle", v.copy = v.was
      PROVE  SeenOf(v) /\ SawOf(v)
  BY <1>3 DEF SeenOf, SawOf
<1>4. ASSUME Loaded(v)
      PROVE  SeenOf(v) /\ SawOf(v)
  BY <1>4 DEF SeenOf, SawOf, Loaded, RewriteOK
<1> HIDE DEF v
<1>5. ASSUME NEW u \in Users
      PROVE  /\ \A live \in BOOLEAN : NewAd(r, u, live) => SawInv'
             /\ \A i \in DOMAIN ads : Toggle(r, u, i) => SawInv'
             /\ \A i \in DOMAIN ads, live \in BOOLEAN : EditAd(r, u, i, live) => SawInv'
  BY <1>2, <1>3, NewAdDoes, ToggleDoes, EditAdDoes, SawGo DEF v
<1>6. ASSUME NEW u \in Users, NEW i \in DOMAIN ads \union {0}, NEW live \in BOOLEAN,
             NEW n \in FormNumbers, NEW m \in FormNumbers, CreateAd(r, u, i, live, n, m)
      PROVE  SawInv'
  BY <1>1, <1>6, CreateAdDoes, SawGo DEF v
<1>7. \A i \in DOMAIN ads : OpenTrade(r, i) => SawInv'
  BY <1>1, OpenTradeDoes, SawGo DEF v
<1>8. ASSUME \/ \E i \in DOMAIN ads, hide \in BOOLEAN : Rewrite(r, i, hide)
             \/ \E u \in Users : LoadUser(r, u)
      PROVE  SawInv'
  BY <1>4, <1>8, RewriteDoes, SawGo DEF v
<1> QED
  BY <1>5, <1>6, <1>7, <1>8 DEF Begins

LEMMA SawReads ==
  ASSUME TypeOK, SawInv, NEW r \in Threads, Reads(r)
  PROVE  SawInv'
<1> DEFINE w == req[r]
           v == req'[r]
<1>1. SeenOf(w) /\ SawOf(w)
  BY DEF SawInv
<1>2. CASE v = Idle /\ Others(r)
  BY <1>2, SawIdle, SawGo
<1>3. CASE GiveUp(r)
  BY <1>3, SawIdle, SawGo, GoDoes DEF GiveUp, Finish
<1>4. CASE ReadSequence(r)
  <2>1. Others(r) /\ w.pc = "sequence" /\ v.pc = "count" /\ v.user = w.user
        /\ v.copy.owner = w.copy.owner
    BY <1>4, SequenceDoes
  <2> QED
    BY <1>1, <2>1, SawGo DEF SeenOf, SawOf
<1>5. CASE CountLive(r) /\ v # Idle
  <2>1. /\ Others(r) /\ w.pc = "count" /\ v.user = w.user /\ v.copy = w.copy
        /\ \/ v.pc = "save" /\ v.room /\ v.seen = LiveAds(w.user) /\ HasRoom(w.user)
           \/ v.pc = "keep"
    BY <1>5, CountDoes
  <2>2. SeenOf(v) /\ SawOf(v)
    BY <1>1, <2>1 DEF SeenOf, SawOf, HasRoom
  <2> QED
    BY <2>1, <2>2, SawGo
<1>6. CASE KeepFlags(r) /\ v # Idle
  <2>1. /\ Others(r) /\ w.pc = "keep" /\ v.pc = "save" /\ v.user = w.user
        /\ v.id \in Ads /\ v.was = ads[v.id] /\ v.seen = LiveAds(v.user)
        /\ v.copy.owner = w.copy.owner
        /\ v.copy.live = v.was.live /\ v.copy.hidden = v.was.hidden
    BY <1>6, KeepFlagsDoes
  <2>2. v.was.owner = v.user /\ v.copy.live => v.id \in v.seen
    BY <2>1 DEF LiveAds
  <2>3. SeenOf(v) /\ SawOf(v)
    BY <1>1, <2>1, <2>2 DEF SeenOf, SawOf
  <2> QED
    BY <2>1, <2>3, SawGo
<1>7. CASE Flip(r) /\ v # Idle
  <2>1. /\ Others(r) /\ w.pc = "toggle" /\ v.pc = "last" /\ v.was = w.was
        /\ v.seen = LiveAds(v.user) /\ (v.room <=> HasRoom(v.user))
        /\ v.copy.owner = w.copy.owner /\ v.copy.hidden = w.copy.hidden
        /\ (v.copy.live <=> ~w.copy.live) /\ (HasRoom(v.user) \/ w.copy.live)
    BY <1>7, FlipDoes
  <2>2. SeenOf(v)
    BY <1>1, <2>1 DEF SeenOf, HasRoom
  <2>3. SawOf(v)
    BY <1>1, <2>1 DEF SawOf
  <2> QED
    BY <2>1, <2>2, <2>3, SawGo
<1>8. CASE TradeNumber(r) \/ TradeSequence(r)
  <2>1. Others(r) /\ v.pc \in {"tradeSequence", "tradeSave"}
    BY <1>8, TradeNumberDoes, TradeSequenceDoes
  <2> QED
    BY <2>1, SawGo DEF SeenOf, SawOf
<1> QED
  BY <1>2, <1>3, <1>4, <1>5, <1>6, <1>7, <1>8, CountDoes, KeepFlagsDoes, FlipDoes DEF Reads

LEMMA SawSaves ==
  ASSUME TypeOK, SawInv, NEW r \in Threads, Saves(r)
  PROVE  SawInv'
<1> DEFINE w == req[r]
           v == req'[r]
<1>1. CASE v = Idle /\ Others(r)
  BY <1>1, SawIdle, SawGo
<1>2. CASE SaveAd(r) /\ v # Idle
  <2>1. /\ Others(r) /\ w.pc = "save" /\ v.pc = "last" /\ v.user = w.user /\ v.copy = w.copy
        /\ v.was = w.was /\ v.room = w.room /\ (w.copy.live => v.id \in v.seen)
    BY <1>2, SaveAdDoes
  <2>2. SeenOf(w) /\ SawOf(w)
    BY DEF SawInv
  <2>3. SeenOf(v) /\ SawOf(v)
    BY <2>1, <2>2 DEF SeenOf, SawOf
  <2> QED
    BY <2>1, <2>3, SawGo
<1> QED
  BY <1>1, <1>2, SaveAdDoes, SaveLastDoes, CreateSaveDoes, SaveRowsDoes, TradeSaveDoes DEF Saves

LEMMA SawStep ==
  ASSUME TypeOK, SawInv, [Next]_vars
  PROVE  SawInv'
<1>1. \A i \in DOMAIN ads : DeleteAd(i) => SawInv'
  BY DEF DeleteAd, SawInv
<1>2. UNCHANGED vars => SawInv'
  BY DEF vars, SawInv
<1> QED
  BY <1>1, <1>2, Steps, SawBegins, SawReads, SawSaves

LEMMA SawInit == Init => SawInv
BY SawIdle DEF Init, SawInv

---------------------------------------------------------------------------
(* The steps that write advertisements *)

\* Rows are written back.
WritesBack(r) ==
  /\ req[r].pc = "rewrite"
  /\ DOMAIN ads' = DOMAIN ads
  /\ \A i \in DOMAIN ads :
       ads'[i] = IF i \in DOMAIN req[r].rows THEN req[r].rows[i] ELSE ads[i]

LEMMA SaveMoves ==
  ASSUME TypeOK, NEW r \in Threads, Saves(r)
  PROVE  /\ Moves(r)
         /\ Others(r) /\ UNCHANGED goneAds
         /\ req[r].pc = "create" => ads' = ads \/ "ads" \in raced'
         /\ \/ ads' = ads
            \/ /\ req[r].pc \in {"save", "last", "create"}
               /\ WorkOK(req[r], ads)
               /\ \/ Inserted(req[r].copy) /\ req[r].pc = "save" /\ req[r].id = 0
                  \/ Inserted(req[r].copy) /\ req[r].pc = "create"
                  \/ Updated(req[r].id, req[r].copy)
            \/ RewriteOK(req[r], ads) /\ WritesBack(r)
<1>1. \A pc : At(r, pc) /\ pc # "idle" => req[r] # Idle
  BY DEF At, Idle
<1>2. CASE SaveAd(r)
  <2>1. req'[r] = Idle \/ req'[r].pc = "last"
    BY <1>2, SaveAdDoes
  <2>2. Moves(r)
    BY <1>1, <1>2, <2>1 DEF Moves, SaveAd, At
  <2> QED
    BY <1>2, <2>2, SaveAdDoes
<1>3. CASE SaveLast(r)
  BY <1>1, <1>3, SaveLastDoes DEF Moves, SaveLast
<1>4. CASE CreateSave(r)
  BY <1>1, <1>4, CreateSaveDoes DEF Moves, CreateSave
<1>5. CASE SaveRows(r)
  BY <1>1, <1>5, SaveRowsDoes DEF Moves, SaveRows, WritesBack, RewriteOK
<1>6. CASE TradeSave(r)
  BY <1>1, <1>6, TradeSaveDoes DEF Moves, TradeSave
<1> QED
  BY <1>2, <1>3, <1>4, <1>5, <1>6 DEF Saves

\* No other step writes an advertisement, and none brings a deleted one back.
LEMMA OnlySavesWrite ==
  ASSUME [Next]_vars, \A r \in Threads : ~Saves(r)
  PROVE  ads' = ads /\ goneAds \subseteq goneAds'
<1>1. CASE Next
  BY <1>1, Steps, Quiet DEF DeleteAd, tables
<1> QED
  BY <1>1 DEF vars, tables

---------------------------------------------------------------------------
(* The limit *)

LEMMA LiveFinite ==
  ASSUME TypeOK, NEW u \in Users
  PROVE  IsFiniteSet(LiveAds(u)) /\ Cardinality(LiveAds(u)) \in Nat
<1>1. IsFiniteSet(DOMAIN ads)
  BY Tables, FS_Interval
<1>2. LiveAds(u) \subseteq DOMAIN ads
  BY DEF LiveAds, Ads
<1> QED
  BY <1>1, <1>2, FS_Subset, FS_CardinalityType

LEMMA LiveFiniteNext ==
  ASSUME NEW u \in Users
  PROVE  TypeOK' => (IsFiniteSet(LiveAds(u)) /\ Cardinality(LiveAds(u)) \in Nat)'
<1>1. TypeOK => IsFiniteSet(LiveAds(u)) /\ Cardinality(LiveAds(u)) \in Nat
  BY LiveFinite
<1> QED
  BY <1>1, PTL

\* A user gets one live advertisement more than he had, and had fewer than the limit.
LEMMA OneMore ==
  ASSUME TypeOK, NEW u \in Users, NEW i,
         LiveAds(u)' \subseteq LiveAds(u) \union {i}, Cardinality(LiveAds(u)) < MaxLive
  PROVE  Cardinality(LiveAds(u)') <= MaxLive
<1>1. IsFiniteSet(LiveAds(u))
  BY LiveFinite
<1>2. /\ IsFiniteSet(LiveAds(u) \union {i})
      /\ Cardinality(LiveAds(u) \union {i}) \in {Cardinality(LiveAds(u)), Cardinality(LiveAds(u)) + 1}
  BY <1>1, FS_AddElement
<1>3. /\ IsFiniteSet(LiveAds(u)')
      /\ Cardinality(LiveAds(u)') <= Cardinality(LiveAds(u) \union {i})
  BY <1>2, FS_Subset
<1>4. /\ Cardinality(LiveAds(u)) \in Nat /\ Cardinality(LiveAds(u)') \in Nat
  BY <1>1, <1>3, FS_CardinalityType
<1> QED
  BY <1>2, <1>3, <1>4, LimitsAssumption

\* A request on a row of its own user whose count, or copies, are up to date.
Current(w) ==
  /\ w.pc \in {"save", "last"} => w.was.owner = w.user
  /\ w.pc \in {"save", "last", "rewrite"} => ~OutOfDate(w)

LEMMA CurrentSave ==
  ASSUME TypeOK, SawInv, NEW u \in Users, NEW r \in Threads, Saves(r),
         req[r].pc # "create", Current(req[r])
  PROVE  Cardinality(LiveAds(u)') <= MaxLive \/ LiveAds(u)' \subseteq LiveAds(u)
<1> DEFINE w == req[r]
<1>1. SeenOf(w) /\ UNCHANGED goneAds
  BY SaveMoves DEF SawInv
<1>2. Len(ads) + 1 \notin DOMAIN ads /\ 0 \notin DOMAIN ads
  BY Tables
<1>3. CASE ads' = ads
  BY <1>1, <1>3 DEF LiveAds, Ads
<1>4. CASE RewriteOK(w, ads) /\ WritesBack(r)
  <2>1. w.pc = "rewrite" /\ w.seen = LiveAds(w.user)
    BY <1>4 DEF RewriteOK, Current, OutOfDate
  <2>2. \A i \in DOMAIN w.rows : w.rows[i].owner = w.user /\ (w.rows[i].live => i \in LiveAds(w.user))
    BY <1>1, <2>1 DEF SeenOf
  <2>3. ASSUME NEW i \in LiveAds(u)'
        PROVE  i \in LiveAds(u)
    <3>1. i \in Ads /\ ads'[i].owner = u /\ ads'[i].live
      BY <1>1, <1>4, <2>3 DEF LiveAds, Ads, WritesBack
    <3>2. CASE i \in DOMAIN w.rows
      <4>1. ads'[i] = w.rows[i]
        BY <1>4, <3>1, <3>2 DEF WritesBack, Ads
      <4> QED
        BY <2>2, <3>1, <3>2, <4>1
    <3>3. CASE i \notin DOMAIN w.rows
      <4>1. ads'[i] = ads[i]
        BY <1>4, <3>1, <3>3 DEF WritesBack, Ads
      <4> QED
        BY <3>1, <4>1 DEF LiveAds
    <3> QED
      BY <3>2, <3>3
  <2> QED
    BY <2>3
<1>5. CASE /\ w.pc \in {"save", "last"}
           /\ (w.id = 0 /\ Inserted(w.copy)) \/ Updated(w.id, w.copy)
  <2> DEFINE n == IF w.id = 0 THEN Len(ads) + 1 ELSE w.id
  <2>1. /\ w.seen = LiveAds(w.user) /\ w.copy.owner = w.user
        /\ w.copy.live => w.id \in LiveAds(w.user) \/ Cardinality(LiveAds(w.user)) < MaxLive
    BY <1>1, <1>5 DEF SeenOf, Current, OutOfDate
  <2>2. /\ DOMAIN ads' = DOMAIN ads \union {n} /\ ads'[n] = w.copy
        /\ \A i \in DOMAIN ads : i # n => ads'[i] = ads[i]
    BY <1>2, <1>5 DEF Inserted, Updated, Ads
  <2> HIDE DEF n
  <2>3. \A i \in LiveAds(u)' : i \in LiveAds(u) \/ (i = n /\ w.copy.owner = u /\ w.copy.live)
    BY <1>1, <2>2 DEF LiveAds, Ads
  <2>4. CASE ~(w.copy.owner = u /\ w.copy.live)
    BY <2>3, <2>4
  <2>5. CASE w.copy.owner = u /\ w.copy.live /\ Cardinality(LiveAds(u)) < MaxLive
    <3>1. LiveAds(u)' \subseteq LiveAds(u) \union {n}
      BY <2>3
    <3> QED
      BY <2>5, <3>1, OneMore
  <2>6. CASE w.copy.owner = u /\ w.copy.live /\ w.id \in LiveAds(u)
    <3>1. w.id # 0
      BY <1>2, <2>6 DEF LiveAds, Ads
    <3> QED
      BY <2>3, <2>6, <3>1 DEF n
  <2> QED
    BY <2>1, <2>4, <2>5, <2>6
<1> QED
  BY <1>3, <1>4, <1>5, SaveMoves

\* What a step may do to the limit.
LimitStep ==
  \A u \in Users :
    Cardinality(LiveAds(u)') > MaxLive /\ ~(LiveAds(u)' \subseteq LiveAds(u)) =>
      \E r \in Threads :
        /\ Moves(r)
        /\ \/ req[r].pc = "create"
           \/ req[r].pc \in {"save", "last"} /\ req[r].was.owner # req[r].user
           \/ req[r].pc \in {"save", "last", "rewrite"} /\ OutOfDate(req[r])

LEMMA StepKeepsLimit ==
  ASSUME TypeOK, TypeOK', SawInv, [Next]_vars
  PROVE  LimitStep
<1> SUFFICES ASSUME NEW u \in Users,
                    Cardinality(LiveAds(u)') > MaxLive, ~(LiveAds(u)' \subseteq LiveAds(u))
             PROVE  \E r \in Threads :
                      /\ Moves(r)
                      /\ \/ req[r].pc = "create"
                         \/ req[r].pc \in {"save", "last"} /\ req[r].was.owner # req[r].user
                         \/ req[r].pc \in {"save", "last", "rewrite"} /\ OutOfDate(req[r])
  BY DEF LimitStep
<1>1. \E r \in Threads : Saves(r)
  BY OnlySavesWrite DEF LiveAds, Ads
<1>2. PICK r \in Threads : Saves(r)
  BY <1>1
<1>3. ~(Cardinality(LiveAds(u)') <= MaxLive)
  <2>1. Cardinality(LiveAds(u)') \in Nat
    BY LiveFiniteNext
  <2> QED
    BY <2>1, LimitsAssumption
<1>4. req[r].pc = "create" \/ ~Current(req[r])
  BY <1>2, <1>3, CurrentSave
<1> QED
  BY <1>2, <1>4, SaveMoves DEF Current

\* LimitKept (a user passes the limit of live advertisements only by createAdvertise, by
\* requests on others' advertisements, or by requests that overlap) for any users,
\* threads, limit and number of requests.
THEOREM LimitIsKept == Spec => LimitKept
<1>1. TypeOK /\ SawInv /\ [Next]_vars => SawInv'
  BY SawStep
<1>2. TypeOK /\ TypeOK' /\ SawInv /\ [Next]_vars => LimitStep
  BY StepKeepsLimit
<1>3. LimitStep =>
        \A u \in Users :
          Cardinality(LiveAds(u)') > MaxLive /\ ~(LiveAds(u)' \subseteq LiveAds(u)) =>
            \E r \in Threads :
              /\ Moves(r)
              /\ \/ req[r].pc = "create"
                 \/ req[r].pc \in {"save", "last"} /\ req[r].was.owner # req[r].user
                 \/ req[r].pc \in {"save", "last", "rewrite"} /\ OutOfDate(req[r])
  BY DEF LimitStep
<1> QED
  BY <1>1, <1>2, <1>3, AdTypes, SawInit, PTL DEF Spec, LimitKept

---------------------------------------------------------------------------
(* The switch and the hidden flag *)

\* What a step of thread r may show.
ShowsRow(r, i) ==
  /\ Moves(r)
  /\ \/ req[r].pc = "create" /\ req[r].id = i
     \/ /\ req[r].pc \in {"save", "last"} /\ req[r].id = i
        /\ req[r].room \/ Saw(req[r].was, i)
     \/ /\ req[r].pc = "rewrite" /\ i \in DOMAIN req[r].rows
        /\ Saw(req[r].was[i], i)

LEMMA ShowsWithRoom ==
  ASSUME TypeOK, SawInv, [Next]_vars, NEW i \in DOMAIN ads, Shows(i)
  PROVE  \E r \in Threads : ShowsRow(r, i)
<1>1. ads'[i] # ads[i]
  BY DEF Shows
<1>2. PICK r \in Threads : Saves(r)
  BY <1>1, OnlySavesWrite
<1> DEFINE w == req[r]
<1>3. SawOf(w) /\ Moves(r)
  BY <1>2, SaveMoves DEF SawInv
<1>4. CASE w.pc \in {"save", "last", "create"} /\ (Inserted(w.copy) \/ Updated(w.id, w.copy))
  <2>1. i = w.id /\ ads'[i] = w.copy
    BY <1>1, <1>4 DEF Inserted, Updated
  <2>2. CASE w.pc = "create"
    BY <1>3, <2>1, <2>2 DEF ShowsRow
  <2>3. CASE w.pc \in {"save", "last"} /\ ~w.room
    <3>1. (w.copy.live => w.was.live) /\ (w.was.hidden => w.copy.hidden)
      BY <1>3, <2>3 DEF SawOf
    <3>2. Saw(w.was, i)
      BY <2>1, <3>1 DEF Saw
    <3> QED
      BY <1>3, <2>1, <2>3, <3>2 DEF ShowsRow
  <2> QED
    BY <1>3, <1>4, <2>1, <2>2, <2>3 DEF ShowsRow
<1>5. CASE RewriteOK(w, ads) /\ WritesBack(r)
  <2>1. w.pc = "rewrite" /\ i \in DOMAIN w.rows /\ ads'[i] = w.rows[i]
    BY <1>1, <1>5 DEF RewriteOK, WritesBack
  <2>2. (w.rows[i].live => w.was[i].live) /\ (w.was[i].hidden => w.rows[i].hidden)
    BY <1>3, <2>1 DEF SawOf
  <2>3. Saw(w.was[i], i)
    BY <2>1, <2>2 DEF Saw
  <2> QED
    BY <1>3, <2>1, <2>3 DEF ShowsRow
<1> QED
  BY <1>1, <1>2, <1>4, <1>5, SaveMoves

\* ShownWithRoom (an advertisement switched off or hidden is shown again by createAdvertise,
\* with room, or by a request that overlapped the change) for any users, threads and limit.
THEOREM ShownOnlyWithRoom == Spec => ShownWithRoom
<1>1. TypeOK /\ SawInv /\ [Next]_vars => SawInv'
  BY SawStep
<1>2. TypeOK /\ SawInv /\ [Next]_vars =>
        \A i \in DOMAIN ads :
          Shows(i) =>
            \E r \in Threads :
              /\ Moves(r)
              /\ \/ req[r].pc = "create" /\ req[r].id = i
                 \/ /\ req[r].pc \in {"save", "last"} /\ req[r].id = i
                    /\ req[r].room \/ Saw(req[r].was, i)
                 \/ /\ req[r].pc = "rewrite" /\ i \in DOMAIN req[r].rows
                    /\ Saw(req[r].was[i], i)
  BY ShowsWithRoom DEF ShowsRow
<1> QED
  BY <1>1, <1>2, AdTypes, SawInit, PTL DEF Spec, ShownWithRoom

---------------------------------------------------------------------------
(* The numbers *)

\* Two numbers read from one list are one.
LEMMA OneNext ==
  ASSUME NEW table, NEW L \in SUBSET Nat, NEW m, NEW n,
         NextNumber(table, L, m), NextNumber(table, L, n)
  PROVE  m = n
<1>1. CASE L = {}
  BY <1>1 DEF NextNumber
<1>2. CASE L # {}
  <2>1. PICK i \in L : (\A j \in L : j <= i) /\ m = table[i].seq + 1
    BY <1>2 DEF NextNumber
  <2>2. PICK k \in L : (\A j \in L : j <= k) /\ n = table[k].seq + 1
    BY <1>2 DEF NextNumber
  <2>3. i \in Nat /\ k \in Nat /\ i <= k /\ k <= i
    BY <2>1, <2>2
  <2>4. i = k
    BY <2>3
  <2> QED
    BY <2>1, <2>2, <2>4
<1> QED
  BY <1>1, <1>2

\* Rows keep their numbers.
RowsFixed ==
  /\ DOMAIN ads \subseteq DOMAIN ads'
  /\ \A i \in DOMAIN ads : ads'[i].num = ads[i].num /\ ads'[i].seq = ads[i].seq

TradesFixed ==
  /\ DOMAIN trades \subseteq DOMAIN trades'
  /\ \A k \in DOMAIN trades : trades'[k] = trades[k]

\* A table that has a row not numbered from its list keeps having one.
LEMMA RacedGrows ==
  ASSUME TypeOK, [Next]_vars
  PROVE  raced \subseteq raced'
<1>1. ASSUME NEW r \in Threads, Saves(r)
      PROVE  raced \subseteq raced'
  BY <1>1, SaveAdDoes, SaveLastDoes, CreateSaveDoes, SaveRowsDoes, TradeSaveDoes DEF Saves
<1>2. CASE Next
  BY <1>1, <1>2, Steps, Quiet DEF DeleteAd, tables
<1> QED
  BY <1>2 DEF vars, tables

LEMMA RowsFixedStep ==
  ASSUME TypeOK, AdsInv, [Next]_vars, "ads" \notin raced'
  PROVE  RowsFixed
<1>1. CASE ads' = ads
  BY <1>1 DEF RowsFixed
<1>2. ASSUME NEW r \in Threads, Saves(r), ads' # ads
      PROVE  RowsFixed
  <2> DEFINE w == req[r]
  <2>1. Keeps(w, ads) /\ w.pc # "create"
    BY <1>2, SaveMoves DEF AdsInv
  <2>2. CASE Inserted(w.copy)
    BY <2>2 DEF RowsFixed, Inserted
  <2>3. CASE w.pc \in {"save", "last"} /\ Updated(w.id, w.copy)
    <3>1. w.id # 0
      BY <2>3, Tables DEF Updated, Ads
    <3>2. w.copy.num = ads[w.id].num /\ w.copy.seq = ads[w.id].seq
      BY <2>1, <2>3, <3>1 DEF Keeps, AdPcs
    <3> QED
      BY <2>3, <3>2 DEF RowsFixed, Updated
  <2>4. CASE RewriteOK(w, ads) /\ WritesBack(r)
    BY <2>1, <2>4 DEF RowsFixed, WritesBack, Keeps
  <2> QED
    BY <1>2, <2>1, <2>2, <2>3, <2>4, SaveMoves
<1> QED
  BY <1>1, <1>2, OnlySavesWrite

LEMMA TradesFixedStep ==
  ASSUME TypeOK, [Next]_vars
  PROVE  TradesFixed
<1>1. CASE trades' = trades
  BY <1>1 DEF TradesFixed
<1>2. ASSUME NEW r \in Threads, TradeSave(r)
      PROVE  TradesFixed
  BY <1>1, <1>2, TradeSaveDoes DEF TradesFixed
<1>3. ASSUME NEW r \in Threads, Saves(r)
      PROVE  TradesFixed
  BY <1>1, <1>2, <1>3, SaveAdDoes, SaveLastDoes, CreateSaveDoes, SaveRowsDoes DEF Saves
<1>4. CASE Next
  BY <1>1, <1>3, <1>4, Steps, Quiet DEF DeleteAd, tables
<1> QED
  BY <1>1, <1>4 DEF vars, tables

\* What a request has copied or read stays true while rows keep their numbers.
LEMMA AdKept ==
  ASSUME RowsFixed, NEW w, WorkOK(w, ads) \/ RewriteOK(w, ads) \/ w = Idle,
         Keeps(w, ads), NumberedAd(w, ads)
  PROVE  Keeps(w, ads') /\ NumberedAd(w, ads')
<1>1. ASSUME NEW L \in SUBSET DOMAIN ads, NEW n, NextNumber(ads, L, n)
      PROVE  NextNumber(ads', L, n)
  BY <1>1 DEF NextNumber, RowsFixed
<1>2. NumberedAd(w, ads')
  BY <1>1 DEF NumberedAd, RowsFixed
<1>3. CASE w.pc \in AdPcs \ {"create"} /\ w.id # 0
  <2>1. w.id \in DOMAIN ads /\ w.pc # "rewrite"
    BY <1>3 DEF WorkOK, RewriteOK, Idle, AdPcs
  <2> QED
    BY <1>2, <1>3, <2>1 DEF Keeps, RowsFixed
<1>4. CASE w.pc = "rewrite"
  <2>1. DOMAIN w.rows \subseteq DOMAIN ads /\ w.pc \notin AdPcs
    BY <1>4 DEF WorkOK, WorkType, RewriteOK, Idle, AdPcs, TradePcs
  <2> QED
    BY <1>2, <1>4, <2>1 DEF Keeps, RowsFixed
<1>5. CASE ~(w.pc \in AdPcs \ {"create"} /\ w.id # 0) /\ w.pc # "rewrite"
  BY <1>2, <1>5 DEF Keeps
<1> QED
  BY <1>3, <1>4, <1>5

LEMMA AdsGo ==
  ASSUME TypeOK, AdsInv, RowsFixed, NEW r \in Threads, Others(r),
         Keeps(req'[r], ads'), NumberedAd(req'[r], ads')
  PROVE  AdsInv'
<1>1. ASSUME NEW q \in Threads, q # r
      PROVE  Keeps(req'[q], ads') /\ NumberedAd(req'[q], ads')
  <2>1. req'[q] = req[q] /\ Keeps(req[q], ads) /\ NumberedAd(req[q], ads)
    BY <1>1 DEF Others, AdsInv
  <2>2. WorkOK(req[q], ads) \/ RewriteOK(req[q], ads) \/ req[q] = Idle
    BY DEF TypeOK
  <2> QED
    BY <2>1, <2>2, AdKept
<1> QED
  BY <1>1 DEF AdsInv

LEMMA AdsIdle == \A table : Keeps(Idle, table) /\ NumberedAd(Idle, table)
BY DEF Keeps, NumberedAd, Idle, AdPcs

LEMMA AdsBegins ==
  ASSUME TypeOK, AdsInv, NEW r \in Threads, Begins(r)
  PROVE  AdsInv'
<1> DEFINE v == req'[r]
           Fine == Keeps(v, ads) /\ NumberedAd(v, ads)
<1>1. ads' = ads /\ RowsFixed
  BY Quiet DEF tables, RowsFixed
<1>2. Others(r) /\ Fine => AdsInv'
  BY <1>1, AdsGo
<1>3. v.pc \in {"create", "tradeNumber"} => Fine
  BY DEF Keeps, NumberedAd, AdPcs
<1>4. Loaded(v) => Fine
  BY DEF Keeps, NumberedAd, Loaded, RewriteOK, AdPcs
<1>5. v.pc = "sequence" /\ v.id = 0 /\ v.known = {Ads} /\ NextNumber(ads, Ads, v.copy.num) => Fine
  BY DEF Keeps, NumberedAd, Ads
<1>6. ASSUME NEW i \in DOMAIN ads, v.pc \in {"count", "toggle"}, v.id = i,
             v.copy.num = ads[i].num, v.copy.seq = ads[i].seq
      PROVE  Fine
  BY <1>6, Tables DEF Keeps, NumberedAd
<1> HIDE DEF Fine, v
<1>7. ASSUME NEW u \in Users
      PROVE  /\ \A live \in BOOLEAN : NewAd(r, u, live) => AdsInv'
             /\ \A i \in DOMAIN ads : Toggle(r, u, i) => AdsInv'
             /\ \A i \in DOMAIN ads, live \in BOOLEAN : EditAd(r, u, i, live) => AdsInv'
  BY <1>2, <1>5, <1>6, NewAdDoes, ToggleDoes, EditAdDoes DEF v
<1>8. ASSUME NEW u \in Users, NEW i \in DOMAIN ads \union {0}, NEW live \in BOOLEAN,
             NEW n \in FormNumbers, NEW m \in FormNumbers, CreateAd(r, u, i, live, n, m)
      PROVE  AdsInv'
  BY <1>2, <1>3, <1>8, CreateAdDoes DEF v
<1>9. \A i \in DOMAIN ads : OpenTrade(r, i) => AdsInv'
  BY <1>2, <1>3, OpenTradeDoes DEF v
<1>10. ASSUME \/ \E i \in DOMAIN ads, hide \in BOOLEAN : Rewrite(r, i, hide)
              \/ \E u \in Users : LoadUser(r, u)
       PROVE  AdsInv'
  BY <1>2, <1>4, <1>10, RewriteDoes DEF v
<1> QED
  BY <1>7, <1>8, <1>9, <1>10 DEF Begins

LEMMA AdsReads ==
  ASSUME TypeOK, AdsInv, NEW r \in Threads, Reads(r)
  PROVE  AdsInv'
<1> DEFINE w == req[r]
           v == req'[r]
           Fine == Keeps(v, ads) /\ NumberedAd(v, ads)
<1>1. ads' = ads /\ RowsFixed
  BY Quiet DEF tables, RowsFixed
<1>2. Others(r) /\ Fine => AdsInv'
  BY <1>1, AdsGo
<1>3. Keeps(w, ads) /\ NumberedAd(w, ads)
  BY DEF AdsInv
<1>4. CASE v = Idle /\ Others(r)
  BY <1>2, <1>4, AdsIdle
<1>5. CASE GiveUp(r)
  BY <1>4, <1>5, GoDoes DEF GiveUp, Finish
<1>6. CASE ReadSequence(r)
  <2>1. /\ Others(r) /\ w.pc = "sequence" /\ w.id = 0 /\ v.pc = "count" /\ v.id = 0
        /\ v.copy.num = w.copy.num /\ v.known = w.known \union {Ads}
        /\ NextNumber(ads, Ads, v.copy.seq)
    BY <1>6, SequenceDoes
  <2>2. w.known # {} /\ \A L \in w.known : L \subseteq DOMAIN ads
    BY <1>3, <2>1 DEF NumberedAd, AdPcs
  <2>3. ASSUME NEW L \in v.known, v.known = {L}
        PROVE  NextNumber(ads, L, v.copy.num) /\ NextNumber(ads, L, v.copy.seq)
    <3>1. L = Ads /\ w.known = {L}
      BY <2>1, <2>2, <2>3
    <3> QED
      BY <1>3, <2>1, <3>1 DEF NumberedAd, AdPcs
  <2>4. \A L \in v.known : L \subseteq DOMAIN ads
    BY <2>1, <2>2 DEF Ads
  <2>5. Fine
    BY <2>1, <2>3, <2>4 DEF Keeps, NumberedAd
  <2> QED
    BY <1>2, <2>1, <2>5
<1>7. CASE CountLive(r) /\ v # Idle
  <2>1. /\ Others(r) /\ w.pc = "count" /\ v.pc \in {"save", "keep"} /\ v.id = w.id
        /\ v.copy = w.copy /\ v.known = w.known
    BY <1>7, CountDoes
  <2>2. Fine
    BY <1>3, <2>1 DEF Keeps, NumberedAd, AdPcs
  <2> QED
    BY <1>2, <2>1, <2>2
<1>8. CASE KeepFlags(r) /\ v # Idle
  <2>1. /\ Others(r) /\ w.pc = "keep" /\ v.pc = "save" /\ v.id = w.id /\ v.id \in Ads
        /\ v.copy.num = w.copy.num /\ v.copy.seq = w.copy.seq
    BY <1>8, KeepFlagsDoes
  <2>2. v.id # 0
    BY <2>1, Tables DEF Ads
  <2>3. Fine
    BY <1>3, <2>1, <2>2 DEF Keeps, NumberedAd, AdPcs
  <2> QED
    BY <1>2, <2>1, <2>3
<1>9. CASE Flip(r) /\ v # Idle
  <2>1. /\ Others(r) /\ w.pc = "toggle" /\ w.id # 0 /\ v.pc = "last" /\ v.id = w.id
        /\ v.copy.num = w.copy.num /\ v.copy.seq = w.copy.seq
    BY <1>9, FlipDoes DEF WorkOK
  <2>2. Fine
    BY <1>3, <2>1 DEF Keeps, NumberedAd, AdPcs
  <2> QED
    BY <1>2, <2>1, <2>2
<1>10. CASE TradeNumber(r) \/ TradeSequence(r)
  <2>1. Others(r) /\ v.pc \in {"tradeSequence", "tradeSave"}
    BY <1>10, TradeNumberDoes, TradeSequenceDoes
  <2>2. Fine
    BY <2>1 DEF Keeps, NumberedAd, AdPcs
  <2> QED
    BY <1>2, <2>1, <2>2
<1> QED
  BY <1>4, <1>5, <1>6, <1>7, <1>8, <1>9, <1>10, CountDoes, KeepFlagsDoes, FlipDoes DEF Reads

LEMMA AdsSaves ==
  ASSUME TypeOK, AdsInv, RowsFixed, NEW r \in Threads, Saves(r)
  PROVE  AdsInv'
<1> DEFINE w == req[r]
           v == req'[r]
<1>1. CASE v = Idle /\ Others(r)
  BY <1>1, AdsIdle, AdsGo
<1>2. CASE SaveAd(r) /\ v # Idle
  <2>1. /\ Others(r) /\ v.pc = "last" /\ v.copy = w.copy
        /\ \/ v.id = Len(ads) + 1 /\ Inserted(w.copy)
           \/ v.id = w.id /\ Updated(w.id, w.copy)
    BY <1>2, SaveAdDoes
  <2>2. v.id # 0 /\ ads'[v.id] = v.copy
    BY <2>1, Tables DEF Inserted, Updated, Ads
  <2>3. Keeps(v, ads') /\ NumberedAd(v, ads')
    BY <2>1, <2>2 DEF Keeps, NumberedAd
  <2> QED
    BY <2>1, <2>3, AdsGo
<1> QED
  BY <1>1, <1>2, SaveAdDoes, SaveLastDoes, CreateSaveDoes, SaveRowsDoes, TradeSaveDoes DEF Saves

LEMMA AdsStep ==
  ASSUME TypeOK, AdsInv, [Next]_vars, "ads" \notin raced'
  PROVE  AdsInv'
<1>1. RowsFixed
  BY RowsFixedStep
<1>2. \A i \in DOMAIN ads : DeleteAd(i) => AdsInv'
  BY DEF DeleteAd, AdsInv
<1>3. UNCHANGED vars => AdsInv'
  BY DEF vars, tables, AdsInv
<1> QED
  BY <1>1, <1>2, <1>3, Steps, AdsBegins, AdsReads, AdsSaves

LEMMA TradesStep ==
  ASSUME TypeOK, TradesInv, [Next]_vars
  PROVE  TradesInv'
<1>1. TradesFixed
  BY TradesFixedStep
<1>2. ASSUME NEW L \in SUBSET DOMAIN trades, NEW n, NextNumber(trades, L, n)
      PROVE  NextNumber(trades', L, n)
  BY <1>1, <1>2 DEF NextNumber, TradesFixed
<1>3. \A w : NumberedTrade(w, trades) => NumberedTrade(w, trades')
  BY <1>1, <1>2 DEF NumberedTrade, TradesFixed
<1>4. ASSUME NEW r \in Threads, Others(r), NumberedTrade(req'[r], trades)
      PROVE  TradesInv'
  BY <1>3, <1>4 DEF TradesInv, Others
<1>5. ASSUME NEW r \in Threads, Others(r), req'[r].pc \notin {"tradeSequence", "tradeSave"}
      PROVE  TradesInv'
  BY <1>4, <1>5 DEF NumberedTrade
<1>6. Idle.pc \notin {"tradeSequence", "tradeSave"}
  BY DEF Idle
<1>7. \A i \in DOMAIN ads : DeleteAd(i) => TradesInv'
  BY <1>3 DEF DeleteAd, TradesInv
<1>8. UNCHANGED vars => TradesInv'
  BY DEF vars, tables, TradesInv
<1>9. ASSUME NEW r \in Threads, Begins(r)
      PROVE  TradesInv'
  <2>1. ASSUME NEW u \in Users
        PROVE  /\ \A live \in BOOLEAN : NewAd(r, u, live) => TradesInv'
               /\ \A i \in DOMAIN ads : Toggle(r, u, i) => TradesInv'
               /\ \A i \in DOMAIN ads, live \in BOOLEAN : EditAd(r, u, i, live) => TradesInv'
    BY <1>5, NewAdDoes, ToggleDoes, EditAdDoes
  <2>2. ASSUME NEW u \in Users, NEW i \in DOMAIN ads \union {0}, NEW live \in BOOLEAN,
               NEW n \in FormNumbers, NEW m \in FormNumbers, CreateAd(r, u, i, live, n, m)
        PROVE  TradesInv'
    BY <1>5, <2>2, CreateAdDoes
  <2>3. \A i \in DOMAIN ads : OpenTrade(r, i) => TradesInv'
    BY <1>5, OpenTradeDoes
  <2>4. ASSUME \/ \E i \in DOMAIN ads, hide \in BOOLEAN : Rewrite(r, i, hide)
               \/ \E u \in Users : LoadUser(r, u)
        PROVE  TradesInv'
    BY <1>5, <2>4, RewriteDoes DEF Loaded, RewriteOK
  <2> QED
    BY <1>9, <2>1, <2>2, <2>3, <2>4 DEF Begins
<1>10. ASSUME NEW r \in Threads, TradeNumber(r)
       PROVE  TradesInv'
  <2> DEFINE v == req'[r]
  <2>1. /\ Others(r) /\ v.pc = "tradeSequence" /\ v.known = {TradesOpen}
        /\ NextNumber(trades, TradesOpen, v.num)
    BY <1>10, TradeNumberDoes
  <2>2. NumberedTrade(v, trades)
    BY <2>1 DEF NumberedTrade, TradesOpen
  <2> QED
    BY <1>4, <2>1, <2>2
<1>11. ASSUME NEW r \in Threads, TradeSequence(r)
       PROVE  TradesInv'
  <2> DEFINE w == req[r]
             v == req'[r]
  <2>1. /\ Others(r) /\ w.pc = "tradeSequence" /\ v.pc = "tradeSave" /\ v.num = w.num
        /\ v.known = w.known \union {TradesOpen}
        /\ NextNumber(trades, TradesOpen, v.seq)
    BY <1>11, TradeSequenceDoes
  <2>2. w.known # {} /\ \A L \in w.known : L \subseteq DOMAIN trades
    BY <2>1 DEF TradesInv, NumberedTrade
  <2>3. ASSUME NEW L \in v.known, v.known = {L}
        PROVE  NextNumber(trades, L, v.num) /\ NextNumber(trades, L, v.seq)
    <3>1. L = TradesOpen /\ w.known = {L}
      BY <2>1, <2>2, <2>3
    <3> QED
      BY <2>1, <3>1 DEF TradesInv, NumberedTrade
  <2>4. NumberedTrade(v, trades)
    BY <2>1, <2>2, <2>3 DEF NumberedTrade, TradesOpen
  <2> QED
    BY <1>4, <2>1, <2>4
<1>12. ASSUME NEW r \in Threads, Reads(r)
       PROVE  TradesInv'
  <2>1. GiveUp(r) => Others(r) /\ req'[r] = Idle
    BY GoDoes DEF GiveUp, Finish
  <2> QED
    BY <1>5, <1>6, <1>10, <1>11, <1>12, <2>1, SequenceDoes, CountDoes, KeepFlagsDoes, FlipDoes
       DEF Reads
<1>13. ASSUME NEW r \in Threads, Saves(r)
       PROVE  TradesInv'
  BY <1>5, <1>6, <1>13, SaveAdDoes, SaveLastDoes, CreateSaveDoes, SaveRowsDoes, TradeSaveDoes
     DEF Saves
<1> QED
  BY <1>7, <1>8, <1>9, <1>12, <1>13, Steps

\* A row whose two numbers were read from the list it joins comes last in it.
LEMMA JoinsInOrder ==
  ASSUME NEW table, NEW table2, NEW ids \in SUBSET Nat, NEW new \in Nat, NEW L,
         \A i \in ids : i < new /\ table[i].seq \in Nat,
         \A i \in ids : table2[i] = table[i],
         InOrder(table, ids), L = ids,
         NextNumber(table, L, table2[new].num), NextNumber(table, L, table2[new].seq)
  PROVE  InOrder(table2, ids \union {new})
<1>1. table2[new].num = table2[new].seq
  BY OneNext
<1>2. \A i \in ids : table[i].seq < table2[new].seq
  <2>1. CASE ids = {}
    BY <2>1
  <2>2. CASE ids # {}
    <3>1. PICK k \in ids : (\A j \in ids : j <= k) /\ table2[new].seq = table[k].seq + 1
      BY <2>2 DEF NextNumber
    <3>2. ASSUME NEW i \in ids
          PROVE  table[i].seq <= table[k].seq
      <4>1. i = k \/ i < k
        <5>1. i \in Nat /\ k \in Nat /\ i <= k
          BY <3>1
        <5> QED
          BY <5>1
      <4>2. i < k => table[i].seq < table[k].seq
        BY DEF InOrder
      <4> QED
        BY <4>1, <4>2
    <3> QED
      BY <3>1, <3>2
  <2> QED
    BY <2>1, <2>2
<1>3. \A i \in ids : table2[i].num = table2[i].seq
  BY DEF InOrder
<1>4. ASSUME NEW i \in ids \union {new}, NEW j \in ids \union {new}, i < j
      PROVE  table2[i].seq < table2[j].seq
  <2>1. i \in ids
    BY <1>4
  <2>2. CASE j \in ids
    BY <1>4, <2>1, <2>2 DEF InOrder
  <2>3. CASE j = new
    BY <1>2, <2>1, <2>3
  <2> QED
    BY <2>2, <2>3
<1> QED
  BY <1>1, <1>3, <1>4 DEF InOrder

\* The first conjunct of NumbersApart, and the second.
AdsApart == "ads" \in raced \/ InOrder(ads, Ads)
TradesApart == "trades" \in raced \/ InOrder(trades, TradesOpen)

LEMMA AdsApartStep ==
  ASSUME TypeOK, "ads" \in raced \/ AdsInv, AdsApart, [Next]_vars
  PROVE  AdsApart'
<1>1. CASE "ads" \in raced'
  BY <1>1 DEF AdsApart
<1>2. CASE "ads" \notin raced'
  <2>1. AdsInv /\ InOrder(ads, Ads)
    BY <1>2, RacedGrows DEF AdsApart
  <2>2. RowsFixed
    BY <1>2, <2>1, RowsFixedStep
  <2>3. CASE DOMAIN ads' = DOMAIN ads /\ goneAds \subseteq goneAds'
    <3>1. Ads' \subseteq Ads /\ Ads \subseteq DOMAIN ads
      BY <2>3 DEF Ads
    <3> QED
      BY <2>1, <2>2, <3>1 DEF AdsApart, InOrder, RowsFixed
  <2>4. ASSUME NEW r \in Threads, Saves(r), Inserted(req[r].copy), ads' # ads
        PROVE  AdsApart'
    <3> DEFINE w == req[r]
               n == Len(ads) + 1
    <3>1. CASE SaveAd(r)
      <4>1. /\ w.pc = "save" /\ w.id = 0 /\ goneAds' = goneAds /\ WorkOK(w, ads)
            /\ raced' = IF w.known = {Ads} THEN raced ELSE raced \union {"ads"}
        <5>1. n \notin DOMAIN ads
          BY Tables
        <5>2. ~Updated(w.id, w.copy)
          BY <2>4, <5>1 DEF Inserted, Updated
        <5> QED
          BY <2>4, <3>1, <5>2, SaveAdDoes
      <4>2. w.known = {Ads}
        BY <1>2, <4>1
      <4>3. NextNumber(ads, Ads, w.copy.num) /\ NextNumber(ads, Ads, w.copy.seq)
        BY <2>1, <4>1, <4>2 DEF AdsInv, NumberedAd, AdPcs
      <4>4. /\ Ads' = Ads \union {n} /\ n \in Nat /\ Ads \in SUBSET Nat
            /\ \A i \in Ads : i < n /\ ads[i].seq \in Nat /\ ads'[i] = ads[i]
            /\ ads'[n] = w.copy
        BY <2>4, <4>1, Tables DEF Ads, Inserted, AdRow
      <4>5. InOrder(ads', Ads \union {n})
        BY <2>1, <4>3, <4>4, JoinsInOrder
      <4> QED
        BY <4>4, <4>5 DEF AdsApart
    <3>2. CASE CreateSave(r)
      BY <1>2, <2>4, <3>2, CreateSaveDoes
    <3>3. CASE SaveLast(r) \/ SaveRows(r) \/ TradeSave(r)
      <4>1. DOMAIN ads' = DOMAIN ads
        BY <3>3, SaveLastDoes, SaveRowsDoes, TradeSaveDoes DEF Updated
      <4> QED
        BY <2>4, <4>1, Tables DEF Inserted
    <3> QED
      BY <2>4, <3>1, <3>2, <3>3 DEF Saves
  <2>5. CASE \E r \in Threads : Saves(r)
    <3>1. PICK r \in Threads : Saves(r)
      BY <2>5
    <3>2. /\ UNCHANGED goneAds
          /\ \/ ads' = ads
             \/ Inserted(req[r].copy)
             \/ DOMAIN ads' = DOMAIN ads
      BY <3>1, SaveMoves DEF Updated, WritesBack
    <3> QED
      BY <2>3, <2>4, <3>1, <3>2
  <2> QED
    BY <2>3, <2>5, OnlySavesWrite
<1> QED
  BY <1>1, <1>2

LEMMA TradesApartStep ==
  ASSUME TypeOK, TradesInv, TradesApart, [Next]_vars
  PROVE  TradesApart'
<1>1. CASE "trades" \in raced'
  BY <1>1 DEF TradesApart
<1>2. CASE "trades" \notin raced'
  <2>1. InOrder(trades, TradesOpen)
    BY <1>2, RacedGrows DEF TradesApart
  <2>2. CASE trades' = trades /\ goneTrades \subseteq goneTrades'
    <3>1. TradesOpen' \subseteq TradesOpen
      BY <2>2 DEF TradesOpen
    <3>2. InOrder(trades, TradesOpen')
      BY <2>1, <3>1 DEF InOrder
    <3> QED
      BY <2>2, <3>2 DEF TradesApart
  <2>3. ASSUME NEW r \in Threads, TradeSave(r), trades' # trades
        PROVE  TradesApart'
    <3> DEFINE w == req[r]
               n == Len(trades) + 1
    <3> DEFINE row == [ad |-> w.id, num |-> w.num, seq |-> w.seq]
    <3>0. row.num = w.num /\ row.seq = w.seq
      OBVIOUS
    <3> HIDE DEF row
    <3>1. /\ w.pc = "tradeSave" /\ goneTrades' = goneTrades
          /\ DOMAIN trades' = DOMAIN trades \union {n}
          /\ trades'[n].num = w.num /\ trades'[n].seq = w.seq
          /\ \A k \in DOMAIN trades : trades'[k] = trades[k]
          /\ raced' = IF w.known = {TradesOpen} THEN raced ELSE raced \union {"trades"}
      <4>1. /\ w.pc = "tradeSave" /\ goneTrades' = goneTrades
            /\ DOMAIN trades' = DOMAIN trades \union {n}
            /\ trades'[n] = row
            /\ \A k \in DOMAIN trades : trades'[k] = trades[k]
            /\ raced' = IF w.known = {TradesOpen} THEN raced ELSE raced \union {"trades"}
        BY <2>3, TradeSaveDoes DEF row
      <4> QED
        BY <3>0, <4>1
    <3>2. w.known = {TradesOpen}
      BY <1>2, <3>1
    <3>3. /\ NextNumber(trades, TradesOpen, trades'[n].num)
          /\ NextNumber(trades, TradesOpen, trades'[n].seq)
      BY <3>1, <3>2 DEF TradesInv, NumberedTrade
    <3>4. goneTrades \subseteq DOMAIN trades
      BY DEF TypeOK
    <3>5. /\ TradesOpen' = TradesOpen \union {n} /\ n \in Nat /\ TradesOpen \in SUBSET Nat
          /\ \A k \in TradesOpen : k < n /\ trades[k].seq \in Nat /\ trades'[k] = trades[k]
      BY <3>1, <3>4, Tables DEF TradesOpen, TradeRow
    <3>6. InOrder(trades', TradesOpen \union {n})
      BY <2>1, <3>3, <3>5, JoinsInOrder
    <3> QED
      BY <3>5, <3>6 DEF TradesApart
  <2>4. ASSUME NEW r \in Threads, Saves(r)
        PROVE  TradesApart'
    <3>1. UNCHANGED goneTrades
      BY <2>4, SaveAdDoes, SaveLastDoes, CreateSaveDoes, SaveRowsDoes, TradeSaveDoes DEF Saves
    <3>2. trades' = trades \/ TradeSave(r)
      BY <2>4, SaveAdDoes, SaveLastDoes, CreateSaveDoes, SaveRowsDoes DEF Saves
    <3> QED
      BY <2>2, <2>3, <3>1, <3>2
  <2>5. CASE Next
    BY <2>2, <2>4, <2>5, Steps, Quiet DEF DeleteAd, tables
  <2> QED
    BY <2>2, <2>5 DEF vars, tables
<1> QED
  BY <1>1, <1>2

LEMMA NumbersInit == Init => AdsInv /\ TradesInv /\ NumbersApart
BY AdsIdle DEF Init, AdsInv, TradesInv, NumberedTrade, Idle, NumbersApart, InOrder, Ads, TradesOpen

\* NumbersApart (numbers repeat only after createAdvertise, or two requests numbered at
\* once) for any users, threads, limit and number of requests.
THEOREM NumbersStayApart == Spec => []NumbersApart
<1> DEFINE Inv == ("ads" \in raced \/ AdsInv) /\ TradesInv /\ NumbersApart
<1>1. Init => Inv
  BY NumbersInit
<1>2. TypeOK /\ Inv /\ [Next]_vars => Inv'
  BY AdsStep, TradesStep, AdsApartStep, TradesApartStep, RacedGrows
     DEF NumbersApart, AdsApart, TradesApart
<1> QED
  BY <1>1, <1>2, AdTypes, PTL DEF Spec
===============================================================================
