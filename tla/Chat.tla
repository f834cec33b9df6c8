-------------------------------- MODULE Chat --------------------------------
(***************************************************************************)
(* The conversation of one trade: the pages of its two parties and their   *)
(* STOMP clients, ChatController.send, and the rows of chat_history.       *)
(*                                                                         *)
(* One row holds the whole conversation as a list, so a message is written *)
(* by reading the row, appending to the list and saving it, in two         *)
(* transactions.  The rows also hang on the trade, and the trades on the   *)
(* advertiser, with cascades: whoever saves a trade, or an advertiser      *)
(* loaded with his trades, writes the rows back as he read them.           *)
(***************************************************************************)
EXTENDS Integers, Sequences, FiniteSets, Functions

CONSTANTS
  Advertiser, Other, \* the parties of the trade
  Pages, Viewer,     \* the open pages of the trade, and whose they are
  Msgs, Author,      \* the messages that will be written, and by whom
  NoMsg,             \* a request that saves rows without a message
  Threads,           \* the threads that serve frames and requests
  GraphLoaded,       \* the trades of an advertiser are loaded with him
  Faults             \* "stop": the handling of a message ends with an exception
                     \* or with the server; "dbError": looking for the row fails

Parties == {Advertiser, Other}

ASSUME ChatAssumption ==
  /\ Advertiser # Other
  /\ Viewer \in [Pages -> Parties]
  /\ Author \in [Msgs -> Parties]
  /\ NoMsg \notin Msgs
  /\ IsFiniteSet(Threads)
  /\ GraphLoaded \in BOOLEAN
  /\ Faults \subseteq {"stop", "dbError"}

VARIABLES
  rows,     \* chat_history: the conversations recorded for the trade, by id
  thr,      \* what each thread is doing
  page,     \* the client of each page and the messages it shows
  frames,   \* messages sent that no thread has taken
  wire,     \* <<p, m>>: m is on its way to page p
  sent,     \* history: the messages written,
  after,    \* those recorded when each was written,
  recorded, \* those that were added to a row,
  handled,  \* those whose handling came to its end,
  failed    \* and those whose handling did not

history == <<sent, after, recorded, handled, failed>>
vars == <<rows, thr, page, frames, wire, history>>

Idle == [pc |-> "idle"]
At(r, pc) == thr[r].pc = pc
Go(r, w) == thr' = [thr EXCEPT ![r] = w]

\* getChatHistoryForTrade: no row when the query fails.
Found == IF rows = <<>> \/ "dbError" \in Faults THEN DOMAIN rows \union {0} ELSE DOMAIN rows

---------------------------------------------------------------------------
(* Pages *)

\* TradeController.processTrade renders the row it finds, and the page opens its socket.
Load(p) ==
  /\ \E i \in Found :
       page' = [page EXCEPT ![p] =
         [client |-> "opening", shown |-> IF i = 0 THEN {} ELSE Range(rows[i])]]
  /\ wire' = {x \in wire : x[1] # p}
  /\ UNCHANGED <<rows, thr, frames, history>>

\* The CONNECTED frame: the callback of connect subscribes.
Connected(p) ==
  /\ page[p].client = "opening"
  /\ page' = [page EXCEPT ![p].client = "connected"]
  /\ UNCHANGED <<rows, thr, frames, wire, history>>

\* The broker takes the subscription.
Subscribed(p) ==
  /\ page[p].client = "connected"
  /\ page' = [page EXCEPT ![p].client = "subscribed"]
  /\ UNCHANGED <<rows, thr, frames, wire, history>>

\* The socket closes, and nothing opens it again.
Lose(p) ==
  /\ page[p].client \in {"opening", "connected", "subscribed"}
  /\ page' = [page EXCEPT ![p].client = "lost"]
  /\ wire' = {x \in wire : x[1] # p}
  /\ UNCHANGED <<rows, thr, frames, history>>

\* A message is written; a client whose socket has closed drops it.
Send(p, m) ==
  /\ m \notin sent
  /\ Viewer[p] = Author[m]
  /\ page[p].client \in {"connected", "subscribed", "lost"}
  /\ frames' = IF page[p].client = "lost" THEN frames ELSE frames \union {m}
  /\ sent' = sent \union {m}
  /\ after' = [after EXCEPT ![m] = recorded]
  /\ UNCHANGED <<rows, thr, page, wire, recorded, handled, failed>>

\* The MESSAGE frame: the page shows the message.
Deliver(p, m) ==
  /\ <<p, m>> \in wire
  /\ wire' = wire \ {<<p, m>>}
  /\ page' = [page EXCEPT ![p].shown = @ \union {m}]
  /\ UNCHANGED <<rows, thr, frames, history>>

---------------------------------------------------------------------------
(* The handling of a message, and the other writers of the rows *)

\* The pages of user u that the broker reaches.
Reached(u) == {p \in Pages : Viewer[p] = u /\ page[p].client = "subscribed"}

Counterpart(u) == CHOOSE v \in Parties : v # u

\* A thread begins: whoever is at work now overlaps with another.
Begin(r, w) ==
  thr' = [q \in Threads |->
    IF q = r THEN [w EXCEPT !.alone = \A s \in Threads : At(s, "idle")]
    ELSE IF At(q, "idle") THEN Idle ELSE [thr[q] EXCEPT !.alone = FALSE]]

Work(pc, m, copy) ==
  [pc |-> pc, msg |-> m, copy |-> copy, hit |-> 0, text |-> <<>>, alone |-> TRUE]

\* Mutant: the trades of whoever writes are loaded.
GraphOfAnyone(m) == IF GraphLoaded THEN rows ELSE <<>>

\* The rows that come with the sender: User.tradeList is of the trades he advertised.
GraphOf(m) == IF GraphLoaded /\ Author[m] = Advertiser THEN rows ELSE <<>>

\* send loads both users.
Take(r, m) ==
  /\ At(r, "idle")
  /\ m \in frames
  /\ frames' = frames \ {m}
  /\ Begin(r, Work("echo", m, GraphOf(m)))
  /\ UNCHANGED <<rows, page, wire, history>>

\* Mutant: every page of the trade gets the echo.
EchoToAll(r) ==
  /\ At(r, "echo")
  /\ wire' = wire \union
       ({p \in Pages : page[p].client = "subscribed"} \X {thr[r].msg})
  /\ Go(r, [thr[r] EXCEPT !.pc = "find"])
  /\ UNCHANGED <<rows, page, frames, history>>

Echo(r) ==
  /\ At(r, "echo")
  /\ wire' = wire \union (Reached(Author[thr[r].msg]) \X {thr[r].msg})
  /\ Go(r, [thr[r] EXCEPT !.pc = "find"])
  /\ UNCHANGED <<rows, page, frames, history>>

\* Mutant: the row is looked for with sender and recipient as they are, not both ways.
FindOneWay(r) ==
  /\ At(r, "find")
  /\ Go(r, [thr[r] EXCEPT !.pc = "record"])
  /\ UNCHANGED <<rows, page, frames, wire, history>>

Find(r) ==
  /\ At(r, "find")
  /\ \E i \in Found :
       Go(r, [thr[r] EXCEPT !.pc = "record", !.hit = i,
                            !.text = IF i = 0 THEN <<>> ELSE rows[i]])
  /\ UNCHANGED <<rows, page, frames, wire, history>>

\* Mutant: the newest message goes first.
RecordFirst(r) ==
  /\ At(r, "record")
  /\ rows' = IF thr[r].hit = 0 THEN Append(rows, <<thr[r].msg>>)
             ELSE [rows EXCEPT ![thr[r].hit] = <<thr[r].msg>> \o thr[r].text]
  /\ recorded' = recorded \union {thr[r].msg}
  /\ Go(r, [thr[r] EXCEPT !.pc = "push"])
  /\ UNCHANGED <<page, frames, wire, sent, after, handled, failed>>

\* Mutant: the row takes the new message in place of the old ones.
RecordOnly(r) ==
  /\ At(r, "record")
  /\ rows' = IF thr[r].hit = 0 THEN Append(rows, <<thr[r].msg>>)
             ELSE [rows EXCEPT ![thr[r].hit] = <<thr[r].msg>>]
  /\ recorded' = recorded \union {thr[r].msg}
  /\ Go(r, [thr[r] EXCEPT !.pc = "push"])
  /\ UNCHANGED <<page, frames, wire, sent, after, handled, failed>>

\* The message goes to the end of the list that was found, or into a row of its own.
Record(r) ==
  /\ At(r, "record")
  /\ rows' = IF thr[r].hit = 0 THEN Append(rows, <<thr[r].msg>>)
             ELSE [rows EXCEPT ![thr[r].hit] = Append(thr[r].text, thr[r].msg)]
  /\ recorded' = recorded \union {thr[r].msg}
  /\ Go(r, [thr[r] EXCEPT !.pc = "push"])
  /\ UNCHANGED <<page, frames, wire, sent, after, handled, failed>>

\* Mutant: the sender gets the message again in the recipient's place.
PushBack(r) ==
  /\ At(r, "push")
  /\ wire' = wire \union (Reached(Author[thr[r].msg]) \X {thr[r].msg})
  /\ Go(r, [thr[r] EXCEPT !.pc = "save"])
  /\ UNCHANGED <<rows, page, frames, history>>

Push(r) ==
  /\ At(r, "push")
  /\ wire' = wire \union (Reached(Counterpart(Author[thr[r].msg])) \X {thr[r].msg})
  /\ Go(r, [thr[r] EXCEPT !.pc = "save"])
  /\ UNCHANGED <<rows, page, frames, history>>

\* A status request loads the trade, a report of activity the advertiser.
LoadTrade(r) ==
  /\ At(r, "idle")
  /\ Begin(r, Work("save", NoMsg, rows))
  /\ UNCHANGED <<rows, page, frames, wire, history>>

\* Mutant: rows that did not come along are deleted as orphans.
SaveOrphans(r) ==
  /\ At(r, "save")
  /\ rows' = IF thr[r].copy = <<>> THEN rows ELSE thr[r].copy
  /\ handled' = handled \union ({thr[r].msg} \ {NoMsg})
  /\ Go(r, Idle)
  /\ UNCHANGED <<page, frames, wire, sent, after, recorded, failed>>

\* The sender, the advertiser or the trade is saved, and the rows that came along.
Save(r) ==
  /\ At(r, "save")
  /\ rows' = [i \in DOMAIN rows |->
       IF i \in DOMAIN thr[r].copy THEN thr[r].copy[i] ELSE rows[i]]
  /\ handled' = handled \union ({thr[r].msg} \ {NoMsg})
  /\ Go(r, Idle)
  /\ UNCHANGED <<page, frames, wire, sent, after, recorded, failed>>

\* An exception, or the end of the server: the rest of the handling is not done.
Stop(r) ==
  /\ "stop" \in Faults
  /\ ~At(r, "idle")
  /\ failed' = failed \union ({thr[r].msg} \ {NoMsg})
  /\ Go(r, Idle)
  /\ UNCHANGED <<rows, page, frames, wire, sent, after, recorded, handled>>

---------------------------------------------------------------------------
Init ==
  /\ rows = <<>>
  /\ thr = [r \in Threads |-> Idle]
  /\ page = [p \in Pages |-> [client |-> "lost", shown |-> {}]]
  /\ frames = {} /\ wire = {}
  /\ sent = {} /\ recorded = {} /\ handled = {} /\ failed = {}
  /\ after = [m \in Msgs |-> {}]

Handle(r) == Echo(r) \/ Find(r) \/ Record(r) \/ Push(r) \/ Save(r)

Next ==
  \/ \E p \in Pages : Load(p) \/ Connected(p) \/ Subscribed(p) \/ Lose(p)
  \/ \E p \in Pages, m \in Msgs : Send(p, m) \/ Deliver(p, m)
  \/ \E r \in Threads, m \in Msgs : Take(r, m)
  \/ \E r \in Threads : Handle(r) \/ LoadTrade(r) \/ Stop(r)

\* Threads that run go on, the executors do not leave frames for ever (though requests
\* may come first, hence SF), and a socket that stays open delivers.
Fairness ==
  /\ \A r \in Threads : WF_vars(Handle(r))
  /\ SF_vars(\E r \in Threads, m \in Msgs : Take(r, m))
  /\ \A p \in Pages : WF_vars(\E m \in Msgs : Deliver(p, m))

Spec == Init /\ [][Next]_vars /\ Fairness
=============================================================================
