--------------------------- MODULE ChatProperties ---------------------------
(***************************************************************************)
(* What can be relied on about the conversation of a trade.                *)
(***************************************************************************)
EXTENDS Chat

Text == Seq(Msgs)

WorkOK(w, table) ==
  /\ w \in [pc : {"echo", "find", "record", "push", "save"}, msg : Msgs \union {NoMsg},
            copy : Seq(Text), hit : Nat, text : Text, alone : BOOLEAN]
  /\ w.pc # "save" => w.msg \in Msgs
  /\ w.hit \in DOMAIN table \union {0}
  /\ DOMAIN w.copy \subseteq DOMAIN table

\* The types, and that a thread holds a row and copies of rows that exist
\* (chat_history, ChatController.send).
TypeOK ==
  /\ rows \in Seq(Text)
  /\ DOMAIN thr = Threads
  /\ \A r \in Threads : thr[r] = Idle \/ WorkOK(thr[r], rows)
  /\ page \in [Pages -> [client : {"opening", "connected", "subscribed", "lost"},
                         shown : SUBSET Msgs]]
  /\ frames \subseteq Msgs
  /\ wire \subseteq Pages \X Msgs
  /\ sent \subseteq Msgs
  /\ after \in [Msgs -> SUBSET Msgs]
  /\ recorded \subseteq Msgs /\ handled \subseteq Msgs /\ failed \subseteq Msgs

\* send looks for the row before it inserts one: a row is opened only by a message
\* that was written before any was recorded, so a conversation is split by messages
\* that overlap or not at all, as long as the query for the row does not fail.
SplitOnlyByOverlap ==
  "dbError" \notin Faults => \A i \in DOMAIN rows : after[Head(rows[i])] = {}

\* A row lists nothing ahead of a message that had been recorded before it was
\* written, whatever was saved over the row in between.
InOrder(text) == \A j, k \in DOMAIN text : j < k => text[k] \notin after[text[j]]
InSendOrder == \A i \in DOMAIN rows : InOrder(rows[i])

\* The page of the recipient shows no message that was never added to the
\* conversation: send records before it pushes.
RecordedFirst ==
  \A p \in Pages, m \in Msgs :
    m \in page[p].shown /\ Viewer[p] # Author[m] => m \in recorded

\* Message m is in row i, and in whatever is on its way to be written to it.
Kept(m, i) ==
  /\ i \in DOMAIN rows
  /\ m \in Range(rows[i])
  /\ \A r \in Threads :
       /\ ~At(r, "idle") /\ i \in DOMAIN thr[r].copy => m \in Range(thr[r].copy[i])
       /\ At(r, "record") /\ thr[r].hit = i => m \in Range(thr[r].text)

\* A message that no thread holds an older copy against is never lost from its row:
\* each writer of chat_history adds to, or puts back, a list that has it.
KeptForGood ==
  [][\A m \in Msgs : \A i \in DOMAIN rows : Kept(m, i) => Kept(m, i)']_vars

\* Thread r ends the handling of message m, and nothing else ran since it began.
EndsAlone(r, m) ==
  /\ At(r, "save") /\ thr[r].msg = m /\ m \in Msgs
  /\ thr[r].alone
  /\ m \in handled' \ handled

\* What the other party writes is in the conversation for good when nothing overlaps
\* with its handling: the final save of its sender carries no older row.
OtherIsKept ==
  [][\A r \in Threads, m \in Msgs :
       EndsAlone(r, m) /\ Author[m] = Other => (\E i \in DOMAIN rows : Kept(m, i))']_vars

\* "new message which we are going to add to old message object"
\* (ChatController.java:113): handled with nothing else running, a message is added,
\* whoever writes it.
AddedToOld ==
  [][\A r \in Threads, m \in Msgs :
       EndsAlone(r, m) => (\E i \in DOMAIN rows : m \in Range(rows[i]))']_vars

\* A message sent while a page of either party is subscribed gets to that page, unless
\* its handling fails or the page loses its connection or is loaded again.
Delivered ==
  \A p \in Pages, m \in Msgs :
    m \in frames /\ page[p].client = "subscribed" ~>
      m \in page[p].shown \/ page[p].client # "subscribed" \/ m \in failed
=============================================================================
