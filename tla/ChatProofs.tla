----------------------------- MODULE ChatProofs -----------------------------
(***************************************************************************)
(* Theorems about Chat, for any parties, pages, messages and threads, with *)
(* and without faults, whether or not the trades come with a user.         *)
(***************************************************************************)
EXTENDS ChatProperties, SequenceTheorems, TLAPS

---------------------------------------------------------------------------
(* Types *)

WorkRecord ==
  [pc : {"echo", "find", "record", "push", "save"}, msg : Msgs \union {NoMsg},
   copy : Seq(Text), hit : Nat, text : Text, alone : BOOLEAN]

LEMMA Rows ==
  ASSUME TypeOK
  PROVE  /\ Len(rows) \in Nat /\ DOMAIN rows = 1 .. Len(rows)
         /\ \A i \in DOMAIN rows : rows[i] \in Text
         /\ 0 \notin DOMAIN rows
<1>1. rows \in Seq(Text)
  BY DEF TypeOK
<1> QED
  BY <1>1, ElementOfSeq, LenProperties

\* A thread at work.
LEMMA Busy ==
  ASSUME TypeOK, NEW r \in Threads, ~At(r, "idle")
  PROVE  /\ WorkOK(thr[r], rows) /\ thr[r] \in WorkRecord
         /\ \A i \in DOMAIN thr[r].copy : thr[r].copy[i] \in Text /\ i \in DOMAIN rows
         /\ thr[r].msg \in Msgs \/ thr[r].msg = NoMsg
<1>1. WorkOK(thr[r], rows)
  BY DEF TypeOK, At, Idle
<1>2. thr[r] \in WorkRecord
  BY <1>1 DEF WorkOK, WorkRecord
<1>3. thr[r].copy \in Seq(Text) /\ DOMAIN thr[r].copy \subseteq DOMAIN rows
  BY <1>1, <1>2 DEF WorkOK, WorkRecord
<1> QED
  BY <1>1, <1>2, <1>3, ElementOfSeq DEF WorkRecord

\* What a thread does to the threads, the other tables being well typed.
LEMMA GoType ==
  ASSUME TypeOK, NEW r \in Threads, NEW w, w = Idle \/ WorkOK(w, rows'), Go(r, w),
         rows' \in Seq(Text), DOMAIN rows \subseteq DOMAIN rows',
         UNCHANGED <<page, sent, after>>,
         frames' \subseteq Msgs, wire' \subseteq Pages \X Msgs,
         recorded' \subseteq Msgs, handled' \subseteq Msgs, failed' \subseteq Msgs
  PROVE  TypeOK'
<1>1. DOMAIN thr' = Threads
  BY DEF TypeOK, Go
<1>2. ASSUME NEW q \in Threads
      PROVE  thr'[q] = Idle \/ WorkOK(thr'[q], rows')
  <2>1. thr[q] = Idle \/ WorkOK(thr[q], rows')
    BY DEF TypeOK, WorkOK
  <2> QED
    BY <2>1 DEF TypeOK, Go
<1> QED
  BY <1>1, <1>2 DEF TypeOK

\* A thread begins.
LEMMA BeginType ==
  ASSUME TypeOK, NEW r \in Threads, NEW pc \in {"echo", "save"}, NEW m, NEW STATE copy,
         Begin(r, Work(pc, m, copy)),
         m \in Msgs \/ (m = NoMsg /\ pc = "save"),
         copy \in Seq(Text), DOMAIN copy \subseteq DOMAIN rows,
         UNCHANGED <<rows, page, wire, history>>, frames' \subseteq Msgs
  PROVE  TypeOK'
<1>1. DOMAIN thr' = Threads
  BY DEF Begin
<1>2. ASSUME NEW q \in Threads
      PROVE  thr'[q] = Idle \/ WorkOK(thr'[q], rows')
  <2>1. CASE q = r
    <3>1. thr'[q] = [Work(pc, m, copy) EXCEPT !.alone = \A s \in Threads : At(s, "idle")]
      BY <2>1 DEF Begin
    <3>2. <<>> \in Text
      BY DEF Text
    <3> DEFINE a == \A s \in Threads : At(s, "idle")
    <3>3. thr'[q] = [pc |-> pc, msg |-> m, copy |-> copy, hit |-> 0, text |-> <<>>,
                     alone |-> a]
      BY <3>1 DEF Work
    <3>4. a \in BOOLEAN
      OBVIOUS
    <3> HIDE DEF a
    <3>5. thr'[q] \in WorkRecord
      BY <3>2, <3>3, <3>4 DEF WorkRecord
    <3>6. DOMAIN copy \subseteq DOMAIN rows'
      BY DEF history
    <3> QED
      BY <3>3, <3>5, <3>6 DEF WorkOK, WorkRecord
  <2>2. CASE q # r /\ At(q, "idle")
    BY <2>2 DEF Begin
  <2>3. CASE q # r /\ ~At(q, "idle")
    <3>1. thr'[q] = [thr[q] EXCEPT !.alone = FALSE]
      BY <2>3 DEF Begin
    <3>2. WorkOK(thr[q], rows) /\ thr[q] \in WorkRecord
      BY <2>3, Busy
    <3> QED
      BY <3>1, <3>2 DEF WorkOK, WorkRecord, history
  <2> QED
    BY <2>1, <2>2, <2>3
<1> QED
  BY <1>1, <1>2 DEF TypeOK, history

LEMMA FoundRow ==
  ASSUME TypeOK, NEW i \in Found
  PROVE  /\ i \in DOMAIN rows \union {0} /\ i \in Nat
         /\ i # 0 => rows[i] \in Text
BY Rows DEF Found

LEMMA PageType ==
  ASSUME TypeOK, NEW p \in Pages,
         Load(p) \/ Connected(p) \/ Subscribed(p) \/ Lose(p)
  PROVE  TypeOK'
<1>1. CASE Load(p)
  <2>1. PICK i \in Found :
          page' = [page EXCEPT ![p] =
            [client |-> "opening", shown |-> IF i = 0 THEN {} ELSE Range(rows[i])]]
    BY <1>1 DEF Load
  <2>2. i # 0 => Range(rows[i]) \subseteq Msgs
    <3>1. i # 0 => rows[i] \in Seq(Msgs)
      BY FoundRow DEF Text
    <3> QED
      BY <3>1, ElementOfSeq, LenProperties DEF Range
  <2>3. page' \in [Pages -> [client : {"opening", "connected", "subscribed", "lost"},
                             shown : SUBSET Msgs]]
    BY <2>1, <2>2 DEF TypeOK
  <2> QED
    BY <1>1, <2>3 DEF Load, TypeOK, history, WorkOK
<1>2. CASE Connected(p)
  BY <1>2 DEF Connected, TypeOK, history, WorkOK
<1>3. CASE Subscribed(p)
  BY <1>3 DEF Subscribed, TypeOK, history, WorkOK
<1>4. CASE Lose(p)
  BY <1>4 DEF Lose, TypeOK, history, WorkOK
<1> QED
  BY <1>1, <1>2, <1>3, <1>4

LEMMA MessageType ==
  ASSUME TypeOK, NEW p \in Pages, NEW m \in Msgs, Send(p, m) \/ Deliver(p, m)
  PROVE  TypeOK'
<1>1. CASE Send(p, m)
  <2>1. after' \in [Msgs -> SUBSET Msgs]
    BY <1>1 DEF Send, TypeOK
  <2> QED
    BY <1>1, <2>1 DEF Send, TypeOK, WorkOK
<1>2. CASE Deliver(p, m)
  <2>1. page' \in [Pages -> [client : {"opening", "connected", "subscribed", "lost"},
                             shown : SUBSET Msgs]]
    BY <1>2 DEF Deliver, TypeOK
  <2> QED
    BY <1>2, <2>1 DEF Deliver, TypeOK, history, WorkOK
<1> QED
  BY <1>1, <1>2

---------------------------------------------------------------------------
(* The rows after a step *)

\* The new list of a message that is recorded.
Longer(r) == Append(thr[r].text, thr[r].msg)

LEMMA RecordRows ==
  ASSUME TypeOK, NEW r \in Threads, Record(r)
  PROVE  /\ rows' \in Seq(Text) /\ DOMAIN rows \subseteq DOMAIN rows'
         /\ rows' # <<>>
         /\ thr[r].msg \in Msgs
         /\ \A i \in DOMAIN rows' :
              \/ i \in DOMAIN rows /\ i # thr[r].hit /\ rows'[i] = rows[i]
              \/ i \in DOMAIN rows /\ i = thr[r].hit /\ rows'[i] = Longer(r)
              \/ i \notin DOMAIN rows /\ thr[r].hit = 0 /\ rows'[i] = <<thr[r].msg>>
         /\ thr[r].hit # 0 => thr[r].hit \in DOMAIN rows
         /\ thr[r].hit = 0 => \E i \in DOMAIN rows' : rows'[i] = <<thr[r].msg>>
<1>1. /\ WorkOK(thr[r], rows) /\ thr[r] \in WorkRecord
  BY Busy DEF Record, At
<1>2. thr[r].msg \in Msgs /\ thr[r].text \in Text /\ thr[r].hit \in DOMAIN rows \union {0}
  BY <1>1 DEF WorkOK, WorkRecord, Record, At
<1>3. rows \in Seq(Text)
  BY DEF TypeOK
<1>4. CASE thr[r].hit = 0
  <2>1. rows' = Append(rows, <<thr[r].msg>>)
    BY <1>4 DEF Record
  <2>2. <<thr[r].msg>> \in Text
    BY <1>2 DEF Text
  <2>3. /\ rows' \in Seq(Text) /\ rows' # <<>>
        /\ DOMAIN rows' = 1 .. Len(rows) + 1
        /\ \A i \in 1 .. Len(rows) : rows'[i] = rows[i]
        /\ rows'[Len(rows) + 1] = <<thr[r].msg>>
    BY <2>1, <2>2, <1>3, AppendProperties, LenProperties
  <2>4. \A i \in DOMAIN rows' : i \in DOMAIN rows \/ i = Len(rows) + 1
    BY <2>3, Rows
  <2>5. Len(rows) + 1 \notin DOMAIN rows
    BY Rows
  <2>6. 0 \notin DOMAIN rows
    BY Rows
  <2>7. DOMAIN rows \subseteq DOMAIN rows'
    BY <2>3, Rows
  <2>8. Len(rows) + 1 \in DOMAIN rows'
    BY <2>3, Rows
  <2> QED
    BY <1>2, <1>4, <2>3, <2>4, <2>5, <2>6, <2>7, <2>8, Rows
<1>5. CASE thr[r].hit # 0
  <2>1. rows' = [rows EXCEPT ![thr[r].hit] = Longer(r)]
    BY <1>5 DEF Record, Longer
  <2>2. Longer(r) \in Text
    BY <1>2, AppendProperties DEF Longer, Text
  <2>3. rows' \in Seq(Text) /\ DOMAIN rows' = DOMAIN rows
    BY <2>1, <2>2, <1>2, <1>3, <1>5, ExceptSeq
  <2>4. rows' # <<>>
    BY <2>3, <1>2, <1>5
  <2> QED
    BY <1>2, <1>5, <2>1, <2>3, <2>4
<1> QED
  BY <1>4, <1>5

LEMMA SaveRows ==
  ASSUME TypeOK, NEW r \in Threads, Save(r)
  PROVE  /\ rows' \in Seq(Text) /\ DOMAIN rows' = DOMAIN rows
         /\ \A i \in DOMAIN rows :
              \/ i \in DOMAIN thr[r].copy /\ rows'[i] = thr[r].copy[i]
              \/ i \notin DOMAIN thr[r].copy /\ rows'[i] = rows[i]
<1>1. \A i \in DOMAIN thr[r].copy : thr[r].copy[i] \in Text
  BY Busy DEF Save, At
<1>2. rows' = [i \in 1 .. Len(rows) |->
               IF i \in DOMAIN thr[r].copy THEN thr[r].copy[i] ELSE rows[i]]
  BY Rows DEF Save
<1>3. \A i \in 1 .. Len(rows) : rows'[i] \in Text
  BY <1>1, <1>2, Rows
<1>4. rows' \in Seq(Text)
  BY <1>2, <1>3, Rows, IsASeq
<1> QED
  BY <1>2, <1>4, Rows

LEMMA HandleType ==
  ASSUME TypeOK, NEW r \in Threads, Handle(r)
  PROVE  TypeOK'
<1>1. /\ WorkOK(thr[r], rows) /\ thr[r] \in WorkRecord
  BY Busy DEF Handle, Echo, Find, Record, Push, Save, At
<1>2. CASE Echo(r)
  <2>1. thr[r].msg \in Msgs
    BY <1>1, <1>2 DEF Echo, At, WorkOK
  <2>2. WorkOK([thr[r] EXCEPT !.pc = "find"], rows')
    BY <1>1, <1>2, <2>1 DEF Echo, WorkOK, WorkRecord
  <2>3. rows' \in Seq(Text) /\ wire' \subseteq Pages \X Msgs
    BY <1>2, <2>1 DEF Echo, Reached, TypeOK
  <2> QED
    BY <1>2, <2>2, <2>3, GoType DEF Echo, TypeOK, history
<1>3. CASE Find(r)
  <2>1. PICK i \in Found :
          Go(r, [thr[r] EXCEPT !.pc = "record", !.hit = i,
                               !.text = IF i = 0 THEN <<>> ELSE rows[i]])
    BY <1>3 DEF Find
  <2> DEFINE w == [thr[r] EXCEPT !.pc = "record", !.hit = i,
                                 !.text = IF i = 0 THEN <<>> ELSE rows[i]]
  <2>2. thr[r].msg \in Msgs
    BY <1>1, <1>3 DEF Find, At, WorkOK
  <2>3. (IF i = 0 THEN <<>> ELSE rows[i]) \in Text /\ i \in Nat
    BY FoundRow DEF Text
  <2>4. i \in DOMAIN rows \union {0}
    BY FoundRow
  <2>5. WorkOK(w, rows')
    BY <1>1, <1>3, <2>2, <2>3, <2>4 DEF Find, WorkOK, WorkRecord
  <2> HIDE DEF w
  <2>6. Go(r, w)
    BY <2>1 DEF w
  <2> QED
    BY <1>3, <2>5, <2>6, GoType DEF Find, TypeOK, history
<1>4. CASE Record(r)
  <2>1. /\ rows' \in Seq(Text) /\ DOMAIN rows \subseteq DOMAIN rows' /\ thr[r].msg \in Msgs
    BY <1>4, RecordRows
  <2>2. WorkOK([thr[r] EXCEPT !.pc = "push"], rows')
    BY <1>1, <2>1 DEF WorkOK, WorkRecord
  <2> QED
    BY <1>4, <2>1, <2>2, GoType DEF Record, TypeOK
<1>5. CASE Push(r)
  <2>1. thr[r].msg \in Msgs
    BY <1>1, <1>5 DEF Push, At, WorkOK
  <2>2. WorkOK([thr[r] EXCEPT !.pc = "save"], rows')
    BY <1>1, <1>5, <2>1 DEF Push, WorkOK, WorkRecord
  <2>3. rows' \in Seq(Text) /\ wire' \subseteq Pages \X Msgs
    BY <1>5, <2>1 DEF Push, Reached, TypeOK
  <2> QED
    BY <1>5, <2>2, <2>3, GoType DEF Push, TypeOK, history
<1>6. CASE Save(r)
  <2>1. handled' \subseteq Msgs
    BY <1>1, <1>6 DEF Save, TypeOK, WorkRecord
  <2> QED
    BY <1>6, <2>1, SaveRows, GoType DEF Save, TypeOK
<1> QED
  BY <1>2, <1>3, <1>4, <1>5, <1>6 DEF Handle

LEMMA NextType ==
  ASSUME TypeOK, [Next]_vars
  PROVE  TypeOK'
<1>1. ASSUME NEW r \in Threads, NEW m \in Msgs, Take(r, m)
      PROVE  TypeOK'
  <2>1. GraphOf(m) \in Seq(Text) /\ DOMAIN GraphOf(m) \subseteq DOMAIN rows
    BY DEF GraphOf, TypeOK
  <2> QED
    BY <1>1, <2>1, BeginType DEF Take, TypeOK
<1>2. ASSUME NEW r \in Threads, LoadTrade(r)
      PROVE  TypeOK'
  BY <1>2, BeginType DEF LoadTrade, TypeOK
<1>3. ASSUME NEW r \in Threads, Stop(r)
      PROVE  TypeOK'
  <2>1. failed' \subseteq Msgs
    BY <1>3, Busy DEF Stop, TypeOK
  <2> QED
    BY <1>3, <2>1, GoType DEF Stop, TypeOK
<1>4. CASE UNCHANGED vars
  BY <1>4 DEF TypeOK, vars, history, WorkOK
<1> QED
  BY <1>1, <1>2, <1>3, <1>4, PageType, MessageType, HandleType DEF Next

LEMMA InitType ==
  ASSUME Init
  PROVE  TypeOK
BY ChatAssumption DEF Init, TypeOK

\* The rows are lists of messages, and a thread works on rows and with copies of rows
\* that exist: no save of an older copy makes a row disappear.
THEOREM ChatTypes == Spec => []TypeOK
<1>1. Init => TypeOK
  BY InitType
<1>2. TypeOK /\ [Next]_vars => TypeOK'
  BY NextType
<1> QED
  BY <1>1, <1>2, PTL DEF Spec

---------------------------------------------------------------------------
(* What a step leaves of the threads *)

Acts(r) == Handle(r) \/ LoadTrade(r) \/ Stop(r) \/ \E m \in Msgs : Take(r, m)

LEMMA Steps ==
  ASSUME [Next]_vars
  PROVE  \/ \E r \in Threads : Acts(r)
         \/ \E p \in Pages : Load(p) \/ Connected(p) \/ Subscribed(p) \/ Lose(p)
         \/ \E p \in Pages, m \in Msgs : Send(p, m) \/ Deliver(p, m)
         \/ UNCHANGED vars
BY DEF Next, Acts

LEMMA IdleThread ==
  ASSUME TypeOK, NEW r \in Threads, At(r, "idle")
  PROVE  thr[r] = Idle
BY DEF TypeOK, At, WorkOK, Idle

LEMMA AfterGo ==
  ASSUME TypeOK, NEW r \in Threads, NEW w, Go(r, w)
  PROVE  /\ thr'[r] = w
         /\ \A q \in Threads \ {r} : thr'[q] = thr[q]
BY DEF TypeOK, Go

LEMMA AfterBegin ==
  ASSUME TypeOK, NEW r \in Threads, NEW pc, NEW m, NEW STATE copy, Begin(r, Work(pc, m, copy))
  PROVE  /\ thr'[r].pc = pc /\ thr'[r].msg = m /\ thr'[r].copy = copy
         /\ thr'[r].hit = 0 /\ thr'[r].text = <<>>
         /\ thr'[r].alone => \A s \in Threads : At(s, "idle")
         /\ \A q \in Threads \ {r} :
              \/ At(q, "idle") /\ thr'[q] = Idle
              \/ ~At(q, "idle") /\ thr'[q] = [thr[q] EXCEPT !.alone = FALSE]
<1>1. thr'[r] = [Work(pc, m, copy) EXCEPT !.alone = \A s \in Threads : At(s, "idle")]
  BY DEF Begin
<1>2. \A q \in Threads \ {r} :
        thr'[q] = IF At(q, "idle") THEN Idle ELSE [thr[q] EXCEPT !.alone = FALSE]
  BY DEF Begin
<1> QED
  BY <1>1, <1>2 DEF Work

\* The other threads stay at what they do.
Stays(q) ==
  /\ thr'[q].pc = thr[q].pc
  /\ ~At(q, "idle") =>
       /\ thr'[q].msg = thr[q].msg /\ thr'[q].copy = thr[q].copy
       /\ thr'[q].hit = thr[q].hit /\ thr'[q].text = thr[q].text

LEMMA Others ==
  ASSUME TypeOK, NEW r \in Threads, Acts(r), NEW q \in Threads \ {r}
  PROVE  Stays(q)
<1>1. ASSUME NEW pc, NEW m, NEW STATE copy, Begin(r, Work(pc, m, copy))
      PROVE  Stays(q)
  <2>1. CASE At(q, "idle")
    BY <1>1, <2>1, AfterBegin, IdleThread DEF Stays, At
  <2>2. CASE ~At(q, "idle")
    <3>1. thr'[q] = [thr[q] EXCEPT !.alone = FALSE]
      BY <1>1, <2>2, AfterBegin
    <3>2. thr[q] \in WorkRecord
      BY <2>2, Busy
    <3> QED
      BY <3>1, <3>2 DEF Stays, WorkRecord
  <2> QED
    BY <2>1, <2>2
<1>2. CASE LoadTrade(r)
  BY <1>1, <1>2 DEF LoadTrade
<1>3. CASE \E m \in Msgs : Take(r, m)
  BY <1>1, <1>3 DEF Take
<1>4. CASE Handle(r) \/ Stop(r)
  <2>1. \E w : Go(r, w)
    BY <1>4 DEF Handle, Stop, Echo, Find, Record, Push, Save
  <2> QED
    BY <2>1, AfterGo DEF Stays
<1> QED
  BY <1>2, <1>3, <1>4 DEF Acts

---------------------------------------------------------------------------
(* Each message is handled once *)

Before(r) == thr[r].pc \in {"echo", "find", "record"}

OnceInv ==
  /\ recorded \subseteq sent
  /\ frames \subseteq sent \ recorded
  /\ \A m \in Msgs : after[m] \subseteq recorded
  /\ \A r \in Threads : Before(r) => thr[r].msg \in sent \ (recorded \union frames)
  /\ \A r, q \in Threads : r # q /\ Before(r) /\ Before(q) => thr[r].msg # thr[q].msg

LEMMA NextOnce ==
  ASSUME TypeOK, OnceInv, [Next]_vars
  PROVE  OnceInv'
<1>1. ASSUME NEW p \in Pages, NEW m \in Msgs, Send(p, m)
      PROVE  OnceInv'
  <2>1. /\ m \notin sent /\ sent' = sent \union {m} /\ frames' \subseteq frames \union {m}
        /\ UNCHANGED <<thr, recorded>>
    BY <1>1 DEF Send
  <2>2. \A n \in Msgs : after'[n] \subseteq recorded'
    BY <1>1 DEF Send, OnceInv, TypeOK
  <2>3. \A r \in Threads : Before(r)' <=> Before(r)
    BY <2>1 DEF Before
  <2> QED
    BY <2>1, <2>2, <2>3 DEF OnceInv
<1>2. CASE /\ UNCHANGED <<thr, sent, recorded, frames, after>>
  BY <1>2 DEF OnceInv, Before
<1>3. ASSUME NEW r \in Threads, NEW m \in Msgs, Take(r, m)
      PROVE  OnceInv'
  <2>1. /\ thr'[r].msg = m /\ m \in frames /\ frames' = frames \ {m}
        /\ UNCHANGED <<sent, recorded, after>>
    BY <1>3, AfterBegin DEF Take, history
  <2>2. \A q \in Threads \ {r} : Before(q)' => Before(q) /\ thr'[q].msg = thr[q].msg
    BY <1>3, Others DEF Acts, Stays, Before, At
  <2>3. \A q \in Threads \ {r} : Before(q)' => thr'[q].msg # m
    BY <2>1, <2>2 DEF OnceInv
  <2> QED
    BY <2>1, <2>2, <2>3 DEF OnceInv
<1>4. ASSUME NEW r \in Threads, LoadTrade(r) \/ Stop(r) \/ Handle(r), ~Record(r)
      PROVE  OnceInv'
  <2>1. UNCHANGED <<sent, recorded, frames, after>>
    BY <1>4 DEF LoadTrade, Stop, Handle, Echo, Find, Push, Save, history
  <2>2. \A q \in Threads \ {r} : Before(q)' => Before(q) /\ thr'[q].msg = thr[q].msg
    BY <1>4, Others DEF Acts, Stays, Before, At
  <2>3. Before(r)' => Before(r) /\ thr'[r].msg = thr[r].msg
    <3>1. CASE LoadTrade(r)
      BY <3>1, AfterBegin DEF LoadTrade, Before
    <3>2. CASE Stop(r) \/ Save(r)
      BY <3>2, AfterGo DEF Stop, Save, Before, Idle
    <3>3. CASE Push(r)
      <4>1. thr[r] \in WorkRecord
        BY <3>3, Busy DEF Push, At
      <4>2. thr'[r] = [thr[r] EXCEPT !.pc = "save"]
        BY <3>3, AfterGo DEF Push
      <4> QED
        BY <4>1, <4>2 DEF Before, WorkRecord
    <3>4. CASE Echo(r)
      <4>1. thr[r] \in WorkRecord
        BY <3>4, Busy DEF Echo, At
      <4>2. thr'[r] = [thr[r] EXCEPT !.pc = "find"]
        BY <3>4, AfterGo DEF Echo
      <4> QED
        BY <3>4, <4>1, <4>2 DEF Before, WorkRecord, Echo, At
    <3>5. CASE Find(r)
      <4>1. thr[r] \in WorkRecord
        BY <3>5, Busy DEF Find, At
      <4>2. \E i \in Found : thr'[r] = [thr[r] EXCEPT !.pc = "record", !.hit = i,
                                   !.text = IF i = 0 THEN <<>> ELSE rows[i]]
        BY <3>5, AfterGo DEF Find
      <4> QED
        BY <3>5, <4>1, <4>2 DEF Before, WorkRecord, Find, At
    <3> QED
      BY <1>4, <3>1, <3>2, <3>3, <3>4, <3>5 DEF Handle
  <2> QED
    BY <2>1, <2>2, <2>3 DEF OnceInv
<1>5. ASSUME NEW r \in Threads, Record(r)
      PROVE  OnceInv'
  <2>1. UNCHANGED <<sent, frames, after>> /\ recorded' = recorded \union {thr[r].msg}
    BY <1>5 DEF Record
  <2>2. \A q \in Threads \ {r} : Before(q)' => Before(q) /\ thr'[q].msg = thr[q].msg
    BY <1>5, Others DEF Acts, Handle, Stays, Before, At
  <2>3. ~Before(r)'
    <3>1. thr[r] \in WorkRecord
      BY <1>5, Busy DEF Record, At
    <3>2. thr'[r] = [thr[r] EXCEPT !.pc = "push"]
      BY <1>5, AfterGo DEF Record
    <3> QED
      BY <3>1, <3>2 DEF Before, WorkRecord
  <2>4. Before(r)
    BY <1>5 DEF Record, At, Before
  <2>5. thr[r].msg \in sent \ (recorded \union frames)
    BY <2>4 DEF OnceInv
  <2>6. \A q \in Threads \ {r} : Before(q)' => thr'[q].msg # thr[r].msg
    BY <2>2, <2>4 DEF OnceInv
  <2>7. recorded' \subseteq sent' /\ frames' \subseteq sent' \ recorded'
    BY <2>1, <2>5 DEF OnceInv
  <2>8. \A m \in Msgs : after'[m] \subseteq recorded'
    BY <2>1 DEF OnceInv
  <2>9. \A q \in Threads : Before(q)' => thr'[q].msg \in sent' \ (recorded' \union frames')
    BY <2>1, <2>2, <2>3, <2>6 DEF OnceInv
  <2>10. \A s, q \in Threads : s # q /\ Before(s)' /\ Before(q)' => thr'[s].msg # thr'[q].msg
    BY <2>2, <2>3 DEF OnceInv
  <2> QED
    BY <2>7, <2>8, <2>9, <2>10 DEF OnceInv
<1>6. ASSUME NEW r \in Threads, Acts(r)
      PROVE  OnceInv'
  BY <1>3, <1>4, <1>5, <1>6 DEF Acts
<1> QED
  BY <1>1, <1>2, <1>6, Steps
     DEF vars, history, Load, Connected, Subscribed, Lose, Deliver

LEMMA InitOnce ==
  ASSUME Init
  PROVE  OnceInv
BY DEF Init, OnceInv, Before, Idle

---------------------------------------------------------------------------
(* The lists: rows, copies of rows, and what a message is about to be added to *)

InUse(T) ==
  \/ \E i \in DOMAIN rows : T = rows[i]
  \/ \E r \in Threads :
       /\ ~At(r, "idle")
       /\ T = thr[r].text \/ \E i \in DOMAIN thr[r].copy : T = thr[r].copy[i]

\* A list goes on from one that was in use, is new, or is the list that was recorded.
Known(T) == InUse(T) \/ T = <<>> \/ \E r \in Threads : Record(r) /\ T = Longer(r)

\* A message that found no row has no list to be added to.
NewIsEmpty == \A r \in Threads : At(r, "record") /\ thr[r].hit = 0 => thr[r].text = <<>>

LEMMA WorkKnown ==
  ASSUME TypeOK, [Next]_vars, NEW T \in Text, NEW q \in Threads, ~At(q, "idle")',
         T = thr'[q].text \/ \E i \in DOMAIN thr'[q].copy : T = thr'[q].copy[i]
  PROVE  Known(T)
<1>1. CASE UNCHANGED thr
  BY <1>1 DEF Known, InUse, At
<1>2. ASSUME NEW r \in Threads, Acts(r), r # q
      PROVE  Known(T)
  <2>1. Stays(q)
    BY <1>2, Others
  <2>2. ~At(q, "idle") /\ thr'[q].text = thr[q].text /\ thr'[q].copy = thr[q].copy
    BY <2>1 DEF Stays, At
  <2> QED
    BY <2>2 DEF Known, InUse
<1>3. CASE LoadTrade(q)
  <2>1. thr'[q].text = <<>> /\ thr'[q].copy = rows
    BY <1>3, AfterBegin DEF LoadTrade
  <2> QED
    BY <2>1 DEF Known, InUse
<1>4. ASSUME NEW m \in Msgs, Take(q, m)
      PROVE  Known(T)
  <2>1. thr'[q].text = <<>> /\ thr'[q].copy = GraphOf(m)
    BY <1>4, AfterBegin DEF Take
  <2>2. GraphOf(m) = rows \/ GraphOf(m) = <<>>
    BY DEF GraphOf
  <2> QED
    BY <2>1, <2>2 DEF Known, InUse
<1>5. CASE Save(q) \/ Stop(q)
  BY <1>5, AfterGo DEF Save, Stop, Idle, At
<1>6. CASE Echo(q) \/ Record(q) \/ Push(q)
  <2>1. ~At(q, "idle")
    BY <1>6 DEF Echo, Record, Push, At
  <2>2. \E pc : thr'[q] = [thr[q] EXCEPT !.pc = pc]
    BY <1>6, AfterGo DEF Echo, Record, Push
  <2>3. thr'[q].text = thr[q].text /\ thr'[q].copy = thr[q].copy
    BY <2>1, <2>2, Busy DEF WorkRecord
  <2> QED
    BY <2>1, <2>3 DEF Known, InUse
<1>7. CASE Find(q)
  <2>1. ~At(q, "idle")
    BY <1>7 DEF Find, At
  <2>2. PICK i \in Found : thr'[q] = [thr[q] EXCEPT !.pc = "record", !.hit = i,
                                        !.text = IF i = 0 THEN <<>> ELSE rows[i]]
    BY <1>7, AfterGo DEF Find
  <2>3. /\ thr'[q].text = IF i = 0 THEN <<>> ELSE rows[i]
        /\ thr'[q].copy = thr[q].copy
    BY <2>1, <2>2, Busy DEF WorkRecord
  <2>4. i # 0 => i \in DOMAIN rows
    BY FoundRow
  <2> QED
    BY <2>1, <2>3, <2>4 DEF Known, InUse
<1>8. ASSUME NEW r \in Threads, Acts(r)
      PROVE  Known(T)
  BY <1>2, <1>3, <1>4, <1>5, <1>6, <1>7, <1>8 DEF Acts, Handle
<1> QED
  BY <1>1, <1>8, Steps
     DEF vars, Load, Connected, Subscribed, Lose, Send, Deliver

LEMMA RowKnown ==
  ASSUME TypeOK, NewIsEmpty, [Next]_vars, NEW i \in DOMAIN rows'
  PROVE  Known(rows'[i])
<1>1. CASE UNCHANGED rows
  BY <1>1 DEF Known, InUse
<1>2. ASSUME NEW r \in Threads, Save(r)
      PROVE  Known(rows'[i])
  <2>1. ~At(r, "idle")
    BY <1>2 DEF Save, At
  <2>2. \/ i \in DOMAIN thr[r].copy /\ rows'[i] = thr[r].copy[i]
        \/ i \in DOMAIN rows /\ rows'[i] = rows[i]
    BY <1>2, SaveRows
  <2> QED
    BY <2>1, <2>2 DEF Known, InUse
<1>3. ASSUME NEW r \in Threads, Record(r)
      PROVE  Known(rows'[i])
  <2>1. CASE i \in DOMAIN rows /\ rows'[i] = rows[i]
    BY <2>1 DEF Known, InUse
  <2>2. CASE rows'[i] = Longer(r)
    BY <1>3, <2>2 DEF Known
  <2>3. CASE thr[r].hit = 0 /\ rows'[i] = <<thr[r].msg>>
    <3>1. thr[r].text = <<>>
      BY <1>3, <2>3 DEF NewIsEmpty, Record
    <3>2. Longer(r) = <<thr[r].msg>>
      BY <3>1 DEF Longer
    <3> QED
      BY <1>3, <2>3, <3>2 DEF Known
  <2> QED
    BY <1>3, <2>1, <2>2, <2>3, RecordRows
<1>4. ASSUME NEW r \in Threads, Acts(r)
      PROVE  Known(rows'[i])
  BY <1>1, <1>2, <1>3, <1>4
     DEF Acts, Handle, LoadTrade, Stop, Take, Echo, Find, Push
<1> QED
  BY <1>1, <1>4, Steps
     DEF vars, Load, Connected, Subscribed, Lose, Send, Deliver

LEMMA TextsKnown ==
  ASSUME TypeOK, NewIsEmpty, [Next]_vars, NEW T \in Text, InUse(T)'
  PROVE  Known(T)
BY WorkKnown, RowKnown DEF InUse

---------------------------------------------------------------------------
(* What is found, and lists that are never empty *)

ShapeInv ==
  /\ NewIsEmpty
  /\ \A i \in DOMAIN rows : rows[i] # <<>>
  /\ \A r \in Threads : ~At(r, "idle") =>
       \A i \in DOMAIN thr[r].copy : thr[r].copy[i] # <<>>
  /\ \A r \in Threads : At(r, "record") /\ thr[r].hit # 0 => thr[r].text # <<>>
  /\ recorded # {} => rows # <<>>

\* What r finds.
LEMMA AfterFind ==
  ASSUME TypeOK, NEW r \in Threads, Find(r)
  PROVE  /\ ~At(r, "idle")
         /\ thr'[r].pc = "record" /\ thr'[r].msg = thr[r].msg
         /\ thr'[r].copy = thr[r].copy /\ thr'[r].alone = thr[r].alone
         /\ thr'[r].hit \in Found
         /\ thr'[r].text = IF thr'[r].hit = 0 THEN <<>> ELSE rows[thr'[r].hit]
         /\ thr'[r].hit # 0 => thr'[r].hit \in DOMAIN rows
<1>1. ~At(r, "idle")
  BY DEF Find, At
<1>2. PICK i \in Found : thr'[r] = [thr[r] EXCEPT !.pc = "record", !.hit = i,
                                      !.text = IF i = 0 THEN <<>> ELSE rows[i]]
  BY AfterGo DEF Find
<1>3. thr[r] \in WorkRecord
  BY <1>1, Busy
<1>4. thr'[r].hit = i
  BY <1>2, <1>3 DEF WorkRecord
<1>5. thr'[r].text = IF i = 0 THEN <<>> ELSE rows[i]
  BY <1>2, <1>3 DEF WorkRecord
<1>6. /\ thr'[r].pc = "record" /\ thr'[r].msg = thr[r].msg
      /\ thr'[r].copy = thr[r].copy /\ thr'[r].alone = thr[r].alone
  BY <1>2, <1>3 DEF WorkRecord
<1>7. i # 0 => i \in DOMAIN rows
  BY FoundRow
<1> QED
  BY <1>1, <1>4, <1>5, <1>6, <1>7

\* The other steps of a thread at work change nothing of its work but its place.
LEMMA AfterPlace ==
  ASSUME TypeOK, NEW r \in Threads, Echo(r) \/ Record(r) \/ Push(r)
  PROVE  /\ ~At(r, "idle")
         /\ thr'[r].pc = IF Echo(r) THEN "find" ELSE IF Record(r) THEN "push" ELSE "save"
         /\ thr'[r].msg = thr[r].msg /\ thr'[r].copy = thr[r].copy
         /\ thr'[r].alone = thr[r].alone
<1>1. ~At(r, "idle")
  BY DEF Echo, Record, Push, At
<1>2. thr'[r] = [thr[r] EXCEPT !.pc = IF Echo(r) THEN "find"
                                      ELSE IF Record(r) THEN "push" ELSE "save"]
  <2>1. CASE Echo(r)
    BY <2>1, AfterGo DEF Echo
  <2>2. CASE Record(r)
    BY <2>2, AfterGo DEF Record, Echo, At
  <2>3. CASE Push(r)
    BY <2>3, AfterGo DEF Push, Record, Echo, At
  <2> QED
    BY <2>1, <2>2, <2>3
<1> QED
  BY <1>1, <1>2, Busy DEF WorkRecord

LEMMA ShapeOfRows ==
  ASSUME TypeOK, ShapeInv, [Next]_vars
  PROVE  /\ \A i \in DOMAIN rows' : rows'[i] # <<>>
         /\ recorded' # {} => rows' # <<>>
<1>1. CASE UNCHANGED <<rows, recorded>>
  BY <1>1 DEF ShapeInv
<1>2. ASSUME NEW r \in Threads, Save(r)
      PROVE  /\ \A i \in DOMAIN rows' : rows'[i] # <<>>
             /\ recorded' # {} => rows' # <<>>
  <2>1. ~At(r, "idle")
    BY <1>2 DEF Save, At
  <2>2. \A i \in DOMAIN rows' : rows'[i] # <<>>
    BY <1>2, <2>1, SaveRows DEF ShapeInv
  <2>3. rows # <<>> => rows' # <<>>
    <3>1. DOMAIN rows' = DOMAIN rows
      BY <1>2, SaveRows
    <3>2. rows' = <<>> => DOMAIN rows = {}
      BY <3>1
    <3>3. DOMAIN rows = {} => rows = <<>>
      BY EmptySeq, LenProperties, Rows DEF TypeOK
    <3> QED
      BY <3>2, <3>3
  <2> QED
    BY <1>2, <2>2, <2>3 DEF ShapeInv, Save
<1>3. ASSUME NEW r \in Threads, Record(r)
      PROVE  /\ \A i \in DOMAIN rows' : rows'[i] # <<>>
             /\ recorded' # {} => rows' # <<>>
  <2>1. ~At(r, "idle")
    BY <1>3 DEF Record, At
  <2>2. thr[r].text \in Seq(Msgs) /\ thr[r].msg \in Msgs
    BY <1>3, <2>1, Busy, RecordRows DEF WorkRecord, Text
  <2>3. Longer(r) # <<>>
    BY <2>2, AppendProperties DEF Longer
  <2>4. <<thr[r].msg>> # <<>>
    OBVIOUS
  <2>5. \A i \in DOMAIN rows : rows[i] # <<>>
    BY DEF ShapeInv
  <2>6. ASSUME NEW i \in DOMAIN rows'
        PROVE  rows'[i] # <<>>
    <3>1. \/ i \in DOMAIN rows /\ rows'[i] = rows[i]
          \/ rows'[i] = Longer(r)
          \/ rows'[i] = <<thr[r].msg>>
      BY <1>3, RecordRows
    <3> HIDE DEF Longer
    <3> QED
      BY <2>3, <2>4, <2>5, <3>1
  <2>7. rows' # <<>>
    BY <1>3, RecordRows
  <2> QED
    BY <2>6, <2>7
<1>4. ASSUME NEW r \in Threads, Acts(r)
      PROVE  /\ \A i \in DOMAIN rows' : rows'[i] # <<>>
             /\ recorded' # {} => rows' # <<>>
  BY <1>1, <1>2, <1>3, <1>4
     DEF Acts, Handle, LoadTrade, Stop, Take, Echo, Find, Push, history
<1> QED
  BY <1>1, <1>4, Steps
     DEF vars, history, Load, Connected, Subscribed, Lose, Send, Deliver

LEMMA ShapeOfWork ==
  ASSUME TypeOK, ShapeInv, [Next]_vars, NEW q \in Threads, ~At(q, "idle")'
  PROVE  /\ At(q, "record")' /\ thr'[q].hit = 0 => thr'[q].text = <<>>
         /\ At(q, "record")' /\ thr'[q].hit # 0 => thr'[q].text # <<>>
         /\ \A i \in DOMAIN thr'[q].copy : thr'[q].copy[i] # <<>>
<1> DEFINE Goal ==
      /\ At(q, "record")' /\ thr'[q].hit = 0 => thr'[q].text = <<>>
      /\ At(q, "record")' /\ thr'[q].hit # 0 => thr'[q].text # <<>>
      /\ \A i \in DOMAIN thr'[q].copy : thr'[q].copy[i] # <<>>
<1>1. CASE UNCHANGED thr
  BY <1>1 DEF ShapeInv, NewIsEmpty, At
<1>2. ASSUME NEW r \in Threads, Acts(r), r # q
      PROVE  Goal
  <2>1. Stays(q)
    BY <1>2, Others
  <2> QED
    BY <2>1 DEF Stays, At, ShapeInv, NewIsEmpty
<1>3. CASE LoadTrade(q)
  <2>1. thr'[q].pc = "save" /\ thr'[q].copy = rows
    BY <1>3, AfterBegin DEF LoadTrade
  <2> QED
    BY <2>1 DEF ShapeInv, At
<1>4. ASSUME NEW m \in Msgs, Take(q, m)
      PROVE  Goal
  <2>1. thr'[q].pc = "echo" /\ thr'[q].copy = GraphOf(m)
    BY <1>4, AfterBegin DEF Take
  <2>2. GraphOf(m) = rows \/ GraphOf(m) = <<>>
    BY DEF GraphOf
  <2> QED
    BY <2>1, <2>2 DEF ShapeInv, At
<1>5. CASE Save(q) \/ Stop(q)
  BY <1>5, AfterGo DEF Save, Stop, Idle, At
<1>6. CASE Echo(q) \/ Record(q) \/ Push(q)
  <2>1. /\ ~At(q, "idle") /\ ~At(q, "record")' /\ thr'[q].copy = thr[q].copy
    BY <1>6, AfterPlace DEF At
  <2> QED
    BY <2>1 DEF ShapeInv
<1>7. CASE Find(q)
  BY <1>7, AfterFind DEF ShapeInv
<1>8. ASSUME NEW r \in Threads, Acts(r)
      PROVE  Goal
  BY <1>2, <1>3, <1>4, <1>5, <1>6, <1>7, <1>8 DEF Acts, Handle
<1> QED
  BY <1>1, <1>8, Steps
     DEF vars, Load, Connected, Subscribed, Lose, Send, Deliver

LEMMA NextShape ==
  ASSUME TypeOK, ShapeInv, [Next]_vars
  PROVE  ShapeInv'
<1>1. \A q \in Threads : At(q, "record")' => ~At(q, "idle")'
  BY DEF At
<1> QED
  BY <1>1, ShapeOfRows, ShapeOfWork DEF ShapeInv, NewIsEmpty

---------------------------------------------------------------------------
(* What the lists say *)

TextOK(T) ==
  /\ \A j \in DOMAIN T : T[j] \in recorded
  /\ InOrder(T)
  /\ T # <<>> /\ "dbError" \notin Faults => after[Head(T)] = {}

TextInv ==
  /\ \A T \in Text : InUse(T) => TextOK(T)
  /\ "dbError" \notin Faults =>
       \A r \in Threads : At(r, "record") /\ thr[r].hit = 0 => after[thr[r].msg] = {}

\* What was known of recorded messages stays.
LEMMA AfterStays ==
  ASSUME TypeOK, OnceInv, [Next]_vars, NEW m \in sent
  PROVE  after'[m] = after[m]
<1>1. CASE UNCHANGED after
  BY <1>1
<1>2. ASSUME NEW p \in Pages, NEW n \in Msgs, Send(p, n)
      PROVE  after'[m] = after[m]
  BY <1>2 DEF Send, TypeOK
<1> QED
  BY <1>1, <1>2, Steps
     DEF vars, history, Load, Connected, Subscribed, Lose, Deliver,
         Acts, Handle, LoadTrade, Stop, Take, Echo, Find, Record, Push, Save

LEMMA RecordedGrows ==
  ASSUME TypeOK, [Next]_vars
  PROVE  recorded \subseteq recorded' /\ sent \subseteq sent'
BY Steps DEF vars, history, Load, Connected, Subscribed, Lose, Deliver, Send,
     Acts, Handle, LoadTrade, Stop, Take, Echo, Find, Record, Push, Save

LEMMA OldTextOK ==
  ASSUME TypeOK, OnceInv, [Next]_vars, NEW T \in Text, TextOK(T)
  PROVE  TextOK(T)'
<1>1. \A j \in DOMAIN T : T[j] \in recorded' /\ after'[T[j]] = after[T[j]]
  BY AfterStays, RecordedGrows DEF TextOK, OnceInv
<1>2. InOrder(T)'
  BY <1>1 DEF TextOK, InOrder
<1>3. T # <<>> => Head(T) = T[1] /\ 1 \in DOMAIN T
  BY EmptySeq, LenProperties, HeadTailProperties DEF Text
<1> QED
  BY <1>1, <1>2, <1>3 DEF TextOK

LEMMA NewTextOK ==
  ASSUME TypeOK, OnceInv, ShapeInv, TextInv, [Next]_vars, NEW r \in Threads, Record(r),
         NEW U, U = Longer(r)
  PROVE  TextOK(U)'
<1> DEFINE T == thr[r].text
           m == thr[r].msg
<1>1. ~At(r, "idle") /\ At(r, "record")
  BY DEF Record, At
<1>2. T \in Seq(Msgs) /\ m \in Msgs /\ T \in Text
  BY <1>1, Busy, RecordRows DEF WorkRecord, Text
<1>3. TextOK(T)
  BY <1>1, <1>2 DEF TextInv, InUse
<1>4. m \in sent /\ m \notin recorded
  BY <1>1 DEF OnceInv, Before, At
<1>5. recorded' = recorded \union {m} /\ after' = after
  BY DEF Record
<1>6. /\ DOMAIN T = 1 .. Len(T) /\ Len(T) \in Nat
      /\ DOMAIN U = 1 .. Len(T) + 1
      /\ \A j \in 1 .. Len(T) : U[j] = T[j] /\ T[j] \in Msgs
      /\ U[Len(T) + 1] = m
      /\ U # <<>> /\ U \in Seq(Msgs)
  BY <1>2, AppendProperties, LenProperties, ElementOfSeq DEF Longer
<1> HIDE DEF T, m
<1>7. \A j \in DOMAIN U : j \in DOMAIN T \/ j = Len(T) + 1
  BY <1>6
<1>8. \A j \in DOMAIN U : U[j] \in recorded'
  BY <1>3, <1>5, <1>6, <1>7 DEF TextOK
<1>9. ASSUME NEW j \in DOMAIN U, NEW k \in DOMAIN U, j < k
      PROVE  U[k] \notin after[U[j]]
  <2>1. j \in DOMAIN T /\ U[j] = T[j]
    BY <1>6, <1>7, <1>9
  <2>2. CASE k \in DOMAIN T
    BY <1>3, <1>6, <1>9, <2>1, <2>2 DEF TextOK, InOrder
  <2>3. CASE k = Len(T) + 1
    <3>1. after[T[j]] \subseteq recorded
      BY <1>6, <2>1 DEF OnceInv
    <3> QED
      BY <1>4, <1>6, <2>1, <2>3, <3>1
  <2> QED
    BY <1>7, <2>2, <2>3
<1>10. Head(U) = U[1]
  BY <1>6
<1>11. "dbError" \notin Faults => after[U[1]] = {}
  <2>1. CASE T = <<>>
    <3>1. thr[r].hit = 0
      BY <1>1, <2>1 DEF ShapeInv, T
    <3>2. U[1] = m
      BY <1>6, <2>1
    <3> QED
      BY <1>1, <3>1, <3>2 DEF TextInv, m
  <2>2. CASE T # <<>>
    <3>1. Len(T) > 0 /\ 1 \in DOMAIN T
      BY <1>2, <1>6, <2>2, EmptySeq
    <3>2. Head(T) = T[1] /\ U[1] = T[1]
      BY <1>2, <1>6, <2>2, <3>1
    <3> QED
      BY <1>3, <2>2, <3>2 DEF TextOK
  <2> QED
    BY <2>1, <2>2
<1>12. InOrder(U)'
  BY <1>5, <1>9 DEF InOrder
<1>13. "dbError" \notin Faults => after'[Head(U)] = {}
  BY <1>5, <1>10, <1>11
<1> QED
  BY <1>8, <1>12, <1>13 DEF TextOK

LEMMA NextText ==
  ASSUME TypeOK, OnceInv, ShapeInv, TextInv, [Next]_vars
  PROVE  TextInv'
<1>1. ASSUME NEW T \in Text, InUse(T)'
      PROVE  TextOK(T)'
  <2>1. Known(T)
    BY <1>1, TextsKnown DEF ShapeInv
  <2>2. CASE InUse(T)
    <3>1. TextOK(T)
      BY <2>2 DEF TextInv
    <3> QED
      BY <3>1, OldTextOK
  <2>3. CASE T = <<>>
    BY <2>3 DEF TextOK, InOrder
  <2>4. CASE \E r \in Threads : Record(r) /\ T = Longer(r)
    BY <2>4, NewTextOK
  <2> QED
    BY <2>1, <2>2, <2>3, <2>4 DEF Known
<1>2. ASSUME "dbError" \notin Faults, NEW q \in Threads, At(q, "record")', thr'[q].hit = 0
      PROVE  after'[thr'[q].msg] = {}
  <2>1. ASSUME At(q, "record"), thr[q].hit = 0, thr'[q].msg = thr[q].msg
        PROVE  after'[thr'[q].msg] = {}
    <3>1. after[thr[q].msg] = {} /\ thr[q].msg \in sent
      BY <1>2, <2>1 DEF TextInv, OnceInv, Before, At
    <3> QED
      BY <2>1, <3>1, AfterStays
  <2>2. CASE UNCHANGED thr
    BY <1>2, <2>1, <2>2 DEF At
  <2>3. ASSUME NEW r \in Threads, Acts(r), r # q
        PROVE  after'[thr'[q].msg] = {}
    <3>1. Stays(q)
      BY <2>3, Others
    <3> QED
      BY <1>2, <2>1, <3>1 DEF Stays, At
  <2>4. CASE Find(q)
    <3>1. thr'[q].hit \in Found /\ thr'[q].msg = thr[q].msg /\ ~At(q, "idle")
      BY <2>4, AfterFind
    <3>2. rows = <<>>
      BY <1>2, <3>1, Rows DEF Found
    <3>3. recorded = {}
      BY <3>2 DEF ShapeInv
    <3>4. thr[q].msg \in Msgs
      BY <2>4, <3>1, Busy DEF WorkOK, Find, At
    <3>5. after[thr[q].msg] = {}
      BY <3>3, <3>4 DEF OnceInv
    <3> QED
      BY <2>4, <3>1, <3>5 DEF Find, history
  <2>5. ASSUME Acts(q)
        PROVE  Find(q)
    <3>1. CASE LoadTrade(q)
      BY <1>2, <3>1, AfterBegin DEF LoadTrade, At
    <3>2. CASE \E m \in Msgs : Take(q, m)
      BY <1>2, <3>2, AfterBegin DEF Take, At
    <3>3. CASE Save(q) \/ Stop(q)
      BY <1>2, <3>3, AfterGo DEF Save, Stop, Idle, At
    <3>4. CASE Echo(q) \/ Record(q) \/ Push(q)
      BY <1>2, <3>4, AfterPlace DEF At
    <3> QED
      BY <2>5, <3>1, <3>2, <3>3, <3>4 DEF Acts, Handle
  <2>6. ASSUME NEW r \in Threads, Acts(r)
        PROVE  after'[thr'[q].msg] = {}
    BY <2>3, <2>4, <2>5, <2>6
  <2> QED
    BY <2>2, <2>6, Steps
       DEF vars, Load, Connected, Subscribed, Lose, Send, Deliver
<1> QED
  BY <1>1, <1>2 DEF TextInv

LEMMA InitLists ==
  ASSUME Init
  PROVE  ShapeInv /\ TextInv
<1>1. /\ \A r \in Threads : At(r, "idle") /\ thr[r] = Idle
      /\ rows = <<>> /\ recorded = {}
  BY DEF Init, At, Idle
<1>2. \A T : ~InUse(T)
  BY <1>1 DEF InUse
<1>3. \A r \in Threads : ~At(r, "record")
  BY <1>1 DEF At
<1> QED
  BY <1>1, <1>2, <1>3 DEF ShapeInv, TextInv, NewIsEmpty

ListsInv == TypeOK /\ OnceInv /\ ShapeInv /\ TextInv

LEMMA Lists == Spec => []ListsInv
<1>1. Init => ListsInv
  BY InitType, InitOnce, InitLists DEF ListsInv
<1>2. ListsInv /\ [Next]_vars => ListsInv'
  BY NextType, NextOnce, NextShape, NextText DEF ListsInv
<1> QED
  BY <1>1, <1>2, PTL DEF Spec

\* Nothing in a conversation is ahead of a message that had been recorded before it was
\* written, for any number of threads, also when a conversation has several rows.
THEOREM SendOrderKept == Spec => []InSendOrder
<1>1. ListsInv => InSendOrder
  BY Rows DEF ListsInv, TextInv, TextOK, InUse, InSendOrder
<1> QED
  BY <1>1, Lists, PTL

\* While the query for the row does not fail, a row is opened only by a message written
\* before any was recorded.
THEOREM SplitOnlyByRace == Spec => []SplitOnlyByOverlap
<1>1. ListsInv => SplitOnlyByOverlap
  BY Rows DEF ListsInv, ShapeInv, TextInv, TextOK, InUse, SplitOnlyByOverlap
<1> QED
  BY <1>1, Lists, PTL

---------------------------------------------------------------------------
(* What the pages show *)

ShownInv ==
  /\ RecordedFirst
  /\ \A p \in Pages, m \in Msgs :
       <<p, m>> \in wire /\ Viewer[p] # Author[m] => m \in recorded
  /\ \A r \in Threads : At(r, "push") => thr[r].msg \in recorded

LEMMA NextShown ==
  ASSUME ListsInv, ShownInv, [Next]_vars
  PROVE  ShownInv'
<1> USE DEF ListsInv
<1> DEFINE Pushes == \A p \in Pages, m \in Msgs :
                       <<p, m>> \in wire /\ Viewer[p] # Author[m] => m \in recorded
           Pushing == \A r \in Threads : At(r, "push") => thr[r].msg \in recorded
<1>1. recorded \subseteq recorded'
  BY RecordedGrows
<1>2. Pushing'
  <2>1. ASSUME NEW q \in Threads, At(q, "push")'
        PROVE  thr'[q].msg \in recorded'
    <3>1. CASE UNCHANGED thr
      BY <1>1, <2>1, <3>1 DEF ShownInv, At
    <3>2. ASSUME NEW r \in Threads, Acts(r), r # q
          PROVE  thr'[q].msg \in recorded'
      <4>1. Stays(q)
        BY <3>2, Others
      <4> QED
        BY <1>1, <2>1, <4>1 DEF Stays, At, ShownInv
    <3>3. CASE LoadTrade(q)
      BY <2>1, <3>3, AfterBegin DEF LoadTrade, At
    <3>4. CASE \E m \in Msgs : Take(q, m)
      BY <2>1, <3>4, AfterBegin DEF Take, At
    <3>5. CASE Save(q) \/ Stop(q)
      BY <2>1, <3>5, AfterGo DEF Save, Stop, Idle, At
    <3>6. CASE Find(q)
      BY <2>1, <3>6, AfterFind DEF At
    <3>7. CASE Record(q)
      BY <3>7, AfterPlace DEF Record
    <3>8. CASE (Echo(q) \/ Push(q)) /\ ~Record(q)
      BY <2>1, <3>8, AfterPlace DEF At
    <3>9. ASSUME NEW r \in Threads, Acts(r)
          PROVE  thr'[q].msg \in recorded'
      BY <3>2, <3>3, <3>4, <3>5, <3>6, <3>7, <3>8, <3>9 DEF Acts, Handle
    <3> QED
      BY <3>1, <3>9, Steps DEF vars, Load, Connected, Subscribed, Lose, Send, Deliver
  <2> QED
    BY <2>1
<1>3. Pushes'
  <2>1. CASE wire' \subseteq wire
    BY <1>1, <2>1 DEF ShownInv
  <2>2. ASSUME NEW r \in Threads, Echo(r)
        PROVE  Pushes'
    <3>1. \A p \in Pages, m \in Msgs :
            <<p, m>> \in wire' => <<p, m>> \in wire \/ Viewer[p] = Author[m]
      BY <2>2 DEF Echo, Reached
    <3> QED
      BY <1>1, <3>1 DEF ShownInv
  <2>3. ASSUME NEW r \in Threads, Push(r)
        PROVE  Pushes'
    <3>1. thr[r].msg \in recorded
      BY <2>3 DEF Push, ShownInv
    <3>2. \A p \in Pages, m \in Msgs :
            <<p, m>> \in wire' => <<p, m>> \in wire \/ m = thr[r].msg
      BY <2>3 DEF Push, Reached
    <3> QED
      BY <1>1, <3>1, <3>2 DEF ShownInv
  <2>4. ASSUME NEW r \in Threads, Acts(r)
        PROVE  Pushes'
    BY <2>1, <2>2, <2>3, <2>4
       DEF Acts, Handle, LoadTrade, Stop, Take, Find, Record, Save
  <2> QED
    BY <2>1, <2>4, Steps
       DEF vars, Load, Connected, Subscribed, Lose, Send, Deliver
<1>4. RecordedFirst'
  <2>1. CASE UNCHANGED page
    BY <1>1, <2>1 DEF ShownInv, RecordedFirst
  <2>2. ASSUME NEW p \in Pages, Load(p)
        PROVE  RecordedFirst'
    <3>1. PICK i \in Found :
            page' = [page EXCEPT ![p] =
              [client |-> "opening", shown |-> IF i = 0 THEN {} ELSE Range(rows[i])]]
      BY <2>2 DEF Load
    <3>2. i # 0 => i \in DOMAIN rows
      BY FoundRow
    <3>3. i # 0 => Range(rows[i]) \subseteq recorded
      <4>1. ASSUME i # 0
            PROVE  Range(rows[i]) \subseteq recorded
        <5>1. rows[i] \in Text /\ InUse(rows[i])
          BY <3>2, <4>1, Rows DEF InUse
        <5>2. TextOK(rows[i])
          BY <5>1 DEF TextInv
        <5> QED
          BY <5>2 DEF TextOK, Range
      <4> QED
        BY <4>1
    <3>4. page'[p].shown \subseteq recorded
      BY <3>1, <3>3 DEF TypeOK
    <3>5. \A q \in Pages \ {p} : page'[q] = page[q]
      BY <3>1 DEF TypeOK
    <3> QED
      BY <1>1, <3>4, <3>5 DEF ShownInv, RecordedFirst
  <2>3. ASSUME NEW p \in Pages, Connected(p) \/ Subscribed(p) \/ Lose(p)
        PROVE  RecordedFirst'
    <3>1. \A q \in Pages : page'[q].shown = page[q].shown
      BY <2>3 DEF Connected, Subscribed, Lose, TypeOK
    <3> QED
      BY <1>1, <3>1 DEF ShownInv, RecordedFirst
  <2>4. ASSUME NEW p \in Pages, NEW m \in Msgs, Deliver(p, m)
        PROVE  RecordedFirst'
    <3>1. \A q \in Pages : page'[q].shown \subseteq
            page[q].shown \union {n \in Msgs : <<q, n>> \in wire}
      BY <2>4 DEF Deliver, TypeOK
    <3> QED
      BY <1>1, <3>1 DEF ShownInv, RecordedFirst
  <2>5. ASSUME NEW r \in Threads, Acts(r)
        PROVE  UNCHANGED page
    BY <2>5 DEF Acts, Handle, LoadTrade, Stop, Take, Echo, Find, Record, Push, Save
  <2> QED
    BY <2>1, <2>2, <2>3, <2>4, <2>5, Steps DEF vars, Send
<1> QED
  BY <1>2, <1>3, <1>4 DEF ShownInv

\* The recipient's page shows nothing that has not been recorded, whether it was pushed
\* or rendered.
THEOREM RecordedBeforeShown == Spec => []RecordedFirst
<1>1. Init => ShownInv
  BY DEF Init, ShownInv, RecordedFirst, Idle, At
<1>2. ListsInv /\ ShownInv /\ [Next]_vars => ShownInv'
  BY NextShown
<1>3. ShownInv => RecordedFirst
  BY DEF ShownInv
<1> QED
  BY <1>1, <1>2, <1>3, Lists, PTL DEF Spec

---------------------------------------------------------------------------
(* What is kept *)

LEMMA InLonger ==
  ASSUME TypeOK, NEW r \in Threads, Record(r)
  PROVE  /\ thr[r].msg \in Range(Longer(r))
         /\ Range(thr[r].text) \subseteq Range(Longer(r))
<1>1. ~At(r, "idle")
  BY DEF Record, At
<1>2. thr[r].text \in Seq(Msgs) /\ thr[r].msg \in Msgs
  BY <1>1, Busy, RecordRows DEF WorkRecord, Text
<1>3. /\ Longer(r) \in Seq(Msgs) /\ Len(Longer(r)) = Len(thr[r].text) + 1
      /\ \A j \in 1 .. Len(thr[r].text) : Longer(r)[j] = thr[r].text[j]
      /\ Longer(r)[Len(thr[r].text) + 1] = thr[r].msg
  BY <1>2, AppendProperties DEF Longer
<1>4. /\ Len(thr[r].text) \in Nat
      /\ DOMAIN thr[r].text = 1 .. Len(thr[r].text)
      /\ DOMAIN Longer(r) = 1 .. Len(thr[r].text) + 1
  BY <1>2, <1>3, LenProperties
<1>5. Len(thr[r].text) + 1 \in DOMAIN Longer(r)
  BY <1>4
<1>6. \A j \in DOMAIN thr[r].text :
        j \in DOMAIN Longer(r) /\ Longer(r)[j] = thr[r].text[j]
  BY <1>3, <1>4
<1> QED
  BY <1>3, <1>5, <1>6 DEF Range

\* The row of a message that is kept.
LEMMA KeptRow ==
  ASSUME TypeOK, [Next]_vars, NEW m \in Msgs, NEW i \in DOMAIN rows, Kept(m, i)
  PROVE  i \in DOMAIN rows' /\ m \in Range(rows'[i])
<1> DEFINE Goal == i \in DOMAIN rows' /\ m \in Range(rows'[i])
<1>1. CASE UNCHANGED rows
  BY <1>1 DEF Kept
<1>2. ASSUME NEW r \in Threads, Record(r)
      PROVE  Goal
  <2>1. i \in DOMAIN rows'
    BY <1>2, RecordRows
  <2>2. CASE rows'[i] = rows[i]
    BY <2>1, <2>2 DEF Kept
  <2>3. CASE i = thr[r].hit /\ rows'[i] = Longer(r)
    <3>1. m \in Range(thr[r].text)
      BY <1>2, <2>3 DEF Kept, Record
    <3> QED
      BY <1>2, <2>1, <2>3, <3>1, InLonger
  <2> QED
    BY <1>2, <2>1, <2>2, <2>3, RecordRows
<1>3. ASSUME NEW r \in Threads, Save(r)
      PROVE  Goal
  <2>1. ~At(r, "idle")
    BY <1>3 DEF Save, At
  <2> QED
    BY <1>3, <2>1, SaveRows DEF Kept
<1>4. ASSUME NEW r \in Threads, Acts(r)
      PROVE  Goal
  BY <1>1, <1>2, <1>3, <1>4 DEF Acts, Handle, LoadTrade, Stop, Take, Echo, Find, Push
<1> QED
  BY <1>1, <1>4, Steps
     DEF vars, Load, Connected, Subscribed, Lose, Send, Deliver

\* What the threads hold against it.
LEMMA KeptWork ==
  ASSUME TypeOK, [Next]_vars, NEW m \in Msgs, NEW i \in DOMAIN rows, Kept(m, i),
         NEW q \in Threads, ~At(q, "idle")'
  PROVE  /\ i \in DOMAIN thr'[q].copy => m \in Range(thr'[q].copy[i])
         /\ At(q, "record")' /\ thr'[q].hit = i => m \in Range(thr'[q].text)
<1> DEFINE Goal ==
      /\ i \in DOMAIN thr'[q].copy => m \in Range(thr'[q].copy[i])
      /\ At(q, "record")' /\ thr'[q].hit = i => m \in Range(thr'[q].text)
<1>1. CASE UNCHANGED thr
  BY <1>1 DEF Kept, At
<1>2. ASSUME NEW r \in Threads, Acts(r), r # q
      PROVE  Goal
  <2>1. Stays(q)
    BY <1>2, Others
  <2>2. ~At(q, "idle") /\ (At(q, "record")' => At(q, "record"))
    BY <2>1 DEF Stays, At
  <2>3. thr'[q].copy = thr[q].copy /\ thr'[q].hit = thr[q].hit /\ thr'[q].text = thr[q].text
    BY <2>1, <2>2 DEF Stays
  <2> QED
    BY <2>2, <2>3 DEF Kept
<1>3. CASE LoadTrade(q)
  <2>1. thr'[q].pc = "save" /\ thr'[q].copy = rows
    BY <1>3, AfterBegin DEF LoadTrade
  <2> QED
    BY <2>1 DEF Kept, At
<1>4. ASSUME NEW n \in Msgs, Take(q, n)
      PROVE  Goal
  <2>1. thr'[q].pc = "echo" /\ thr'[q].copy = GraphOf(n)
    BY <1>4, AfterBegin DEF Take
  <2>2. GraphOf(n) = rows \/ GraphOf(n) = <<>>
    BY DEF GraphOf
  <2> QED
    BY <2>1, <2>2 DEF Kept, At
<1>5. CASE Save(q) \/ Stop(q)
  BY <1>5, AfterGo DEF Save, Stop, Idle, At
<1>6. CASE Echo(q) \/ Record(q) \/ Push(q)
  <2>1. /\ ~At(q, "idle") /\ ~At(q, "record")' /\ thr'[q].copy = thr[q].copy
    BY <1>6, AfterPlace DEF At
  <2> QED
    BY <2>1 DEF Kept
<1>7. CASE Find(q)
  <2>1. /\ ~At(q, "idle") /\ thr'[q].copy = thr[q].copy
        /\ thr'[q].text = IF thr'[q].hit = 0 THEN <<>> ELSE rows[thr'[q].hit]
    BY <1>7, AfterFind
  <2>2. i # 0
    BY Rows
  <2> QED
    BY <2>1, <2>2 DEF Kept
<1>8. ASSUME NEW r \in Threads, Acts(r)
      PROVE  Goal
  BY <1>2, <1>3, <1>4, <1>5, <1>6, <1>7, <1>8 DEF Acts, Handle
<1> QED
  BY <1>1, <1>8, Steps
     DEF vars, Load, Connected, Subscribed, Lose, Send, Deliver

LEMMA KeptNext ==
  ASSUME TypeOK, [Next]_vars, NEW m \in Msgs, NEW i \in DOMAIN rows, Kept(m, i)
  PROVE  Kept(m, i)'
<1>1. \A q \in Threads : At(q, "record")' => ~At(q, "idle")'
  BY DEF At
<1> QED
  BY <1>1, KeptRow, KeptWork DEF Kept

\* Once no thread holds an older list against it, a message stays in its row for ever,
\* whoever else writes, saves trades or reports activity, in any interleaving.
THEOREM KeptStaysKept == Spec => KeptForGood
<1>1. TypeOK /\ [Next]_vars =>
        [\A m \in Msgs : \A i \in DOMAIN rows : Kept(m, i) => Kept(m, i)']_vars
  BY KeptNext
<1> QED
  BY <1>1, ChatTypes, PTL DEF Spec, KeptForGood

---------------------------------------------------------------------------
(* A message whose handling nothing overlaps with *)

InRows(m) == \E i \in DOMAIN rows : m \in Range(rows[i])

AloneOK(r) ==
  /\ \A q \in Threads \ {r} : At(q, "idle")
  /\ thr[r].msg \in Msgs /\ Author[thr[r].msg] = Other => thr[r].copy = <<>>
  /\ thr[r].pc \in {"push", "save"} /\ thr[r].msg \in Msgs => InRows(thr[r].msg)

AloneInv == \A r \in Threads : ~At(r, "idle") /\ thr[r].alone => AloneOK(r)

LEMMA NextAlone ==
  ASSUME TypeOK, AloneInv, [Next]_vars, NEW q \in Threads, ~At(q, "idle")', thr'[q].alone
  PROVE  AloneOK(q)'
<1>1. CASE UNCHANGED <<thr, rows>>
  BY <1>1 DEF AloneInv, AloneOK, At, InRows
<1>2. ASSUME NEW r \in Threads, NEW pc, NEW m, NEW STATE copy, r # q,
             Begin(r, Work(pc, m, copy))
      PROVE  FALSE
  <2>1. CASE At(q, "idle")
    <3>1. thr'[q] = Idle
      BY <1>2, <2>1, AfterBegin
    <3> QED
      BY <3>1 DEF At, Idle
  <2>2. CASE ~At(q, "idle")
    <3>1. thr'[q] = [thr[q] EXCEPT !.alone = FALSE] /\ thr[q] \in WorkRecord
      BY <1>2, <2>2, AfterBegin, Busy
    <3> QED
      BY <3>1 DEF WorkRecord
  <2> QED
    BY <2>1, <2>2
<1>3. ASSUME NEW r \in Threads, r # q, Acts(r)
      PROVE  FALSE
  <2>1. CASE LoadTrade(r)
    BY <1>2, <1>3, <2>1 DEF LoadTrade
  <2>2. CASE \E m \in Msgs : Take(r, m)
    BY <1>2, <1>3, <2>2 DEF Take
  <2>3. CASE Handle(r) \/ Stop(r)
    <3>1. ~At(r, "idle")
      BY <2>3 DEF Handle, Stop, Echo, Find, Record, Push, Save, At
    <3>2. \E w : Go(r, w)
      BY <2>3 DEF Handle, Stop, Echo, Find, Record, Push, Save
    <3>3. thr'[q] = thr[q]
      BY <1>3, <3>2, AfterGo
    <3> QED
      BY <1>3, <3>1, <3>3 DEF AloneInv, AloneOK, At
  <2> QED
    BY <1>3, <2>1, <2>2, <2>3 DEF Acts
<1>4. ASSUME LoadTrade(q) \/ (\E m \in Msgs : Take(q, m))
      PROVE  \A s \in Threads \ {q} : At(s, "idle")'
  <2>1. \E pc, m : \/ Begin(q, Work(pc, m, rows))
                   \/ Begin(q, Work(pc, m, <<>>))
    BY <1>4 DEF LoadTrade, Take, GraphOf
  <2>2. \A s \in Threads : At(s, "idle")
    BY <2>1, AfterBegin
  <2>3. \A s \in Threads \ {q} : thr'[s] = Idle
    BY <2>1, <2>2, AfterBegin
  <2> QED
    BY <2>3 DEF At, Idle
<1>5. CASE LoadTrade(q)
  <2>1. thr'[q].msg = NoMsg
    BY <1>5, AfterBegin DEF LoadTrade
  <2> QED
    BY <1>4, <1>5, <2>1, ChatAssumption DEF AloneOK
<1>6. ASSUME NEW m \in Msgs, Take(q, m)
      PROVE  AloneOK(q)'
  <2>1. thr'[q].msg = m /\ thr'[q].pc = "echo" /\ thr'[q].copy = GraphOf(m)
    BY <1>6, AfterBegin DEF Take
  <2>2. Author[m] = Other => GraphOf(m) = <<>>
    BY ChatAssumption DEF GraphOf
  <2> QED
    BY <1>4, <1>6, <2>1, <2>2 DEF AloneOK
<1>7. CASE Save(q) \/ Stop(q)
  BY <1>7, AfterGo DEF Save, Stop, Idle, At
<1>8. CASE Echo(q) \/ Find(q) \/ Record(q) \/ Push(q)
  <2>1. /\ ~At(q, "idle") /\ thr'[q].msg = thr[q].msg
        /\ thr'[q].copy = thr[q].copy /\ thr'[q].alone = thr[q].alone
    BY <1>8, AfterPlace, AfterFind
  <2>2. AloneOK(q)
    BY <2>1 DEF AloneInv
  <2>3. \A s \in Threads \ {q} : At(s, "idle")'
    <3>1. \E w : Go(q, w)
      BY <1>8 DEF Echo, Find, Record, Push
    <3> QED
      BY <2>2, <3>1, AfterGo DEF AloneOK, At
  <2>4. CASE Echo(q) \/ Find(q)
    <3>1. thr'[q].pc \notin {"push", "save"}
      BY <2>4, AfterPlace, AfterFind
    <3> QED
      BY <2>1, <2>2, <2>3, <3>1 DEF AloneOK
  <2>5. CASE Push(q)
    <3>1. UNCHANGED rows /\ thr[q].pc = "push"
      BY <2>5 DEF Push, At
    <3> QED
      BY <2>1, <2>2, <2>3, <3>1 DEF AloneOK, InRows
  <2>6. CASE Record(q)
    <3>1. CASE thr[q].hit = 0
      <4>1. PICK i \in DOMAIN rows' : rows'[i] = <<thr[q].msg>>
        BY <2>6, <3>1, RecordRows
      <4>2. thr[q].msg \in Range(rows'[i])
        BY <4>1 DEF Range
      <4> QED
        BY <2>1, <2>2, <2>3, <4>2 DEF AloneOK, InRows
    <3>2. CASE thr[q].hit # 0
      <4>1. thr[q].hit \in DOMAIN rows /\ thr[q].hit \in DOMAIN rows'
        BY <2>6, <3>2, RecordRows
      <4>2. rows'[thr[q].hit] = Longer(q)
        BY <2>6, <3>2, <4>1 DEF Record, Longer, TypeOK
      <4>3. thr[q].msg \in Range(rows'[thr[q].hit])
        BY <2>6, <4>2, InLonger
      <4> QED
        BY <2>1, <2>2, <2>3, <4>1, <4>3 DEF AloneOK, InRows
    <3> QED
      BY <3>1, <3>2
  <2> QED
    BY <1>8, <2>4, <2>5, <2>6
<1>9. ASSUME NEW r \in Threads, Acts(r)
      PROVE  AloneOK(q)'
  BY <1>3, <1>5, <1>6, <1>7, <1>8, <1>9 DEF Acts, Handle
<1> QED
  BY <1>1, <1>9, Steps
     DEF vars, Load, Connected, Subscribed, Lose, Send, Deliver

LEMMA EndsKept ==
  ASSUME TypeOK, AloneInv, [Next]_vars, NEW r \in Threads, NEW m \in Msgs,
         EndsAlone(r, m), Author[m] = Other
  PROVE  \E i \in DOMAIN rows' : Kept(m, i)'
<1>1. ~At(r, "idle") /\ AloneOK(r) /\ thr[r].pc = "save" /\ thr[r].msg = m
  BY DEF EndsAlone, At, AloneInv
<1>2. PICK i \in DOMAIN rows : m \in Range(rows[i])
  BY <1>1 DEF AloneOK, InRows
<1>3. thr[r].copy = <<>>
  BY <1>1 DEF AloneOK
<1>4. Save(r)
  <2>1. \E q \in Threads : Save(q)
    BY Steps DEF EndsAlone, vars, history, Load, Connected, Subscribed, Lose, Send, Deliver,
       Acts, Handle, LoadTrade, Stop, Take, Echo, Find, Record, Push
  <2> QED
    BY <1>1, <2>1 DEF AloneOK, Save, At
<1>5. i \in DOMAIN rows' /\ rows'[i] = rows[i]
  BY <1>3, <1>4, SaveRows
<1>6. \A q \in Threads : thr'[q].pc = "idle"
  BY <1>1, <1>4, AfterGo DEF Save, AloneOK, At, Idle
<1> QED
  BY <1>2, <1>5, <1>6 DEF Kept, At

\* A message of the other party, handled with nothing else running, is in the
\* conversation for good when its handling ends; the same is false of the advertiser.
THEOREM OtherMessagesKept == Spec => OtherIsKept
<1>1. Init => AloneInv
  BY DEF Init, AloneInv, At, Idle
<1>2. TypeOK /\ AloneInv /\ [Next]_vars => AloneInv'
  BY NextAlone DEF AloneInv
<1>3. TypeOK /\ AloneInv /\ [Next]_vars =>
        [\A r \in Threads, m \in Msgs :
           EndsAlone(r, m) /\ Author[m] = Other => (\E i \in DOMAIN rows : Kept(m, i))']_vars
  BY EndsKept
<1> QED
  BY <1>1, <1>2, <1>3, ChatTypes, PTL DEF Spec, OtherIsKept
=============================================================================
