--------------------------- MODULE BalanceProofs ---------------------------
(***************************************************************************)
(* How far a balance read in eight queries may be from what the user has,  *)
(* for any sales, amounts and commissions.                                 *)
(***************************************************************************)
EXTENDS BalanceRead, TLAPS

\* What the answer would be if the queries that are left all ran now.
Value(q) == IF q \in DOMAIN got THEN got[q] ELSE sums[q]

Outlook ==
  Value("bought") + Value("deposits") - Value("sold") - Value("sent") - Value("held")
    - Value("fee") + Value("credit") - Value("debit")

\* Of the coins that may be moved from one sum to another, those released are asked
\* for first, and those held right after.
InOrder ==
  /\ "held" \in DOMAIN got => "sold" \in DOMAIN got
  /\ "sold" \in DOMAIN got /\ "held" \notin DOMAIN got => BetweenQueries

ReadInv ==
  /\ Reading => /\ Outlook >= start - spent
                /\ Outlook <= start + gained + moved
  /\ NeverTooLittle
  /\ NeverTooMuch

---------------------------------------------------------------------------
(* The order of the queries *)

LEMMA OrderIs ==
  ASSUME NEW m \in Methods
  PROVE  /\ Order[m] \in [1 .. 8 -> Queries]
         /\ Order[m][1] = "bought" /\ Order[m][2] = "sold" /\ Order[m][3] = "held"
         /\ \A j \in 4 .. 8 : Order[m][j] \notin {"bought", "sold", "held"}
         /\ Queries = {Order[m][j] : j \in 1 .. 8}
<1>1. m = "getCurrentUserBalance" \/ m = "getUserBalance"
  BY DEF Methods, Order
<1>2. CASE m = "getCurrentUserBalance"
  <2>1. Order[m] = <<"bought", "sold", "held", "fee", "deposits", "sent", "credit", "debit">>
    BY <1>2 DEF Order
  <2> QED
    BY <2>1 DEF Queries
<1>3. CASE m = "getUserBalance"
  <2>1. Order[m] = <<"bought", "sold", "held", "deposits", "fee", "sent", "credit", "debit">>
    BY <1>3 DEF Order
  <2> QED
    BY <2>1 DEF Queries
<1> QED
  BY <1>1, <1>2, <1>3

\* What holds of the queries made so far, however many they are.
LEMMA PrefixInOrder ==
  ASSUME Reading, NEW i \in 1 .. 9, DOMAIN got = Earlier(i)
  PROVE  InOrder
<1> DEFINE o == Order[method]
<1>1. /\ o[1] = "bought" /\ o[2] = "sold" /\ o[3] = "held"
      /\ \A j \in 4 .. 8 : o[j] \notin {"bought", "sold", "held"}
  BY OrderIs DEF Reading
<1>2. DOMAIN got = {o[j] : j \in 1 .. i - 1}
  BY DEF Earlier
<1> HIDE DEF o
<1>3. "held" \in DOMAIN got => i > 3
  <2> SUFFICES ASSUME NEW j \in 1 .. i - 1, o[j] = "held"
               PROVE  i > 3
    BY <1>2
  <2>1. j # 1 /\ j # 2
    BY <1>1
  <2> QED
    BY <2>1
<1>4. "sold" \in DOMAIN got => i > 2
  <2> SUFFICES ASSUME NEW j \in 1 .. i - 1, o[j] = "sold"
               PROVE  i > 2
    BY <1>2
  <2>1. j # 1
    BY <1>1
  <2> QED
    BY <2>1
<1>5. i > 2 => "sold" \in DOMAIN got
  BY <1>1, <1>2
<1>6. i > 3 => "held" \in DOMAIN got
  BY <1>1, <1>2
<1>7. i = 3 => DOMAIN got = {"bought", "sold"}
  BY <1>1, <1>2
<1> QED
  BY <1>3, <1>4, <1>5, <1>6, <1>7 DEF InOrder, BetweenQueries

\* After the eighth query all are made, and one more is made at each step before.
LEMMA QueryAdds ==
  ASSUME Reading, NEW i \in 1 .. 8
  PROVE  /\ Order[method][i] \in Queries
         /\ Earlier(i + 1) = Earlier(i) \union {Order[method][i]}
         /\ Earlier(1) = {}
         /\ Earlier(i) \subseteq Queries
<1> DEFINE o == Order[method]
<1>1. o \in [1 .. 8 -> Queries]
  BY OrderIs DEF Reading
<1> HIDE DEF o
<1>2. 1 .. (i + 1) - 1 = (1 .. i - 1) \union {i}
  OBVIOUS
<1>3. {o[j] : j \in 1 .. (i + 1) - 1} = {o[j] : j \in 1 .. i - 1} \union {o[i]}
  BY <1>2
<1>4. {o[j] : j \in 1 .. i - 1} \subseteq Queries /\ {o[j] : j \in 1 .. 1 - 1} = {}
  BY <1>1
<1> QED
  BY <1>1, <1>3, <1>4 DEF Earlier, o

---------------------------------------------------------------------------
(* Types *)

LEMMA InitType == Init => TypeOK
<1> SUFFICES ASSUME Init
             PROVE  TypeOK
  OBVIOUS
<1>1. \E done \in SUBSET Queries : got \in [done -> Int]
  <2>1. got \in [{} -> Int] /\ {} \in SUBSET Queries
    BY DEF Init, Nothing
  <2> QED
    BY <2>1
<1>2. ~Reading
  BY DEF Init, Reading, Methods, Order, Returned
<1> QED
  BY <1>1, <1>2, SalesAssumption DEF Init, TypeOK

LEMMA TotalType ==
  ASSUME NEW f \in [Queries -> Int]
  PROVE  Total(f) \in Int
BY DEF Total, Queries

LEMMA BeginType ==
  ASSUME TypeOK, NEW m \in Methods, Begin(m)
  PROVE  TypeOK'
<1>1. got' \in [{} -> Int] /\ {} \in SUBSET Queries
  BY DEF Begin, Nothing
<1>2. Earlier(1)' = {} /\ DOMAIN got' = {} /\ 1 \in 1 .. 9
  BY <1>1 DEF Earlier
<1>3. start' \in Int
  BY TotalType DEF TypeOK, Begin
<1>4. \E done \in SUBSET Queries : got' \in [done -> Int]
  BY <1>1
<1>5. \E i \in 1 .. 9 : DOMAIN got' = Earlier(i)'
  BY <1>2
<1> QED
  BY <1>3, <1>4, <1>5 DEF TypeOK, Begin, tables

LEMMA QueryType ==
  ASSUME TypeOK, NEW i \in 1 .. 8, Query(i)
  PROVE  TypeOK'
<1>1. PICK done \in SUBSET Queries : got \in [done -> Int]
  BY DEF TypeOK
<1>2. /\ Earlier(i + 1) \subseteq Queries
      /\ Earlier(i + 1)' = Earlier(i + 1)
  BY QueryAdds DEF Query, Earlier
<1>3. got' \in [Earlier(i + 1) -> Int]
  BY <1>1, <1>2 DEF Query, TypeOK
<1>4. DOMAIN got' = Earlier(i + 1)' /\ i + 1 \in 1 .. 9
  BY <1>2, <1>3
<1>5. \E past \in SUBSET Queries : got' \in [past -> Int]
  BY <1>2, <1>3
<1> QED
  BY <1>4, <1>5 DEF TypeOK, Query, tables, history

LEMMA EndType ==
  ASSUME TypeOK, Return \/ Fail
  PROVE  TypeOK'
<1>1. got' \in [{} -> Int] /\ {} \in SUBSET Queries
  BY DEF Return, Fail, Nothing
<1>2. ~Reading' /\ method' \in {Returned, Failed}
  BY DEF Return, Fail, Reading, Methods, Order, Returned, Failed
<1>3. answer' \in Int
  <2>1. CASE Return
    <3>1. got \in [Queries -> Int]
      BY <2>1 DEF TypeOK, Return
    <3> QED
      BY <2>1, <3>1, TotalType DEF Return
  <2>2. CASE Fail
    BY <2>2 DEF Fail
  <2> QED
    BY <2>1, <2>2
<1> QED
  BY <1>1, <1>2, <1>3 DEF TypeOK, Return, Fail, tables, history

\* Those who move coins leave the reader alone.
LEMMA MoveType ==
  ASSUME TypeOK, UNCHANGED <<got, method, answer, start>>,
         sums' \in [Queries -> Int],
         sale' \in [Sales -> {"none", "held", "released", "emptied"}],
         moves' \in 0 .. MaxMoves,
         gained' \in Nat, spent' \in Nat, moved' \in Nat
  PROVE  TypeOK'
<1>1. Reading' = Reading /\ \A i \in 1 .. 9 : Earlier(i)' = Earlier(i)
  BY DEF Reading, Earlier
<1> QED
  BY <1>1 DEF TypeOK

LEMMA SaleType ==
  ASSUME TypeOK, NEW s \in Sales, Hold(s) \/ Release(s) \/ Empty(s)
  PROVE  TypeOK'
<1>1. Amount[s] \in Nat /\ Fee[s] \in Nat
  BY SalesAssumption
<1>2. /\ Noted(Amount[s] + Fee[s]) \in Nat
      /\ Noted(Amount[s]) \in Nat /\ Noted(Fee[s]) \in Nat
  BY <1>1 DEF Noted
<1>3. sums \in [Queries -> Int] /\ {"held", "fee", "sold"} \subseteq Queries
  BY DEF TypeOK, Queries
<1>4. CASE Hold(s)
  BY <1>1, <1>2, <1>3, <1>4, MoveType DEF Hold, TypeOK
<1>5. CASE Release(s)
  BY <1>1, <1>2, <1>3, <1>5, MoveType DEF Release, TypeOK
<1>6. CASE Empty(s)
  BY <1>1, <1>2, <1>3, <1>6, MoveType DEF Empty, TypeOK
<1> QED
  BY <1>4, <1>5, <1>6

LEMMA OtherType ==
  ASSUME TypeOK, NEW x \in Parts, NEW q \in Credits \union Debits, Receive(q, x) \/ Spend(q, x)
  PROVE  TypeOK'
<1>1. x \in Nat /\ Noted(x) \in Nat /\ q \in Queries /\ MaxMoves \in Nat
  BY SalesAssumption DEF Noted, Credits, Debits, Queries
<1>2. moves' \in 0 .. MaxMoves
  BY <1>1 DEF Receive, Spend, TypeOK
<1>3. CASE Receive(q, x)
  BY <1>1, <1>2, <1>3, MoveType DEF Receive, TypeOK
<1>4. CASE Spend(q, x)
  BY <1>1, <1>2, <1>4, MoveType DEF Spend, TypeOK
<1> QED
  BY <1>3, <1>4

LEMMA TypeStep == TypeOK /\ [Next]_vars => TypeOK'
<1> SUFFICES ASSUME TypeOK, [Next]_vars
             PROVE  TypeOK'
  OBVIOUS
<1>1. ASSUME NEW m \in Methods, Begin(m) PROVE TypeOK'
  BY <1>1, BeginType
<1>2. ASSUME NEW i \in 1 .. 8, Query(i) PROVE TypeOK'
  BY <1>2, QueryType
<1>3. CASE Return \/ Fail
  BY <1>3, EndType
<1>4. ASSUME NEW s \in Sales, Hold(s) \/ Release(s) \/ Empty(s) PROVE TypeOK'
  BY <1>4, SaleType
<1>5. ASSUME NEW x \in Parts, NEW q \in Credits, Receive(q, x) PROVE TypeOK'
  BY <1>5, OtherType
<1>6. ASSUME NEW x \in Parts, NEW q \in Debits, Spend(q, x) PROVE TypeOK'
  BY <1>6, OtherType
<1>7. CASE UNCHANGED vars
  BY <1>7 DEF vars, tables, history, TypeOK, Reading, Earlier
<1> QED
  BY <1>1, <1>2, <1>3, <1>4, <1>5, <1>6, <1>7 DEF Next

\* The state of a reading keeps its types, and its queries come in the order of the
\* method, whatever moves meanwhile.
THEOREM BalanceTypes == Spec => []TypeOK
BY InitType, TypeStep, PTL DEF Spec

---------------------------------------------------------------------------
(* How far the answer may be off *)

LEMMA InOrderNow ==
  ASSUME TypeOK, Reading
  PROVE  InOrder
BY PrefixInOrder DEF TypeOK

LEMMA ValueType ==
  ASSUME TypeOK
  PROVE  \A q \in Queries : Value(q) \in Int
BY DEF TypeOK, Value

LEMMA BeginBound ==
  ASSUME TypeOK, NEW m \in Methods, Begin(m)
  PROVE  ReadInv'
<1>1. \A q \in Queries : Value(q)' = sums[q]
  BY DEF Begin, Nothing, Value, tables
<1>2. Outlook' = start'
  BY <1>1 DEF Outlook, Total, Begin, Queries
<1>3. start' \in Int /\ gained' = 0 /\ spent' = 0 /\ moved' = 0
  BY TotalType DEF TypeOK, Begin
<1>4. Outlook' >= start' - spent' /\ Outlook' <= start' + gained' + moved'
  <2>1. \A b \in Int : b >= b - 0 /\ b <= b + 0 + 0
    OBVIOUS
  <2>2. start' >= start' - 0 /\ start' <= start' + 0 + 0
    BY <1>3, <2>1
  <2> QED
    BY <1>2, <1>3, <2>2, Zenon
<1>5. method' # Returned
  BY DEF Begin, Methods, Order, Returned
<1> QED
  BY <1>4, <1>5 DEF ReadInv, NeverTooLittle, NeverTooMuch

LEMMA QueryBound ==
  ASSUME TypeOK, ReadInv, NEW i \in 1 .. 8, Query(i)
  PROVE  ReadInv'
<1>1. \A q \in Queries : Value(q)' = Value(q)
  BY QueryAdds DEF Query, Value, tables
<1>2. Outlook' = Outlook
  BY <1>1 DEF Outlook, Queries
<1> QED
  BY <1>2 DEF Query, history, ReadInv, Reading, NeverTooLittle, NeverTooMuch

LEMMA EndBound ==
  ASSUME TypeOK, ReadInv, Return \/ Fail
  PROVE  ReadInv'
<1>1. ~Reading'
  BY DEF Return, Fail, Reading, Methods, Order, Returned, Failed
<1>2. CASE Return
  <2>1. \A q \in Queries : Value(q) = got[q]
    BY <1>2 DEF Return, Value
  <2>2. answer' = Outlook
    BY <1>2, <2>1 DEF Return, Total, Outlook, Queries
  <2> QED
    BY <1>1, <1>2, <2>2 DEF Return, history, ReadInv, NeverTooLittle, NeverTooMuch
<1>3. CASE Fail
  BY <1>1, <1>3 DEF Fail, ReadInv, NeverTooLittle, NeverTooMuch, Returned, Failed
<1> QED
  BY <1>2, <1>3

\* Between two readings the answer stays as it is, and the history with it.
LEMMA MoveBound ==
  ASSUME TypeOK, ReadInv, UNCHANGED <<got, method, answer, start>>,
         NEW x \in Int, NEW y \in Nat, NEW z \in Nat, NEW k \in Nat,
         Reading => /\ Outlook' = Outlook + x
                    /\ -z <= x /\ x <= y + k,
         gained' = gained + Noted(y), spent' = spent + Noted(z), moved' = moved + Noted(k)
  PROVE  ReadInv'
<1>1. CASE Reading
  <2>1. gained' = gained + y /\ spent' = spent + z /\ moved' = moved + k
    BY <1>1 DEF Noted
  <2>2. /\ Outlook \in Int /\ start \in Int
        /\ gained \in Nat /\ spent \in Nat /\ moved \in Nat
    BY ValueType DEF Outlook, Queries, TypeOK
  <2>3. Outlook >= start - spent /\ Outlook <= start + gained + moved
    BY <1>1 DEF ReadInv
  <2>4. Outlook' >= start' - spent' /\ Outlook' <= start' + gained' + moved'
    BY <1>1, <2>1, <2>2, <2>3
  <2>5. method' # Returned
    BY <1>1 DEF Reading, Methods, Order, Returned
  <2> QED
    BY <2>4, <2>5 DEF ReadInv, NeverTooLittle, NeverTooMuch
<1>2. CASE ~Reading
  <2>1. ~Reading' /\ gained' = gained /\ spent' = spent /\ moved' = moved
    BY <1>2 DEF Reading, Noted, TypeOK
  <2> QED
    BY <2>1 DEF ReadInv, NeverTooLittle, NeverTooMuch
<1> QED
  BY <1>1, <1>2

LEMMA SaleBound ==
  ASSUME TypeOK, ReadInv, NEW s \in Sales, Hold(s) \/ Release(s) \/ Empty(s)
  PROVE  ReadInv'
<1> DEFINE a == Amount[s]
           f == Fee[s]
           Unread(q, n) == IF q \in DOMAIN got THEN 0 ELSE n
<1>1. a \in Nat /\ f \in Nat
  BY SalesAssumption
<1>2. sums \in [Queries -> Int] /\ \A q \in Queries : Value(q) \in Int
  BY ValueType DEF TypeOK
<1>3. /\ Noted(0) = 0 /\ a + f \in Nat
      /\ gained \in Nat /\ spent \in Nat /\ moved \in Nat
  BY <1>1 DEF Noted, TypeOK
<1>4. CASE Hold(s)
  <2>1. /\ Value("held")' = Value("held") + Unread("held", a)
        /\ Value("fee")' = Value("fee") + Unread("fee", f)
        /\ \A q \in Queries \ {"held", "fee"} : Value(q)' = Value(q)
    BY <1>1, <1>2, <1>4 DEF Hold, Value, Queries
  <2> DEFINE x == -(Unread("held", a) + Unread("fee", f))
  <2>2. Outlook' = Outlook + x
    BY <1>1, <1>2, <2>1 DEF Outlook, Queries
  <2>3. x \in Int /\ -(a + f) <= x /\ x <= 0 + 0
    BY <1>1
  <2> HIDE DEF x
  <2>4. /\ UNCHANGED <<got, method, answer, start>>
        /\ gained' = gained + Noted(0) /\ spent' = spent + Noted(a + f) /\ moved' = moved + Noted(0)
    BY <1>3, <1>4 DEF Hold
  <2> HIDE DEF a, f
  <2> QED
    BY <1>3, <2>2, <2>3, <2>4, MoveBound
<1>5. CASE Empty(s)
  <2>1. /\ Value("held")' = Value("held") - Unread("held", a)
        /\ Value("fee")' = Value("fee") - Unread("fee", f)
        /\ \A q \in Queries \ {"held", "fee"} : Value(q)' = Value(q)
    BY <1>1, <1>2, <1>5 DEF Empty, Value, Queries
  <2> DEFINE x == Unread("held", a) + Unread("fee", f)
  <2>2. Outlook' = Outlook + x
    BY <1>1, <1>2, <2>1 DEF Outlook, Queries
  <2>3. x \in Int /\ -0 <= x /\ x <= (a + f) + 0
    BY <1>1
  <2> HIDE DEF x
  <2>4. /\ UNCHANGED <<got, method, answer, start>>
        /\ gained' = gained + Noted(a + f) /\ spent' = spent + Noted(0) /\ moved' = moved + Noted(0)
    BY <1>3, <1>5 DEF Empty
  <2> HIDE DEF a, f
  <2> QED
    BY <1>3, <2>2, <2>3, <2>4, MoveBound
<1>6. CASE Release(s)
  <2>1. /\ Value("held")' = Value("held") - Unread("held", a)
        /\ Value("fee")' = Value("fee") - Unread("fee", f)
        /\ Value("sold")' = Value("sold") + Unread("sold", a)
        /\ \A q \in Queries \ {"held", "fee", "sold"} : Value(q)' = Value(q)
    BY <1>1, <1>2, <1>6 DEF Release, Value, Queries
  <2> DEFINE x == (Unread("held", a) + Unread("fee", f)) - Unread("sold", a)
             k == IF BetweenQueries THEN a ELSE 0
  <2>2. Outlook' = Outlook + x
    BY <1>1, <1>2, <2>1 DEF Outlook, Queries
  <2>3. x \in Int /\ k \in Nat /\ (Reading => -0 <= x /\ x <= f + k)
    BY <1>1, InOrderNow DEF InOrder
  <2>4. /\ UNCHANGED <<got, method, answer, start>>
        /\ gained' = gained + Noted(f) /\ spent' = spent + Noted(0) /\ moved' = moved + Noted(k)
    BY <1>3, <1>6 DEF Release, Noted
  <2> HIDE DEF x, k, a, f
  <2> QED
    BY <1>1, <1>3, <2>2, <2>3, <2>4, MoveBound
<1> QED
  BY <1>4, <1>5, <1>6

LEMMA OtherBound ==
  ASSUME TypeOK, ReadInv, NEW x \in Parts, NEW q \in Queries,
         \/ q \in Credits /\ Receive(q, x)
         \/ q \in Debits /\ Spend(q, x)
  PROVE  ReadInv'
<1> DEFINE d == IF q \in DOMAIN got THEN 0 ELSE x
<1>1. x \in Nat /\ d \in Nat /\ d <= x
  BY SalesAssumption
<1>2. sums \in [Queries -> Int] /\ \A p \in Queries : Value(p) \in Int
  BY ValueType DEF TypeOK
<1>3. /\ Noted(0) = 0 /\ 0 - d \in Int
      /\ gained \in Nat /\ spent \in Nat /\ moved \in Nat
  BY <1>1 DEF Noted, TypeOK
<1>4. UNCHANGED <<got, method, answer, start>> /\ sums' = [sums EXCEPT ![q] = @ + x]
  BY DEF Receive, Spend
<1>5. Value(q)' = Value(q) + d /\ \A p \in Queries \ {q} : Value(p)' = Value(p)
  BY <1>1, <1>2, <1>4 DEF Value
<1> HIDE DEF d
<1>6. CASE q \in Credits /\ Receive(q, x)
  <2>1. Outlook' = Outlook + d
    BY <1>1, <1>2, <1>5, <1>6 DEF Outlook, Queries, Credits
  <2>2. gained' = gained + Noted(x) /\ spent' = spent + Noted(0) /\ moved' = moved + Noted(0)
    BY <1>3, <1>6 DEF Receive
  <2>3. d \in Int /\ -0 <= d /\ d <= x + 0
    BY <1>1
  <2> QED
    BY <1>1, <1>4, <2>1, <2>2, <2>3, MoveBound
<1>7. CASE q \in Debits /\ Spend(q, x)
  <2>1. Outlook' = Outlook + (0 - d)
    BY <1>1, <1>2, <1>5, <1>7 DEF Outlook, Queries, Debits
  <2>2. gained' = gained + Noted(0) /\ spent' = spent + Noted(x) /\ moved' = moved + Noted(0)
    BY <1>3, <1>7 DEF Spend
  <2>3. 0 - d \in Int /\ -x <= 0 - d /\ 0 - d <= 0 + 0
    BY <1>1
  <2> QED
    BY <1>1, <1>4, <2>1, <2>2, <2>3, MoveBound
<1> QED
  BY <1>6, <1>7

LEMMA BoundStep == TypeOK /\ ReadInv /\ [Next]_vars => ReadInv'
<1> SUFFICES ASSUME TypeOK, ReadInv, [Next]_vars
             PROVE  ReadInv'
  OBVIOUS
<1>1. ASSUME NEW m \in Methods, Begin(m) PROVE ReadInv'
  BY <1>1, BeginBound
<1>2. ASSUME NEW i \in 1 .. 8, Query(i) PROVE ReadInv'
  BY <1>2, QueryBound
<1>3. CASE Return \/ Fail
  BY <1>3, EndBound
<1>4. ASSUME NEW s \in Sales, Hold(s) \/ Release(s) \/ Empty(s) PROVE ReadInv'
  BY <1>4, SaleBound
<1>5. ASSUME NEW x \in Parts, NEW q \in Credits, Receive(q, x) PROVE ReadInv'
  <2>1. q \in Queries
    BY DEF Credits, Queries
  <2> QED
    BY <1>5, <2>1, OtherBound
<1>6. ASSUME NEW x \in Parts, NEW q \in Debits, Spend(q, x) PROVE ReadInv'
  <2>1. q \in Queries
    BY DEF Debits, Queries
  <2> QED
    BY <1>6, <2>1, OtherBound
<1>7. CASE UNCHANGED vars
  <2>1. Outlook' = Outlook
    BY <1>7 DEF vars, tables, Outlook, Value
  <2> QED
    BY <1>7, <2>1 DEF vars, history, ReadInv, Reading, NeverTooLittle, NeverTooMuch
<1> QED
  BY <1>1, <1>2, <1>3, <1>4, <1>5, <1>6, <1>7 DEF Next

LEMMA InitBound == Init => ReadInv
<1> SUFFICES ASSUME Init
             PROVE  ReadInv
  OBVIOUS
<1>1. ~Reading
  BY DEF Init, Reading, Methods, Order, Returned
<1> QED
  BY <1>1 DEF Init, ReadInv, NeverTooLittle, NeverTooMuch

\* Whatever moves during the eight queries, a balance is never read as less than what
\* the user had at their beginning without what was spent since.
THEOREM NothingDeductedTwice == Spec => []NeverTooLittle
BY InitType, TypeStep, InitBound, BoundStep, PTL DEF Spec, ReadInv

\* And never as more than that with all that came in since, but for the coins released
\* between the query of those released and the query of those held.
THEOREM ExcessIsBounded == Spec => []NeverTooMuch
BY InitType, TypeStep, InitBound, BoundStep, PTL DEF Spec, ReadInv

===========================================================================
