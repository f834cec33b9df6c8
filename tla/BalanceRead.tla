---------------------------- MODULE BalanceRead ----------------------------
(***************************************************************************)
(* How ServiceUtil reads the balance of a user: eight sums, each a query   *)
(* in a transaction of its own, while requests and listeners move coins.   *)
(* TradeRequests and Wallet read the balance in one step; this module says *)
(* how far from it the answer may be.                                      *)
(*                                                                         *)
(* The tables are reduced to what the queries return, and the rows of the  *)
(* user's own sales to whether they are held, released or emptied.         *)
(***************************************************************************)
EXTENDS Integers

CONSTANTS
  Sales,     \* escrow rows whose seller is the user
  Amount,    \* their amounts
  Fee,       \* and commissions
  Parts,     \* amounts in which other coins come and go
  MaxMoves   \* bound on how often other coins come or go

ASSUME SalesAssumption ==
  /\ Amount \in [Sales -> Nat]
  /\ Fee \in [Sales -> Nat]
  /\ Parts \subseteq Nat
  /\ MaxMoves \in Nat

VARIABLES
  sums,      \* what each query would return now
  sale,      \* the row of each sale
  moves,     \* how often other coins came or went
  got,       \* what the queries so far have returned
  method,    \* which method is reading, or how the last reading ended
  answer,    \* what the last reading returned
  start,     \* history: the balance when the reading began,
  gained,    \* what was added to it during the reading,
  spent,     \* what was taken from it,
  moved      \* and the coins released between the query of those released and that
             \* of those held

tables == <<sums, sale, moves>>
history == <<start, gained, spent, moved>>
vars == <<tables, got, method, answer, history>>

\* The queries by what they sum: escrow rows released to the user, released by the
\* user, held, and the commission on those; deposits and what was sent away; internal
\* transfers to and from the user.
Queries == {"bought", "sold", "held", "fee", "deposits", "sent", "credit", "debit"}

Credits == {"bought", "deposits", "credit"}
Debits == {"sent", "debit"}

\* Mutants: what is held is read before what is released, or not right after it.
OrderHeldFirst ==
  [m \in {"getCurrentUserBalance", "getUserBalance"} |->
     <<"bought", "held", "sold", "fee", "deposits", "sent", "credit", "debit">>]

OrderHeldLater ==
  [m \in {"getCurrentUserBalance", "getUserBalance"} |->
     <<"bought", "sold", "deposits", "held", "fee", "sent", "credit", "debit">>]

\* The order of the queries in the two methods.
Order == [getCurrentUserBalance |->
            <<"bought", "sold", "held", "fee", "deposits", "sent", "credit", "debit">>,
          getUserBalance |->
            <<"bought", "sold", "held", "deposits", "fee", "sent", "credit", "debit">>]

Methods == DOMAIN Order

Returned == "returned"
Failed == "failed"

Reading == method \in Methods

Nothing == [q \in {} |-> 0]

\* finalBalance
Total(f) ==
  f["bought"] + f["deposits"] - f["sold"] - f["sent"] - f["held"] - f["fee"]
    + f["credit"] - f["debit"]

---------------------------------------------------------------------------
(* The reader *)

Begin(m) ==
  /\ ~Reading
  /\ method' = m
  /\ got' = Nothing
  /\ start' = Total(sums)
  /\ gained' = 0 /\ spent' = 0 /\ moved' = 0
  /\ answer' = 0
  /\ UNCHANGED tables

Earlier(i) == {Order[method][j] : j \in 1 .. i - 1}

\* Mutant: what a query returns replaces what the others have returned.
QueryAlone(i) ==
  /\ Reading
  /\ DOMAIN got = Earlier(i)
  /\ got' = [q \in {Order[method][i]} |-> sums[q]]
  /\ UNCHANGED <<tables, method, answer, history>>

Query(i) ==
  /\ Reading
  /\ DOMAIN got = Earlier(i)
  /\ got' = [q \in Earlier(i + 1) |-> IF q \in DOMAIN got THEN got[q] ELSE sums[q]]
  /\ UNCHANGED <<tables, method, answer, history>>

Return ==
  /\ Reading
  /\ DOMAIN got = Queries
  /\ answer' = Total(got)
  /\ method' = Returned
  /\ got' = Nothing
  /\ UNCHANGED <<tables, history>>

\* A query that fails makes both methods answer 0.
Fail ==
  /\ Reading
  /\ answer' = 0
  /\ method' = Failed
  /\ got' = Nothing
  /\ UNCHANGED <<tables, history>>

---------------------------------------------------------------------------
(* Those who move coins meanwhile *)

\* What a step adds to the history of the reading, if there is one.
Noted(x) == IF Reading THEN x ELSE 0

\* The user's row may be in neither sum: released after the query of those released,
\* and before that of those held, which comes next.
BetweenQueries == DOMAIN got = {"bought", "sold"}

\* escrowBitcoins
Hold(s) ==
  /\ sale[s] = "none"
  /\ sale' = [sale EXCEPT ![s] = "held"]
  /\ sums' = [sums EXCEPT !["held"] = @ + Amount[s], !["fee"] = @ + Fee[s]]
  /\ spent' = spent + Noted(Amount[s] + Fee[s])
  /\ UNCHANGED <<moves, got, method, answer, start, gained, moved>>

\* releaseBitcoins: the commission is not among the sums any more.
Release(s) ==
  /\ sale[s] = "held"
  /\ sale' = [sale EXCEPT ![s] = "released"]
  /\ sums' = [sums EXCEPT !["held"] = @ - Amount[s], !["fee"] = @ - Fee[s],
                          !["sold"] = @ + Amount[s]]
  /\ moved' = moved + (IF BetweenQueries THEN Noted(Amount[s]) ELSE 0)
  /\ gained' = gained + Noted(Fee[s])
  /\ UNCHANGED <<moves, got, method, answer, start, spent>>

\* unEscrowBitcoins
Empty(s) ==
  /\ sale[s] = "held"
  /\ sale' = [sale EXCEPT ![s] = "emptied"]
  /\ sums' = [sums EXCEPT !["held"] = @ - Amount[s], !["fee"] = @ - Fee[s]]
  /\ gained' = gained + Noted(Amount[s] + Fee[s])
  /\ UNCHANGED <<moves, got, method, answer, start, spent, moved>>

\* A row released by another seller, a deposit, or an internal transfer to the user.
Receive(q, x) ==
  /\ moves < MaxMoves
  /\ moves' = moves + 1
  /\ sums' = [sums EXCEPT ![q] = @ + x]
  /\ gained' = gained + Noted(x)
  /\ UNCHANGED <<sale, got, method, answer, start, spent, moved>>

\* An external or internal transfer of the user.
Spend(q, x) ==
  /\ moves < MaxMoves
  /\ moves' = moves + 1
  /\ sums' = [sums EXCEPT ![q] = @ + x]
  /\ spent' = spent + Noted(x)
  /\ UNCHANGED <<sale, got, method, answer, start, gained, moved>>

---------------------------------------------------------------------------

Init ==
  /\ sums = [q \in Queries |-> 0]
  /\ sale = [s \in Sales |-> "none"]
  /\ moves = 0
  /\ got = Nothing
  /\ method = Returned
  /\ answer = 0
  /\ start = 0 /\ gained = 0 /\ spent = 0 /\ moved = 0

Next ==
  \/ \E m \in Methods : Begin(m)
  \/ \E i \in 1 .. 8 : Query(i)
  \/ Return \/ Fail
  \/ \E s \in Sales : Hold(s) \/ Release(s) \/ Empty(s)
  \/ \E x \in Parts : (\E q \in Credits : Receive(q, x)) \/ (\E q \in Debits : Spend(q, x))

Spec == Init /\ [][Next]_vars

---------------------------------------------------------------------------

\* The types: what is known of a reading, and that its queries come in order.
TypeOK ==
  /\ sums \in [Queries -> Int]
  /\ sale \in [Sales -> {"none", "held", "released", "emptied"}]
  /\ moves \in 0 .. MaxMoves
  /\ method \in Methods \union {Returned, Failed}
  /\ \E done \in SUBSET Queries : got \in [done -> Int]
  /\ Reading => \E i \in 1 .. 9 : DOMAIN got = Earlier(i)
  /\ answer \in Int /\ start \in Int
  /\ gained \in Nat /\ spent \in Nat /\ moved \in Nat

\* Whatever moves during the eight queries, the answer is not less than what the user
\* had at their beginning without what was spent since: nothing is deducted twice, and
\* no request is refused for coins the user has had all along.
NeverTooLittle == method = Returned => answer >= start - spent

\* The answer exceeds what the user had, with all that came in since, by the coins
\* released between the second query and the third at most.
NeverTooMuch == method = Returned => answer <= start + gained + moved

===========================================================================
