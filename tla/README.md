# A TLA+ model of Crypkart

Crypkart ("CoinMart") is a site where people buy and sell bitcoins from each
other. Sellers and buyers place advertisements, others answer them with trades,
and the site keeps the seller's coins in escrow while the buyer pays outside of
it. It is a Java web application: Spring MVC and Hibernate over one relational
database, with message queues to a separate wallet application that holds the
coins. Its own code is under `src/src/main/java/com/gradle` (292 Java files,
26,000 lines); below, paths are relative to that directory.

## How the program runs

Everything hard about the program follows from four facts.

* A request is one servlet thread. Any number run at a time, and the same user
  may have several (two tabs, a double click).
* **Every call to a service is a database transaction of its own.** The services
  are `@Transactional`, the controllers are not, so a request is a sequence of
  transactions, and what it loaded in one is a *detached copy* in the next.
* **Nothing is locked.** No entity has a `@Version`, no query locks a row, and
  `saveOrUpdate` writes every column of the copy. `Trade.escrowSet` cascades, so
  saving a trade also writes the escrow rows its copy carries.
* A request may end between two transactions: by an exception, or by a restart.
  What was committed stays, and nothing resumes the rest.

The queues are consumed by `@JmsListener` methods, one consumer for each queue.
The configuration of the container is not in the repository; the models
let a listener that stops on the way either lose its message or be given it again.

## Inventory

| component | state | operations | talks to |
|---|---|---|---|
| Trade status and escrow | `trade_master`, `bitcoin_escrow` | `TradeController.tradeStatusChange` with `TradeProcess` and `escrowBitcoins`, `releaseBitcoins`, `unEscrowBitcoins` of `ServiceUtil`; `inlineAdvertiseEdit` | balances, advertisements, users |
| Wallet and coin queues | `direct_transactions`, `internal_transfer`, `user_wallets`, five queues | internal and external transfer (`WalletController`), the three listeners of `MessageReceiver`, `getCurrentUserWallet` | the wallet application, balances |
| Balance queries | none of its own | `getCurrentUserBalance`, `getUserBalance`: eight sums | all tables with coins |
| Trade creation and advertisements | `advertisement_master`, `trade_master` | `editAdvertise`, `createAdvertise`, `toggleAdvertiseStatus`, `deleteAdvertise`, `createTrade`, the numbering of `ServiceUtil` | balances, configuration |
| Accounts and verification | `user`, tokens, `phone_verification`, sub-users | confirm a registration, reset a password, send and check a one-time code, settings, the edits of administrators and of the parent of a sub-user, trust, feedback | mail, SMS, trades (feedback) |
| Sessions, alerts and notifications | active users, alert lists, attempt cache | log in and out, listeners of the active users | every page |
| Chat and messages | `chat_history`, one row for the conversation of a trade | `ChatController.send`, `userActivityMonitor`, the STOMP client of the page | trades and users, by cascades |
| Forum and pages | topics, posts, pages | inserts and lists | - |
| Administration | configuration rows; writes `user` | edit a value; edit a user, switch him off and on | accounts; its values are read by the others |
| Persistence | - | generic dao and service | every component |
| Web layer and mail | - | filters, ajax, mail | every component |
| Browser libraries | - | third-party scripts of the pages | - |
| Block chain client | demonstration wallet | - | - |

What makes each part hard, and what would make it correct:

* **Trade status and escrow.** Two parties act on one trade from pages that stay
  open. Releasing, cancelling and escrowing overlap, each writes a whole stale
  copy, the time to pay runs out while the buyer declares the payment, and the
  escrow row, the advertisement and the status are saved in three transactions.
  Meanwhile every open page reports that its user is active, which loads the user
  with his advertisements and trades and saves all of them.
  The operation is a plain GET that anyone may send in any status, and a release asks
  for neither. Correct means: status and coins move together; coins are paid once, out
  of the escrow; a settled trade stays settled; nobody overdraws.
* **Wallet.** Deposits are reported by messages that may be repeated or come after
  the address was replaced; the same transaction is reported again with each
  confirmation; an external transfer is a row, a message, and a later answer.
  Correct means: a deposit is credited once and to the right user; coins leave
  the site for a committed row and once; a user has one current address; nobody
  overdraws; a transfer is eventually confirmed.
* **Balance queries.** Eight transactions, so a row that moves between two of
  them is counted twice or not at all. Correct means: the answer is never
  below nor above what the user could have had during the reading.
* **Trade creation and advertisements.** Numbers are read from the last row, twice,
  before the new one is saved; the limit of live advertisements is compared
  before the save, and for the user who asks, whoever owns the row; an edit saves its
  copy twice; a user is saved with all his advertisements. Correct means: numbers are a
  row's own, the limit holds, and what was switched off or hidden stays so.
* **Accounts.** A confirmation gives its user a temporary password for the time of
  one authentication; a code is sent before it is saved; many requests write
  the whole row of a user, administrators and parents from a form that was rendered
  earlier. Correct means: the temporary password does not stay, a code proves what it
  was sent for, and flags are changed by those meant to change them only.
* **Chat.** A conversation is one list in one row, read, appended to and saved by
  several threads; it hangs on the trade, and the trade on the advertiser, so
  their saves write it back. Correct means: messages stay, in the order they were
  sent, and reach the pages that are open.
* **Sessions and alerts.** Fields of beans shared by all requests, a bounded pool.
  Correct means: an alert reaches the user it is for.

The remaining parts are single inserts, lists, pages and mail: nothing in them
depends on an order of steps. `PROJECT.json` lists under `hazards` every place
where the code is exposed, with the property that covers it or the reason none
does.

## Modules

| module | what it is |
|---|---|
| `EscrowContract` | the abstract specification: what the escrow promises the two parties, and (`HistorySpec`) what is left of it when requests overlap |
| `TradeRequests` | the requests that move a trade, one action per transaction |
| `TradeProperties` | what is claimed of `TradeRequests`, and the inductive invariants |
| `TradeProofs` | for any interleaving and any faults: types and the bound on rows, the history invariant and the refinement of `HistorySpec`, a settled trade stays settled |
| `TradeSerialProofs` | for one request at a time: the refinement of `EscrowContract`, one row for a trade, the balances |
| `SumProofs` | what a sum over a finite set is, and how it changes with the set and the amounts |
| `Wallet`, `WalletProperties`, `WalletProofs` | transfers, addresses, listeners, queues, with the wallet application as environment |
| `BalanceRead`, `BalanceProofs` | the eight queries of a balance, one by one, with its properties |
| `Advertisements`, `AdvertisementsProperties`, `AdvertisementsProofs` | advertisements, their limit and flags, and the numbers of advertisements and trades |
| `Chat`, `ChatProperties`, `ChatProofs` | the conversation of a trade, from the page that sends to the page that shows |
| `Accounts`, `AccountsProperties`, `AccountsProofs` | the row of one user and the requests that write it |
| `MCTrade`, `MCWallet`, `MCBalance`, `MCAdvertisements`, `MCChat`, `MCAccounts` | the instances TLC checks |

In all of them an action is one transaction together with the code that runs up
to the next, `req[r]` or `thr[r]` is what thread `r` is doing with its detached
copies, and an operator commented "Mutant" is a slip the code might have had, kept
to show that a property notices it.

### TradeRequests

The variables `trade`, `escrow` and `ad` are the tables, cut down to what the
properties tell apart: a status and a time of escrow; the amount, the commission
and the released flag of each row; the terms (rate and limits together, one of
the set `Terms`) and the hidden flag. `req[r]` holds the program counter of the
thread, its detached copies of the trade, its rows and its
advertisement, and the row the last query found. `seen` is history:
every status the trade has had. The buttons of the pages are not in the model:
`tradeStatusChange` is a GET, so any user may ask for any operation of any trade in
any status, and what keeps him from it is what `TradeProcess` checks.

`Request` loads and turns cancelled trades away; `SendPayment`, `Cancel`,
`Escrow`, `BitcoinReleased` and `BitcoinReceived` are the cases of `TradeProcess`; `EscrowFind` and
`EscrowSave` are the two transactions of `escrowBitcoins`, `ReleaseFind` and
`ReleaseSave` those of `releaseBitcoins`, `UnEscrow` the one of
`unEscrowBitcoins`; `AdSave` and `Save` end the request. `EditRequest` and
`EditSave` are `inlineAdvertiseEdit`, another writer of the advertisement.
`LoadUser` and `SaveUser` are the third: a report of activity or a message of a
user in `Active` loads him with the lists `getUserFromUsernameOrEmail` initialises, his
advertisements and the trades on them with their rows, and the cascades of
`User` write all of it back.

`Balance` sums the rows as `ServiceUtil` does. Deposits and transfers are the
constant `Funds` here; the eight queries are one step. Amounts are whole numbers
(the code keeps them as text and computes with `Double`: the rounding of sums is
not modelled). `Cost[t][x]` stands for amount / rate under the terms `x`, what the
checks compute with, and `Coins[t]` for the `btcAmount` of the creation, what a row
locks: nothing relates the two, since the owner may have set other terms in between.

The faults are constants: `"crash"` ends a request between two transactions,
`"dbError"` makes a transaction inside `ServiceUtil` fail, which its `catch`
blocks turn into an answer (`false`, or a balance of 0) that some callers ignore.

### Wallet

`direct`, `transfers` and `wallets` are the tables and `queue` the five queues.
`consumer[q]` is how far the listener of a queue has got with its message;
`Acknowledge` takes the message off the queue and `StopConsumer` ends the work
half way, the message lost or still there. `given` and `chain` are the outside:
the user each address was given for, and the transactions. The wallet
application is not in the repository. `Allocate`, `Broadcast`, `Deposit` and
`Confirm` are what `MessageReceiver` needs it to do, and are marked external in
the map. Trades are the constant `Start`.

`Visit` stands for every page that asks for an address. Its guard that both
address queues are empty is a bound, not code: visits add requests without end.
A second visit before the first answer is covered by the double request a single
visit may make.

### BalanceRead

What a balance read in one step leaves open: `getCurrentUserBalance` and
`getUserBalance` make eight queries, in two orders, each in its own transaction.
`sums` is what each query would return now, `got` what those made so far have
returned, `sale` whether each row of the user's sales is held, released or
emptied. A row goes through these once, as `OneRowOfTheTrade` and
`SettledForGood` show of requests that do not overlap on one trade; those on
different trades may. `start`, `gained`, `spent` and `moved` record
what happened during the reading. In the code the sums that a release moves coins
between are asked for one after the other, the one the coins go to first. That order is what
the two properties rest on: nothing is deducted twice, and coins are missed in
that one gap only. There they are: while a trade is being released, its
seller may be shown its coins as still available.

### Advertisements

`ads` and `trades` are the tables by id; a deleted row keeps its place and its id
goes to `goneAds` or `goneTrades`. A number in the code is year, month, minute and
a sequence number; only the last is kept, and a row has it twice, `num` from
`getNewAdvertisementId` or `getNewTradeId` and `seq` from the second reading.
A request (`Work`) carries its user and its copy and, as history, the lists it read numbers
from (`known`), whether it found room below the limit (`room`), the live rows it
counted, with what it wrote since (`seen`), and the row it
took its switch and flags from (`was`). `NewAd` and `EditAd` are the two ways into
`editAdvertise`, `CountLive`, `KeepFlags`, `SaveAd` and `SaveLast` its transactions. Nothing
compares the owner of a row with the user who edits or switches it: an edit makes him
the owner, and the limit is counted for him. `Toggle` and `Flip` are
`toggleAdvertiseStatus`; `CreateAd` and `CreateSave` are `createAdvertise`, which no page
posts to any more, but which is still mapped: it counts nothing and takes its
numbers from the form. `OpenTrade`, `TradeNumber`, `TradeSequence` and `TradeSave` are
`createTrade`. Two kinds of request load rows and write them back in one
transaction, all or none (`SaveRows`): `Rewrite`, one row, for `inlineAdvertiseEdit` and the
escrow of a trade, and `LoadUser`, all rows of a user, for a message or a report that
he is active. The validators
and the balance are a refusal that may come at any time (`GiveUp`). `raced` is
history: the tables that got a row numbered from a form or from a list that had changed.

### Chat

`rows` are the rows of the conversation of one trade; a second one exists when two
first messages overlap. `page[p]` is the client of an open page and what it shows,
`frames` and `wire` what is under way to the server and to the pages. `Take`,
`Echo`, `Find`, `Record`, `Push` and `Save` are the steps of `ChatController.send`;
`LoadTrade` begins any other request that saves the trade, or its advertiser, with
the rows. `GraphOf` is what comes with the sender: the advertiser's trades, with
their conversations, since `getUserFromUsernameOrEmail` initialises them. This rests on
the `@Transactional` of `ServiceUtil` being in effect, as it has to be for
`Hibernate.initialize` to work at all; the configuration is not in the repository,
so the fact is a constant, `GraphLoaded`, and the theorems hold for both values.
`Connected`, `Subscribed`, `Lose` and `Deliver` are `stomp.js`, `sockjs` and the
script of the page.

### Accounts

`user` is the row of one user: password, enabled, phone verified. `otp` is the code
in `phone_verification`, `sms` the codes that reached the phone. `Confirm`,
`Enable`, `SaveTemp`, `Authenticate`, `Restore` and `Finally` are
`confirmRegistration` with `authWithAuthManager`; `DrawCode`, `SendCode` and
`SaveCode` are `generateOtp`, `Submit` and `Check` `validateOtp`; `Forgot` and
`ResetPassword` the two ends of a reset. `AdminToggle`, `AdminEdit` with `SaveFirst` (it
saves twice) and `ParentEdit` are the forms of administrators and, when the user is a
sub-user, of his parent: they set `enabled`, `verified` or the password with no
token and no code. `Touch` is what changes other columns only: the settings, logins, reports of
activity, the home page, and the save of a sub-user, which takes his parent along. The number
of the phone is one of those columns: `userEdit` changes it and keeps the flag, so
nothing is claimed of the number a user is verified with.
Times of expiry are left out: a token or a code may be refused at
any time. `marked` is history: an administrator has marked the phone as verified. So is
`spoiled`: a confirmation overlapped with another request that
carries the user, or was left half way by the server or by the failure of its
last transaction.

## Runs

Deadlock is checked wherever a behaviour never has to end. The configurations of
`Wallet` and `Advertisements` say `CHECK_DEADLOCK FALSE`: there every number is
bounded, so a behaviour comes to its end.

| run | instance | checks | shows |
|---|---|---|---|
| `trade_serial` | two trades sharing a user, one thread, crashes, a rate that is raised, 164,370 states | `TypeOK`, `OneRowOfTheTrade`, `KeepsContract`, `NoOtherOverdraft`, `HiddenWhenShort` | when requests come one at a time the code keeps the whole contract, whatever request stops where and whoever asks for what |
| `trade_concurrent` | one trade, two threads, failing transactions, an active user, 2,982,327 states | `RowsBeforeStatus`, `RowsBounded`, `KeepsHistory`, `SettledForGood` | what is left of the contract when requests overlap |
| `wallet` | two users, one thread, three listeners, one stop, 2,117,114 states | `TypeOK`, `CreditedOnce`, `OneCurrentAddress`, `SentForARow`, `NoOverdraft`, `ConfirmationsStay` | repeated and lost messages do not credit twice, take a deposit back or send without a row |
| `wallet_live` | the same with one address, fair, 205,889 states | `TransferConfirmed` | an external transfer gets its transaction unless something stopped |
| `balance_read` | two sales, two other movements, 695,428 states | `TypeOK`, `NeverTooLittle`, `NeverTooMuch` | how far the eight queries may be from one |
| `adverts` | two users, two threads, a limit of one, four requests, 399,472 states | `TypeOK`, `NumbersApart`, `LimitKept`, `ShownWithRoom` | in which ways the limit is exceeded, when numbers are apart, who shows what was switched off |
| `chat` | a page and a message of each party, two threads, stops, fair, 441,786 states | `TypeOK`, `SplitOnlyByOverlap`, `InSendOrder`, `RecordedFirst`, `KeptForGood`, `OtherIsKept`, `Delivered` | what of a conversation is kept and in which order, and that messages arrive |
| `accounts` | two threads, two passwords, two temporary ones, two codes, all faults, 4,258,940 states | `TypeOK`, `PasswordIsChosen`, `VerifiedByCode`, `FlagsStay` | the temporary password goes, a phone is verified by a code or an administrator, flags change by those meant to change them or by older copies |
| `trade_retry`, `wallet_double_spend`, `wallet_lost_deposit`, `chat_lost` | small | one property each | the disagreements below |

**Bounds.** A trade has two parties and the model has no interaction between
trades except balances and a shared advertisement, so two trades with one user
on both sides show every flow of coins between trades, and one trade shows every
flow within it. Two threads are enough for one request to be stale because of
another; the theorems below hold for any number. The clock goes to 1 with a
timeout of 0 minutes: before and after the time to pay is all the code
distinguishes. The funds are chosen so that the first seller can still escrow after
an attempt that stopped half way, and the second only at a raised rate or with the
coins gained from the first. Terms 3 raise the rate: they check a third of the price
for the same coins, so that one request can leave a seller below zero, and they can be
set before a trade is escrowed and not after. A request that crashes is checked where
requests come one at a time; next to others, crashes are covered by the theorems,
which hold for any set of faults.
In `wallet` there are two addresses (an old one and a current one, or one for each
user), one deposit, one transfer of each kind, one confirmation (the balance only
asks whether there is any), and one stop, which is one message repeated or lost.
In `balance_read` two sales suffice for one to be held and another released during
one reading, and two other movements for one before and one after any query.
`wallet_live` has one address, which a transfer of the site can be sent to.
In `adverts` the limit is one, so that a second live row is already too many, and
four requests let two rows be placed and switched or deleted, by their owner, the other
user or a report of activity, while a further one numbers or counts across it. The
numbers of a form of `createAdvertise` are 1 (`FormNumbers`): one that is taken.
In `chat` one message of each party gives the advertiser's stale graph, two first messages at a time, and a reply to a
conversation that has a row. In `accounts` two threads let a confirmation overlap
with each other request, and two codes let an older one be in the row.

**Fairness.** None is assumed for trades, advertisements and accounts: nothing in
the code makes a party act.
`FairSpec` of `Wallet` assumes weak fairness of each servlet thread
(`Proceed(r)`), each listener (`Consume(q)`), both scheduled by their container
as long as the process runs, and of the wallet application taking what
it is asked to send (`Broadcast`); this last one is an assumption about code
outside the repository. `stops > 0` releases `TransferConfirmed` from its
promise, since the code resumes nothing. No user, and no `Allocate`, is fair.
`Chat` assumes weak fairness of each thread that handles a message (`Handle(r)`)
and of each page's socket (`Deliver`), and strong fairness of some thread taking a
frame: the pools serve what is queued, but other requests may have the threads
again and again in between. Sockets, users and `Stop` are not fair; `Delivered`
excepts a page that lost its socket or was loaded again, and a message whose
handling failed.

**Every property can fail.** `PROJECT.json` lists for each property of
a passing run a mutant: a definition of the model replaced by a plausible slip in
the code it models, such as `escrowBitcoins` not looking for a row, or the code
being saved before it is sent; the operators commented "Mutant"
are these. TLC finds the property violated under the same configuration.

## What is proved

TLAPS checks the following for any sets of users, trades, advertisements, messages
and threads, any amounts, limits, bounds and sets of faults, from the named
assumptions of each module (`PartiesAssumption`, `AmountsAssumption`,
`EnvironmentAssumption`, `SalesAssumption`, `LimitsAssumption`, `ChatAssumption`,
`AccountAssumption`, `WalletAssumption`: the constants have their types, and nobody
trades with himself). A theorem that needs more says so in its statement.

Of `TradeRequests`:

* `TypeCorrect`: `TypeOK` is inductive. Its interesting part is that a request
  only names escrow rows that exist, which holds because rows are only added
  (`RowsOnlyAdded`): every fact about a request then survives a step of another.
* `RowsAreBounded` (finitely many threads): a trade has no more rows than there are threads. Not
  inductive: a request that found no row before another added one will still add
  its own. The strengthening (`AddingBounded`) counts these: the rows of a trade and the requests
  that are about to add one are together never more than the threads. While there
  is no row the requests alone are bounded by the threads; once there is one, no
  further request becomes such, and each that adds its row is one fewer.
* `HistoryCorrect`: `HistoryInv`, how far a request has got tells what status it
  found and what status it is about to write (`Progress`), and a request that
  goes on to write BITCOIN_ESCROWED has a row (`RowFirst`). `CopiesInv` says the
  same of a user who is saved with his trades.
* `HistoryKept`: `TradeRequests` implements `HistorySpec`: every step writes a
  status that follows from one the trade has had (COMPLETED follows from any), or only
  moves coins, or restores old copies, or stutters; and until the trade has been
  cancelled, its coins are locked before they are paid and are never given back. From
  `HistoryInv` together with `CoinsInv`: every row anywhere, in the table or in a copy, holds the
  coins of its trade, or nothing once the trade was cancelled.
* `RowsFirst`: `RowsBeforeStatus`, from the same invariants.
* `SettledCorrect`: `SettledForGood`. A request that loaded the trade when it was
  final either ends or writes back what it found.

None of these has a condition on who asks for what: a release by anyone in any status is
one of the steps. What is not true, and therefore not claimed, is that a payment comes
before the release.

And of requests that come one at a time (`Serial`: one thread, and transactions inside
`ServiceUtil` that do not fail), by anyone and in any status, whatever
stops between two of its transactions and is asked for again:

* `OneRowPerTrade`: `OneRowOfTheTrade`. The invariant (`SerialInv`) says which rows a
  trade may have in each status (`Fit`), those that a stopped request leaves included (a
  row while the trade is INPROCESS, a credited one while it is not yet COMPLETED); that
  the copies of the one request are the tables (`Fresh`, `FreshUser`); and that its last
  save will leave the rows that fit the status it saves (`LeavesFit`). A request that
  is repeated after it stopped finds the row it left.
* `ContractKept`: `KeepsContract`, the refinement of `EscrowContract`, step by step:
  saving a row is a stutter, saving the status is the step of the contract, and what
  a stopped request leaves is in `Fit`.
* `NoOneElseOverdrawn` and `ShortAdsHidden`: `NoOtherOverdraft` and `HiddenWhenShort`. `BalanceInv`
  says of a request that is escrowing that the balance covers the price it checked, before its row
  is there and after (`Covered`), and that the advertisement it carries is hidden where what
  remains does not serve it (`Escrowing`). The price, amount / present rate, need not
  cover the coins that the row locks: the owner may have raised the rate since the
  trade was created. So a seller can be overdrawn by a single request, and the property says
  so (`LockedAbovePrice`): by less than the two differ, and nobody else is. The second
  exception is a buyer whose release stopped after the row was credited and whose trade is
  then cancelled (`TakenBack`): he may have spent the coins. Both take finitely many trades.

Of `BalanceRead`:

* `BalanceTypes`: `TypeOK`, and with it that the queries come in the order of the
  method.
* `NothingDeductedTwice` and `ExcessIsBounded`: `NeverTooLittle` and
  `NeverTooMuch`. The invariant (`ReadInv`) is about `Outlook`, what the answer
  would be if the queries left all ran now. A query does not change it, a
  movement changes it by at most what the history records, and a release leaves it as it was or, in the
  gap, adds what `moved` records, because of the order of the queries
  (`PrefixInOrder`). If nothing moved, the two bounds meet and the answer is exact.

Of `Wallet` (`WalletTypes`, `DepositsCreditedOnce`, `OneAddress`, `SentForRows`): none
of the four is inductive, and none can be proved without the others, so
`WalletProofs` proves one invariant `Inv` of them all with `WalletInv`, which says
of each place a fact can be under way in what it still tells:

* the messages of the queues say what the chain and the addresses say, and go on to,
  because a transaction changes in its confirmations only (`ChainKept`) and an
  address is never given twice (`GivenKept`);
* the copies a listener holds differ from their rows in nothing but confirmations and
  the id of a transaction (`CopyOf`), and no row changes in more than these
  (`DirectKept`), so saving a copy late does no harm;
* the listener of notices, once it has found no row for a transaction, is alone in
  adding one (`Finding`), which is what makes a credit single;
* the listener of addresses has cleared those of its user and is alone in adding
  one (`Cleared`);
* an outgoing row that has no transaction is with one request or one message to the
  wallet application, never both (`SendInv`): that is what makes a sending single.

Two more rest on it:

* `DepositsStayConfirmed`: `ConfirmationsStay`, for any number of threads. The listener
  writes the number of confirmations of its notice without looking at the row's, so
  everything depends on the order of the queue (`ConfirmationsInv`): notices of one
  transaction are in the order of its confirmations, none is behind the row, none ahead
  of the chain. A message that is given again comes before the later ones, as the model has
  it; put back at the end of the queue it would take a confirmation away, which
  is the mutant of the property.
* `NobodyBelowZero`: `NoOverdraft` while transfers are requested one at a time. A request that
  is about to save has found the coins (`FoundInv`), and until it has saved no step makes
  a balance smaller (`NoLoss`): a deposit that counts goes on counting, and rows are
  deducted by that one request only. With two threads it is false, as
  `wallet_double_spend` shows.

The balances are sums over the rows, and the sum of the community modules is defined by
recursion on the set of rows. `SumProofs` does without an induction over data: for amounts
that are natural numbers, lay out as many coins for each row as its amount, and count
them (`SumCounts`). A smallest set on which the two differed is not empty, and
without its chosen row is smaller, so they agree. Then sums split, grow and
change as sizes of finite sets do (`SumSplit`, `SumMonotone`, `SumChange`, `SumMoves`).

Of `Advertisements`:

* `AdTypes`, and `LimitIsKept`: `LimitKept`. What a request on a row of its own user is about to
  make live, it saw live when it counted, or it found room (`SeenOf`); so if what it saw is
  still so, the save keeps the limit, and the second save of an edit or the save of a user with
  all his rows adds nothing.
* `NumbersStayApart`: `NumbersApart`; a request that read both its numbers from
  the list that is still there has those that follow the last row (`NumberedAd`,
  `NumberedTrade`), and a save of a copy keeps the numbers of its row (`Keeps`).
* `ShownOnlyWithRoom`: `ShownWithRoom`, from what a request writes without room it
  saw (`SawOf`).

Of `Chat`:

* `ChatTypes`; `SendOrderKept` and `SplitOnlyByRace`: `InSendOrder` and
  `SplitOnlyByOverlap`, from one invariant of every list anywhere (`ListsInv`): a row, a copy
  and a list about to be saved are all in order, and begin with a message before which nothing
  was recorded.
* `RecordedBeforeShown`: `RecordedFirst`; what is on the wire to the recipient was recorded.
* `KeptStaysKept`: `KeptForGood`, and `OtherMessagesKept`: `OtherIsKept`, from what a
  thread that runs alone knows of the rows (`AloneInv`).

Of `Accounts`: `AccountTypes`; `PasswordsAreChosen`: `PasswordIsChosen`, since unless
spoiled a confirmation is alone while the temporary password is in the row
(`PasswordInv`); `VerifiedAfterCode`: `VerifiedByCode`, since the code in the row was
sent (`CodeInv`), or an administrator marked the user; `FlagsAreKept`: `FlagsStay`, where
every request meant to change a flag (`Gives`) is named.

**Model-checked only.** `TransferConfirmed` and `Delivered`: they are liveness, which needs
ENABLED, and that is out of the prover's reach. The rates and roundings that the
balances leave out are not in the models at all.

## Findings

* **A retry of a half-finished escrow can be refused** (`trade_retry`). When escrow
  stops after its row is committed, the message says to try again; the second
  attempt deducts the trade from a balance that it is already deducted from.
* **Two transfers can overdraw** (`wallet_double_spend`). Both read the balance
  before either row is written.
* **A deposit can go unrecorded** (`wallet_lost_deposit`). The home page asks for a
  new address at each visit, and `coinReceived` looks the user up by the current
  address: coins sent to one shown before are recorded for nobody.
* **What an advertiser writes is erased** (`chat_lost`). `send` appends the message to
  the conversation and then saves the sender, whose trades were loaded with their
  conversations before that: nothing needs to overlap.

Limits that the properties state, and that no text of the repository speaks
against:

* Advertisements: requests that overlap exceed the limit of live ones, and so do an edit or a
  switch of another's advertisement and `createAdvertise` (`LimitKept`); numbers
  repeat (`NumbersApart`). A count that is out of date excuses an excess of any size, since
  each such request may add a row.
* Trades: overlapping requests overwrite a status with an earlier one, and
  `SettledForGood` is silent of a copy loaded before the trade was final (`KeepsHistory` is what then
  remains). A release is carried out in any status that has a row, whoever asks for it; asked for
  again it saves COMPLETED over itself. A rate raised between the creation of a trade and its escrow
  lets one request overdraw the seller (`NoOtherOverdraft`). An INPROCESS trade that nobody
  escrows stays for ever.
* Accounts: a temporary password stays when two confirmations overlap (`PasswordIsChosen`); a
  flag is taken back by a copy loaded before it was set (`FlagsStay`); a confirmation opened
  again enables a user whom an administrator disabled.
* Wallet: a page opened between the clearing of an address and the saving of the next is
  bounded away (see `Visit`); of two such requests only the double request of one visit is
  checked. `TransferConfirmed` promises nothing after a stop.

## What is not modelled

* Feedback, trust and reports: feedback saves a detached trade as `SaveUser` does,
  of which `KeepsHistory` and `SettledForGood` are checked; what it adds is rows for a list.
* The registration form, the creation of sub-users, the captcha: single inserts and a cache.
  The deletion of a user or of other rows by an administrator. `POST /save/user`, which the form
  of a demonstration page sends to, and which saves a user made of its fields.
* Sessions and alerts: what they do depends on the scope of beans and the
  configuration of pools and caches, and those classes are not in the repository.
* The upload of a receipt or a file of a message, the forum, pages, the configuration values,
  lists, searches and their counts, mail, filters: inserts, reads, or input and output.
* The boxed ids that the code compares with `==`: the models compare ids by value,
  as the code means to. Above 127 it depends on which copies Hibernate hands out.
* A crash of the wallet application or of the queues themselves: outside the repository.
* The demonstration block chain client, which nothing calls any more.
* The scripts under `webapp/resources`: jQuery, Bootstrap, CKEditor, carousels,
  charts and an admin theme, several of them in two copies. They are third-party code
  for the look of the pages and hold nothing of the site's state. They are also nearly
  all the JavaScript there is; the program itself is Java, and it is the Java
  that the map covers. Of the scripts only the parts of `stomp.js` and `sockjs` that carry
  the chat are modelled.
* Layout, wording, currencies, rounding. Amounts are whole coins.

## What is left

Feedback as one more writer of detached trades, composed with `TradeRequests`; the
balance of `Wallet` composed with the rows of `TradeRequests`, so that one
theorem on overdrafts is about both; what of `OneRowOfTheTrade` and `NoOtherOverdraft` is left when
requests overlap on different trades only, which the theorems for one thread do not say.
