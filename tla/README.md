# finex in TLA+

TLA+ specifications of finex, a spot exchange written in Go, with the TLC
configurations that check them on small instances and TLAPS proofs of their most
important properties for every instance. All paths below are relative to the
repository (`src/`).

## 1. Inventory

finex runs as several processes around Kafka topics, a Postgres database, Redis and
InfluxDB.

| component | state | operations | talks to |
| --- | --- | --- | --- |
| `matching/order_book.go`, `queue.go`, `engine.go`: one matching engine per symbol | `Asks`, `Bids` (trees of price levels), `StopAsks`, `StopBids`, `pendingOrdersQueue`, `MarketPrice` | `Add`, `Match`, `setMarketPrice`, `Remove`, `CalcMarketOrder` | publishes trades to `trade_executor`, cancels to `order_processor` |
| `matching/price_level.go`, `depth.go` | the resting orders of a price; the two trees | `Add`, `Remove`, `Total`, `FetchOrderBook` | hands totals to the Notification |
| `matching/notification.go` | `Sequence`, `BookCache`; the sequence in Redis | `Publish`, a loop every 100 ms | websocket clients |
| `server/engine.go`, `cmd/finex-matching-engine` | `Engines` by symbol | submit, cancel, new, reload, `LoadOrders`, gRPC reads | reads topic `matching`, the orders table, the last trade in InfluxDB |
| `controllers/market_controllers`, `helpers/order_helpers.go`, `models/order.go` | rows of `orders` | `BuildOrder`, `CreateOrder`, `Order.Submit`, cancel requests | produces to `order_processor` and `matching` |
| `workers/engines/order_processor.go` | the same rows, `accounts` | `SubmitOrder`, `CancelOrder`; at the start: every pending order | produces to `matching` |
| `workers/engines/trade_executor.go`, `models/trade.go` | rows of `orders`, `accounts`, `trades`, revenues, liabilities, commissions | `VaildateTrade`, `Strike`, `CreateTradeAndStrikeOrders` | on failure resubmits to `matching` |
| `controllers/ieo_controllers`, `models/ieo*.go`, `workers/engines/ieo_order_*.go`, `controllers/admin_controllers/ieo.go` | rows of `ieos`, `ieo_orders`, `accounts` | `CreateIEOOrder`, `SubmitIEOOrder`, `Strike`, `UpdateIEO` | topics `ieo_order_processor`, `ieo_order_executor` |
| `models/trading_fee.go` | fee records | `TradingFeeFor` | called by `BuildOrder` |
| `jobs/cron`, `controllers/*` reads, `routes`, `config` | none of their own | queries, aggregation, wiring | |

What is hard:

* *Cascades in one message.* A fill moves the price, the price triggers stop orders, those
  are matched after the submitted order and move the price again, while the loops hold
  iterators over trees that the same loops change.
* *Everything is delivered at least once, or not at all.* Every consumer joins a new group
  (`uuid.NewString()`), so a restart reads its topic from the start or from the end;
  messages are produced after a commit (orders) or before it (IEO).
* *Several writers of one row.* The API saves a whole row it read before; the processor, the
  executor and the administrator write it too.
* *Check, then act.* Balance, stock and limits are checked when a request arrives and not
  when it takes effect.
* *Money.* A market order is quoted from a book that moves on; a failed trade is rolled back
  in the table but not in memory.

What makes each part correct: the book is never crossed, prices have priority, limits are
respected, no volume is lost or doubled, stop orders wait for their price and none is
forgotten; no account is overdrawn, locked funds are those of the waiting orders, money is
conserved, an order is executed within its limit and ends only once; a client's picture of
the book converges to the book and sequences never go back; an IEO sells what it has, for
money. `PROJECT.json` lists the hazards behind these, each at its line.

## 2. Modules

| module | models | proofs |
| --- | --- | --- |
| `Auction` | what a market promises, without the machine: the abstract specification of the book | |
| `OrderBook` | one engine, from a message of the topic to the trades and cancels it publishes | `OrderBookProofs` |
| `MarketQuote` | `OrderBook` and a client whose market order is quoted while the engine works | `OrderBookProofs` |
| `Settlement` | API submit, order processor, trade executor, accounts; one transaction is one step | `SettlementProofs` |
| `Ledger` | the transaction of a trade statement by statement, with referral rewards, next to the order processor | `LedgerProofs` |
| `Exchange` | `OrderBook` and `Settlement` composed over the three topics | `ExchangeProofs` |
| `TradingFee` | the lookup of the fee rates of an order | `TradingFeeProofs` |
| `DepthFeed` | level totals, the notification loop, snapshots, a client | `DepthFeedProofs` |
| `IEO` | a sale: API, processor, executor, administrator | `IEOProofs` |
| `Sums` | nothing of the code: what the sums in the properties compute, for any finite set | its own lemmas |

    Auction <--implements-- OrderBook <--extends-- MarketQuote
                               ^
                               | INSTANCE
                            Exchange      TradingFee   DepthFeed   IEO
                               | INSTANCE
                               v
                           Settlement <--extends-- Ledger

The modules whose names begin with `MC` define the small instances (`MCOrders` writes orders for two of
them). Operators that begin with the comment "Fault:" are mutations of the definition that follows them;
they are used by no specification and show that a property notices a plausible error.

### OrderBook

`asks`, `bids`, `stopAsks`, `stopBids` are sets of orders; a level is the orders of one side
and price, and the orderings of the trees and of a level are the operators `BetterOffer`,
`GoesBefore` and `TriggersBefore`. The mutex of the engine serialises messages, so `pc` is the
place of the one goroutine inside `Add`:

    idle --Submit/Load--> next --TakeNext--> begin --BeginMatch--> match --EndMatch--> next
                            |                                      |  ^
                            |--TakeSnapshot (Values), Finish (Clear)  Fill --> popStop* --StopsDone
                            v
                          idle

`Fill` is one turn of the inner loop of `Match`, down to `PublishTrade`. `CancelWithKey` is
`Remove` with its unconditional `PublishCancel`; `Reload` is `InitializeEngine`, asked for by a message or
because the process starts again, wherever the engine stood. Its start price is the last price the executor
has written to InfluxDB (of this engine, of before: `StartPrices`, or none), and `Load` of the waiting orders follows. `Submissions` is the set of message contents, where one order may occur in
several forms (with earlier and later fills, cancelled): that is what a resubmission, a replay
or `LoadOrders` delivers.

*Stop orders.* `setMarketPrice` looks at the stop *bids* after a fall and at the stop *asks* after a rise
(order_book.go:191, :210), so a stop buy waits for the price to fall to it and a stop sell for it to rise. Both
comments say "price gone done, check stop asks" (:189, :208), which fits neither. The model follows the
code, and `NoReachedStopLeft` speaks of the tree the code looks at: it shows that the loop over that tree is complete,
and not that it is the right tree.

*The iterator.* `Match` removes the level it stands on from the red-black tree and goes on
iterating. The library (outside `src/`) promises nothing there. `IteratorIsStable` chooses: TRUE,
the walk continues with the next level; FALSE, it may skip levels (`SkipLevel`). What needs the
first says so; limits and liveness of resting orders hold either way.

Bounds: `MaxDeliveries`, `MaxCancels`, `MaxReloads`.

### Auction

Orders on offer, at most one order being matched, trades and cancels made public. `Deal` takes the offer
whose turn it is (the best price, the *youngest* order of it: that is what `OrderComparator` does), `Offer`
puts what is left on the book once no offer meets it, `Leave` drops the rest of a market order that has
met every offer, `Reject` cancels one that met none. `Reopen`, at any stage, is a new engine: the offers go and
nothing is matched. `OrderBook!ImplementsAuction` is the refinement:

| `Auction` | in `OrderBook` |
| --- | --- |
| `asks`, `bids` | the same |
| `stage` | `Stage`: `arrived` at `pc = "begin"`, `matching` from then until `EndMatch`, the loops over the stop trees included, else `open` |
| `active` | `taker` while the stage is not `open` |
| `trades`, `withdrawn` | `tradeTopic`, `processorTopic` |
| `PriceFirst` | `IteratorIsStable` |

Stop trees, the queue, the batch and the walk are hidden: their steps change nothing of an auction, and a
triggered stop order is an order that arrives.

### MarketQuote

`CalcMarketOrder` runs in a gRPC goroutine without the mutex: `WalkLevel` is one turn of its loop, and
messages are handled between two turns. `Wire` is `CoefficientInt64`, the low 64 bits of an amount, as a
signed number of a `Width` that is a constant. `quiet` remembers whether somebody else has changed the book
since the quote, or a new engine has taken its place. The request by volume is left out: no caller makes it (the code says "Not ready now").

`QuoteIsPaid` compares the quote with what `Match` then does. Proving it showed three cases in which it is not true,
and it says so now: what is asked for is itself cut on the wire when it needs more than 64 bits (`Fits`, of the
quantity as of the cost); a quantity of zero is answered with zero although the book has it; and an
order delivered in another form than the one asked about (partly filled, or twice) is not what was quoted.

### Settlement

`rows`, `balance`, `lockedFunds` are the tables, one transaction is one action, and what a process
does between two transactions is an action of its own: `Create`, `CheckBalance`, `Save`,
`ProduceSubmit` (the API); `HandleSubmit`/`SubmitAtStart` then `ProduceMatching` (the processor);
`SettleTrade` or `RefuseTrade` (the executor). The engine is the environment: it may publish any trade
of two orders it has been given at a price both accept, with any volume and any number of times, and any
cancel (`EnginePublishes`; that `OrderBook` keeps to this is what `Exchange` shows). A row that is rejected is read and
saved again after the rollback (order.go:231-240); only the API can write a pending row in between, with what it
holds already, so `SubmitOrder` is one step on this path, too. A market order locks
any amount, so a stale quote is among the cases. `RefuseTrade` hands back what waits by the rows *in
memory*: when the strike of the taker has failed, the maker's has happened there. Amounts are exact:
accounts count `1/Scale` of a unit and fee rates are multiples of `1/Scale`.

History variables: `raced` (an API save has overwritten a row that was no longer pending),
`external` (what the market maker's fake orders have received).

Bounds: `MaxRestarts`, `Prices`, `Volumes`.

### Ledger

`Begin` opens the transaction of a trade with both orders struck in it (`tx.view`) and holds the locks of
their rows and of the accounts of both members. For each side that pays a fee and has a referrer,
`TakeShare`/`PassShare` are the turns of the loop over the rewards, `ReadAccount` the read of the referrer's
account outside the transaction and without a lock, `AddReward` the `PlusFunds` inside it with the balance
read before. `BookRevenues` writes outside the transaction; then `Commit`, or `Crash` at any point, or
`NoReward`, the rollback when a reward is rounded to nothing. The order processor works in between unless
it needs a row the transaction has locked. `lost` is the history of what rewards have written over,
`excess` of revenues that stayed although the transaction did not commit.

Bounds: `MaxCrashes` and those of `Settlement`.

### Exchange

The engine, the order processor and the trade executor, each with its own action names, over the topics:

| topic | written by | variable | read by |
| --- | --- | --- | --- |
| `matching` | order processor, executor (hand-back), clients, administrator | `inbox` (what is unread) | engine |
| `trade_executor` | engine | `tradeTopic`, `executed` (how many are read) | executor |
| `order_processor` | API (`Submits`), engine (`processorTopic`) | `submitsRead`, `cancelsRead` | processor |

A restart of the processor or of the executor goes back to the start of its topic or to its end. A reload
empties the engine and loads the waiting rows while trades of them may be on their way. `RestartEngine` ends
the process in the middle of whatever it does; it loads in the same way (`NewEngineServer`), and only then
`Join`s the topic: from the start (`matchingTopic`, everything ever produced) or from the end, and then what
was produced while it loaded is never read. `joined` is false in between, and `missed` remembers the orders whose
submits were lost there: they wait with locked funds in no book until the next load. `faults` bounds
cancels, reloads and restarts together (`MaxFaults`), `starts` the restarts of the engine among them (`MaxStarts`);
the engine's own bound on cancels and reloads, `Readings`, follows from the two, because a topic that is read again has them again. `Money` and `Engine` are instances of the two modules, and every
action is one of theirs joined with the topic. `MoneyStepsAreSettlement` is the refinement: every step of
the whole is a step of `Settlement` for the tables, so what is shown of `Settlement` for *any* engine holds
with *this* engine (`ExchangeProofs`). Its assumptions on the constants are those of both components, and
`ExchangeProofs` derives theirs from them.

### TradingFee

`TradingFeeFor` fetches the records that suit and keeps the first of the greatest weight; the database
fixes no order, so `Look` takes any unread one.

### DepthFeed

The three goroutines and their locks: `depthMutex` is held from `Add`/`Remove` to `Publish`
(`publishing`), and from `BeginFetch` to `FetchOrderBook` (`fetching`); `NotifyMutex` from
`Count` to `Send` (`sending`). A turn of the loop is `Count` (`Sequence++`), `Store` (`Redis.Set`) and `Send`; `unstored`
says which loops are between the first two, where a snapshot or a crash may come. `Fill` changes a total under neither lock.

Redis may fail `MaxFailures` times (`failures`), and the code drops both errors: a failing `Set` leaves the
stored sequence behind, a failing `Exist` lets a new Notification begin at 0. When `Get` fails or
returns no number the process panics (notification.go:40-47): that is `Restart`. `Reload` leaves
the old Notification's loop running (`reloaded`); `Restart` ends the process between any two steps.

The client (not in `src/`) takes a snapshot, drops increments that are not newer and applies the others,
which is what the sequence is for. `follows` says that it has a snapshot of the engine that runs and has
since applied increments of that engine's Notification only. Nothing tells a client of a reload or of a
restart: it keeps levels that the new book lacks, and the increments of an old loop, which counts on its own, pass for newer
ones. `follows` is false from a reload or restart on, or from an increment of an old loop, until the next snapshot;
`ClientAgrees` and `ChangesReachClient` say nothing of such a client. `stale` marks levels whose total is known to differ: those that
had a fill since they were published last, which the code does not publish unless the order goes.

`FetchOrderBook` reads all levels in one step. The code reads one after the other, and a `Fill` may come in
between (nothing else can change a level while `depthMutex` is held). For each level by itself that is a fill before or after the
step of the model, and the properties speak of one level at a time.

Bounds: `MaxCalls`, `MaxReloads`, `MaxFetches`, `MaxFailures`.

### IEO

`CheckStock` reads the row of the sale, with its state and its stock (its hours and its smallest quantity, which
only refuse more, are left out); the limit and the price of the order come from that reading (`asked`),
whatever an administrator saves meanwhile. `Submit` is the transaction of `SubmitIEOOrder` up to the message it produces, `CommitSubmit` the
commit; in between the account of the buyer is locked, which `AccountIsFree` expresses for the
executor. `Strike` runs whatever the state of the order. `RestartProcessor` and `RestartExecutor`
read the topic again from the start or from the end; a starting processor takes the pending orders in any
order, because its query has none. `BeginUpdate`/`SaveUpdate` are the
administrator's read and save of the whole row: state, price, stock and limit come from his request
(`Payloads`), what is sold from the row he read. `overwritten` records that a save has undone
another's change.

Bounds: `MaxRestarts`, `MaxUpdates`.

## 3. Runs

| run | instance | what it shows |
| --- | --- | --- |
| `book_plain` | 5 limit orders, 2 market orders, two levels a side, 1 cancel, a quote | `TypeOK`, `Uncrossed`, `VolumeAccounted`, `QuoteIsPaid`, `ImplementsAuction` |
| `book_again` | orders delivered twice in different forms, stop orders, a reload, skipping walks | `RestingIsLive`, `TradesWithinLimits`, `NoOverfill`, `NoReachedStopLeft`, `ReturnsToTopic` |
| `money_restart` | a sell that takes two trades and a buy, 1 restart | `TypeOK`, `LimitLockCovers`, `ExecutedWithinLimit`, `Conserved`, `Lifecycle`, `HandedBackAsStored`, `SubmittedIsDecided`, `WaitingIsAnnounced` |
| `exchange` | 2 limit orders of 2 members that take partial fills, 2 faults, at most one of them a restart of the engine | `BookAgrees`, `OverIsGone`, `MoneyStepsAreSettlement`, `RefusedForCause`, `ComesToRest` |
| `ledger` | a chain of 3 referrals, a market buy quoted too low, 1 crash | `NonNegative`, `LockedBacksWaiting`, `WaitingCanBeCancelled`, `Accounted`, `LostByOwnOrdersOnly` |
| `fees` | every table of up to 4 records, 2 groups, 2 markets | `FollowsPriorities`, `OneAnswer` |
| `feed` | 3 orders in two levels, 1 snapshot, 1 reload or restart, 1 failure of Redis | `TypeOK`, `ClientAgrees`, `SequenceGrows`, `ChangesReachClient` |
| `ieo` | 2 members, 3 orders, two prices, 1 restart, 1 edit | `TypeOK`, `Conserved`, `PaidInFull`, `LockedBacksWaiting`, `StockBooked`, `WaitingIsStruck` |

Four runs refute what the code says of itself (see "findings" in `PROJECT.json`, which has the disagreement about the
stop trees as well):

| run | refuted | what happens |
| --- | --- | --- |
| `book_lost` | `EnqueuedStopsInserted` | a stop order triggered while the queue is drained is dropped by `Clear` |
| `money_sides` | `AskPriceIsOfAsks` | a fake maker makes the taker the "ask", and a buy below its limit is refused |
| `money_refused` | `RefusedStaysOut` | an order refused for its balance stays pending and is submitted at the next start |
| `ieo_stock` | `SoldWithinStock` | orders in flight together pass the stock check and oversell |

*Why these bounds.* Every action happens in some passing run. In the book, two orders in a
level and two levels a side are the least that tells priorities apart, and a market order of 3 eats through
both; a delivery in two forms is what a resubmission is. `Width` is small enough that the cost of the large
market order does not fit it. In the money runs an account shared by two orders is the least on which one
can spend what another locked, and an order with two fills the least that can be struck again between them.
In `ledger` the referrer of one side is the other side, and has an order of his own that locks what the
reward is paid into; the second reward needs more than he starts with. In `exchange` two faults are the least
for a cancel that meets a reload or a replay, or for an engine that starts and then meets one of these; there
are only two orders because everything may be read twice, and the theorems about it are for any number of them, stop orders
included. In the feed a second sequence is enough to go back on, and a reload leaves an old loop beside the running one. One
restart reaches every pair of steps it can fall between; the theorems do not depend on any of it. Deadlock
is not checked because every bounded model stops when its messages, calls and restarts are used up;
liveness properties say what must not stop.

*Fairness.* The engine goroutine runs on once it has a message (`WF(Work)` of `OrderBook`), and nobody is
obliged to send one. The workers poll their topic for ever and handle every record in turn, so each message
has its turn although others come between (`SF` of `HandleSubmit`, `SubmitAtStart`, `Execute`; `WF` of
`ProduceMatching` and `CommitSubmit`, which the same goroutine reaches by itself). In `Exchange` one `WF` of
everything the processes do by themselves suffices, because what is shown is that they run out of work. The
notification loop runs on its timer (`WF(Loop)`), the engine goes on with what it has begun (`WF(RemoveFilled \/ Publish)`)
and a snapshot that is begun is answered (`WF(FetchOrderBook)`): no strong fairness, since a loop that holds `NotifyMutex`
has emptied its cache when it lets go and waits for the engine.
Restarts, crashes, clients, the administrator and (in `Settlement`) the engine's trades have no fairness.

*Conditions in the properties.* Where the code breaks a promise in a way that is understood, the
property is stated up to that event: `~ raced` and `~ overwritten` (a whole-row save), `restarts = 0`
(a replayed IEO message), `Forgotten` (a worker that goes on at the end of its topic), `missed` (an engine that does so,
of what was produced while it started), `rewinds = 0` (a replayed trade, which the executor cannot recognise),
`~ Overdrawn` (a market order beyond its quote), `IteratorIsStable`, `quiet` (a quote of a book that has
changed), amounts below 2^63 on the wire, levels that are not `stale`, `follows` (nothing tells a client of a new engine), `~ reloaded` (an old loop lives on)
and `failures = 0` (a dropped error of Redis).
Each of these is a hazard in `PROJECT.json`; where the
condition cuts out the hazard itself, its note says so and names no property for it. `HandedBackAsStored`, `RefusedForCause` and `ComesToRest` are about trades among limit and fake orders.

*What the composition showed.* Not findings, because no comment or document of the repository says
otherwise, but what the code does and the properties of `Exchange` and `Ledger` therefore except:

* `Remove` does not look into the stop trees. A cancelled stop order stays armed, is triggered later, rests
  and trades although its row is cancelled; its trades are refused and the order it met trades again.
* A cancel may overtake the submit of its order in the topic. The row is cancelled and the order rests after
  it (`OverIsGone` compares `received` with `cancelledAt`). `CancelOrderByUUID` sends a cancel for an order
  in any state, `CancelAllOrders` only for those that wait.
* A market order whose lock is too low for what it meets: the trade is refused, both orders are handed back,
  meet again and are refused again, until one is cancelled. If the maker was filled by that trade in memory
  it is "done" there and is not handed back at all, while its row waits.
* An order that is handed back while an older form of it rests is dropped by `PriceLevel.Add`, and keeps the
  older volume.
* A reward rounded to nothing is an error of `PlusFunds`: the whole trade is rolled back, and an order it had
  filled in memory is not handed back.
* The referrer's balance is read without a lock, so a reward writes over what the order processor has locked
  or unlocked meanwhile (money appears or disappears), but only for a referrer with such an order of his own.
* A crash after `RecordRevenues` leaves revenues of a trade that is rolled back; the replay books them again.
* `TradingFeeFor` fetches by market type and does not weigh it, so of two records for the same group and
  market the database decides.

## 4. Theorems

| theorem | for every instance |
| --- | --- |
| `OrderBookProofs!TypeCorrect` | every order in the engine is a form of a delivered one |
| `OrderBookProofs!NeverCrossed` | the book is not crossed (given `IteratorIsStable`) |
| `OrderBookProofs!RestingOrdersAreLive` | the trees hold live limit orders of their side, each once |
| `OrderBookProofs!LimitsRespected`, `TradesAreFair` | no trade is worse than a limit; trades are of delivered orders of opposite sides |
| `OrderBookProofs!StopsWaitForTheirPrice` | queued stop orders have been reached by a trade |
| `OrderBookProofs!ReachedStopsAreTaken` | the loop over a stop tree leaves no order in it that the price has reached |
| `OrderBookProofs!NoVolumeLost` | between two messages a plain order's volume has traded or rests |
| `OrderBookProofs!NothingOverfills` | no order trades more than was delivered for it, stop orders, cascades and repeated deliveries included |
| `OrderBookProofs!EngineIsAuction` | the engine implements `Auction` (priorities given `IteratorIsStable`) |
| `OrderBookProofs!QuotesArePaid` | a market order that is sent as it was quoted, to a book nobody else has changed since, takes its whole quantity and costs what was locked (given `IteratorIsStable`) |
| `SettlementProofs!TypeCorrect`, `NeverOverdrawn` | no balance and no locked funds below zero |
| `SettlementProofs!LimitsHonoured`, `WaitingIsCovered` | limit orders trade within their limit on the whole, and hold what their rest can cost |
| `SettlementProofs!OrdersNeverComeBack` | the states of an order follow its life cycle (but for `raced`) |
| `SettlementProofs!MoneyConserved` | balances, locked funds, revenues and what fake orders moved add up to the funds of the start |
| `SettlementProofs!LocksAreClaims`, `WaitingCancels` | locked funds are those of the waiting orders, so a waiting order can always be cancelled (but for `raced`) |
| `SettlementProofs!HandsBackStored` | an order handed back after a refused trade is the one that is stored (given `TakersEarn`) |
| `LedgerProofs!NeverOverdrawnByRewards` | no account below zero, statement by statement and with rewards |
| `LedgerProofs!EveryUnitIsAccounted` | whatever rewards write over, every unit is on an account, in a revenue, or counted as written over |
| `LedgerProofs!LossesAreOwn` | a reward writes over an account only if an order of its owner locks funds of it |
| `LedgerProofs!LocksAreClaimsInSteps`, `WaitingCancelsInSteps` | the two claims of `Settlement` about locked funds, at every point of an open transaction |
| `ExchangeProofs!EngineFitsMoney` | the engine and the topics are an environment `Settlement` allows |
| `ExchangeProofs!WholeIsSafe` | in the whole, no account below zero and every limit order within its limit |
| `ExchangeProofs!BookAgreesWithTable`, `OrdersOverAreGone` | when everything sent has been read, restarts of the engine included, book and table agree about an order given to the engine once and not `missed`, and an order that is over has left (given `AllLimit`, `TakersEarn`) |
| `ExchangeProofs!RefusalsHaveCauses` | two orders that wait and were given once never have a trade refused (given `AllLimit`, `EveryoneEarns`) |
| `TradingFeeProofs!PrioritiesFollowed`, `AnswerIsUnique` | the fee record follows the priorities, and outweighs all others |
| `DepthFeedProofs!TypeCorrect`, `ClientKeepsUp` | what a client has, with what is on its way, agrees with the book on every level that has not traded since it was published, for a client that `follows` the running engine, after any reloads, restarts and failures of Redis (given `LimitSuffices`) |
| `DepthFeedProofs!SequencesOnlyGrow` | increments carry growing sequences (until an engine is reloaded or Redis fails) |
| `IEOProofs!TypeCorrect`, `MoneyConserved`, `NothingHandedOutFree` | money is conserved and every unit is paid for at a price the sale has had, whatever is replayed |
| `IEOProofs!LocksAreWaiting`, `SalesAreBooked` | locked funds are those of the waiting orders, and the sale counts as executed what the done orders bought (until a restart replays a message, and for the stock until a save undoes another) |

Assumptions: those named in the modules, of the form "messages carry well-formed orders, and two messages
about one order agree on all but fills" (`SubmissionsAssumption`: the row of an order never changes these
columns) and "a limit order is built with what it can cost locked" (`DetailsAssumption`, from `BuildOrder`).
Sums need finite sets: the orders, the members and the ids of a book are finite (`TablesAssumption`,
`OrdersAssumption`, `BookAssumption`), `None` is no transaction of `Ledger` (`NoneIsNoTransaction`), and `Nothing` is no value of
`DepthFeed` (`NothingAssumption`). TLC evaluates them in every run. Some hypotheses are of single theorems: `IteratorIsStable`
(above); `TakersEarn` and `EveryoneEarns`, which say that no taker's fee (no fee at all) is 100% of what it is taken from or more;
`AllLimit`, for the hand-back of refused trades, since a market order can spend its lock in the middle of one; and `LimitSuffices`, that a client asks for
no fewer levels than the book can have: with more levels `FetchOrderBook` returns those farthest from the spread.

*Sums.* The library's induction theorems take an operator as a parameter. `SetInduction` states induction over
the subsets of a finite set with the *set* of those that have the property instead, and follows from the well-foundedness of the strict
subset order. From it: the fold `SumFunctionOnSet` is well defined whichever element is chosen first (`SumTakesOut`), is
linear and monotone (`SumsAdd`, `SumScales`, `SumsOrdered`), adds over two parts (`SumOfUnion`), and changes by what one term does (`SumChangesAt`).

*OrderBook.* `TypeOK` alone is inductive. `Uncrossed` is not: an order rests when the walk has nothing left
that crosses, so the invariant adds `Sided` (trees and stop trees hold live orders of their side) and
`WalkIsWhole` (a stable walk has skipped nothing); `RestIsUncrossed` is the step where they meet.
`RestingIsLive` follows with `Sided`, because two forms of one order have one price (`FormsAgree`) and `Depth.Add`
looks in the level of that price. `QueuedStopsWereReached` needs `PriceIsTraded`: while stops are popped, the
price compared with is the price of a published trade. `NoReachedStopLeft` looks at the order that goes first, and there is
one because a tree is finite (`FiniteStops`, `SomeStopIsBest`).

`NoOverfill` says nothing of what can still trade. `Covered` does: `AfootBacked` says that what has traded, what rests and
what is still to be matched of an order is together at most what was offered, and `AfootOnce` that an order is to be matched in
at most one place (a stop tree, the queue, the batch, the goroutine), otherwise two copies could both use the same offer. What is
pushed on the queue after its values were taken is cleared and counts for nothing. Most steps only move orders, which is
`Moved`: a one-to-one map from the places after the step to those before it.

`VolumeAccounted` speaks of the engine between two messages, so it says nothing an induction could use. The
invariant is `WatchedInOnePlace`: at every step, what is left of an order delivered once has just arrived, is
being matched or is on offer, and nothing of it is anywhere else, or it is nowhere and has traded in full. The proof goes through every action and shows that a hand-over removes where it adds. `TradesAreFair`
needs `PresentIsKnown` (what is in the engine, the stop trees and the queue included, was delivered).

*Auction.* The refinement is proved step by step on top of `Mapped` (`TypeOK`, `Sided`, `WalkIsWhole`). Each
engine action has a lemma that names the auction step it is: `TakeNext` is `Arrive`, `BeginMatch` is `Reject` or
`Admit`, `Fill` is `Deal`, `EndMatch` is `Offer` or `Leave`, `Remove` is `Withdraw`, a reload is `Reopen`; all others
leave the mapped variables alone (`HiddenSteps`). The work is in `TurnOfCounter`: the level at the iterator
is the best one, since a stable walk has skipped nothing.

*MarketQuote.* `CalcMarketOrder` adds up levels and `Match` goes order by order, so neither walk is an invariant of the other. What
both agree on is a price: `CostsAt` says that an order that takes `n` of a side takes all that comes before some price
(`Preceding`) and the rest at that price, and what this costs. `Walking` says that what the quote has found is the orders at the prices it has
passed, and that all others are worse; the turn that finds the last of the quantity makes it `Costs` (`WalkKeepsFinding`). `Bill`
says that what is *still* to be traded costs what was locked less what the trades have cost, and `FillKeepsCosts` is why a fill
keeps it: the best offer is before that price or, when nothing is, at it. Nobody else's step does it harm: in quiet the book
changes in fills of the quoted order only (`QuietSteps`), and `QuotedPlace` follows that order from the message through the match to the end, where it has
traded all or has left an empty side. Then nothing is left to pay (`NothingCostsNothing`, `NoneCostsNothing`), so the trades have
cost what was locked. A quote of zero is the other half of `Bill`: the side has less than what is left to trade, and a fill takes the same from both.

*Settlement.* `IInv == TypeOK /\ NonNegative /\ RowsSound`. The two account invariants rest on `Strike` being
sound for any rows and accounts in memory (`StrikeIsSound`, then `StruckIsSound` for maker and taker), since a
payment is tested against the account and not against the order. `RowsSound` relates volume, lock and receipts of a
row, in any state, and a strike preserves it given the price the engine may publish and volumes tested by
`VolumesSuffice`; both limit theorems are consequences. `OrdersNeverComeBack` needs that an order the
API has not begun with has no row (`NotCreatedYet`).

`MoneyConserved` goes through `Total`: a step either moves funds within an account (`MovesConserve`) or settles a trade, and there
what one side pays is what the other side earns, with both fees booked (`TradeBalances`). `LockedBacksWaiting` is inductive as
`Backed`: the locked funds of an account are the sum of what its waiting orders hold (`Claims`), and every row
change moves both alike (`ChangeAlike`). It makes `WaitingCanBeCancelled` true: the unlock of a single claim is no more than their sum.
`HandsBackStored` is about the worst place of the executor, where maker and taker are changed in memory before
the transaction fails. With `Backed` no strike of limit orders that `Valid` lets through can fail, so a refused trade has changed nothing, unless
the fee of the taker eats all it earns: then `PlusFunds` refuses a zero, after the maker was changed, and what is handed back is not
what is stored. `TakersEarn` excludes just that.

*Ledger.* `Safe` adds to types and `NonNegative` what holds inside the transaction (`TxOK`: the working copy is
not negative and a balance read before is not either) and of the histories (`HistoryOK`). A reward writes an old balance over
the referrer's, so nothing like conservation is inductive, but the balance written was one of an account
that is never negative. `LossesExplained` is stronger than `LostByOwnOrdersOnly`: an account no order of its owner locks is
`Untouched`, between the read and the write as well: only trades and rewards change such an account, one transaction
runs at a time, and the two sides of a trade are rewarded in different currencies (`RewardsApart`).

`Accounted` is a sum over committed tables and says nothing of an open transaction. `Adds` has two parts: `StockAdds` is `Accounted`
with the revenues that are booked ahead of the commit, and `GapsAdd` says that what the commit would change on
every account (`Gap`: the working copy minus the table, plus what it would write over) adds up to what the trade moves
less the fees not booked yet. A reward moves a fee to a referrer (`RewardPays`, `RewardIsFee`); a step of the order processor beside the
transaction changes table and `Gap` in opposite ways.

`LockedBacksWaiting` and `WaitingCanBeCancelled` hold of the tables alone at every point of a transaction, but a commit
writes rows and locked funds that were read when it began. `ViewBacks` says why they still match: the locked funds in
memory are what the parties' orders will claim after the commit (`RowsAhead`). The row locks make it inductive: the
order processor moves a row only when it does not wait for the account of the order (`BesideLocks`), and a reward writes
the column of the balance (`LockedWritten`). The strikes themselves are `StruckBacks` of `SettlementProofs`.

*Exchange.* `Sound` is the engine's `PublishesFairly`, the money's `IInv` and `TopicsSound`: every message to the engine is about an
order `Settlement` has announced, and the fills it carries are in range (a row only loses volume, so a message that
is old carries more). `StepFits` shows for each action that it is a step of both components. The invariants themselves
are not proved again: `Eng` and `Mon` are instances of the proof modules under the same substitution as
`Engine` and `Money`, and the `Same...` lemmas carry a step of one instance to the other. With
`EngineFitsMoney`, `WholeIsSafe` is what `SettlementProofs` has shown of any engine.

`BookAgrees` and `OverIsGone` speak of the whole at rest. The invariant, `Whole`, follows an order through it: `Open` is what
the engine was given of the order, less what it has traded, plus what the executor has not read of that (`Unread`, a sum over the end of the
topic). A fill moves `traded` and `Unread` together, and a settled trade takes the same from `Unread` and from the row. `Kept`
says that an order given to the engine once (`Once`: not cancelled, and not about to be given again) has `Open` left in its row and is in
one place in the engine (`InOnePlace`, from `VolumeAccounted`). A refused trade is where the two come apart: what was traded is gone from
`Open` and stays in the row. It holds all the same, because the hand-back makes `Again` true of both orders until the engine has read them, and then
each was given twice. That both are handed back when they wait is `MemoryIsStored`, and that an order already done is in no refused trade is
`DoneIsEmpty` with `NoOverfill`. A new engine, reloaded or started again, is given all that wait, which makes `Again` true of
them (`LoadOrdersPaired`). When it joins its topic, what it was still to read is read
again, because it was produced (`ReadsLog`: the unread messages are among `Logged`), or counts as `missed` (`JoinPaired`). `Fresh` and `Fit` say that the first message about an order carries all its volume, and `Gone` that a
cancel leaves nothing of a plain order in the engine.

`RefusedForCause` follows from the inequality in `Kept`, which needs only that the order was given at most once: the row has at
least the volume of the trade left, so `Valid` holds, and then no strike fails. The proof showed a cause the property had not named: an
order the processor has *rejected* goes to the engine when the processor reads its topic again, and its trades are refused (TLC finds it when
"bob" of `MCExchange` has no base currency).

*TradingFee.* The loop invariant `Outweighs`: no record already read weighs more than the one kept.

*DepthFeed.* `SequenceIsStored`: while one loop runs and Redis answers, its sequence is the stored one or about to be stored, and what is about to be sent is greater
than what was sent last.
`ClientAgrees` is about the client only, and nothing in it says that an increment on its way arrives with the right
total. `InSync` says so, of the Notification of the running engine, of every level that has not traded since it was published (`LevelInSync`): a total in the cache is the one of the
book; with none in the cache the client has it; and what is being sent is known already to a client whose snapshot is
as new, because such a client drops it. `depthMutex` is `OneAtATime`, without which a snapshot could be older than a total
published after its sequence was read. A new engine starts with nothing in its cache (`FutureIsEmpty`) and with no client that follows it, so
nothing has to be known of what an old loop sends: who applies it follows no more. The totals are sums over the orders of a level.

*IEO.* `Conserved` is not inductive, because `CommitSubmit` subtracts from a balance that was tested when the
message was produced. `SubmittingIsCovered` carries the test over: the lock of the account keeps the executor
off it in between. `PaidInFull` needs `WorkIsPlaced`: a worker only ever sees an order whose row and price have
been written. `LockedBacksWaiting` and `StockBooked` need `Unbroken`: until a message is replayed, an order is submitted once
and struck once (`InHand`, `StrikingInHand`), so that `Awaited`, the sum of what waits, and `Done`, the sum of what is done, change with the
accounts and the stock.

*Only model-checked:* liveness (`ReturnsToTopic`, `SubmittedIsDecided`, `WaitingIsAnnounced`, `ComesToRest`,
`ChangesReachClient`, `WaitingIsStruck`), which the prover cannot do, and the four runs that expect a violation. Every invariant and every
action property of the other runs is a theorem of the specification the run checks; in the run of the quote what holds of the engine
holds because `QuoteSpec => Spec` (`QuotesLeaveEngine`).

## 5. Not modelled

* Liability rows (`models/trade.go:207-283`): written outside the transaction, read by nothing, with signs
  the code marks as unfinished ("TODO: Fix it", trade.go:256). A commission row goes with its reward.
* Cron jobs. `jobs/cron/release_commission.go` pays what the commissions of "yesterday" add up to at
  midnight; a trade that commits after the query, or a midnight the process is down, is never paid. The rest
  is a poll of prices. They are SQL aggregates with a clock and no concurrency with anything but that.
* Deleting a sale (what a strike then finds depends on the schema, which is not in the repository), payment
  currencies, prices of a sale by parent currency.
* Decimals: amounts are exact numbers except where `Wire` and `Rounded` say what is cut or rounded;
  `CoefficientInt64` of snapshots is left out of `DepthFeed`.
* Read endpoints, authentication, routes, configuration; websocket and InfluxDB writes.
* `Depth.PublishSnapshot` (never called), the quote by volume (never asked for), the gRPC reads of a single
  order and of the market price, and the updates of fake orders sent to the quantex service.

## 6. Plan

Fake orders in `Exchange` (the quantex service as a client of the engine), and several sales with payment
currencies in `IEO`.
