----------------------------- MODULE Settlement -----------------------------
(***************************************************************************)
(* The money side of finex: the rows of orders and accounts, and the three *)
(* processes that write them.                                              *)
(*   - finex-api creates an order row, checks the balance, saves the row   *)
(*     again and produces a "submit" (controllers/helpers, Order.Submit);  *)
(*   - the order_processor locks the funds of a submitted order and hands  *)
(*     it to the engine, or cancels it (models/order.go);                  *)
(*   - the trade_executor settles a published trade in one transaction     *)
(*     (workers/engines/trade_executor.go).                                *)
(* The matching engine is the environment: it may publish any trade of two *)
(* orders it has been given and any cancel, in any order and any number of *)
(* times, which covers a topic that is replayed.                           *)
(*                                                                         *)
(* Fees are exact: an amount of an account counts 1/Scale units, an amount *)
(* of an order whole units, and a fee rate is a number of 1/Scale.         *)
(***************************************************************************)
EXTENDS Integers, FiniteSets, Functions

CONSTANTS
  Members,
  Orders,        \* identifiers of orders
  Details,       \* what BuildOrder puts into the row of an order
  Fake,          \* stands for an order of the market maker in a trade
  None,          \* no order
  Scale,         \* denominator of the fee rates
  Funds,         \* the balances at the start
  Prices, Volumes,  \* prices and volumes of the trades the engine may publish
  MaxRestarts    \* bound: restarts of the order_processor

Currencies == {"base", "quote"}

Accounts == Members \X Currencies

OrderDetails == [member: Members, side: {"buy", "sell"}, type: {"limit", "market"}, price: Nat,
                 quantity: Nat, locked: Nat, makerFee: 0 .. Scale, takerFee: 0 .. Scale]

\* BuildOrder: a limit order locks what it can cost at most; what a market order
\* locks is the answer of CalcMarketOrder.
LockedInFull(d) ==
  d.type = "limit" => d.locked = IF d.side = "buy" THEN d.price * d.quantity ELSE d.quantity

ASSUME TablesAssumption == IsFiniteSet(Orders) /\ IsFiniteSet(Members)
ASSUME ScaleAssumption == Scale \in Nat \ {0}
ASSUME DetailsAssumption ==
  /\ Details \in [Orders -> OrderDetails]
  /\ \A i \in Orders : LockedInFull(Details[i])
ASSUME FundsAssumption == Funds \in [Accounts -> Nat]
ASSUME TradesAssumption == Prices \subseteq Nat /\ Volumes \subseteq Nat
ASSUME FakeAssumption == Fake \notin Orders /\ None \notin Orders
ASSUME RestartsAssumption == MaxRestarts \in Nat

VARIABLES
  rows,        \* the orders table
  balance, lockedFunds,  \* the accounts table, in 1/Scale units
  revenue,     \* fees booked per currency, in 1/Scale units
  api,         \* how far the API is with an order
  requests,    \* orders with a "submit" in the order_processor topic
  startup,     \* pending orders NewOrderProcessorWorker still has to submit
  producing,   \* message to the engine of a committed order, not produced yet
  announced,   \* "submit" messages of the matching topic
  restarts,    \* counter of the bound
  raced,       \* history: an API save has overwritten a row that was not pending
  external     \* history: what the fake orders have received per currency

accounts  == <<balance, lockedFunds, revenue, external>>
processor == <<startup, producing, restarts>>
vars == <<rows, balance, lockedFunds, revenue, api, requests, startup, producing, announced,
          restarts, raced, external>>

States == {"none", "pending", "wait", "done", "cancel", "reject"}

Row == [state: States, volume: Nat, locked: Int, received: Nat]

-----------------------------------------------------------------------------
(* Orders and accounts. *)

IsBuy(i) == Details[i].side = "buy"

IsLimit(i) == Details[i].type = "limit"

Outcome(i) == <<Details[i].member, IF IsBuy(i) THEN "quote" ELSE "base">>

Income(i) == <<Details[i].member, IF IsBuy(i) THEN "base" ELSE "quote">>

\* The row as the API builds it.
FreshRow(i) ==
  [state |-> "pending", volume |-> Details[i].quantity, locked |-> Details[i].locked, received |-> 0]

\* Fault: an amount equal to the funds is not told from a larger one.
CoveredUnchecked(amount, funds) == amount > 0

\* Fault: funds that just suffice are refused.
CoveredStrictly(amount, funds) == amount > 0 /\ amount < funds

\* The test of LockFunds, UnlockFunds and UnlockAndSubFunds.
Covered(amount, funds) == amount > 0 /\ amount <= funds

\* ToMatchingAttributes: the volume already traded goes with the order, and whether it
\* is over.
Message(i, row) ==
  [id |-> i, filled |-> Details[i].quantity - row.volume,
   cancelled |-> row.state \in {"cancel", "done"}]

Messages == [id: Orders, filled: Int, cancelled: BOOLEAN]

Announced(i) == \E m \in announced : m.id = i

-----------------------------------------------------------------------------
(* finex-api: CreateOrder, then Order.Submit. *)

Init ==
  /\ rows = [i \in Orders |-> [state |-> "none", volume |-> 0, locked |-> 0, received |-> 0]]
  /\ balance = Funds
  /\ lockedFunds = [a \in Accounts |-> 0]
  /\ revenue = [c \in Currencies |-> 0]
  /\ api = [i \in Orders |-> "start"]
  /\ requests = {} /\ startup = {} /\ producing = None /\ announced = {} /\ restarts = 0
  /\ raced = FALSE
  /\ external = [c \in Currencies |-> 0]

\* The clients have submitted their orders; nothing has been processed yet.
SubmittedInit ==
  /\ rows = [i \in Orders |-> FreshRow(i)]
  /\ balance = Funds
  /\ lockedFunds = [a \in Accounts |-> 0]
  /\ revenue = [c \in Currencies |-> 0]
  /\ api = [i \in Orders |-> "sent"]
  /\ requests = Orders /\ startup = {} /\ producing = None /\ announced = {} /\ restarts = 0
  /\ raced = FALSE
  /\ external = [c \in Currencies |-> 0]

Create(i) ==
  /\ api[i] = "start"
  /\ rows' = [rows EXCEPT ![i] = FreshRow(i)]
  /\ api' = [api EXCEPT ![i] = "created"]
  /\ UNCHANGED <<accounts, requests, processor, announced, raced>>

\* A balance that is too low is refused; the row stays as it is.
CheckBalance(i) ==
  /\ api[i] = "created"
  /\ api' = [api EXCEPT ![i] =
               IF balance[Outcome(i)] < Scale * Details[i].locked THEN "refused" ELSE "checked"]
  /\ UNCHANGED <<rows, accounts, requests, processor, announced, raced>>

\* Save writes every column of the row the API has in memory.
Save(i) ==
  /\ api[i] = "checked"
  /\ rows' = [rows EXCEPT ![i] = FreshRow(i)]
  /\ raced' = (raced \/ rows[i].state # "pending")
  /\ api' = [api EXCEPT ![i] = "saved"]
  /\ UNCHANGED <<accounts, requests, processor, announced>>

ProduceSubmit(i) ==
  /\ api[i] = "saved"
  /\ requests' = requests \cup {i}
  /\ api' = [api EXCEPT ![i] = "sent"]
  /\ UNCHANGED <<rows, accounts, processor, announced, raced>>

-----------------------------------------------------------------------------
(* order_processor. *)

\* Fault: the state is not read again under the row lock.
IsPendingUnchecked(i) == rows[i].state # "none"

IsPending(i) == rows[i].state = "pending"

\* Fault: nothing is submitted at the start.
ToSubmitAtStartNone == {}

ToSubmitAtStart == {i \in Orders : rows[i].state = "pending"}

\* Fault: an order that is not pending is not produced again.
ToEngineOfPending(i) == IF IsPending(i) THEN Message(i, rows[i]) ELSE None

\* What SubmitOrder produces once it has committed.
ToEngine(i) == Message(i, rows[i])

\* models.SubmitOrder up to the end of its transaction: the funds are locked, or
\* the order is rejected; an order that is not pending is left alone, and is
\* produced all the same.  (The rejected row is read and saved again after the
\* transaction is rolled back.  Only the API can write a pending row in between,
\* with what it already holds, so one step stands for both.)
SubmitOrder(i) ==
  /\ rows[i].state # "none"
  /\ LET amount == Scale * rows[i].locked
         a      == Outcome(i)
     IN \/ /\ IsPending(i) /\ Covered(amount, balance[a])
           /\ balance' = [balance EXCEPT ![a] = @ - amount]
           /\ lockedFunds' = [lockedFunds EXCEPT ![a] = @ + amount]
           /\ rows' = [rows EXCEPT ![i].state = "wait"]
           /\ producing' = ToEngine(i)
        \/ /\ IsPending(i) /\ ~ Covered(amount, balance[a])
           /\ rows' = [rows EXCEPT ![i].state = "reject"]
           /\ UNCHANGED <<balance, lockedFunds, producing>>
        \/ /\ ~ IsPending(i)
           /\ producing' = ToEngine(i)
           /\ UNCHANGED <<rows, balance, lockedFunds>>
  /\ UNCHANGED <<revenue, external, api, requests, announced, restarts, raced>>

\* The rest of SubmitOrder: the message to the engine, with the row it has in memory.
ProduceMatching ==
  /\ producing # None
  /\ announced' = announced \cup {producing}
  /\ producing' = None
  /\ UNCHANGED <<rows, accounts, api, requests, startup, restarts, raced>>

HandleSubmit(i) ==
  /\ producing = None /\ startup = {}
  /\ i \in requests
  /\ SubmitOrder(i)
  /\ UNCHANGED startup

SubmitAtStart(i) ==
  /\ producing = None
  /\ i \in startup
  /\ SubmitOrder(i)
  /\ startup' = startup \ {i}

Cancellable(i) ==
  rows[i].state = "wait" /\ Covered(Scale * rows[i].locked, lockedFunds[Outcome(i)])

\* models.CancelOrder: only a waiting order, and only when its funds can be unlocked.
\* The engine publishes the cancel of any order a client names, at any time.
HandleCancel(i) ==
  /\ producing = None /\ startup = {}
  /\ Cancellable(i)
  /\ LET amount == Scale * rows[i].locked
         a      == Outcome(i)
     IN /\ lockedFunds' = [lockedFunds EXCEPT ![a] = @ - amount]
        /\ balance' = [balance EXCEPT ![a] = @ + amount]
        /\ rows' = [rows EXCEPT ![i].state = "cancel"]
  /\ UNCHANGED <<revenue, external, api, requests, processor, announced, raced>>

\* A restart loses the message about to be produced.  The consumer joins a new
\* group: the topic is read again from its start, or from its end.
Restart ==
  /\ restarts < MaxRestarts
  /\ restarts' = restarts + 1
  /\ producing' = None
  /\ startup' = ToSubmitAtStart
  /\ requests' \in {{i \in Orders : api[i] = "sent"}, {}}
  /\ UNCHANGED <<rows, accounts, api, announced, raced>>

-----------------------------------------------------------------------------
(* trade_executor. *)

Payload == [maker: Orders \cup {Fake}, taker: Orders \cup {Fake}, price: Prices, quantity: Volumes]

Real(t) == {t.maker, t.taker} \ {Fake}

Accepts(i, price) ==
  IsLimit(i) => IF IsBuy(i) THEN price <= Details[i].price ELSE price >= Details[i].price

\* What the engine may publish: orders it was given, of opposite sides, at a price
\* both accept (TradesWithinLimits of OrderBook).
EnginePublishes(t) ==
  /\ \A i \in Real(t) : Announced(i) /\ Accepts(i, t.price)
  /\ \A i, j \in Real(t) : i # j => IsBuy(i) # IsBuy(j)
  /\ t.maker = t.taker => t.maker = Fake

\* VaildateTrade reads the sides off the maker's row, which is empty for a fake order.
MakerSells(t) == t.maker # Fake /\ ~ IsBuy(t.maker)

AskOrder(t) == IF MakerSells(t) THEN t.maker ELSE t.taker

BidOrder(t) == IF MakerSells(t) THEN t.taker ELSE t.maker

AskExceedsStrike(t) ==
  AskOrder(t) # Fake /\ IsLimit(AskOrder(t)) /\ Details[AskOrder(t)].price > t.price

BidBelowStrike(t) ==
  BidOrder(t) # Fake /\ IsLimit(BidOrder(t)) /\ Details[BidOrder(t)].price < t.price

\* Fault: the volume left is not compared with the trade's.
VolumesUnchecked(t) == t.quantity > 0

VolumesSuffice(t) == \A i \in Real(t) : rows[i].volume >= t.quantity

StatesWait(t) == \A i \in Real(t) : rows[i].state = "wait"

Valid(t) ==
  /\ ~ AskExceedsStrike(t) /\ ~ BidBelowStrike(t)
  /\ StatesWait(t)
  /\ t.price * t.quantity > 0
  /\ VolumesSuffice(t)

FeeRate(i, t) == IF i = t.maker THEN Details[i].makerFee ELSE Details[i].takerFee

Pays(i, t) == IF IsBuy(i) THEN t.price * t.quantity ELSE t.quantity

\* Fault: the income goes by the role in the trade, not by the side.
EarnsByRole(i, t) == IF i = t.maker THEN t.price * t.quantity ELSE t.quantity

Earns(i, t) == IF IsBuy(i) THEN t.quantity ELSE t.price * t.quantity

Net(i, t) == Earns(i, t) * (Scale - FeeRate(i, t))

\* Fault: what a limit buy has saved on its price is forgotten with the row.
RefundForgotten(row) == 0

\* What a done order had locked and did not need.
Refund(row) == IF row.state = "done" THEN row.locked ELSE 0

\* Fault: the order's lock is lowered by the volume, whatever the side.
StruckRowByVolume(row, i, t) ==
  LET r == [row EXCEPT !.volume = @ - t.quantity, !.locked = @ - t.quantity,
                       !.received = @ + Earns(i, t)]
  IN IF r.volume = 0 THEN [r EXCEPT !.state = "done"] ELSE r

\* Fault: the volume is not lowered.
StruckRowKeepsVolume(row, i, t) ==
  [row EXCEPT !.locked = @ - Pays(i, t), !.received = @ + Earns(i, t)]

\* The row after a trade: a market order that has spent its lock is cancelled.
StruckRow(row, i, t) ==
  LET r == [row EXCEPT !.volume = @ - t.quantity, !.locked = @ - Pays(i, t),
                       !.received = @ + Earns(i, t)]
  IN IF r.volume = 0 THEN [r EXCEPT !.state = "done"]
     ELSE IF ~ IsLimit(i) /\ r.locked = 0 THEN [r EXCEPT !.state = "cancel"]
     ELSE r

\* The rows and accounts a transaction has in memory, and whether all is well so far.
Money == [ok: BOOLEAN, rows: [Orders -> Row], balance: [Accounts -> Int],
          locked: [Accounts -> Int]]

\* Strike on the rows and accounts in memory.  When the funds do not suffice the
\* row is as it was; when the refund fails the row has been changed already.
Strike(s, i, t) ==
  LET row    == StruckRow(s.rows[i], i, t)
      funds  == s.locked[Outcome(i)]
      pay    == Scale * Pays(i, t)
      refund == Scale * Refund(row)
  IN IF ~ (s.ok /\ Covered(pay, funds) /\ Net(i, t) > 0)
     THEN [s EXCEPT !.ok = FALSE]
     ELSE [ok      |-> refund = 0 \/ Covered(refund, funds - pay),
           rows    |-> [s.rows EXCEPT ![i] = row],
           balance |-> [s.balance EXCEPT ![Income(i)] = @ + Net(i, t), ![Outcome(i)] = @ + refund],
           locked  |-> [s.locked EXCEPT ![Outcome(i)] = @ - pay - refund]]

\* The maker is struck first.
Struck(t) ==
  LET s0 == [ok |-> TRUE, rows |-> rows, balance |-> balance, locked |-> lockedFunds]
      s1 == IF t.maker = Fake THEN s0 ELSE Strike(s0, t.maker, t)
  IN IF t.taker = Fake THEN s1 ELSE Strike(s1, t.taker, t)

\* What side i of a trade adds to the fees booked in currency c; a fake order pays none.
Fee(i, c, t) == IF i # Fake /\ Income(i)[2] = c THEN Earns(i, t) * FeeRate(i, t) ELSE 0

\* Fault: only the fee of the taker is booked.
FeesInOfTaker(c, t) == Fee(t.taker, c, t)

FeesIn(c, t) == Fee(t.maker, c, t) + Fee(t.taker, c, t)

\* What order i takes from its fake counterpart (less what it gives) in currency c.
Takes(i, c, t) ==
  IF i = Fake THEN 0
  ELSE IF Income(i)[2] = c THEN Scale * Earns(i, t) ELSE - Scale * Pays(i, t)

FakeReceives(c, t) ==
  IF Fake \in {t.maker, t.taker} THEN - (Takes(t.maker, c, t) + Takes(t.taker, c, t)) ELSE 0

\* CreateTradeAndStrikeOrders, committed.
Settle(t) ==
  /\ Valid(t)
  /\ LET s == Struck(t)
     IN s.ok /\ rows' = s.rows /\ balance' = s.balance /\ lockedFunds' = s.locked
  /\ revenue' = [c \in Currencies |-> revenue[c] + FeesIn(c, t)]
  /\ external' = [c \in Currencies |-> external[c] + FakeReceives(c, t)]
  /\ UNCHANGED <<api, requests, processor, announced, raced>>

\* Fault: the orders are struck before the trade is validated.
RowsInMemoryStruck(t) == Struck(t).rows

\* The rows in memory when a trade has failed: struck as far as Strike came.
RowsInMemory(t) == IF Valid(t) THEN Struck(t).rows ELSE rows

\* Fault: the orders are sent to the engine again whatever has become of them.
HandedBackAll(t) == {Message(i, RowsInMemory(t)[i]) : i \in Real(t)}

\* The orders a failed trade sends to the engine again: those that wait, by the rows in
\* memory.
HandedBack(t) ==
  LET memory == RowsInMemory(t)
  IN {Message(i, memory[i]) : i \in {j \in Real(t) : memory[j].state = "wait"}}

\* Rolled back.
Refuse(t) ==
  /\ ~ (Valid(t) /\ Struck(t).ok)
  /\ announced' = announced \cup HandedBack(t)
  /\ UNCHANGED <<rows, accounts, api, requests, processor, raced>>

SettleTrade(t) == EnginePublishes(t) /\ Settle(t)

RefuseTrade(t) == EnginePublishes(t) /\ Refuse(t)

\* LoadOrders: an engine that starts submits every order that waits to itself.
LoadOrders ==
  /\ announced' = announced \cup
       {Message(i, rows[i]) : i \in {j \in Orders : rows[j].state = "wait"}}
  /\ UNCHANGED <<rows, accounts, api, requests, processor, raced>>

-----------------------------------------------------------------------------

Api == \E i \in Orders : Create(i) \/ CheckBalance(i) \/ Save(i) \/ ProduceSubmit(i)

OrderProcessor ==
  \/ \E i \in Orders : HandleSubmit(i) \/ HandleCancel(i) \/ SubmitAtStart(i)
  \/ ProduceMatching
  \/ Restart

TradeExecutor == \E t \in Payload : SettleTrade(t) \/ RefuseTrade(t)

Next == Api \/ OrderProcessor \/ TradeExecutor \/ LoadOrders

Spec == Init /\ [][Next]_vars

\* The consumer goes through the topic, so every message has its turn (SF: between two
\* turns the worker is busy with another), and the worker finishes what it has begun;
\* clients, the engine and restarts are under no obligation.
FairSpec ==
  /\ Spec
  /\ \A i \in Orders : SF_vars(HandleSubmit(i)) /\ SF_vars(SubmitAtStart(i))
  /\ WF_vars(ProduceMatching)

-----------------------------------------------------------------------------
(* Properties. *)

TypeOK ==
  /\ rows \in [Orders -> Row]
  /\ balance \in [Accounts -> Int] /\ lockedFunds \in [Accounts -> Int]
  /\ revenue \in [Currencies -> Int] /\ external \in [Currencies -> Int]
  /\ api \in [Orders -> {"start", "created", "refused", "checked", "saved", "sent"}]
  /\ requests \subseteq Orders /\ startup \subseteq Orders
  /\ announced \subseteq Messages
  /\ producing \in Messages \cup {None}
  /\ restarts \in Nat /\ raced \in BOOLEAN

\* No account ever goes below zero, neither its balance nor its locked funds,
\* whatever the engine publishes and however often a trade or a request is handled.
NonNegative == \A a \in Accounts : balance[a] >= 0 /\ lockedFunds[a] >= 0

\* A limit order that waits still holds what the rest of it can cost: its limit for
\* every unit left to buy, exactly the volume left to sell.
LimitLockCovers ==
  \A i \in Orders :
    rows[i].state = "wait" /\ IsLimit(i) =>
      /\ rows[i].volume > 0
      /\ IF IsBuy(i) THEN rows[i].locked >= Details[i].price * rows[i].volume
                     ELSE rows[i].locked = rows[i].volume

\* An order is executed within its limit on the whole, over all its trades and after
\* any restart: a sell has earned its limit for every unit sold, a buy has spent at
\* most its limit for every unit bought.
ExecutedWithinLimit ==
  \A i \in Orders :
    rows[i].state \in {"wait", "done", "cancel"} /\ IsLimit(i) =>
      LET traded == Details[i].quantity - rows[i].volume
          spent  == Details[i].locked - rows[i].locked
      IN IF IsBuy(i) THEN spent <= Details[i].price * traded /\ rows[i].received = traded
                     ELSE rows[i].received >= Details[i].price * traded /\ spent = traded

WaitingOn(a) == {i \in Orders : rows[i].state = "wait" /\ Outcome(i) = a}

\* The locked funds of an account are what its waiting orders have locked, no more
\* and no less (as long as no API save has overwritten a row).
LockedBacksWaiting ==
  ~ raced =>
    \A a \in Accounts :
      lockedFunds[a] = Scale * SumFunction([i \in WaitingOn(a) |-> rows[i].locked])

\* No money appears or disappears: per currency the accounts, the fees booked and
\* what the market maker has received add up to the funds at the start.
Conserved ==
  \A c \in Currencies :
    SumFunction([m \in Members |-> balance[<<m, c>>] + lockedFunds[<<m, c>>]])
      + revenue[c] + external[c]
    = SumFunction([m \in Members |-> Funds[<<m, c>>]])

\* A market order whose trades have cost more than was quoted for it.
Overdrawn(a) == \E i \in WaitingOn(a) : rows[i].locked < 0

\* A waiting limit order can be cancelled: the account can give back what the order
\* has locked, unless a market order of the account has spent more than its lock.
WaitingCanBeCancelled ==
  ~ raced =>
    \A i \in Orders :
      rows[i].state = "wait" /\ IsLimit(i) /\ rows[i].locked > 0 /\ ~ Overdrawn(Outcome(i)) =>
        Covered(Scale * rows[i].locked, lockedFunds[Outcome(i)])

\* The life of an order: pending, then waiting or rejected; waiting, then done or
\* cancelled; and nothing after that (but for the save of the API that raises raced).
Lifecycle ==
  [][\A i \in Orders :
       rows'[i].state # rows[i].state /\ ~ raced' =>
         <<rows[i].state, rows'[i].state>> \in
           {<<"none", "pending">>, <<"pending", "wait">>, <<"pending", "reject">>,
            <<"wait", "done">>, <<"wait", "cancel">>}]_vars

\* A limit order the executor hands back to the engine carries the fills of its row,
\* when the other order of the trade is a limit order or fake, too.
HandedBackAsStored ==
  [][\A m \in announced' \ announced :
       (\A i \in Orders : IsLimit(i)) /\ ~ raced =>
         \/ m = producing
         \/ rows[m.id].state = "wait" /\ m = Message(m.id, rows[m.id])]_vars

\* A submitted order is decided: it leaves "pending", even when the order_processor
\* restarts and its message is lost, because the restart submits what is pending.
SubmittedIsDecided ==
  \A i \in Orders : api[i] = "sent" ~> rows[i].state # "pending"

\* The order_processor has restarted, and no submit of the order is left to read or to produce.
Forgotten(i) == restarts > 0 /\ i \notin requests /\ (producing = None \/ producing.id # i)

\* An order that waits gets to the engine, also when the order_processor stops between
\* the commit and the message and reads its topic again from the start: the submit is
\* skipped then, because the order waits already, and the message is produced all the
\* same.  (When it goes on at the end of the topic the order is forgotten.)
WaitingIsAnnounced ==
  \A i \in Orders : rows[i].state = "wait" ~> (Announced(i) \/ Forgotten(i))

\* An order the client was told is refused, "market.account.insufficient_balance"
\* (order.go:289), does not come to life.  (It does: its row stays pending, and
\* NewOrderProcessorWorker submits every pending row when it starts.)
RefusedStaysOut == \A i \in Orders : api[i] = "refused" => rows[i].state # "wait"

\* VaildateTrade refuses a trade because the "ask price exceeds strike price"
\* (trade_executor.go:104) of asks only.  (The row of a fake maker is empty, which makes
\* its taker the ask: a buy that trades with it below its own limit is refused.)
AskPriceIsOfAsks ==
  \A t \in Payload : EnginePublishes(t) /\ AskExceedsStrike(t) => ~ IsBuy(AskOrder(t))
=============================================================================
