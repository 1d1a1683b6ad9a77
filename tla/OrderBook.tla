----------------------------- MODULE OrderBook -----------------------------
(***************************************************************************)
(* One matching engine of finex-matching-engine: the order book of one     *)
(* symbol (matching/order_book.go, depth.go, price_level.go, queue.go)     *)
(* behind Engine.MatchingMutex (matching/engine.go), fed by the "matching" *)
(* topic (server/engine.go).                                               *)
(*                                                                         *)
(* One step is one turn of a loop of the code: a fill of Match, a stop     *)
(* order popped by setMarketPrice, an order taken from the pending queue   *)
(* by Add.  The engine handles one message at a time: pc is "idle" between *)
(* two messages.  A price level is the set of resting orders of one side   *)
(* and price, so the two trees of Depth are two sets of orders.            *)
(***************************************************************************)
EXTENDS Integers, Sequences

CONSTANTS
  Ids,               \* identifiers of orders (order.ID; the UUID goes with it)
  Submissions,       \* the orders the messages of the topic carry
  LoadSets,          \* the contents the orders table may have when an engine starts
  StartPrices,       \* the prices of the last trade an engine may start with
  NoOrder,           \* the absence of an order being matched
  IteratorIsStable,  \* whether a walk over the levels survives a removal
  MaxDeliveries,     \* bound: times one order is delivered (submitted or loaded)
  MaxCancels,        \* bound: cancel messages
  MaxReloads         \* bound: "new" and "reload" messages, and starts of the process

Sides == {"buy", "sell"}

\* pkg.Order as ToMatchingAttributes fills it; a market order has price 0, an
\* order without a stop price has stop 0.
Order == [id: Ids, side: Sides, type: {"limit", "market"}, price: Nat, stop: Nat,
          quantity: Nat, filled: Nat, cancelled: BOOLEAN, fake: BOOLEAN, at: Nat]

Trade == [maker: Ids, taker: Ids, price: Nat, quantity: Nat]

\* What BuildOrder and the validators of models.Order let through: a market
\* order has neither price nor stop price, a limit order has a positive price.
WellFormed(o) ==
  /\ o.filled <= o.quantity
  /\ o.type = "market" => o.price = 0 /\ o.stop = 0
  /\ o.type = "limit"  => o.price > 0

\* Two forms of one order: a message carries the order as it was when it was
\* produced, so only filled and cancelled differ.
SameOrder(o, s) ==
  /\ o.id = s.id /\ o.side = s.side /\ o.type = s.type /\ o.price = s.price
  /\ o.stop = s.stop /\ o.quantity = s.quantity /\ o.at = s.at

ASSUME IdsAssumption == Ids \subseteq Nat
ASSUME SubmissionsAssumption ==
  /\ Submissions \subseteq Order
  /\ \A o \in Submissions : WellFormed(o)
  /\ \A o, s \in Submissions : o.id = s.id => SameOrder(o, s)
ASSUME LoadSetsAssumption == LoadSets \subseteq SUBSET Submissions
ASSUME StartPricesAssumption == StartPrices \subseteq Nat
ASSUME NoOrderAssumption == NoOrder \notin Order
ASSUME BoundsAssumption ==
  IteratorIsStable \in BOOLEAN /\ MaxDeliveries \in Nat /\ MaxCancels \in Nat /\ MaxReloads \in Nat

VARIABLES
  asks, bids,          \* Depth.Asks, Depth.Bids: the resting orders
  stopAsks, stopBids,  \* the stop orders that wait for their price
  pendingOrders,       \* pendingOrdersQueue
  marketPrice,         \* price of the last fill, 0 when there is none
  pc,                  \* where the engine goroutine is
  taker,               \* the order Match is working on
  batch,               \* orders Add still has to match
  snapshotTaken,       \* Add has read pendingOrdersQueue.Values()
  iter,                \* the walk over the opposite levels
  loading,             \* orders LoadOrders still has to submit
  tradeTopic,          \* messages to trade_executor
  processorTopic,      \* cancel messages to order_processor (the ids)
  received,            \* history: deliveries of every order so far
  offered, traded,     \* history: volume delivered and volume traded of every order
  cancels, reloads     \* counters of the bounds

book   == <<asks, bids>>
stops  == <<stopAsks, stopBids>>
adding == <<batch, snapshotTaken>>
topics == <<tradeTopic, traded, processorTopic>>
inputs == <<loading, received, offered, cancels, reloads>>
vars   == <<asks, bids, stopAsks, stopBids, pendingOrders, marketPrice, pc, taker, batch,
            snapshotTaken, iter, loading, tradeTopic, processorTopic, received, offered,
            traded, cancels, reloads>>

-----------------------------------------------------------------------------
(* Orders. *)

UnfilledQuantity(o) == o.quantity - o.filled

Filled(o) == UnfilledQuantity(o) = 0

\* Fault: the volume is subtracted.
FillingNegative(o, q) == [o EXCEPT !.filled = @ - q]

Filling(o, q) == [o EXCEPT !.filled = @ + q]

Smaller(x, y) == IF x <= y THEN x ELSE y

IsCrossed(o, price) == IF o.side = "buy" THEN price <= o.price ELSE price >= o.price

\* Fault: the limit is checked for the first fill only.
CrossesOnce(o, counter) == o.type = "limit" /\ o.filled = 0 => IsCrossed(o, counter.price)

\* Fault: equal prices do not cross.
CrossesStrictly(o, counter) ==
  o.type = "limit" => counter.price # o.price /\ IsCrossed(o, counter.price)

\* Match tests the price of limit orders only.
Crosses(o, counter) == o.type = "limit" => IsCrossed(o, counter.price)

-----------------------------------------------------------------------------
(* Price levels. *)

\* makeComparator: asks from the lowest price, bids from the highest.
BetterOffer(p, q, side) == IF side = "sell" THEN p < q ELSE p > q

\* Fault (of this order; the usual rule elsewhere): oldest first in a level.
GoesBeforeByAge(c, d) == BetterOffer(c.price, d.price, c.side) \/ (c.price = d.price /\ c.at < d.at)

\* OrderComparator sorts a level so that the newest order is the first.
GoesBefore(c, d) ==
  \/ BetterOffer(c.price, d.price, c.side)
  \/ c.price = d.price /\ c.at > d.at

Opposite(o) == IF o.side = "sell" THEN bids ELSE asks

\* The orders the walk over the levels can still meet.
Offers == {c \in Opposite(taker) : c.price \notin iter.skipped}

BestOffers == {c \in Offers : \A d \in Offers : ~ GoesBefore(d, c)}

\* Fault: a level does not look for the order it is given.
WithOrderTwice(resting, o) == resting \cup {o}

\* Depth.Add: nothing is added when the level already holds the order.
WithOrder(resting, o) ==
  IF \E r \in resting : r.id = o.id /\ r.price = o.price THEN resting ELSE resting \cup {o}

\* Fault: the order is looked for with the fills it had when the cancel was requested.
WithoutKeyAsSent(resting, key) ==
  {r \in resting : ~ (r.id = key.id /\ r.price = key.price /\ r.filled = key.filled)}

\* Depth.Remove finds the level by price, the order in it by id.
WithoutKey(resting, key) == {r \in resting : ~ (r.id = key.id /\ r.price = key.price)}

\* Fault: a counter order that stays keeps its volume.
AfterFillUnchanged(resting, counter, q) ==
  IF Filled(Filling(counter, q)) THEN resting \ {counter} ELSE resting

\* After a fill the counter order stays unless it is filled or cancelled.
AfterFill(resting, counter, q) ==
  IF Filled(Filling(counter, q)) \/ counter.cancelled
  THEN resting \ {counter}
  ELSE (resting \ {counter}) \cup {Filling(counter, q)}

LevelOf(resting, price) == {r \in resting : r.price = price}

-----------------------------------------------------------------------------
(* Stop orders. *)

\* StopComparator: Right() is the stop bid with the highest, the stop ask with
\* the lowest stop price, the oldest one of several.
TriggersBefore(o, p) ==
  \/ IF o.side = "buy" THEN o.stop > p.stop ELSE o.stop < p.stop
  \/ o.stop = p.stop /\ o.at < p.at

BestStops(tree) == {o \in tree : \A p \in tree : ~ TriggersBefore(p, o)}

\* Fault: the comparison of the other side.
ReachedSwapped(o) == IF o.side = "buy" THEN o.stop <= marketPrice ELSE o.stop >= marketPrice

Reached(o) == IF o.side = "buy" THEN o.stop >= marketPrice ELSE o.stop <= marketPrice

\* setMarketPrice chooses the tree to look at: no tree for the first price.
\* (A fall of the price looks at the stop bids, a rise at the stop asks: a stop buy is
\* triggered by a fall.  The comment in the code has the stop asks looked at after a fall.)
StopLoop(previous, new) ==
  CASE previous = 0 \/ new = previous -> "match"
    [] previous > 0 /\ new < previous -> "popStopBids"
    [] previous > 0 /\ new > previous -> "popStopAsks"

\* PublishTrade: the older order is the maker, the counter order in a tie.
TradeOf(o, counter, q) ==
  IF o.at < counter.at
  THEN [maker |-> o.id, taker |-> counter.id, price |-> counter.price, quantity |-> q]
  ELSE [maker |-> counter.id, taker |-> o.id, price |-> counter.price, quantity |-> q]

FreshWalk == [skipped |-> {}, removed |-> FALSE]

-----------------------------------------------------------------------------
(* NewEngine, then LoadOrders: the waiting orders, lowest id first. *)

Init ==
  /\ asks = {} /\ bids = {} /\ stopAsks = {} /\ stopBids = {}
  /\ pendingOrders = <<>> /\ marketPrice \in StartPrices
  /\ pc = "idle" /\ taker = NoOrder /\ batch = <<>> /\ snapshotTaken = FALSE
  /\ iter = FreshWalk
  /\ loading \in LoadSets
  /\ tradeTopic = <<>> /\ processorTopic = <<>>
  /\ received = [i \in Ids |-> 0] /\ offered = [i \in Ids |-> 0] /\ traded = [i \in Ids |-> 0]
  /\ cancels = 0 /\ reloads = 0

\* An order with a stop price goes to its tree unless it is there already.
AddStop(o) ==
  /\ o.stop > 0
  /\ LET tree == IF o.side = "sell" THEN stopAsks ELSE stopBids
         put  == IF \E s \in tree : s.id = o.id THEN tree ELSE tree \cup {o}
     IN IF o.side = "sell" THEN stopAsks' = put /\ UNCHANGED stopBids
                           ELSE stopBids' = put /\ UNCHANGED stopAsks
  /\ UNCHANGED <<book, pendingOrders, marketPrice, pc, taker, adding, iter, topics>>

AddOrder(o) ==
  /\ o.stop = 0
  /\ pc' = "next" /\ batch' = <<o>> /\ snapshotTaken' = FALSE
  /\ UNCHANGED <<book, stops, pendingOrders, marketPrice, taker, iter, topics>>

Add(o) ==
  /\ received[o.id] < MaxDeliveries
  /\ received' = [received EXCEPT ![o.id] = @ + 1]
  /\ offered' = [offered EXCEPT ![o.id] = @ + UnfilledQuantity(o)]
  /\ AddStop(o) \/ AddOrder(o)

Load(o) ==
  /\ pc = "idle"
  /\ o \in loading /\ \A p \in loading : o.id <= p.id
  /\ Add(o)
  /\ loading' = loading \ {o}
  /\ UNCHANGED <<cancels, reloads>>

Submit(o) ==
  /\ pc = "idle" /\ loading = {}
  /\ Add(o)
  /\ UNCHANGED <<loading, cancels, reloads>>

\* CancelWithKey: the resting order goes; the stop trees are not looked at, and
\* the cancel is published whether the order was found or not.
CancelWithKey(key) ==
  /\ pc = "idle" /\ loading = {} /\ cancels < MaxCancels
  /\ cancels' = cancels + 1
  /\ IF key.side = "sell"
     THEN asks' = WithoutKey(asks, key) /\ UNCHANGED bids
     ELSE bids' = WithoutKey(bids, key) /\ UNCHANGED asks
  /\ processorTopic' = IF key.fake THEN processorTopic ELSE Append(processorTopic, key.id)
  /\ UNCHANGED <<stops, pendingOrders, marketPrice, pc, taker, adding, iter, tradeTopic,
                 traded, loading, received, offered, reloads>>

\* InitializeEngine: a new engine whose price is the last trade the executor had
\* written (of this engine, or of before), and which loads the orders that wait.  A
\* message asks for it, or the process starts again, wherever the engine stood.
Reload(waiting) ==
  /\ reloads < MaxReloads
  /\ reloads' = reloads + 1
  /\ \A o \in waiting : received[o.id] < MaxDeliveries
  /\ asks' = {} /\ bids' = {} /\ stopAsks' = {} /\ stopBids' = {} /\ pendingOrders' = <<>>
  /\ marketPrice' \in {0} \cup StartPrices \cup {tradeTopic[i].price : i \in 1 .. Len(tradeTopic)}
  /\ pc' = "idle" /\ taker' = NoOrder /\ batch' = <<>> /\ snapshotTaken' = FALSE
  /\ iter' = FreshWalk
  /\ loading' = waiting
  /\ UNCHANGED <<topics, received, offered, cancels>>

-----------------------------------------------------------------------------
(* Add: the submitted order, then the stop orders its match has enqueued. *)

TakeNext ==
  /\ pc = "next" /\ batch # <<>>
  /\ taker' = Head(batch) /\ batch' = Tail(batch)
  /\ iter' = FreshWalk
  /\ pc' = "begin"
  /\ UNCHANGED <<book, stops, pendingOrders, marketPrice, snapshotTaken, topics, inputs>>

\* Values() hands out the queue as it is after the first match.
TakeSnapshot ==
  /\ pc = "next" /\ batch = <<>> /\ ~ snapshotTaken
  /\ batch' = pendingOrders /\ snapshotTaken' = TRUE
  /\ UNCHANGED <<book, stops, pendingOrders, marketPrice, pc, taker, iter, topics, inputs>>

\* Clear() empties the queue, what was pushed after Values() included.
Finish ==
  /\ pc = "next" /\ batch = <<>> /\ snapshotTaken
  /\ pendingOrders' = <<>>
  /\ pc' = "idle" /\ taker' = NoOrder /\ snapshotTaken' = FALSE /\ iter' = FreshWalk
  /\ UNCHANGED <<book, stops, marketPrice, batch, topics, inputs>>

-----------------------------------------------------------------------------
(* Match. *)

\* A market order is cancelled when it finds no offer at all.
NoOfferAtAll == Opposite(taker) = {} /\ taker.price = 0

BeginMatch ==
  /\ pc = "begin"
  /\ IF NoOfferAtAll
     THEN processorTopic' = Append(processorTopic, taker.id) /\ pc' = "next"
     ELSE pc' = "match" /\ UNCHANGED processorTopic
  /\ UNCHANGED <<book, stops, pendingOrders, marketPrice, taker, adding, iter, tradeTopic, traded,
                 inputs>>

\* One turn of the inner loop against the first order of the best level.
Fill(counter) ==
  /\ pc = "match"
  /\ ~ Filled(taker)
  /\ counter \in BestOffers /\ Crosses(taker, counter)
  /\ LET q    == Smaller(UnfilledQuantity(taker), UnfilledQuantity(counter))
         left == AfterFill(Opposite(taker), counter, q)
     IN /\ taker' = Filling(taker, q)
        /\ IF taker.side = "sell" THEN bids' = left /\ UNCHANGED asks
                                  ELSE asks' = left /\ UNCHANGED bids
        /\ iter' = [iter EXCEPT !.removed = (LevelOf(left, counter.price) = {})]
        /\ tradeTopic' = Append(tradeTopic, TradeOf(taker, counter, q))
        /\ traded' = [i \in Ids |-> traded[i] + IF i \in {taker.id, counter.id} THEN q ELSE 0]
  /\ marketPrice' = counter.price
  /\ pc' = StopLoop(marketPrice, counter.price)
  /\ UNCHANGED <<stops, pendingOrders, adding, processorTopic, inputs>>

\* The walk stands on the node of a level it has removed from the tree; a tree
\* whose iterator does not survive that may climb past the next level.
SkipLevel ==
  /\ ~ IteratorIsStable
  /\ pc = "match" /\ iter.removed
  /\ \E c \in BestOffers : iter' = [iter EXCEPT !.skipped = @ \cup {c.price}]
  /\ UNCHANGED <<book, stops, pendingOrders, marketPrice, pc, taker, adding, topics, inputs>>

PopStopBid(o) ==
  /\ pc = "popStopBids"
  /\ o \in BestStops(stopBids) /\ Reached(o)
  /\ stopBids' = stopBids \ {o}
  /\ pendingOrders' = Append(pendingOrders, o)
  /\ UNCHANGED <<book, stopAsks, marketPrice, pc, taker, adding, iter, topics, inputs>>

PopStopAsk(o) ==
  /\ pc = "popStopAsks"
  /\ o \in BestStops(stopAsks) /\ Reached(o)
  /\ stopAsks' = stopAsks \ {o}
  /\ pendingOrders' = Append(pendingOrders, o)
  /\ UNCHANGED <<book, stopBids, marketPrice, pc, taker, adding, iter, topics, inputs>>

StopsDone ==
  /\ \/ pc = "popStopBids" /\ \A o \in BestStops(stopBids) : ~ Reached(o)
     \/ pc = "popStopAsks" /\ \A o \in BestStops(stopAsks) : ~ Reached(o)
  /\ pc' = "match"
  /\ UNCHANGED <<book, stops, pendingOrders, marketPrice, taker, adding, iter, topics, inputs>>

\* Fault: the loops do not stop at a level that does not cross.
WalkIsOverWhenFilled == Filled(taker)

\* The loops are over when the order is filled or no level ahead crosses it.
WalkIsOver == Filled(taker) \/ \A c \in Offers : ~ Crosses(taker, c)

\* Fault: only an untouched order rests.
RestsUntouched(o) == o.filled = 0 /\ o.type = "limit"

\* What is left of a limit order rests; what is left of a market order does not.
Rests(o) == ~ Filled(o) /\ o.type = "limit"

EndMatch ==
  /\ pc = "match" /\ WalkIsOver
  /\ asks' = IF Rests(taker) /\ taker.side = "sell" THEN WithOrder(asks, taker) ELSE asks
  /\ bids' = IF Rests(taker) /\ taker.side = "buy"  THEN WithOrder(bids, taker) ELSE bids
  /\ pc' = "next"
  /\ UNCHANGED <<stops, pendingOrders, marketPrice, taker, adding, iter, topics, inputs>>

-----------------------------------------------------------------------------

\* The messages of the topic: nothing obliges a client to send one.
Receive ==
  \/ \E o \in Submissions : Submit(o)
  \/ \E o \in Submissions : CancelWithKey(o)
  \/ \E waiting \in LoadSets : Reload(waiting)

\* The engine goroutine, which runs on once it has a message.
Work ==
  \/ \E o \in loading : Load(o)
  \/ TakeNext
  \/ TakeSnapshot
  \/ Finish
  \/ BeginMatch
  \/ \E c \in asks \cup bids : Fill(c)
  \/ SkipLevel
  \/ \E o \in stopBids : PopStopBid(o)
  \/ \E o \in stopAsks : PopStopAsk(o)
  \/ StopsDone
  \/ EndMatch

Next == Receive \/ Work

Spec == Init /\ [][Next]_vars

FairSpec == Spec /\ WF_vars(Work)

-----------------------------------------------------------------------------
(* Properties. *)

Walk == [skipped: SUBSET Nat, removed: BOOLEAN]

\* The forms an order takes inside the engine: delivered, then filled further.
Forms == {o \in Order : o.filled <= o.quantity /\ \E s \in Submissions : SameOrder(o, s)}

\* Types of the variables: every order in the engine is a form of a delivered one.
TypeOK ==
  /\ asks \subseteq Forms /\ bids \subseteq Forms
  /\ stopAsks \subseteq Forms /\ stopBids \subseteq Forms
  /\ pendingOrders \in Seq(Forms) /\ marketPrice \in Nat
  /\ pc \in {"idle", "next", "begin", "match", "popStopBids", "popStopAsks"}
  /\ taker \in Forms \cup {NoOrder}
  /\ pc \in {"begin", "match", "popStopBids", "popStopAsks"} => taker \in Forms
  /\ batch \in Seq(Forms) /\ snapshotTaken \in BOOLEAN
  /\ iter \in Walk
  /\ loading \subseteq Submissions
  /\ tradeTopic \in Seq(Trade) /\ processorTopic \in Seq(Ids)
  /\ received \in [Ids -> Nat] /\ offered \in [Ids -> Nat] /\ traded \in [Ids -> Nat]
  /\ cancels \in Nat /\ reloads \in Nat

\* The book is never crossed, not even between two fills of one match: Match
\* lets an order rest only when no resting order of the other side crosses it,
\* and nothing else adds to the book.  Submissions, stop orders, cancels and
\* reloads in any order must not bring an ask to or below a bid.
Uncrossed == \A a \in asks, b \in bids : a.price > b.price

\* The two trees hold live limit orders of their side, and one order at most
\* once, whatever is delivered twice (PriceLevel.Add looks for the order only in
\* the level of its price).
RestingIsLive ==
  /\ \A a \in asks : a.side = "sell" /\ a.type = "limit" /\ ~ Filled(a)
  /\ \A b \in bids : b.side = "buy" /\ b.type = "limit" /\ ~ Filled(b)
  /\ \A r, s \in asks \cup bids : r.id = s.id => r = s

\* Some message of the topic allows order i to trade at this price.
Accepts(i, price) ==
  \E o \in Submissions : o.id = i /\ (o.type = "limit" => IsCrossed(o, price))

\* No trade is published at a price worse than the limit of one of its two
\* orders: the price is the counter order's, the limit of the incoming order is
\* checked in the loop, and a stop order is bound by its limit after its trigger.
TradesWithinLimits ==
  \A k \in 1 .. Len(tradeTopic) :
    LET t == tradeTopic[k] IN Accepts(t.maker, t.price) /\ Accepts(t.taker, t.price)

\* An order never trades more than the volume delivered for it, however its
\* fills are spread over matches as incoming and as resting order.
NoOverfill == \A i \in Ids : traded[i] <= offered[i]

CancelPublished(i) == \E k \in 1 .. Len(processorTopic) : processorTopic[k] = i

\* The orders with id i satisfy a condition in every form they are delivered in.
Always(i, Cond(_)) == \A o \in Submissions : o.id = i => Cond(o)

IsPlainLimit(o) == o.type = "limit" /\ o.stop = 0 /\ ~ o.cancelled /\ ~ o.fake

Resting(i) == {r \in asks \cup bids : r.id = i}

\* Between two messages no volume of a plain limit order is lost or doubled: what
\* was delivered has traded or rests.  (Delivered once, by an engine that has not
\* been reloaded, and without a cancel; the cancel of a fake order is not published.)
VolumeAccounted ==
  pc = "idle" /\ reloads = 0 =>
    \A i \in Ids :
      Always(i, IsPlainLimit) /\ received[i] = 1 /\ ~ CancelPublished(i) =>
        \/ offered[i] = traded[i] /\ Resting(i) = {}
        \/ \E r \in Resting(i) : offered[i] = traded[i] + UnfilledQuantity(r)

\* Every order that waits in the queue is there because a trade has reached its
\* stop price: a price at or below it for a bid, at or above it for an ask.
QueuedStopsWereReached ==
  \A k \in 1 .. Len(pendingOrders) :
    LET o == pendingOrders[k]
    IN \E j \in 1 .. Len(tradeTopic) :
         IF o.side = "buy" THEN tradeTopic[j].price <= o.stop ELSE tradeTopic[j].price >= o.stop

\* When the loop of setMarketPrice ends, no order of the tree it has looked at is left
\* that the price has reached: no stop bid after a fall, no stop ask after a rise.  That
\* is the code's choice (order_book.go:191, :210).  Its comments disagree: "price gone
\* done, check stop asks" (:189 and :208) names the other tree for a fall, and a fall
\* where there was a rise.  So this says that the loop is complete, not that the tree is right.
NoReachedStopLeft ==
  [][pc' = "match" =>
       /\ pc = "popStopBids" => \A o \in stopBids : o.stop < marketPrice
       /\ pc = "popStopAsks" => \A o \in stopAsks : o.stop > marketPrice]_vars

\* The engine gets through every message: matching, triggering stop orders and
\* matching those again comes to an end.
ReturnsToTopic == pc # "idle" ~> pc = "idle"

\* "OrderQueue is the FIFO queue to store orders" (queue.go:5), and a stop order
\* that is enqueued (order_book.go:201) is inserted (order_book.go:261): between
\* two messages a stop order is armed, rests, has traded or is cancelled.  (The
\* code clears the orders pushed while the queue is drained.)
EnqueuedStopsInserted ==
  pc = "idle" /\ reloads = 0 =>
    \A o \in Submissions :
      o.stop > 0 /\ received[o.id] > 0 =>
        \/ \E s \in stopAsks \cup stopBids : s.id = o.id
        \/ Resting(o.id) # {}
        \/ traded[o.id] > 0
        \/ CancelPublished(o.id)

-----------------------------------------------------------------------------
(* What the engine promises: Auction. *)

\* An order is being matched from the time Match is called until it returns, the
\* loops over the stop trees after a fill included.
Stage ==
  CASE pc = "begin" -> "arrived"
    [] pc \in {"match", "popStopBids", "popStopAsks"} -> "matching"
    [] OTHER -> "open"

Auctioned == INSTANCE Auction
  WITH Orders <- Forms, Nobody <- NoOrder, PriceFirst <- IteratorIsStable,
       stage <- Stage, active <- IF Stage = "open" THEN NoOrder ELSE taker,
       trades <- tradeTopic, withdrawn <- processorTopic

\* The engine is an auction: every trade is with the offer whose turn it is, the best
\* price first, within both limits and for all that both have left; an order rests
\* only when no offer meets it and then with all that is left of it; a market order
\* that found no offer is cancelled in public; a cancel takes the whole order off the
\* book; and the loops, the queue and the stop trees do nothing else to the book.
ImplementsAuction == Auctioned!Spec
=============================================================================
