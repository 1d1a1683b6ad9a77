-------------------------- MODULE OrderBookProofs --------------------------
(***************************************************************************)
(* Safety of the order book for every set of orders, every history of      *)
(* deliveries, cancels and reloads, and every bound; that it implements    *)
(* Auction; and, from "What a market order costs" on, that a quoted        *)
(* market order is executed as it was quoted (MarketQuote).                *)
(***************************************************************************)
EXTENDS MarketQuote, Sums, TLAPS

\* The sides of the trees, and the order being matched while the stops are popped.
Sided ==
  /\ \A a \in asks : a.side = "sell" /\ a.type = "limit" /\ ~ Filled(a)
  /\ \A b \in bids : b.side = "buy" /\ b.type = "limit" /\ ~ Filled(b)
  /\ \A s \in stopAsks : s.side = "sell"
  /\ \A s \in stopBids : s.side = "buy"

\* Without a removal that loses its place the walk skips no level.
WalkIsWhole == IteratorIsStable => iter.skipped = {}

\* What the loops over the stop trees compare with is the price of a trade.
PriceIsTraded ==
  pc \in {"popStopBids", "popStopAsks"} =>
    \E j \in 1 .. Len(tradeTopic) : tradeTopic[j].price = marketPrice

-----------------------------------------------------------------------------
(* Orders. *)

\* A submitted order is one of the forms of itself.
LEMMA SubmissionIsForm == Submissions \subseteq Forms
BY SubmissionsAssumption DEF Forms, SameOrder, WellFormed

\* Two forms of one order agree in everything but their fills.
LEMMA FormsAgree == ASSUME NEW o \in Forms, NEW p \in Forms, o.id = p.id
                    PROVE  SameOrder(o, p)
BY SubmissionsAssumption DEF Forms, SameOrder

\* A fill of at most what is unfilled leads from a form to a form.
LEMMA FillingIsForm ==
  ASSUME NEW o \in Forms, NEW q \in Nat, q <= UnfilledQuantity(o)
  PROVE  /\ Filling(o, q) \in Forms
         /\ SameOrder(Filling(o, q), o)
         /\ UnfilledQuantity(Filling(o, q)) = UnfilledQuantity(o) - q
  <1>1. o \in Order /\ o.filled \in Nat /\ o.quantity \in Nat /\ o.filled <= o.quantity
    BY DEF Forms, Order
  <1>2. Filling(o, q) \in Order /\ Filling(o, q).filled = o.filled + q
    BY <1>1 DEF Filling, Order
  <1>3. SameOrder(Filling(o, q), o) /\ Filling(o, q).quantity = o.quantity
    BY <1>1 DEF Filling, SameOrder, Order
  <1>4. Filling(o, q).filled <= Filling(o, q).quantity
    BY <1>1, <1>2, <1>3 DEF UnfilledQuantity
  <1>5. \E s \in Submissions : SameOrder(Filling(o, q), s)
    BY <1>3 DEF Forms, SameOrder
  <1> QED BY <1>1, <1>2, <1>3, <1>4, <1>5 DEF Forms, UnfilledQuantity

\* The volume of a fill is what both orders can still take.
LEMMA SmallerBounds ==
  ASSUME NEW o \in Forms, NEW c \in Forms
  PROVE  LET q == Smaller(UnfilledQuantity(o), UnfilledQuantity(c))
         IN q \in Nat /\ q <= UnfilledQuantity(o) /\ q <= UnfilledQuantity(c)
  <1>1. UnfilledQuantity(o) \in Nat /\ UnfilledQuantity(c) \in Nat
    BY DEF Forms, Order, UnfilledQuantity
  <1> QED BY <1>1 DEF Smaller

\* What a fill does to the side of the counter order: the other orders stay, and
\* the counter order, if it stays, is a live form of itself at its price.
LEMMA AfterFillShape ==
  ASSUME NEW S, S \subseteq Forms, NEW c \in S, NEW q \in Nat, q <= UnfilledQuantity(c),
         NEW r \in AfterFill(S, c, q)
  PROVE  /\ r \in Forms
         /\ r \in S \/ (SameOrder(r, c) /\ ~ Filled(r) /\ r = Filling(c, q) /\ c \notin AfterFill(S, c, q))
  <1>1. Filling(c, q) \in Forms /\ SameOrder(Filling(c, q), c)
    BY FillingIsForm
  <1>2. CASE Filled(Filling(c, q)) \/ c.cancelled
    BY <1>2 DEF AfterFill
  <1>3. CASE ~ (Filled(Filling(c, q)) \/ c.cancelled) /\ Filling(c, q) # c
    BY <1>1, <1>3 DEF AfterFill
  <1>4. CASE ~ (Filled(Filling(c, q)) \/ c.cancelled) /\ Filling(c, q) = c
    BY <1>1, <1>4 DEF AfterFill
  <1> QED BY <1>2, <1>3, <1>4

-----------------------------------------------------------------------------
(* Types. *)

LEMMA TypeInit == Init => TypeOK
  <1> SUFFICES ASSUME Init PROVE TypeOK
    OBVIOUS
  <1>1. /\ asks \subseteq Forms /\ bids \subseteq Forms
        /\ stopAsks \subseteq Forms /\ stopBids \subseteq Forms
        /\ pendingOrders \in Seq(Forms) /\ batch \in Seq(Forms)
        /\ tradeTopic \in Seq(Trade) /\ processorTopic \in Seq(Ids)
    BY DEF Init
  <1>2. /\ received \in [Ids -> Nat] /\ offered \in [Ids -> Nat] /\ traded \in [Ids -> Nat]
        /\ cancels \in Nat /\ reloads \in Nat
    BY DEF Init
  <1>3. marketPrice \in Nat /\ loading \subseteq Submissions
    BY LoadSetsAssumption, StartPricesAssumption DEF Init
  <1>4. /\ iter \in Walk /\ taker \in Forms \cup {NoOrder} /\ snapshotTaken \in BOOLEAN
        /\ pc = "idle"
    BY DEF Init, FreshWalk, Walk
  <1> QED BY <1>1, <1>2, <1>3, <1>4 DEF TypeOK

\* Delivering an order, by the topic or by LoadOrders, keeps the types.
LEMMA TypeAdd ==
  ASSUME TypeOK, NEW o \in Submissions, Add(o), pc = "idle",
         loading' \subseteq Submissions, UNCHANGED <<cancels, reloads>>
  PROVE  TypeOK'
  <1>1. o \in Forms /\ o.id \in Ids /\ UnfilledQuantity(o) \in Nat
    BY SubmissionIsForm DEF Forms, Order, UnfilledQuantity
  <1>2. received' \in [Ids -> Nat] /\ offered' \in [Ids -> Nat]
    BY <1>1 DEF Add, TypeOK
  <1>3. CASE AddStop(o)
    BY <1>1, <1>2, <1>3 DEF AddStop, TypeOK, book, adding, topics
  <1>4. CASE AddOrder(o)
    <2>1. batch' \in Seq(Forms)
      BY <1>1, <1>4 DEF AddOrder
    <2> QED BY <1>1, <1>2, <1>4, <2>1 DEF AddOrder, TypeOK, book, stops, topics
  <1> QED BY <1>3, <1>4 DEF Add

LEMMA TypeCancel == ASSUME TypeOK, NEW o \in Submissions, CancelWithKey(o) PROVE TypeOK'
  <1>1. o.id \in Ids
    BY SubmissionsAssumption DEF Order
  <1>2. processorTopic' \in Seq(Ids)
    BY <1>1 DEF CancelWithKey, TypeOK
  <1> QED BY <1>2 DEF CancelWithKey, WithoutKey, TypeOK, stops, adding

LEMMA TypeReload == ASSUME TypeOK, NEW waiting \in LoadSets, Reload(waiting) PROVE TypeOK'
  <1>1. marketPrice' \in Nat
    <2>1. ASSUME NEW i \in 1 .. Len(tradeTopic) PROVE tradeTopic[i].price \in Nat
      <3>1. tradeTopic[i] \in Trade
        BY DEF TypeOK
      <3> QED BY <3>1 DEF Trade
    <2>2. \/ marketPrice' \in StartPrices \cup {0}
          \/ \E i \in 1 .. Len(tradeTopic) : marketPrice' = tradeTopic[i].price
      BY DEF Reload
    <2>3. StartPrices \cup {0} \subseteq Nat
      BY StartPricesAssumption
    <2> QED BY <2>1, <2>2, <2>3
  <1>2. pc' = "idle" /\ taker' = NoOrder /\ batch' \in Seq(Forms) /\ snapshotTaken' = FALSE /\ iter' \in Walk
    BY DEF Reload, FreshWalk, Walk
  <1>3. /\ asks' \subseteq Forms /\ bids' \subseteq Forms /\ stopAsks' \subseteq Forms /\ stopBids' \subseteq Forms
        /\ pendingOrders' \in Seq(Forms) /\ loading' \subseteq Submissions
    BY LoadSetsAssumption DEF Reload
  <1>4. /\ tradeTopic' \in Seq(Trade) /\ processorTopic' \in Seq(Ids)
        /\ received' \in [Ids -> Nat] /\ offered' \in [Ids -> Nat] /\ traded' \in [Ids -> Nat]
        /\ cancels' \in Nat /\ reloads' \in Nat
    BY DEF Reload, TypeOK, topics
  <1> QED BY <1>1, <1>2, <1>3, <1>4, Zenon DEF TypeOK

\* The steps of Add.
LEMMA TypeLoop == ASSUME TypeOK, TakeNext \/ TakeSnapshot \/ Finish PROVE TypeOK'
  <1>1. CASE TakeNext
    <2>1. taker' \in Forms /\ batch' \in Seq(Forms)
      BY <1>1 DEF TakeNext, TypeOK
    <2> QED BY <1>1, <2>1 DEF TakeNext, TypeOK, FreshWalk, Walk, book, stops, topics, inputs
  <1>2. CASE TakeSnapshot
    BY <1>2 DEF TakeSnapshot, TypeOK, book, stops, topics, inputs
  <1>3. CASE Finish
    BY <1>3 DEF Finish, TypeOK, FreshWalk, Walk, book, stops, topics, inputs
  <1> QED BY <1>1, <1>2, <1>3

LEMMA TypeFill == ASSUME TypeOK, NEW c \in asks \cup bids, Fill(c) PROVE TypeOK'
  <1> DEFINE q == Smaller(UnfilledQuantity(taker), UnfilledQuantity(c))
             left == AfterFill(Opposite(taker), c, q)
  <1>1. taker \in Forms /\ c \in Forms /\ c \in Opposite(taker) /\ Opposite(taker) \subseteq Forms
    BY DEF Fill, TypeOK, BestOffers, Offers, Opposite
  <1>2. q \in Nat /\ q <= UnfilledQuantity(taker) /\ q <= UnfilledQuantity(c)
    BY <1>1, SmallerBounds
  <1>3. left \subseteq Forms
    BY <1>1, <1>2, AfterFillShape
  <1>4. taker' \in Forms
    BY <1>1, <1>2, FillingIsForm DEF Fill
  <1>5. asks' \subseteq Forms /\ bids' \subseteq Forms
    BY <1>3 DEF Fill, TypeOK
  <1>6. taker.id \in Ids /\ c.id \in Ids /\ c.price \in Nat
    BY <1>1 DEF Forms, Order
  <1>7. TradeOf(taker, c, q) \in Trade
    BY <1>2, <1>6 DEF TradeOf, Trade
  <1>8. tradeTopic' \in Seq(Trade) /\ traded' \in [Ids -> Nat]
    BY <1>2, <1>7 DEF Fill, TypeOK
  <1>9. pc' \in {"match", "popStopBids", "popStopAsks"} /\ marketPrice' \in Nat
    BY <1>6, SMTT(30) DEF Fill, StopLoop, TypeOK
  <1>10. iter' \in Walk
    BY DEF Fill, TypeOK, Walk
  <1> QED BY <1>4, <1>5, <1>8, <1>9, <1>10 DEF Fill, TypeOK, stops, adding, inputs

LEMMA TypeSkip == ASSUME TypeOK, SkipLevel PROVE TypeOK'
  <1>1. PICK c \in BestOffers : iter' = [iter EXCEPT !.skipped = @ \cup {c.price}]
    BY DEF SkipLevel
  <1>2. c.price \in Nat
    BY <1>1 DEF BestOffers, Offers, Opposite, TypeOK, Forms, Order
  <1>3. iter' \in Walk
    BY <1>1, <1>2 DEF TypeOK, Walk
  <1> QED BY <1>3 DEF SkipLevel, TypeOK, book, stops, adding, topics, inputs

\* The loops of setMarketPrice.
LEMMA TypeStops ==
  ASSUME TypeOK,
         \/ \E o \in stopBids : PopStopBid(o)
         \/ \E o \in stopAsks : PopStopAsk(o)
         \/ StopsDone
  PROVE  TypeOK'
  <1>1. ASSUME NEW o \in stopBids, PopStopBid(o) PROVE TypeOK'
    <2>1. pendingOrders' \in Seq(Forms)
      BY <1>1 DEF PopStopBid, TypeOK
    <2> QED BY <1>1, <2>1 DEF PopStopBid, TypeOK, book, adding, topics, inputs
  <1>2. ASSUME NEW o \in stopAsks, PopStopAsk(o) PROVE TypeOK'
    <2>1. pendingOrders' \in Seq(Forms)
      BY <1>2 DEF PopStopAsk, TypeOK
    <2> QED BY <1>2, <2>1 DEF PopStopAsk, TypeOK, book, adding, topics, inputs
  <1>3. CASE StopsDone
    BY <1>3 DEF StopsDone, TypeOK, book, stops, adding, topics, inputs
  <1> QED BY <1>1, <1>2, <1>3

LEMMA TypeBegin == ASSUME TypeOK, BeginMatch PROVE TypeOK'
  <1>1. taker \in Forms /\ taker.id \in Ids
    BY DEF BeginMatch, TypeOK, Forms, Order
  <1>2. processorTopic' \in Seq(Ids)
    <2>1. processorTopic' \in {processorTopic, Append(processorTopic, taker.id)}
      BY DEF BeginMatch
    <2>2. processorTopic \in Seq(Ids)
      BY DEF TypeOK
    <2> QED BY <1>1, <2>1, <2>2
  <1> QED BY <1>1, <1>2 DEF BeginMatch, TypeOK, book, stops, adding, inputs

LEMMA TypeEnd == ASSUME TypeOK, EndMatch PROVE TypeOK'
  <1>1. taker \in Forms
    BY DEF EndMatch, TypeOK
  <1> QED BY <1>1 DEF EndMatch, WithOrder, TypeOK, stops, adding, topics, inputs

LEMMA TypeStep == ASSUME TypeOK, [Next]_vars PROVE TypeOK'
  <1>1. ASSUME NEW o \in Submissions, Submit(o) PROVE TypeOK'
    BY <1>1, TypeAdd DEF Submit, TypeOK
  <1>2. ASSUME NEW o \in Submissions, CancelWithKey(o) PROVE TypeOK'
    BY <1>2, TypeCancel
  <1>3. ASSUME NEW waiting \in LoadSets, Reload(waiting) PROVE TypeOK'
    BY <1>3, TypeReload
  <1>4. ASSUME NEW o \in loading, Load(o) PROVE TypeOK'
    BY <1>4, TypeAdd DEF Load, TypeOK
  <1>5. CASE UNCHANGED vars
    BY <1>5 DEF vars, TypeOK
  <1> QED BY <1>1, <1>2, <1>3, <1>4, <1>5, TypeLoop, TypeBegin, TypeFill, TypeSkip, TypeStops,
             TypeEnd DEF Next, Receive, Work

\* Every variable keeps its type: the orders in the engine are forms of delivered
\* orders, filled no further than their quantity.
THEOREM TypeCorrect == Spec => []TypeOK
  <1>1. TypeOK /\ [Next]_vars => TypeOK'
    BY TypeStep
  <1> QED BY TypeInit, <1>1, PTL DEF Spec

-----------------------------------------------------------------------------
(* Which steps change what. *)

\* The book changes in a cancel, a reload, a fill and at the end of a match.
LEMMA BookChanges ==
  ASSUME [Next]_vars
  PROVE  \/ UNCHANGED <<asks, bids>>
         \/ \E o \in Submissions : CancelWithKey(o)
         \/ \E waiting \in LoadSets : Reload(waiting)
         \/ \E c \in asks \cup bids : Fill(c)
         \/ EndMatch
BY DEF Next, Receive, Work, Submit, Load, Add, AddStop, AddOrder, TakeNext, TakeSnapshot, Finish,
       BeginMatch, SkipLevel, PopStopBid, PopStopAsk, StopsDone, book, vars

\* The stop trees change when a stop order is added or popped, and in a reload.
LEMMA StopsChange ==
  ASSUME TypeOK, [Next]_vars
  PROVE  \/ UNCHANGED <<stopAsks, stopBids>>
         \/ \E o \in Submissions : AddStop(o)
         \/ \E waiting \in LoadSets : Reload(waiting)
         \/ \E o \in stopBids : PopStopBid(o)
         \/ \E o \in stopAsks : PopStopAsk(o)
  <1>1. loading \subseteq Submissions
    BY DEF TypeOK
  <1> QED
    BY <1>1 DEF Next, Receive, Work, Submit, Load, Add, AddOrder, CancelWithKey, TakeNext, TakeSnapshot,
       Finish, BeginMatch, Fill, SkipLevel, StopsDone, EndMatch, stops, vars

\* Trades are published by fills only.
LEMMA TradesChange ==
  ASSUME [Next]_vars
  PROVE  UNCHANGED tradeTopic \/ \E c \in asks \cup bids : Fill(c)
BY DEF Next, Receive, Work, Submit, Load, Add, AddStop, AddOrder, CancelWithKey, Reload, TakeNext,
       TakeSnapshot, Finish, BeginMatch, SkipLevel, PopStopBid, PopStopAsk, StopsDone, EndMatch,
       topics, vars

-----------------------------------------------------------------------------
(* The trees hold what belongs to them. *)

LEMMA SidedBook ==
  ASSUME TypeOK, Sided, [Next]_vars
  PROVE  /\ \A a \in asks' : a.side = "sell" /\ a.type = "limit" /\ ~ Filled(a)
         /\ \A b \in bids' : b.side = "buy" /\ b.type = "limit" /\ ~ Filled(b)
  <1>1. CASE UNCHANGED <<asks, bids>>
    BY <1>1 DEF Sided
  <1>2. ASSUME NEW o \in Submissions, CancelWithKey(o)
        PROVE  asks' \subseteq asks /\ bids' \subseteq bids
    BY <1>2 DEF CancelWithKey, WithoutKey
  <1>3. ASSUME NEW waiting \in LoadSets, Reload(waiting)
        PROVE  asks' \subseteq asks /\ bids' \subseteq bids
    BY <1>3 DEF Reload
  <1>4. ASSUME NEW c \in asks \cup bids, Fill(c)
        PROVE  /\ \A a \in asks' : a.side = "sell" /\ a.type = "limit" /\ ~ Filled(a)
               /\ \A b \in bids' : b.side = "buy" /\ b.type = "limit" /\ ~ Filled(b)
    <2> DEFINE q == Smaller(UnfilledQuantity(taker), UnfilledQuantity(c))
    <2>1. taker \in Forms /\ c \in Opposite(taker) /\ Opposite(taker) \subseteq Forms
      BY <1>4 DEF Fill, TypeOK, BestOffers, Offers, Opposite
    <2>2. q \in Nat /\ q <= UnfilledQuantity(c)
      BY <2>1, SmallerBounds
    <2>3. \A r \in AfterFill(Opposite(taker), c, q) :
            r \in Opposite(taker) \/ (SameOrder(r, c) /\ ~ Filled(r))
      BY <2>1, <2>2, AfterFillShape
    <2> HIDE DEF q
    <2>4. CASE taker.side = "sell"
      <3>1. bids' = AfterFill(bids, c, q) /\ asks' = asks /\ c \in bids
        BY <1>4, <2>1, <2>4 DEF Fill, Opposite, q
      <3> QED BY <2>3, <2>4, <3>1 DEF Sided, Opposite, SameOrder
    <2>5. CASE taker.side # "sell"
      <3>1. asks' = AfterFill(asks, c, q) /\ bids' = bids /\ c \in asks
        BY <1>4, <2>1, <2>5 DEF Fill, Opposite, q
      <3> QED BY <2>3, <2>5, <3>1 DEF Sided, Opposite, SameOrder
    <2> QED BY <2>4, <2>5
  <1>5. CASE EndMatch
    BY <1>5 DEF EndMatch, WithOrder, Rests, Sided
  <1> QED BY <1>1, <1>2, <1>3, <1>4, <1>5, BookChanges DEF Sided

LEMMA SidedStops ==
  ASSUME TypeOK, Sided, [Next]_vars
  PROVE  /\ \A s \in stopAsks' : s.side = "sell"
         /\ \A s \in stopBids' : s.side = "buy"
  <1>1. ASSUME NEW o \in Submissions, AddStop(o)
        PROVE  (\A s \in stopAsks' : s.side = "sell") /\ (\A s \in stopBids' : s.side = "buy")
    <2>1. o.side \in {"buy", "sell"}
      BY SubmissionsAssumption DEF Order, Sides
    <2> QED BY <1>1, <2>1 DEF AddStop, Sided
  <1>2. ASSUME \/ \E waiting \in LoadSets : Reload(waiting)
               \/ \E o \in stopBids : PopStopBid(o)
               \/ \E o \in stopAsks : PopStopAsk(o)
        PROVE  stopAsks' \subseteq stopAsks /\ stopBids' \subseteq stopBids
    BY <1>2 DEF Reload, PopStopBid, PopStopAsk
  <1> QED BY <1>1, <1>2, StopsChange DEF Sided

LEMMA SidedStep == TypeOK /\ Sided /\ [Next]_vars => Sided'
BY SidedBook, SidedStops DEF Sided, Filled, UnfilledQuantity

-----------------------------------------------------------------------------
(* The book is never crossed. *)

LEMMA WalkStep == ASSUME TypeOK, WalkIsWhole, [Next]_vars PROVE WalkIsWhole'
  <1>1. ASSUME NEW c \in asks \cup bids, Fill(c) PROVE iter'.skipped = iter.skipped
    <2>1. iter \in Walk
      BY DEF TypeOK
    <2> QED BY <1>1, <2>1 DEF Fill, Walk
  <1>2. CASE SkipLevel
    BY <1>2 DEF SkipLevel, WalkIsWhole
  <1>3. CASE UNCHANGED iter \/ iter' = FreshWalk
    BY <1>3 DEF WalkIsWhole, FreshWalk
  <1>4. \/ \E c \in asks \cup bids : Fill(c)
        \/ SkipLevel
        \/ UNCHANGED iter \/ iter' = FreshWalk
    BY DEF Next, Receive, Work, Submit, Load, Add, AddStop, AddOrder, CancelWithKey, Reload, TakeNext,
       TakeSnapshot, Finish, BeginMatch, PopStopBid, PopStopAsk, StopsDone, EndMatch, vars
  <1> QED BY <1>1, <1>2, <1>3, <1>4 DEF WalkIsWhole

\* A limit order that rests at the end of its match is not crossed by the other side.
LEMMA RestIsUncrossed ==
  ASSUME IteratorIsStable, TypeOK, WalkIsWhole, EndMatch, Rests(taker)
  PROVE  /\ taker.side = "sell" => \A b \in bids : taker.price > b.price
         /\ taker.side = "buy"  => \A a \in asks : a.price > taker.price
  <1>1. taker \in Forms /\ taker.price \in Nat
    BY DEF EndMatch, TypeOK, Forms, Order
  <1>2. \A c \in Opposite(taker) : ~ Crosses(taker, c)
    BY DEF EndMatch, WalkIsOver, Rests, Offers, WalkIsWhole
  <1>3. \A c \in asks \cup bids : c.price \in Nat
    BY DEF TypeOK, Forms, Order
  <1> QED BY <1>1, <1>2, <1>3 DEF Crosses, IsCrossed, Opposite, Rests

LEMMA UncrossedStep ==
  ASSUME IteratorIsStable, TypeOK, Sided, WalkIsWhole, Uncrossed, [Next]_vars
  PROVE  Uncrossed'
  <1>1. CASE UNCHANGED <<asks, bids>>
    BY <1>1 DEF Uncrossed
  <1>2. CASE (\E o \in Submissions : CancelWithKey(o)) \/ (\E waiting \in LoadSets : Reload(waiting))
    <2>1. asks' \subseteq asks /\ bids' \subseteq bids
      BY <1>2 DEF CancelWithKey, WithoutKey, Reload
    <2> QED BY <2>1 DEF Uncrossed
  <1>3. ASSUME NEW c \in asks \cup bids, Fill(c) PROVE Uncrossed'
    <2> DEFINE q == Smaller(UnfilledQuantity(taker), UnfilledQuantity(c))
    <2>1. taker \in Forms /\ c \in Opposite(taker) /\ Opposite(taker) \subseteq Forms
      BY <1>3 DEF Fill, TypeOK, BestOffers, Offers, Opposite
    <2>2. q \in Nat /\ q <= UnfilledQuantity(c)
      BY <2>1, SmallerBounds
    <2>3. \A r \in AfterFill(Opposite(taker), c, q) : \E s \in Opposite(taker) : r.price = s.price
      BY <2>1, <2>2, AfterFillShape DEF SameOrder
    <2>4. CASE taker.side = "sell"
      BY <1>3, <2>3, <2>4 DEF Fill, Opposite, Uncrossed
    <2>5. CASE taker.side # "sell"
      BY <1>3, <2>3, <2>5 DEF Fill, Opposite, Uncrossed
    <2> QED BY <2>4, <2>5
  <1>4. CASE EndMatch
    BY <1>4, RestIsUncrossed DEF EndMatch, WithOrder, Uncrossed
  <1> QED BY <1>1, <1>2, <1>3, <1>4, BookChanges

\* No sequence of deliveries, cancels and reloads ever leaves an ask at or below a
\* bid, not even between two fills, when the walk over the levels survives the
\* removal of a level.
THEOREM NeverCrossed == ASSUME IteratorIsStable PROVE Spec => []Uncrossed
  <1>1. Init => Sided /\ WalkIsWhole /\ Uncrossed
    BY DEF Init, Sided, WalkIsWhole, Uncrossed, FreshWalk
  <1>2. TypeOK /\ Sided /\ WalkIsWhole /\ Uncrossed /\ [Next]_vars => (Sided /\ WalkIsWhole /\ Uncrossed)'
    BY SidedStep, WalkStep, UncrossedStep
  <1> QED BY <1>1, <1>2, TypeCorrect, PTL DEF Spec

-----------------------------------------------------------------------------
(* One order rests at most once. *)

\* Depth.Add looks for the order in the level of its price only; that is enough,
\* because the forms of an order agree in their price.
LEMMA LiveStep ==
  ASSUME TypeOK, Sided, RestingIsLive, Sided', TypeOK', [Next]_vars
  PROVE  RestingIsLive'
  <1> DEFINE Unique(S) == \A r, s \in S : r.id = s.id => r = s
  <1>0. Unique(asks \cup bids)
    BY DEF RestingIsLive
  <1> SUFFICES Unique(asks' \cup bids')
    BY DEF Sided, RestingIsLive, Filled, UnfilledQuantity
  <1>1. CASE UNCHANGED <<asks, bids>>
    BY <1>0, <1>1
  <1>2. CASE (\E o \in Submissions : CancelWithKey(o)) \/ (\E waiting \in LoadSets : Reload(waiting))
    <2>1. asks' \subseteq asks /\ bids' \subseteq bids
      BY <1>2 DEF CancelWithKey, WithoutKey, Reload
    <2> QED BY <1>0, <2>1
  <1>3. ASSUME NEW c \in asks \cup bids, Fill(c) PROVE Unique(asks' \cup bids')
    <2> DEFINE q == Smaller(UnfilledQuantity(taker), UnfilledQuantity(c))
    <2>1. taker \in Forms /\ c \in Opposite(taker) /\ Opposite(taker) \subseteq Forms
      BY <1>3 DEF Fill, TypeOK, BestOffers, Offers, Opposite
    <2>2. q \in Nat /\ q <= UnfilledQuantity(c)
      BY <2>1, SmallerBounds
    <2>3. \A r \in AfterFill(Opposite(taker), c, q) :
            r \in Opposite(taker) \/ (SameOrder(r, c) /\ r = Filling(c, q) /\ c \notin AfterFill(Opposite(taker), c, q))
      BY <2>1, <2>2, AfterFillShape
    <2>4. \/ asks' = AfterFill(asks, c, q) /\ bids' = bids /\ Opposite(taker) = asks
          \/ bids' = AfterFill(bids, c, q) /\ asks' = asks /\ Opposite(taker) = bids
      BY <1>3 DEF Fill, Opposite
    <2> HIDE DEF q
    <2>5. asks \cap bids = {}
      BY DEF Sided
    <2>6. \A r \in asks' \cup bids' :
            \/ r \in asks \cup bids
            \/ r = Filling(c, q) /\ r.id = c.id /\ c \notin asks' \cup bids'
      BY <2>1, <2>3, <2>4, <2>5 DEF SameOrder
    <2> QED BY <1>0, <2>6
  <1>4. CASE EndMatch
    <2>1. taker \in Forms
      BY <1>4 DEF EndMatch, TypeOK
    <2>2. \A r \in asks \cup bids : r.id = taker.id => r.price = taker.price /\ r.side = taker.side
      BY <2>1, FormsAgree DEF TypeOK, SameOrder
    <2>3. \/ asks' = asks /\ bids' = bids
          \/ taker.side = "sell" /\ asks' = WithOrder(asks, taker) /\ bids' = bids
          \/ taker.side = "buy" /\ bids' = WithOrder(bids, taker) /\ asks' = asks
      BY <1>4, <2>1 DEF EndMatch, Forms, Order, Sides
    <2>4. CASE taker.side = "sell" /\ asks' = WithOrder(asks, taker) /\ bids' = bids
      <3>1. CASE \E r \in asks : r.id = taker.id
        BY <1>0, <2>2, <2>4, <3>1 DEF WithOrder
      <3>2. CASE \A r \in asks \cup bids : r.id # taker.id
        BY <1>0, <2>4, <3>2 DEF WithOrder
      <3>3. \A r \in bids : r.id # taker.id
        BY <2>2, <2>4 DEF Sided
      <3> QED BY <3>1, <3>2, <3>3
    <2>5. CASE taker.side = "buy" /\ bids' = WithOrder(bids, taker) /\ asks' = asks
      <3>1. CASE \E r \in bids : r.id = taker.id
        BY <1>0, <2>2, <2>5, <3>1 DEF WithOrder
      <3>2. CASE \A r \in asks \cup bids : r.id # taker.id
        BY <1>0, <2>5, <3>2 DEF WithOrder
      <3>3. \A r \in asks : r.id # taker.id
        BY <2>2, <2>5 DEF Sided
      <3> QED BY <3>1, <3>2, <3>3
    <2> QED BY <1>0, <2>3, <2>4, <2>5
  <1> QED BY <1>1, <1>2, <1>3, <1>4, BookChanges

\* Only live limit orders rest, each on its side and at most once, however often
\* its message is delivered and the engine reloaded.
THEOREM RestingOrdersAreLive == Spec => []RestingIsLive
  <1>1. Init => Sided /\ RestingIsLive
    BY DEF Init, Sided, RestingIsLive
  <1>2. TypeOK /\ TypeOK' /\ Sided /\ RestingIsLive /\ [Next]_vars => (Sided /\ RestingIsLive)'
    BY SidedStep, LiveStep
  <1> QED BY <1>1, <1>2, TypeCorrect, PTL DEF Spec

-----------------------------------------------------------------------------
(* Trades respect the limits; stop orders are triggered by trades. *)

\* A fill publishes one trade, at the counter order's price, which both accept.
LEMMA FillPublishes ==
  ASSUME TypeOK, NEW c \in asks \cup bids, Fill(c)
  PROVE  \E t \in Trade :
           /\ tradeTopic' = Append(tradeTopic, t)
           /\ t.price = marketPrice'
           /\ Accepts(t.maker, t.price) /\ Accepts(t.taker, t.price)
  <1> DEFINE q == Smaller(UnfilledQuantity(taker), UnfilledQuantity(c))
             t == TradeOf(taker, c, q)
  <1>1. taker \in Forms /\ c \in Forms /\ Crosses(taker, c)
    BY DEF Fill, TypeOK, BestOffers, Offers, Opposite
  <1>2. q \in Nat /\ taker.id \in Ids /\ c.id \in Ids /\ c.price \in Nat
    BY <1>1, SmallerBounds DEF Forms, Order
  <1>3. Accepts(taker.id, c.price)
    <2>1. PICK s \in Submissions : SameOrder(taker, s)
      BY <1>1 DEF Forms
    <2> QED BY <1>1, <2>1 DEF Accepts, Crosses, IsCrossed, SameOrder
  <1>4. Accepts(c.id, c.price)
    <2>1. PICK s \in Submissions : SameOrder(c, s)
      BY <1>1 DEF Forms
    <2> QED BY <1>2, <2>1 DEF Accepts, IsCrossed, SameOrder
  <1>5. t \in Trade /\ t.price = c.price
    BY <1>2 DEF TradeOf, Trade
  <1>6. Accepts(t.maker, t.price) /\ Accepts(t.taker, t.price)
    BY <1>3, <1>4 DEF TradeOf
  <1> QED BY <1>5, <1>6 DEF Fill

LEMMA LimitsStep == ASSUME TypeOK, TradesWithinLimits, [Next]_vars PROVE TradesWithinLimits'
  <1>1. CASE UNCHANGED tradeTopic
    BY <1>1 DEF TradesWithinLimits, Accepts
  <1>2. ASSUME NEW c \in asks \cup bids, Fill(c) PROVE TradesWithinLimits'
    <2>1. PICK t \in Trade : /\ tradeTopic' = Append(tradeTopic, t)
                            /\ Accepts(t.maker, t.price) /\ Accepts(t.taker, t.price)
      BY <1>2, FillPublishes
    <2>2. tradeTopic \in Seq(Trade)
      BY DEF TypeOK
    <2>3. /\ Len(tradeTopic') = Len(tradeTopic) + 1
          /\ \A k \in 1 .. Len(tradeTopic) : tradeTopic'[k] = tradeTopic[k]
          /\ tradeTopic'[Len(tradeTopic) + 1] = t
      BY <2>1, <2>2
    <2>4. ASSUME NEW k \in 1 .. Len(tradeTopic')
          PROVE  Accepts(tradeTopic'[k].maker, tradeTopic'[k].price)
                 /\ Accepts(tradeTopic'[k].taker, tradeTopic'[k].price)
      <3>1. k \in 1 .. Len(tradeTopic) \/ k = Len(tradeTopic) + 1
        BY <2>2, <2>3
      <3> QED BY <2>1, <2>3, <3>1 DEF TradesWithinLimits
    <2> QED BY <2>4 DEF TradesWithinLimits, Accepts
  <1> QED BY <1>1, <1>2, TradesChange

\* No trade is published at a price one of its two orders does not accept.
THEOREM LimitsRespected == Spec => []TradesWithinLimits
  <1>1. Init => TradesWithinLimits
    BY DEF Init, TradesWithinLimits
  <1>2. TypeOK /\ TradesWithinLimits /\ [Next]_vars => TradesWithinLimits'
    BY LimitsStep
  <1> QED BY <1>1, <1>2, TypeCorrect, PTL DEF Spec

\* The topic only grows: a traded price stays a traded price.
LEMMA TradesStay ==
  ASSUME TypeOK, [Next]_vars
  PROVE  \A j \in 1 .. Len(tradeTopic) :
           j \in 1 .. Len(tradeTopic') /\ tradeTopic'[j] = tradeTopic[j]
  <1>1. CASE UNCHANGED tradeTopic
    BY <1>1
  <1>2. ASSUME NEW c \in asks \cup bids, Fill(c)
        PROVE  \A j \in 1 .. Len(tradeTopic) :
                 j \in 1 .. Len(tradeTopic') /\ tradeTopic'[j] = tradeTopic[j]
    <2>1. PICK t \in Trade : tradeTopic' = Append(tradeTopic, t)
      BY <1>2, FillPublishes
    <2>2. tradeTopic \in Seq(Trade)
      BY DEF TypeOK
    <2> QED BY <2>1, <2>2
  <1> QED BY <1>1, <1>2, TradesChange

LEMMA PriceStep == ASSUME TypeOK, PriceIsTraded, [Next]_vars PROVE PriceIsTraded'
  <1>1. ASSUME NEW c \in asks \cup bids, Fill(c) PROVE PriceIsTraded'
    <2>1. PICK t \in Trade : tradeTopic' = Append(tradeTopic, t) /\ t.price = marketPrice'
      BY <1>1, FillPublishes
    <2>2. tradeTopic \in Seq(Trade)
      BY DEF TypeOK
    <2>3. Len(tradeTopic) + 1 \in 1 .. Len(tradeTopic') /\ tradeTopic'[Len(tradeTopic) + 1] = t
      BY <2>1, <2>2
    <2> QED BY <2>1, <2>3 DEF PriceIsTraded
  <1>2. CASE pc' \notin {"popStopBids", "popStopAsks"}
    BY <1>2 DEF PriceIsTraded
  <1>3. CASE UNCHANGED <<pc, marketPrice, tradeTopic>>
    BY <1>3 DEF PriceIsTraded
  <1>4. \/ \E c \in asks \cup bids : Fill(c)
        \/ pc' \notin {"popStopBids", "popStopAsks"}
        \/ UNCHANGED <<pc, marketPrice, tradeTopic>>
    BY DEF Next, Receive, Work, Submit, Load, Add, AddStop, AddOrder, CancelWithKey, Reload, TakeNext,
       TakeSnapshot, Finish, BeginMatch, SkipLevel, PopStopBid, PopStopAsk, StopsDone, EndMatch,
       topics, vars
  <1> QED BY <1>1, <1>2, <1>3, <1>4

\* The queue grows by the stop orders the loops pop, and is emptied.
LEMMA QueueChanges ==
  ASSUME [Next]_vars
  PROVE  \/ UNCHANGED pendingOrders
         \/ pendingOrders' = <<>>
         \/ \E o \in stopBids : PopStopBid(o)
         \/ \E o \in stopAsks : PopStopAsk(o)
BY DEF Next, Receive, Work, Submit, Load, Add, AddStop, AddOrder, CancelWithKey, Reload, TakeNext,
       TakeSnapshot, Finish, BeginMatch, Fill, SkipLevel, StopsDone, EndMatch, vars

\* A trade at a price that reaches the stop price of an order has been published.
ReachedBy(topic, o) ==
  \E j \in 1 .. Len(topic) :
    IF o.side = "buy" THEN topic[j].price <= o.stop ELSE topic[j].price >= o.stop

LEMMA QueuedStep ==
  ASSUME TypeOK, Sided, PriceIsTraded, QueuedStopsWereReached, [Next]_vars
  PROVE  QueuedStopsWereReached'
  <1>1. \A o : ReachedBy(tradeTopic, o) => ReachedBy(tradeTopic', o)
    BY TradesStay DEF ReachedBy
  <1>2. CASE UNCHANGED pendingOrders
    BY <1>1, <1>2 DEF QueuedStopsWereReached, ReachedBy
  <1>3. CASE pendingOrders' = <<>>
    BY <1>3 DEF QueuedStopsWereReached
  <1>4. ASSUME NEW o \in Forms, pendingOrders' = Append(pendingOrders, o), ReachedBy(tradeTopic, o)
        PROVE  QueuedStopsWereReached'
    <2>1. pendingOrders \in Seq(Forms)
      BY DEF TypeOK
    <2>2. ASSUME NEW k \in 1 .. Len(pendingOrders') PROVE ReachedBy(tradeTopic', pendingOrders'[k])
      <3>1. CASE k \in 1 .. Len(pendingOrders)
        <4>1. pendingOrders'[k] = pendingOrders[k] /\ ReachedBy(tradeTopic, pendingOrders[k])
          BY <1>4, <2>1, <3>1 DEF QueuedStopsWereReached, ReachedBy
        <4> QED BY <1>1, <4>1
      <3>2. CASE k = Len(pendingOrders) + 1
        <4>1. pendingOrders'[k] = o
          BY <1>4, <2>1, <3>2
        <4> QED BY <1>1, <1>4, <4>1
      <3> QED BY <1>4, <2>1, <3>1, <3>2
    <2> QED BY <2>2 DEF QueuedStopsWereReached, ReachedBy
  <1>5. ASSUME NEW o \in stopBids, PopStopBid(o) PROVE QueuedStopsWereReached'
    <2>1. o.side = "buy" /\ ReachedBy(tradeTopic, o)
      BY <1>5 DEF PopStopBid, Reached, Sided, PriceIsTraded, ReachedBy
    <2> QED BY <1>4, <1>5, <2>1 DEF PopStopBid, TypeOK
  <1>6. ASSUME NEW o \in stopAsks, PopStopAsk(o) PROVE QueuedStopsWereReached'
    <2>1. o.side = "sell" /\ ReachedBy(tradeTopic, o)
      <3>1. o.stop <= marketPrice /\ o.stop \in Nat /\ marketPrice \in Nat
        BY <1>6 DEF PopStopAsk, Reached, Sided, TypeOK, Forms, Order
      <3> QED BY <1>6, <3>1 DEF PopStopAsk, Sided, PriceIsTraded, ReachedBy
    <2> QED BY <1>4, <1>6, <2>1 DEF PopStopAsk, TypeOK
  <1> QED BY <1>2, <1>3, <1>5, <1>6, QueueChanges

\* A stop order waits in the queue only when a trade has reached its stop price.
THEOREM StopsWaitForTheirPrice == Spec => []QueuedStopsWereReached
  <1>1. Init => Sided /\ PriceIsTraded /\ QueuedStopsWereReached
    BY DEF Init, Sided, PriceIsTraded, QueuedStopsWereReached
  <1>2. TypeOK /\ Sided /\ PriceIsTraded /\ QueuedStopsWereReached /\ [Next]_vars
          => (Sided /\ PriceIsTraded /\ QueuedStopsWereReached)'
    BY SidedStep, PriceStep, QueuedStep
  <1> QED BY <1>1, <1>2, TypeCorrect, PTL DEF Spec

-----------------------------------------------------------------------------
(* The loops over the stop trees leave nothing behind. *)

\* The stop trees are finite: they grow by one order at a time.
FiniteStops == IsFiniteSet(stopAsks) /\ IsFiniteSet(stopBids)

LEMMA FiniteStopsStep == ASSUME TypeOK, FiniteStops, [Next]_vars PROVE FiniteStops'
  <1>1. ASSUME NEW o \in Submissions, AddStop(o) PROVE FiniteStops'
    <2>1. IsFiniteSet(stopAsks \cup {o}) /\ IsFiniteSet(stopBids \cup {o})
      BY FS_AddElement DEF FiniteStops
    <2> QED BY <1>1, <2>1 DEF AddStop, FiniteStops
  <1>2. ASSUME \/ \E waiting \in LoadSets : Reload(waiting)
               \/ \E o \in stopBids : PopStopBid(o)
               \/ \E o \in stopAsks : PopStopAsk(o)
        PROVE  FiniteStops'
    <2>1. stopAsks' \subseteq stopAsks /\ stopBids' \subseteq stopBids
      BY <1>2 DEF Reload, PopStopBid, PopStopAsk
    <2> QED BY <2>1, FS_Subset DEF FiniteStops
  <1> QED BY <1>1, <1>2, StopsChange DEF FiniteStops

\* A tree of stop orders of one side that is not empty has an order nothing goes before.
LEMMA SomeStopIsBest ==
  ASSUME NEW S, IsFiniteSet(S), S \subseteq Forms, NEW side \in Sides,
         \A o \in S : o.side = side, S # {}
  PROVE  BestStops(S) # {}
  <1> DEFINE G == {T \in SUBSET S : T # {} => BestStops(T) # {}}
  <1>1. \A o \in S : o.stop \in Nat /\ o.at \in Nat /\ o.side = side
    BY DEF Forms, Order
  <1>2. ASSUME NEW T \in SUBSET S, \A U \in SUBSET T : U # T => U \in G, T # {}
        PROVE  BestStops(T) # {}
    <2>1. PICK x \in T : TRUE
      BY <1>2
    <2>2. ~ TriggersBefore(x, x)
      BY <1>1, <2>1 DEF TriggersBefore
    <2>3. CASE T \ {x} = {}
      BY <2>1, <2>2, <2>3 DEF BestStops
    <2>4. CASE T \ {x} # {}
      <3>1. T \ {x} \in G
        BY <1>2, <2>1
      <3>2. PICK b \in T \ {x} : \A p \in T \ {x} : ~ TriggersBefore(p, b)
        BY <2>4, <3>1 DEF BestStops
      <3>3. CASE TriggersBefore(x, b)
        <4>1. ASSUME NEW p \in T \ {x}, TriggersBefore(p, x) PROVE TriggersBefore(p, b)
          BY <1>1, <3>2, <3>3, <4>1, <2>1 DEF TriggersBefore
        <4> QED BY <2>1, <2>2, <3>2, <4>1 DEF BestStops
      <3>4. CASE ~ TriggersBefore(x, b)
        BY <2>1, <3>2, <3>4 DEF BestStops
      <3> QED BY <3>3, <3>4
    <2> QED BY <2>3, <2>4
  <1>3. S \in G
    <2>1. \A T \in SUBSET S : (\A U \in SUBSET T : U # T => U \in G) => T \in G
      BY <1>2
    <2> HIDE DEF G
    <2> QED BY <2>1, SetInduction
  <1> QED BY <1>3

\* The loop ends when the best order is not reached; then none is.
LEMMA NoneLeftStep ==
  ASSUME TypeOK, Sided, FiniteStops, [Next]_vars, pc' = "match"
  PROVE  /\ pc = "popStopBids" => \A o \in stopBids : o.stop < marketPrice
         /\ pc = "popStopAsks" => \A o \in stopAsks : o.stop > marketPrice
  <1>0. /\ stopAsks \subseteq Forms /\ stopBids \subseteq Forms /\ marketPrice \in Nat
        /\ \A o \in stopAsks \cup stopBids : o.stop \in Nat
    BY DEF TypeOK, Forms, Order
  <1>1. ASSUME pc \in {"popStopBids", "popStopAsks"} PROVE StopsDone
    BY <1>1 DEF Next, Receive, Work, Submit, Load, CancelWithKey, Reload, TakeNext, TakeSnapshot, Finish,
       BeginMatch, Fill, SkipLevel, PopStopBid, PopStopAsk, EndMatch, vars
  <1>2. ASSUME pc = "popStopBids", NEW o \in stopBids PROVE o.stop < marketPrice
    <2>1. PICK b \in stopBids : b \in BestStops(stopBids)
      <3>1. BestStops(stopBids) # {}
        BY <1>0, <1>2, SomeStopIsBest DEF FiniteStops, Sided, Sides
      <3> QED BY <3>1 DEF BestStops
    <2>2. ~ Reached(b) /\ ~ TriggersBefore(o, b) /\ b.side = "buy" /\ o.side = "buy"
      BY <1>1, <1>2, <2>1 DEF StopsDone, BestStops, Sided
    <2> QED BY <1>0, <2>1, <2>2, <1>2 DEF Reached, TriggersBefore
  <1>3. ASSUME pc = "popStopAsks", NEW o \in stopAsks PROVE o.stop > marketPrice
    <2>1. PICK b \in stopAsks : b \in BestStops(stopAsks)
      <3>1. BestStops(stopAsks) # {}
        BY <1>0, <1>3, SomeStopIsBest DEF FiniteStops, Sided, Sides
      <3> QED BY <3>1 DEF BestStops
    <2>2. ~ Reached(b) /\ ~ TriggersBefore(o, b) /\ b.side = "sell" /\ o.side = "sell"
      BY <1>1, <1>3, <2>1 DEF StopsDone, BestStops, Sided
    <2> QED BY <1>0, <2>1, <2>2, <1>3 DEF Reached, TriggersBefore
  <1> QED BY <1>2, <1>3

\* For any trees of stop orders, the loop of setMarketPrice leaves no order in the tree
\* it looks at that the new price has reached.
THEOREM ReachedStopsAreTaken == Spec => NoReachedStopLeft
  <1>1. Init => Sided /\ FiniteStops
    BY FS_EmptySet DEF Init, Sided, FiniteStops
  <1>2. TypeOK /\ Sided /\ FiniteStops /\ [Next]_vars => (Sided /\ FiniteStops)'
    BY SidedStep, FiniteStopsStep
  <1>3. TypeOK /\ Sided /\ FiniteStops /\ [Next]_vars
          => [pc' = "match" =>
               /\ pc = "popStopBids" => \A o \in stopBids : o.stop < marketPrice
               /\ pc = "popStopAsks" => \A o \in stopAsks : o.stop > marketPrice]_vars
    BY NoneLeftStep
  <1> QED BY <1>1, <1>2, <1>3, TypeCorrect, PTL DEF Spec, NoReachedStopLeft

-----------------------------------------------------------------------------
(* No volume is lost or doubled. *)

\* Where an order can be.
InBook(i) == \E r \in asks \cup bids : r.id = i

InBatch(i) == \E k \in 1 .. Len(batch) : batch[k].id = i

Active(i) == pc \in {"begin", "match", "popStopBids", "popStopAsks"} /\ taker.id = i

Nowhere(i) == ~ InBook(i) /\ ~ InBatch(i) /\ ~ Active(i)

\* Order o holds what has been delivered and not been traded of its volume.
HoldsRest(o, i) ==
  o.id = i /\ ~ o.cancelled /\ offered[i] = traded[i] + UnfilledQuantity(o)

Arriving(i) ==
  /\ pc = "next" /\ Len(batch) = 1 /\ HoldsRest(batch[1], i)
  /\ ~ InBook(i) /\ ~ Active(i)

Matching(i) == Active(i) /\ HoldsRest(taker, i) /\ ~ InBook(i) /\ ~ InBatch(i)

OnOffer(i) == (\E r \in asks \cup bids : HoldsRest(r, i)) /\ ~ InBatch(i) /\ ~ Active(i)

\* The rest of an order is in one place, and nothing else of it is anywhere.
InOnePlace(i) ==
  /\ \/ Nowhere(i) /\ offered[i] = traded[i]
     \/ Arriving(i)
     \/ Matching(i)
     \/ OnOffer(i)
  /\ received[i] = 0 => Nowhere(i)

\* The orders VolumeAccounted is about, from before their delivery on.
Watched(i) ==
  Always(i, IsPlainLimit) /\ reloads = 0 /\ received[i] <= 1 /\ ~ CancelPublished(i)

WatchedInOnePlace == \A i \in Ids : Watched(i) => InOnePlace(i)

\* The stop trees and the queue hold stop orders only.
StopsAreStops ==
  /\ \A s \in stopAsks \cup stopBids : s.stop > 0
  /\ \A k \in 1 .. Len(pendingOrders) : pendingOrders[k].stop > 0

LEMMA StopsAreStopsStep == ASSUME TypeOK, StopsAreStops, [Next]_vars PROVE StopsAreStops'
  <1>1. \A s \in stopAsks' \cup stopBids' : s.stop > 0
    <2>1. ASSUME NEW o \in Submissions, AddStop(o)
          PROVE  \A s \in stopAsks' \cup stopBids' : s.stop > 0
      BY <2>1 DEF AddStop, StopsAreStops
    <2>2. CASE /\ ~ \E o \in Submissions : AddStop(o)
      <3>1. stopAsks' \subseteq stopAsks /\ stopBids' \subseteq stopBids
        BY <2>2, StopsChange DEF Reload, PopStopBid, PopStopAsk
      <3> QED BY <3>1 DEF StopsAreStops
    <2> QED BY <2>1, <2>2
  <1>2. \A k \in 1 .. Len(pendingOrders') : pendingOrders'[k].stop > 0
    <2>1. CASE UNCHANGED pendingOrders \/ pendingOrders' = <<>>
      BY <2>1 DEF StopsAreStops
    <2>2. ASSUME NEW o \in stopAsks \cup stopBids, pendingOrders' = Append(pendingOrders, o),
                 NEW k \in 1 .. Len(pendingOrders')
          PROVE  pendingOrders'[k].stop > 0
      <3>1. pendingOrders \in Seq(Forms) /\ o \in Forms
        BY DEF TypeOK
      <3>2. CASE k \in 1 .. Len(pendingOrders)
        BY <2>2, <3>1, <3>2 DEF StopsAreStops
      <3>3. CASE k = Len(pendingOrders) + 1
        BY <2>2, <3>1, <3>3 DEF StopsAreStops
      <3> QED BY <2>2, <3>1, <3>2, <3>3
    <2> QED BY <2>1, <2>2, QueueChanges DEF PopStopBid, PopStopAsk
  <1> QED BY <1>1, <1>2 DEF StopsAreStops

\* A watched order has been watched before.
LEMMA WatchedBefore ==
  ASSUME TypeOK, [Next]_vars, NEW i \in Ids, Watched(i)'
  PROVE  Watched(i) /\ ~ \E waiting \in LoadSets : Reload(waiting)
  <1>1. reloads \in Nat /\ received \in [Ids -> Nat] /\ processorTopic \in Seq(Ids)
    BY DEF TypeOK
  <1>2. reloads <= reloads' /\ ((\E waiting \in LoadSets : Reload(waiting)) => reloads' = reloads + 1)
    BY <1>1 DEF Next, Receive, Work, Submit, Load, Add, AddStop, AddOrder, CancelWithKey, Reload,
       TakeNext, TakeSnapshot, Finish, BeginMatch, Fill, SkipLevel, PopStopBid, PopStopAsk,
       StopsDone, EndMatch, inputs, vars
  <1>3. UNCHANGED received \/ \E o \in Submissions : Add(o)
    BY DEF Next, Receive, Work, Submit, Load, CancelWithKey, Reload, TypeOK,
       TakeNext, TakeSnapshot, Finish, BeginMatch, Fill, SkipLevel, PopStopBid, PopStopAsk,
       StopsDone, EndMatch, inputs, vars
  <1>4. received[i] <= received'[i]
    BY <1>1, <1>3 DEF Add
  <1>5. UNCHANGED processorTopic \/ \E j \in Ids : processorTopic' = Append(processorTopic, j)
    <2>1. ASSUME BeginMatch
          PROVE  UNCHANGED processorTopic \/ \E j \in Ids : processorTopic' = Append(processorTopic, j)
      BY <2>1 DEF BeginMatch, TypeOK, Forms, Order
    <2>2. ASSUME NEW o \in Submissions, CancelWithKey(o)
          PROVE  UNCHANGED processorTopic \/ \E j \in Ids : processorTopic' = Append(processorTopic, j)
      BY <2>2, SubmissionsAssumption DEF CancelWithKey, Order
    <2>3. \/ UNCHANGED processorTopic
          \/ BeginMatch
          \/ \E o \in Submissions : CancelWithKey(o)
      BY DEF Next, Receive, Work, Submit, Load, Add, AddStop, AddOrder, Reload, TakeNext, TakeSnapshot,
         Finish, Fill, SkipLevel, PopStopBid, PopStopAsk, StopsDone, EndMatch, topics, vars
    <2> QED BY <2>1, <2>2, <2>3
  <1>6. CancelPublished(i) => CancelPublished(i)'
    <2> SUFFICES ASSUME NEW k \in 1 .. Len(processorTopic), processorTopic[k] = i,
                        NEW j \in Ids, processorTopic' = Append(processorTopic, j)
                 PROVE  CancelPublished(i)'
      BY <1>5 DEF CancelPublished
    <2>1. k \in 1 .. Len(processorTopic') /\ processorTopic'[k] = i
      BY <1>1
    <2> QED BY <2>1 DEF CancelPublished
  <1>7. reloads' = 0 /\ received'[i] <= 1 /\ ~ CancelPublished(i)' /\ reloads' \in Nat
    BY DEF Watched
  <1>8. reloads = 0 /\ received[i] <= 1
    BY <1>1, <1>2, <1>4, <1>7, TypeStep, SMTT(30) DEF TypeOK
  <1> QED BY <1>1, <1>2, <1>6, <1>7, <1>8 DEF Watched, Always

\* Every delivery of the order is of a limit order without a stop price.
IsPlain(i) == \A o \in Submissions : o.id = i => o.type = "limit" /\ o.stop = 0

LEMMA WatchedIsPlain == ASSUME NEW i \in Ids, Watched(i) PROVE IsPlain(i)
  BY DEF Watched, Always, IsPlainLimit, IsPlain

LEMMA PlainForms ==
  ASSUME NEW i \in Ids, IsPlain(i), NEW o \in Forms, o.id = i
  PROVE  /\ o.type = "limit" /\ o.stop = 0 /\ o.price > 0
         /\ o.side \in {"buy", "sell"} /\ UnfilledQuantity(o) \in Nat
  <1>1. PICK s \in Submissions : SameOrder(o, s)
    BY DEF Forms
  <1>2. s.type = "limit" /\ s.stop = 0 /\ WellFormed(s)
    BY <1>1, SubmissionsAssumption DEF IsPlain, SameOrder
  <1> QED BY <1>1, <1>2 DEF WellFormed, SameOrder, Forms, Order, Sides, UnfilledQuantity

LEMMA PlaceAdd ==
  ASSUME TypeOK, NEW i \in Ids, InOnePlace(i), IsPlain(i), NEW o \in Submissions, Add(o), pc = "idle",
         o.id = i => received[i] = 0 /\ ~ o.cancelled
  PROVE  InOnePlace(i)'
  <1>1. o \in Forms
    BY SubmissionIsForm
  <1>2. ~ InBatch(i) /\ ~ Active(i)
    BY DEF InOnePlace, Nowhere, Arriving, Matching, OnOffer, Active
  <1>3. CASE o.id = i
    <2>1. o.type = "limit" /\ o.stop = 0 /\ ~ o.cancelled /\ UnfilledQuantity(o) \in Nat
      BY <1>1, <1>3, PlainForms
    <2>2. received[i] = 0 /\ received'[i] = 1
      BY <1>3 DEF Add, TypeOK
    <2>3. Nowhere(i) /\ offered[i] = traded[i]
      BY <2>2 DEF InOnePlace, Nowhere, Arriving, Matching, OnOffer, HoldsRest, InBook, InBatch
    <2>4. batch' = <<o>> /\ pc' = "next" /\ UNCHANGED <<asks, bids, traded>>
      BY <2>1 DEF Add, AddStop, AddOrder, book, topics
    <2>5. Len(batch') = 1 /\ batch'[1] = o
      BY <2>4
    <2>6. offered'[i] = traded'[i] + UnfilledQuantity(o)
      BY <1>3, <2>1, <2>3, <2>4 DEF Add, TypeOK
    <2>7. Arriving(i)'
      BY <1>3, <2>1, <2>3, <2>4, <2>5, <2>6 DEF Arriving, HoldsRest, Nowhere, InBook, Active, UnfilledQuantity
    <2> QED BY <2>2, <2>7 DEF InOnePlace
  <1>4. CASE o.id # i
    <2>1. UNCHANGED <<asks, bids, traded>> /\ offered'[i] = offered[i] /\ received'[i] = received[i]
      BY <1>4 DEF Add, AddStop, AddOrder, book, topics, TypeOK
    <2>2. ~ InBatch(i)'
      BY <1>2, <1>4 DEF Add, AddStop, AddOrder, adding, InBatch
    <2>3. ~ Active(i)'
      BY <1>2 DEF Add, AddStop, AddOrder, Active
    <2>4. Nowhere(i) \/ OnOffer(i)
      BY DEF InOnePlace, Arriving, Matching, Active
    <2>5. Nowhere(i) => Nowhere(i)'
      BY <2>1, <2>2, <2>3 DEF Nowhere, InBook
    <2>6. OnOffer(i) => OnOffer(i)'
      BY <2>1, <2>2, <2>3 DEF OnOffer, HoldsRest, UnfilledQuantity
    <2>7. Nowhere(i) => offered[i] = traded[i]
      BY DEF InOnePlace, Arriving, Matching, OnOffer, HoldsRest, Nowhere, InBook, InBatch
    <2> QED BY <2>1, <2>4, <2>5, <2>6, <2>7 DEF InOnePlace, OnOffer, HoldsRest
  <1> QED BY <1>3, <1>4

LEMMA PlaceCancel ==
  ASSUME TypeOK, NEW i \in Ids, InOnePlace(i), NEW key \in Submissions, CancelWithKey(key), key.id # i
  PROVE  InOnePlace(i)'
  <1>2. \A r : r.id = i => (r \in asks' \cup bids' <=> r \in asks \cup bids)
    BY DEF CancelWithKey, WithoutKey
  <1>3. UNCHANGED <<pc, taker, batch, received, offered, traded>>
    BY DEF CancelWithKey, adding
  <1> QED BY <1>2, <1>3 DEF InOnePlace, Nowhere, Arriving, Matching, OnOffer, HoldsRest, InBook, InBatch,
             Active, UnfilledQuantity

LEMMA PlaceLoop ==
  ASSUME TypeOK, StopsAreStops, NEW i \in Ids, InOnePlace(i), IsPlain(i),
         TakeNext \/ TakeSnapshot \/ Finish
  PROVE  InOnePlace(i)'
  <1>1. UNCHANGED <<asks, bids, received, offered, traded>> /\ pc = "next" /\ batch \in Seq(Forms)
    BY DEF TakeNext, TakeSnapshot, Finish, book, topics, inputs, TypeOK
  <1>2. ~ Active(i)
    BY <1>1 DEF Active
  <1>3. ASSUME ~ InBatch(i), ~ InBatch(i)', ~ Active(i)' PROVE InOnePlace(i)'
    <2>1. (Nowhere(i) /\ offered[i] = traded[i]) \/ OnOffer(i)
      BY <1>2, <1>3, <1>1 DEF InOnePlace, Arriving, Matching, InBatch, HoldsRest
    <2> QED BY <1>1, <1>2, <1>3, <2>1 DEF InOnePlace, Nowhere, OnOffer, HoldsRest, InBook, UnfilledQuantity
  <1>4. CASE TakeNext
    <2>1. /\ batch # <<>> /\ taker' = batch[1] /\ batch' = Tail(batch) /\ pc' = "begin"
          /\ 1 \in 1 .. Len(batch)
      BY <1>1, <1>4 DEF TakeNext
    <2>2. CASE InBatch(i)
      <3>1. Arriving(i)
        BY <1>2, <2>2 DEF InOnePlace, Nowhere, Matching, OnOffer
      <3>2. ~ InBatch(i)'
        BY <1>1, <2>1, <3>1 DEF Arriving, InBatch
      <3>3. Matching(i)'
        BY <1>1, <2>1, <3>1, <3>2 DEF Arriving, Matching, Active, HoldsRest, InBook, UnfilledQuantity
      <3>4. received'[i] # 0
        BY <1>1, <2>2 DEF InOnePlace, Nowhere
      <3> QED BY <3>3, <3>4 DEF InOnePlace
    <2>3. CASE ~ InBatch(i)
      <3>1. \A k \in 1 .. Len(batch') : k + 1 \in 1 .. Len(batch) /\ batch'[k] = batch[k + 1]
        BY <1>1, <2>1
      <3>2. ~ InBatch(i)' /\ ~ Active(i)'
        BY <2>1, <2>3, <3>1 DEF InBatch, Active
      <3> QED BY <1>3, <2>3, <3>2
    <2> QED BY <2>2, <2>3
  <1>5. CASE TakeSnapshot
    <2>1. batch = <<>> /\ batch' = pendingOrders /\ pc' = "next"
      BY <1>1, <1>5 DEF TakeSnapshot
    <2>2. \A k \in 1 .. Len(pendingOrders) : pendingOrders[k].id # i
      <3>1. ASSUME NEW k \in 1 .. Len(pendingOrders), pendingOrders[k].id = i PROVE FALSE
        <4>1. pendingOrders[k] \in Forms /\ pendingOrders[k].stop > 0
          BY DEF TypeOK, StopsAreStops
        <4> QED BY <3>1, <4>1, PlainForms
      <3> QED BY <3>1
    <2> QED BY <1>3, <2>1, <2>2 DEF InBatch, Active
  <1>6. CASE Finish
    BY <1>3, <1>6 DEF Finish, InBatch, Active
  <1> QED BY <1>4, <1>5, <1>6

\* The steps within a match that move no volume.
LEMMA PlaceWalk ==
  ASSUME TypeOK, NEW i \in Ids, InOnePlace(i), IsPlain(i),
         \/ BeginMatch \/ SkipLevel \/ StopsDone
         \/ \E o \in stopBids : PopStopBid(o)
         \/ \E o \in stopAsks : PopStopAsk(o)
  PROVE  InOnePlace(i)'
  <1>1. UNCHANGED <<asks, bids, taker, batch, received, offered, traded>>
    BY DEF BeginMatch, SkipLevel, StopsDone, PopStopBid, PopStopAsk, book, adding, topics, inputs
  <1>2. pc # "next" /\ taker \in Forms
    BY DEF BeginMatch, SkipLevel, StopsDone, PopStopBid, PopStopAsk, TypeOK
  <1>3. Active(i)' <=> Active(i)
    <2>1. taker.id = i => ~ NoOfferAtAll
      BY <1>2, PlainForms DEF NoOfferAtAll
    <2> QED BY <1>1, <2>1 DEF BeginMatch, SkipLevel, StopsDone, PopStopBid, PopStopAsk, Active
  <1> QED BY <1>1, <1>2, <1>3 DEF InOnePlace, Nowhere, Arriving, Matching, OnOffer, HoldsRest, InBook, InBatch,
             UnfilledQuantity

LEMMA PlaceFill ==
  ASSUME TypeOK, RestingIsLive, NEW i \in Ids, InOnePlace(i), IsPlain(i),
         NEW c \in asks \cup bids, Fill(c)
  PROVE  InOnePlace(i)'
  <1> DEFINE q == Smaller(UnfilledQuantity(taker), UnfilledQuantity(c))
  <1>1. taker \in Forms /\ c \in Forms /\ c \in Opposite(taker) /\ Opposite(taker) \subseteq Forms
    BY DEF Fill, TypeOK, BestOffers, Offers, Opposite
  <1>2. q \in Nat /\ q <= UnfilledQuantity(taker) /\ q <= UnfilledQuantity(c)
    BY <1>1, SmallerBounds
  <1>3. /\ SameOrder(Filling(c, q), c) /\ UnfilledQuantity(Filling(c, q)) = UnfilledQuantity(c) - q
        /\ SameOrder(Filling(taker, q), taker)
        /\ UnfilledQuantity(Filling(taker, q)) = UnfilledQuantity(taker) - q
        /\ Filling(c, q).cancelled = c.cancelled /\ Filling(taker, q).cancelled = taker.cancelled
    BY <1>1, <1>2, FillingIsForm DEF Filling, Forms, Order
  <1>4. /\ taker' = Filling(taker, q)
        /\ traded'[i] = traded[i] + IF i \in {taker.id, c.id} THEN q ELSE 0
        /\ pc = "match" /\ pc' \in {"match", "popStopBids", "popStopAsks"}
        /\ UNCHANGED <<batch, received, offered>>
    <2>1. c.price \in Nat /\ marketPrice \in Nat
      BY <1>1 DEF Forms, Order, TypeOK
    <2>2. pc' \in {"match", "popStopBids", "popStopAsks"}
      BY <2>1 DEF Fill, StopLoop
    <2> QED BY <2>2 DEF Fill, adding, inputs
  <1>5. \/ asks' = AfterFill(asks, c, q) /\ bids' = bids /\ c \in asks
        \/ bids' = AfterFill(bids, c, q) /\ asks' = asks /\ c \in bids
    BY <1>1 DEF Fill, Opposite
  <1>6. /\ offered[i] \in Nat /\ traded[i] \in Nat
        /\ UnfilledQuantity(c) \in Nat /\ UnfilledQuantity(taker) \in Nat
    <2>1. offered[i] \in Nat /\ traded[i] \in Nat
      BY DEF TypeOK
    <2> QED BY <1>1, <2>1 DEF Forms, Order, UnfilledQuantity
  <1>7. asks \cap bids = {}
    BY DEF RestingIsLive
  <1>8. \A r \in asks \cup bids : r.id = c.id => r = c
    BY DEF RestingIsLive
  <1> HIDE DEF q
  <1>9. /\ \A r \in asks' \cup bids' : (r \in asks \cup bids /\ r # c) \/ r = Filling(c, q)
        /\ \A r \in asks \cup bids : r # c => r \in asks' \cup bids'
    <2>1. ASSUME NEW S, c \in S
          PROVE  /\ \A r \in AfterFill(S, c, q) : (r \in S /\ r # c) \/ r = Filling(c, q)
                 /\ \A r \in S : r # c => r \in AfterFill(S, c, q)
      BY <2>1 DEF AfterFill
    <2> QED BY <1>5, <1>7, <2>1
  <1>10. received[i] # 0 \/ (~ InBook(i) /\ ~ Active(i))
    BY DEF InOnePlace, Nowhere
  <1>11. CASE taker.id = i
    <2>1. Matching(i) /\ c.id # i
      BY <1>4, <1>11 DEF InOnePlace, Nowhere, Arriving, Matching, OnOffer, Active, InBook
    <2>2. ~ InBook(i)'
      BY <1>3, <1>9, <2>1 DEF Matching, InBook, SameOrder
    <2>3. Matching(i)'
      BY <1>2, <1>3, <1>4, <1>6, <1>11, <2>1, <2>2 DEF Matching, Active, HoldsRest, InBatch, SameOrder, UnfilledQuantity
    <2> QED BY <1>4, <1>10, <2>1, <2>3 DEF InOnePlace, Matching
  <1>12. CASE taker.id # i /\ c.id = i
    <2>1. OnOffer(i) /\ HoldsRest(c, i)
      BY <1>8, <1>12 DEF InOnePlace, Nowhere, Arriving, Matching, OnOffer, InBook, HoldsRest
    <2>2. ~ InBatch(i)' /\ ~ Active(i)'
      BY <1>3, <1>4, <1>12, <2>1 DEF OnOffer, InBatch, Active, SameOrder
    <2>3. CASE Filled(Filling(c, q))
      <3>1. q = UnfilledQuantity(c)
        BY <1>2, <1>3, <1>6, <2>3 DEF Filled
      <3>2. Filling(c, q) \notin asks' \cup bids'
        <4>1. Filling(c, q) \in asks \cup bids => Filling(c, q) = c
          BY <1>3, <1>8 DEF SameOrder
        <4>2. ~ Filled(c)
          BY DEF RestingIsLive
        <4> QED BY <1>5, <2>3, <4>1, <4>2 DEF AfterFill
      <3>3. ~ InBook(i)'
        BY <1>8, <1>9, <1>12, <3>2 DEF InBook
      <3>4. offered'[i] = traded'[i]
        BY <1>4, <1>6, <1>12, <2>1, <3>1 DEF HoldsRest
      <3> QED BY <2>2, <3>3, <3>4 DEF InOnePlace, Nowhere
    <2>4. CASE ~ Filled(Filling(c, q))
      <3>1. Filling(c, q) \in asks' \cup bids'
        BY <1>5, <2>1, <2>4 DEF AfterFill, HoldsRest
      <3>2. offered'[i] = traded'[i] + UnfilledQuantity(Filling(c, q))
        BY <1>2, <1>3, <1>4, <1>6, <1>12, <2>1 DEF HoldsRest
      <3>3. OnOffer(i)'
        BY <1>3, <1>12, <2>1, <2>2, <3>1, <3>2 DEF OnOffer, HoldsRest, SameOrder, UnfilledQuantity
      <3>4. received'[i] # 0
        BY <1>4, <1>10, <1>12 DEF InBook
      <3> QED BY <3>3, <3>4 DEF InOnePlace
    <2> QED BY <2>3, <2>4
  <1>13. CASE taker.id # i /\ c.id # i
    <2>1. \A r : r.id = i => (r \in asks' \cup bids' <=> r \in asks \cup bids)
      BY <1>3, <1>9, <1>13 DEF SameOrder
    <2>2. ~ Active(i) /\ ~ Active(i)' /\ traded'[i] = traded[i]
      BY <1>3, <1>4, <1>6, <1>13 DEF Active, SameOrder
    <2> QED BY <1>4, <2>1, <2>2 DEF InOnePlace, Nowhere, Arriving, Matching, OnOffer, HoldsRest, InBook, InBatch,
               UnfilledQuantity
  <1> QED BY <1>11, <1>12, <1>13

LEMMA PlaceEnd ==
  ASSUME TypeOK, NEW i \in Ids, InOnePlace(i), IsPlain(i), EndMatch
  PROVE  InOnePlace(i)'
  <1>1. /\ pc = "match" /\ pc' = "next" /\ taker \in Forms
        /\ UNCHANGED <<taker, batch, received, offered, traded>>
    BY DEF EndMatch, TypeOK, adding, topics, inputs
  <1>2. ~ Active(i)'
    BY <1>1 DEF Active
  <1>3. CASE taker.id # i
    <2>1. \A r : r.id = i => (r \in asks' \cup bids' <=> r \in asks \cup bids)
      BY <1>3 DEF EndMatch, WithOrder
    <2> QED BY <1>1, <1>2, <1>3, <2>1 DEF InOnePlace, Nowhere, Arriving, Matching, OnOffer, HoldsRest, InBook,
               InBatch, Active, UnfilledQuantity
  <1>4. CASE taker.id = i
    <2>1. Matching(i)
      BY <1>1, <1>4 DEF InOnePlace, Nowhere, Arriving, OnOffer, Active
    <2>2. taker.type = "limit" /\ taker.side \in {"buy", "sell"} /\ UnfilledQuantity(taker) \in Nat
      BY <1>1, <1>4, PlainForms
    <2>3. CASE Filled(taker)
      <3>1. asks' = asks /\ bids' = bids
        BY <2>3 DEF EndMatch, Rests
      <3>2. offered'[i] = traded'[i]
        BY <1>1, <2>1, <2>3 DEF Matching, HoldsRest, Filled, TypeOK
      <3> QED BY <1>1, <1>2, <2>1, <3>1, <3>2 DEF InOnePlace, Nowhere, Matching, InBook, InBatch
    <2>4. CASE ~ Filled(taker)
      <3>1. taker \in asks' \cup bids'
        BY <2>1, <2>2, <2>4 DEF EndMatch, Rests, WithOrder, Matching, InBook, HoldsRest
      <3>2. OnOffer(i)'
        BY <1>1, <1>2, <2>1, <3>1 DEF OnOffer, Matching, HoldsRest, InBatch, UnfilledQuantity
      <3>3. received'[i] # 0
        BY <1>1, <2>1 DEF InOnePlace, Nowhere, Matching
      <3> QED BY <3>2, <3>3 DEF InOnePlace
    <2> QED BY <2>3, <2>4
  <1> QED BY <1>3, <1>4

\* What the engine does by itself, but for the orders it loads.
Own ==
  \/ TakeNext \/ TakeSnapshot \/ Finish
  \/ BeginMatch \/ SkipLevel \/ StopsDone \/ EndMatch
  \/ \E c \in asks \cup bids : Fill(c)
  \/ \E o \in stopBids : PopStopBid(o)
  \/ \E o \in stopAsks : PopStopAsk(o)

LEMMA PlaceOwn ==
  ASSUME TypeOK, RestingIsLive, StopsAreStops, NEW i \in Ids, InOnePlace(i), IsPlain(i), Own
  PROVE  InOnePlace(i)'
  BY PlaceLoop, PlaceWalk, PlaceFill, PlaceEnd DEF Own

LEMMA PlaceStep ==
  ASSUME TypeOK, RestingIsLive, StopsAreStops, WatchedInOnePlace, [Next]_vars
  PROVE  WatchedInOnePlace'
  <1> SUFFICES ASSUME NEW i \in Ids, Watched(i)' PROVE InOnePlace(i)'
    BY DEF WatchedInOnePlace
  <1>1. Watched(i) /\ InOnePlace(i) /\ ~ \E waiting \in LoadSets : Reload(waiting)
    BY WatchedBefore DEF WatchedInOnePlace
  <1>2. IsPlain(i)
    BY <1>1, WatchedIsPlain
  <1>3. ASSUME NEW o \in Submissions, Submit(o) \/ Load(o) PROVE InOnePlace(i)'
    <2>1. Add(o) /\ pc = "idle"
      BY <1>3 DEF Submit, Load
    <2>2. o.id = i => received[i] = 0 /\ ~ o.cancelled
      BY <1>1, <2>1 DEF Watched, Always, IsPlainLimit, Add, TypeOK
    <2> QED BY <1>1, <1>2, <2>1, <2>2, PlaceAdd
  <1>4. ASSUME NEW o \in Submissions, CancelWithKey(o) PROVE InOnePlace(i)'
    <2>1. o.id # i
      <3> SUFFICES ASSUME o.id = i PROVE FALSE
        OBVIOUS
      <3>1. ~ o.fake
        BY <1>1 DEF Watched, Always, IsPlainLimit
      <3>2. processorTopic' = Append(processorTopic, i) /\ processorTopic \in Seq(Ids)
        BY <1>4, <3>1 DEF CancelWithKey, TypeOK
      <3>3. Len(processorTopic) + 1 \in 1 .. Len(processorTopic') /\ processorTopic'[Len(processorTopic) + 1] = i
        BY <3>2
      <3> QED BY <3>3 DEF Watched, CancelPublished
    <2> QED BY <1>1, <1>4, <2>1, PlaceCancel
  <1>5. CASE UNCHANGED vars
    BY <1>1, <1>5 DEF vars, InOnePlace, Nowhere, Arriving, Matching, OnOffer, HoldsRest, InBook, InBatch,
       Active, UnfilledQuantity
  <1>6. loading \subseteq Submissions
    BY DEF TypeOK
  <1> QED BY <1>1, <1>2, <1>3, <1>4, <1>5, <1>6, PlaceOwn DEF Next, Receive, Work, Own

LEMMA PlacesAccount == WatchedInOnePlace => VolumeAccounted
  <1> SUFFICES ASSUME WatchedInOnePlace, pc = "idle", reloads = 0, NEW i \in Ids,
                      Always(i, IsPlainLimit), received[i] = 1, ~ CancelPublished(i)
               PROVE  \/ offered[i] = traded[i] /\ Resting(i) = {}
                      \/ \E r \in Resting(i) : offered[i] = traded[i] + UnfilledQuantity(r)
    BY DEF VolumeAccounted
  <1>1. (Nowhere(i) /\ offered[i] = traded[i]) \/ OnOffer(i)
    BY DEF WatchedInOnePlace, Watched, InOnePlace, Arriving, Matching, Active
  <1> QED BY <1>1 DEF Nowhere, InBook, OnOffer, HoldsRest, Resting

\* For any orders, any cascade of stop orders and any walk over the levels, the volume
\* of a plain limit order that was delivered once has traded or rests.
THEOREM NoVolumeLost == Spec => []VolumeAccounted
  <1>1. Init => StopsAreStops /\ WatchedInOnePlace
    BY DEF Init, StopsAreStops, WatchedInOnePlace, InOnePlace, Nowhere, InBook, InBatch, Active
  <1>2. TypeOK /\ RestingIsLive /\ StopsAreStops /\ WatchedInOnePlace /\ [Next]_vars
          => (StopsAreStops /\ WatchedInOnePlace)'
    BY StopsAreStopsStep, PlaceStep
  <1> QED BY <1>1, <1>2, TypeCorrect, RestingOrdersAreLive, PlacesAccount, PTL DEF Spec

-----------------------------------------------------------------------------
(* No order trades more than was delivered for it. *)

\* Between two messages nothing is left to be matched.
IdleIsEmpty == pc = "idle" => batch = <<>> /\ pendingOrders = <<>> /\ ~ snapshotTaken

\* The orders that are still to be matched, each with the place where it is.  What is
\* pushed on the queue once its values are taken is cleared and does not count.
InTree   == {[place |-> "tree", nr |-> 0, order |-> o] : o \in stopAsks \cup stopBids}
Queued   == {[place |-> "queue", nr |-> k, order |-> pendingOrders[k]] :
              k \in IF snapshotTaken THEN {} ELSE 1 .. Len(pendingOrders)}
Batched  == {[place |-> "batch", nr |-> k, order |-> batch[k]] : k \in 1 .. Len(batch)}
Matched  == {[place |-> "match", nr |-> 0, order |-> o] :
              o \in IF pc \in {"idle", "next"} THEN {} ELSE {taker}}
Afoot    == InTree \cup Queued \cup Batched \cup Matched

Single(A) == \A p, q \in A : p.order.id = q.order.id => p = q

Volume(o) == traded[o.id] + UnfilledQuantity(o)

\* Whatever is still to be matched and whatever rests was offered and has not traded.
Backed(A, R) ==
  /\ \A i \in Ids : traded[i] <= offered[i]
  /\ \A p \in A : Volume(p.order) <= offered[p.order.id]
  /\ \A r \in R : Volume(r) <= offered[r.id]
  /\ \A p \in A, r \in R :
       r.id = p.order.id => Volume(r) + UnfilledQuantity(p.order) <= offered[r.id]

AfootOnce == Single(Afoot)

AfootBacked == Backed(Afoot, asks \cup bids)

\* The invariant and what it needs.
Covered == TypeOK /\ Sided /\ RestingIsLive /\ StopsAreStops /\ IdleIsEmpty /\ AfootOnce /\ AfootBacked

-----------------------------------------------------------------------------
(* How the orders move. *)

\* The sides of the tuple of places, one by one.
LEMMA PlacesOf ==
  ASSUME NEW p \in Afoot
  PROVE  \/ p.place = "tree" /\ p.nr = 0 /\ p.order \in stopAsks \cup stopBids
         \/ /\ p.place = "queue" /\ ~ snapshotTaken
            /\ p.nr \in 1 .. Len(pendingOrders) /\ p.order = pendingOrders[p.nr]
         \/ p.place = "batch" /\ p.nr \in 1 .. Len(batch) /\ p.order = batch[p.nr]
         \/ p.place = "match" /\ p.nr = 0 /\ pc \notin {"idle", "next"} /\ p.order = taker
BY DEF Afoot, InTree, Queued, Batched, Matched

LEMMA AfootIsForm == ASSUME TypeOK, NEW p \in Afoot PROVE p.order \in Forms
  <1>1. pc \notin {"idle", "next"} => taker \in Forms
    BY DEF TypeOK
  <1>2. \A k \in 1 .. Len(batch) : batch[k] \in Forms
    BY DEF TypeOK
  <1>3. \A k \in 1 .. Len(pendingOrders) : pendingOrders[k] \in Forms
    BY DEF TypeOK
  <1> QED BY <1>1, <1>2, <1>3, PlacesOf DEF TypeOK

LEMMA IdleStep == ASSUME TypeOK, IdleIsEmpty, [Next]_vars PROVE IdleIsEmpty'
  <1>1. ASSUME NEW c \in asks \cup bids, Fill(c) PROVE pc' # "idle"
    <2>1. c.price \in Nat /\ marketPrice \in Nat
      BY DEF TypeOK, Forms, Order
    <2> QED BY <1>1, <2>1 DEF Fill, StopLoop
  <1>2. ASSUME NEW o, Submit(o) \/ Load(o) PROVE IdleIsEmpty'
    BY <1>2 DEF IdleIsEmpty, Submit, Load, Add, AddStop, AddOrder, adding
  <1>3. ASSUME NEW o, CancelWithKey(o) \/ Reload(o) PROVE IdleIsEmpty'
    BY <1>3 DEF IdleIsEmpty, CancelWithKey, Reload, adding
  <1>4. CASE TakeNext \/ TakeSnapshot \/ Finish \/ BeginMatch \/ SkipLevel \/ StopsDone \/ EndMatch
    BY <1>4 DEF IdleIsEmpty, TakeNext, TakeSnapshot, Finish, BeginMatch, SkipLevel, StopsDone, EndMatch
  <1>5. ASSUME NEW o, PopStopBid(o) \/ PopStopAsk(o) PROVE IdleIsEmpty'
    BY <1>5 DEF IdleIsEmpty, PopStopBid, PopStopAsk
  <1>6. CASE UNCHANGED vars
    BY <1>6 DEF IdleIsEmpty, vars
  <1> QED BY <1>1, <1>2, <1>3, <1>4, <1>5, <1>6 DEF IdleIsEmpty, Next, Receive, Work

\* Orders that go from place to place, none to two places, none from outside, while
\* nothing trades and the book does not grow.
LEMMA Moved ==
  ASSUME AfootOnce, AfootBacked, UNCHANGED <<offered, traded>>,
         asks' \cup bids' \subseteq asks \cup bids,
         NEW from,
         \A p \in Afoot' : from[p] \in Afoot /\ from[p].order = p.order,
         \A p, q \in Afoot' : from[p] = from[q] => p = q
  PROVE  AfootOnce' /\ AfootBacked'
  <1>1. AfootOnce'
    BY DEF AfootOnce, Single
  <1>2. Backed(Afoot', asks' \cup bids')
    BY DEF AfootBacked, Backed, Volume
  <1>3. AfootBacked'
    BY <1>2 DEF AfootBacked, Backed, Volume
  <1> QED BY <1>1, <1>3

LEMMA Stayed ==
  ASSUME AfootOnce, AfootBacked, UNCHANGED <<offered, traded>>,
         asks' \cup bids' \subseteq asks \cup bids, Afoot' \subseteq Afoot
  PROVE  AfootOnce' /\ AfootBacked'
  <1> DEFINE from == [p \in Afoot' |-> p]
  <1>1. \A p \in Afoot' : from[p] = p
    OBVIOUS
  <1> HIDE DEF from
  <1> QED BY <1>1, Moved

\* Steps that leave all orders where they are, or drop some of them.
LEMMA StayStep ==
  ASSUME TypeOK, AfootOnce, AfootBacked,
         \/ \E o \in Submissions : CancelWithKey(o)
         \/ \E waiting \in LoadSets : Reload(waiting)
         \/ Finish \/ BeginMatch \/ SkipLevel \/ StopsDone
         \/ UNCHANGED vars
  PROVE  AfootOnce' /\ AfootBacked'
  <1>1. UNCHANGED <<offered, traded>> /\ asks' \cup bids' \subseteq asks \cup bids
    BY DEF CancelWithKey, WithoutKey, Reload, Finish, BeginMatch, SkipLevel, StopsDone, book, topics,
       inputs, vars
  <1>2. /\ InTree' \subseteq InTree /\ Batched' \subseteq Batched
        /\ Queued' \subseteq Queued /\ Matched' \subseteq Matched
    <2>1. InTree' \subseteq InTree
      BY DEF InTree, CancelWithKey, Reload, Finish, BeginMatch, SkipLevel, StopsDone, stops, vars
    <2>2. Batched' \subseteq Batched
      <3>1. UNCHANGED batch \/ batch' = <<>>
        BY DEF CancelWithKey, Reload, Finish, BeginMatch, SkipLevel, StopsDone, adding, vars
      <3> QED BY <3>1 DEF Batched
    <2>3. Queued' \subseteq Queued
      <3>1. \/ UNCHANGED <<pendingOrders, snapshotTaken>>
            \/ pendingOrders' = <<>>
        BY DEF CancelWithKey, Reload, Finish, BeginMatch, SkipLevel, StopsDone, adding, vars
      <3> QED BY <3>1 DEF Queued
    <2>4. Matched' \subseteq Matched
      <3>1. \/ UNCHANGED <<pc, taker>>
            \/ pc' \in {"idle", "next"}
            \/ pc \notin {"idle", "next"} /\ taker' = taker
        BY DEF CancelWithKey, Reload, Finish, BeginMatch, SkipLevel, StopsDone, vars
      <3> QED BY <3>1 DEF Matched
    <2> QED BY <2>1, <2>2, <2>3, <2>4
  <1>3. Afoot' \subseteq Afoot
    BY <1>2 DEF Afoot
  <1> QED BY <1>1, <1>3, Stayed

LEMMA TakeStep == ASSUME TypeOK, AfootOnce, AfootBacked, TakeNext PROVE AfootOnce' /\ AfootBacked'
  <1>1. /\ batch \in Seq(Forms) /\ 1 \in 1 .. Len(batch) /\ taker' = batch[1] /\ batch' = Tail(batch)
        /\ UNCHANGED <<asks, bids, stopAsks, stopBids, pendingOrders, snapshotTaken, offered, traded>>
        /\ pc = "next"
    BY DEF TakeNext, TypeOK, book, stops, topics, inputs
  <1>2. \A k \in 1 .. Len(batch') : k + 1 \in 1 .. Len(batch) /\ batch'[k] = batch[k + 1]
    BY <1>1
  <1> DEFINE from == [p \in Afoot' |->
                       CASE p.place = "batch" -> [place |-> "batch", nr |-> p.nr + 1, order |-> p.order]
                         [] p.place = "match" -> [place |-> "batch", nr |-> 1, order |-> p.order]
                         [] OTHER -> p]
  <1>3. ASSUME NEW p \in Afoot'
        PROVE  \/ p \in InTree /\ p.place = "tree"
               \/ p \in Queued /\ p.place = "queue"
               \/ /\ p.nr \in 1 .. Len(batch') /\ p.order = batch'[p.nr]
                  /\ p = [place |-> "batch", nr |-> p.nr, order |-> p.order]
               \/ p = [place |-> "match", nr |-> 0, order |-> taker']
    BY <1>1 DEF Afoot, InTree, Queued, Batched, Matched
  <1>4. ASSUME NEW p \in Afoot'
        PROVE  from[p] \in Afoot /\ from[p].order = p.order
    <2>1. CASE (p \in InTree /\ p.place = "tree") \/ (p \in Queued /\ p.place = "queue")
      BY <2>1 DEF Afoot
    <2>2. CASE /\ p.nr \in 1 .. Len(batch') /\ p.order = batch'[p.nr]
               /\ p = [place |-> "batch", nr |-> p.nr, order |-> p.order]
      <3>1. from[p] = [place |-> "batch", nr |-> p.nr + 1, order |-> batch[p.nr + 1]]
        BY <1>2, <2>2
      <3> QED BY <1>2, <2>2, <3>1 DEF Afoot, Batched
    <2>3. CASE p = [place |-> "match", nr |-> 0, order |-> taker']
      <3>1. from[p] = [place |-> "batch", nr |-> 1, order |-> batch[1]]
        BY <1>1, <2>3
      <3> QED BY <1>1, <2>3, <3>1 DEF Afoot, Batched
    <2> HIDE DEF from
    <2> QED BY <1>3, <2>1, <2>2, <2>3
  <1>5. ASSUME NEW p \in Afoot', NEW q \in Afoot', from[p] = from[q] PROVE p = q
    BY <1>3, <1>5
  <1> HIDE DEF from
  <1> QED BY <1>1, <1>4, <1>5, Moved

LEMMA SnapshotStep ==
  ASSUME TypeOK, AfootOnce, AfootBacked, TakeSnapshot
  PROVE  AfootOnce' /\ AfootBacked'
  <1>1. /\ batch = <<>> /\ batch' = pendingOrders /\ ~ snapshotTaken /\ snapshotTaken'
        /\ UNCHANGED <<asks, bids, stopAsks, stopBids, offered, traded>>
        /\ pc = "next" /\ pc' = "next"
    BY DEF TakeSnapshot, book, stops, topics, inputs
  <1> DEFINE from == [p \in Afoot' |->
                       IF p.place = "batch" THEN [place |-> "queue", nr |-> p.nr, order |-> p.order] ELSE p]
  <1>2. ASSUME NEW p \in Afoot'
        PROVE  \/ p \in InTree /\ p.place = "tree"
               \/ /\ p.nr \in 1 .. Len(pendingOrders) /\ p.order = pendingOrders[p.nr]
                  /\ p = [place |-> "batch", nr |-> p.nr, order |-> p.order]
    BY <1>1 DEF Afoot, InTree, Queued, Batched, Matched
  <1>3. ASSUME NEW p \in Afoot'
        PROVE  from[p] \in Afoot /\ from[p].order = p.order
    BY <1>1, <1>2 DEF Afoot, Queued
  <1>4. ASSUME NEW p \in Afoot', NEW q \in Afoot', from[p] = from[q] PROVE p = q
    BY <1>2, <1>4
  <1> HIDE DEF from
  <1> QED BY <1>1, <1>3, <1>4, Moved

LEMMA PopStep ==
  ASSUME TypeOK, Sided, AfootOnce, AfootBacked,
         NEW o \in stopAsks \cup stopBids, PopStopAsk(o) \/ PopStopBid(o)
  PROVE  AfootOnce' /\ AfootBacked'
  <1>1. /\ pendingOrders \in Seq(Forms) /\ pendingOrders' = Append(pendingOrders, o)
        /\ stopAsks' \cup stopBids' = (stopAsks \cup stopBids) \ {o}
        /\ UNCHANGED <<asks, bids, batch, snapshotTaken, pc, taker, offered, traded>>
    BY DEF PopStopAsk, PopStopBid, Sided, TypeOK, book, adding, topics, inputs, BestStops
  <1>2. \A k \in 1 .. Len(pendingOrders') :
          \/ k \in 1 .. Len(pendingOrders) /\ pendingOrders'[k] = pendingOrders[k]
          \/ k = Len(pendingOrders) + 1 /\ pendingOrders'[k] = o
    BY <1>1
  <1> DEFINE was  == [place |-> "tree", nr |-> 0, order |-> o]
             new  == [place |-> "queue", nr |-> Len(pendingOrders) + 1, order |-> o]
             from == [p \in Afoot' |-> IF p = new THEN was ELSE p]
  <1>3. was \in Afoot /\ was \notin Afoot' /\ new.order = o /\ was.order = o
    BY <1>1 DEF Afoot, InTree, Queued, Batched, Matched
  <1>4. \A p \in Afoot' : p = new \/ p \in Afoot
    BY <1>1, <1>2 DEF Afoot, InTree, Queued, Batched, Matched
  <1> HIDE DEF was, new
  <1>5. \A p \in Afoot' : from[p] \in Afoot /\ from[p].order = p.order
    BY <1>3, <1>4
  <1>6. \A p, q \in Afoot' : from[p] = from[q] => p = q
    BY <1>3
  <1> HIDE DEF from
  <1> QED BY <1>1, <1>5, <1>6, Moved

\* The forms of an order do not differ in what decides where it goes.
LEMMA NewOrderIsApart ==
  ASSUME TypeOK, Sided, StopsAreStops, IdleIsEmpty, pc = "idle",
         NEW o \in Submissions, o.stop = 0, NEW p \in Afoot
  PROVE  p.order.id # o.id
  <1>1. p.order \in stopAsks \cup stopBids
    BY PlacesOf DEF IdleIsEmpty
  <1>2. p.order \in Forms /\ o \in Forms /\ p.order.stop > 0
    BY <1>1, SubmissionIsForm DEF TypeOK, StopsAreStops
  <1>3. p.order.id = o.id => p.order.stop = o.stop
    BY <1>2, FormsAgree DEF SameOrder
  <1> QED BY <1>2, <1>3

\* A delivery brings at most one order, which is the only form of it afoot, and offers
\* what is unfilled of it.
LEMMA Delivered ==
  ASSUME TypeOK, AfootOnce, AfootBacked, NEW o \in Submissions,
         offered' = [offered EXCEPT ![o.id] = @ + UnfilledQuantity(o)],
         UNCHANGED <<asks, bids, traded>>,
         NEW new, new.order = o,
         Afoot' \subseteq Afoot \cup {new},
         new \in Afoot' => \A p \in Afoot : p.order.id # o.id
  PROVE  AfootOnce' /\ AfootBacked'
  <1>1. AfootOnce'
    BY DEF AfootOnce, Single
  <1>2. o \in Forms /\ o.id \in Ids /\ UnfilledQuantity(o) \in Nat
    BY SubmissionIsForm DEF Forms, Order, UnfilledQuantity
  <1>3. /\ offered'[o.id] = offered[o.id] + UnfilledQuantity(o)
        /\ \A i \in Ids : i # o.id => offered'[i] = offered[i]
        /\ \A i \in Ids : offered[i] \in Nat /\ offered'[i] \in Nat /\ traded[i] \in Nat
        /\ \A i \in Ids : offered[i] <= offered'[i]
    BY <1>2, SMTT(30) DEF TypeOK
  <1>4. \A p \in Afoot : p.order.id \in Ids /\ UnfilledQuantity(p.order) \in Nat
    BY AfootIsForm DEF Forms, Order, UnfilledQuantity
  <1>5. \A r \in asks \cup bids : r.id \in Ids /\ UnfilledQuantity(r) \in Nat
    <2>1. \A r \in asks \cup bids : r \in Forms
      BY DEF TypeOK
    <2> QED BY <2>1 DEF Forms, Order, UnfilledQuantity
  <1>6. \A i \in Ids : traded[i] <= offered'[i]
    BY <1>3 DEF AfootBacked, Backed
  <1>7. \A r \in asks \cup bids : traded[r.id] + UnfilledQuantity(r) <= offered'[r.id]
    BY <1>3, <1>5 DEF AfootBacked, Backed, Volume
  <1>8. ASSUME NEW p \in Afoot'
        PROVE  /\ traded[p.order.id] + UnfilledQuantity(p.order) <= offered'[p.order.id]
               /\ \A r \in asks \cup bids : r.id = p.order.id =>
                    traded[r.id] + UnfilledQuantity(r) + UnfilledQuantity(p.order) <= offered'[r.id]
    <2>1. CASE p \in Afoot
      <3>1. /\ traded[p.order.id] + UnfilledQuantity(p.order) <= offered[p.order.id]
            /\ \A r \in asks \cup bids : r.id = p.order.id =>
                 traded[r.id] + UnfilledQuantity(r) + UnfilledQuantity(p.order) <= offered[r.id]
        BY <2>1 DEF AfootBacked, Backed, Volume
      <3> QED BY <1>3, <1>4, <1>5, <2>1, <3>1
    <2>2. CASE p = new
      <3>1. traded[o.id] <= offered[o.id]
        BY <1>2 DEF AfootBacked, Backed
      <3>2. \A r \in asks \cup bids : traded[r.id] + UnfilledQuantity(r) <= offered[r.id]
        BY DEF AfootBacked, Backed, Volume
      <3> QED BY <1>2, <1>3, <1>5, <2>2, <3>1, <3>2
    <2> QED BY <2>1, <2>2
  <1>9. Backed(Afoot, asks \cup bids)'
    BY <1>6, <1>7, <1>8 DEF Backed, Volume
  <1> QED BY <1>1, <1>9 DEF AfootBacked

LEMMA AddCovered ==
  ASSUME TypeOK, Sided, StopsAreStops, IdleIsEmpty, AfootOnce, AfootBacked, pc = "idle",
         NEW o \in Submissions, Add(o)
  PROVE  AfootOnce' /\ AfootBacked'
  <1>1. offered' = [offered EXCEPT ![o.id] = @ + UnfilledQuantity(o)] /\ UNCHANGED <<asks, bids, traded>>
    BY DEF Add, AddStop, AddOrder, book, topics
  <1>2. o \in Forms /\ o.side \in {"buy", "sell"}
    BY SubmissionIsForm DEF Forms, Order, Sides
  <1>3. CASE AddStop(o)
    <2> DEFINE new == [place |-> "tree", nr |-> 0, order |-> o]
    <2>1. UNCHANGED <<pendingOrders, snapshotTaken, batch, pc, taker>>
      BY <1>3 DEF AddStop, adding
    <2>2. \/ UNCHANGED <<stopAsks, stopBids>>
          \/ o.side = "sell" /\ stopAsks' = stopAsks \cup {o} /\ stopBids' = stopBids
             /\ \A s \in stopAsks : s.id # o.id
          \/ o.side = "buy" /\ stopBids' = stopBids \cup {o} /\ stopAsks' = stopAsks
             /\ \A s \in stopBids : s.id # o.id
      BY <1>2, <1>3 DEF AddStop
    <2>3. \A s \in stopAsks \cup stopBids : s.id = o.id => s.side = o.side
      BY <1>2, FormsAgree DEF TypeOK, SameOrder
    <2>4. \/ UNCHANGED <<stopAsks, stopBids>>
          \/ /\ stopAsks' \cup stopBids' \subseteq stopAsks \cup stopBids \cup {o}
             /\ \A s \in stopAsks \cup stopBids : s.id # o.id
      BY <2>2, <2>3 DEF Sided
    <2>5. CASE UNCHANGED <<stopAsks, stopBids>>
      <3>1. Afoot' = Afoot
        BY <2>1, <2>5 DEF Afoot, InTree, Queued, Batched, Matched
      <3> DEFINE none == [place |-> "nowhere", nr |-> 0, order |-> o]
      <3>2. none \notin Afoot' /\ none.order = o
        BY <3>1, PlacesOf
      <3> HIDE DEF none
      <3> QED BY <1>1, <3>1, <3>2, Delivered
    <2>6. CASE /\ stopAsks' \cup stopBids' \subseteq stopAsks \cup stopBids \cup {o}
               /\ \A s \in stopAsks \cup stopBids : s.id # o.id
      <3>1. Afoot' \subseteq Afoot \cup {new}
        BY <2>1, <2>6 DEF Afoot, InTree, Queued, Batched, Matched
      <3>2. \A p \in Afoot : p.order.id # o.id
        <4>1. \A p \in Afoot : p.order \in stopAsks \cup stopBids
          BY PlacesOf DEF IdleIsEmpty
        <4> QED BY <2>6, <4>1
      <3>3. new.order = o
        OBVIOUS
      <3> HIDE DEF new
      <3> QED BY <1>1, <3>1, <3>2, <3>3, Delivered
    <2> QED BY <2>4, <2>5, <2>6
  <1>4. CASE AddOrder(o)
    <2> DEFINE new == [place |-> "batch", nr |-> 1, order |-> o]
    <2>1. /\ o.stop = 0 /\ pc' = "next" /\ batch' = <<o>>
          /\ UNCHANGED <<stopAsks, stopBids, pendingOrders, taker>> /\ pendingOrders = <<>>
      BY <1>4 DEF AddOrder, stops, IdleIsEmpty
    <2>2. Afoot' \subseteq Afoot \cup {new}
      <3>1. Batched' \subseteq {new} /\ Queued' = {} /\ Matched' = {} /\ InTree' = InTree
        BY <2>1 DEF InTree, Queued, Batched, Matched
      <3> QED BY <3>1 DEF Afoot
    <2>3. \A p \in Afoot : p.order.id # o.id
      BY <2>1, NewOrderIsApart
    <2>4. new.order = o
      OBVIOUS
    <2> HIDE DEF new
    <2> QED BY <1>1, <2>2, <2>3, <2>4, Delivered
  <1> QED BY <1>3, <1>4 DEF Add

-----------------------------------------------------------------------------
(* Matching. *)

\* A fill takes from the order being matched and from one resting order of the other
\* side what it adds to the trades of both.
LEMMA FillCovered ==
  ASSUME TypeOK, Sided, RestingIsLive, AfootOnce, AfootBacked,
         NEW c \in asks \cup bids, Fill(c)
  PROVE  AfootOnce' /\ AfootBacked'
  <1> DEFINE q    == Smaller(UnfilledQuantity(taker), UnfilledQuantity(c))
             here == [place |-> "match", nr |-> 0, order |-> taker]
             next == [place |-> "match", nr |-> 0, order |-> taker']
  <1>1. /\ taker \in Forms /\ c \in Forms /\ c \in Opposite(taker) /\ Opposite(taker) \subseteq Forms
        /\ c.side # taker.side
    BY DEF Fill, TypeOK, BestOffers, Offers, Opposite, Sided
  <1>2. q \in Nat /\ q <= UnfilledQuantity(taker) /\ q <= UnfilledQuantity(c)
    BY <1>1, SmallerBounds
  <1>3. /\ taker' \in Forms /\ taker'.id = taker.id
        /\ UnfilledQuantity(taker') = UnfilledQuantity(taker) - q
        /\ Filling(c, q).id = c.id
        /\ UnfilledQuantity(Filling(c, q)) = UnfilledQuantity(c) - q
    BY <1>1, <1>2, FillingIsForm DEF Fill, SameOrder
  <1>4. c.id # taker.id /\ c.id \in Ids /\ taker.id \in Ids
    BY <1>1, FormsAgree DEF SameOrder, Forms, Order
  <1>5. /\ UNCHANGED <<stopAsks, stopBids, pendingOrders, batch, snapshotTaken, offered>>
        /\ pc = "match"
        /\ traded' = [i \in Ids |-> traded[i] + IF i \in {taker.id, c.id} THEN q ELSE 0]
    BY DEF Fill, stops, adding, inputs
  <1>6. \A r \in asks' \cup bids' :
          \/ r \in (asks \cup bids) \ {c}
          \/ r = Filling(c, q)
    <2>1. \A r \in AfterFill(Opposite(taker), c, q) : r \in Opposite(taker) \ {c} \/ r = Filling(c, q)
      BY DEF AfterFill
    <2>2. \/ asks' = AfterFill(asks, c, q) /\ bids' = bids /\ Opposite(taker) = asks
          \/ bids' = AfterFill(bids, c, q) /\ asks' = asks /\ Opposite(taker) = bids
      BY DEF Fill, Opposite, q
    <2>3. asks \cap bids = {}
      BY DEF Sided
    <2> HIDE DEF q
    <2> QED BY <1>1, <2>1, <2>2, <2>3
  <1> HIDE DEF q
  <1>7. here \in Afoot /\ here.order = taker /\ next.order = taker'
    BY <1>5 DEF Afoot, Matched
  <1>8. \A p \in Afoot' : p = next \/ (p \in Afoot /\ p # here)
    BY <1>5 DEF Afoot, InTree, Queued, Batched, Matched
  <1> HIDE DEF here, next
  <1>9. \A p \in Afoot : p # here => p.order.id # taker.id
    BY <1>7 DEF AfootOnce, Single
  <1>10. AfootOnce'
    BY <1>3, <1>7, <1>8, <1>9 DEF AfootOnce, Single
  <1>11. \A r \in (asks \cup bids) \ {c} : r.id # c.id
    BY DEF RestingIsLive
  <1>12. /\ \A i \in Ids : traded[i] \in Nat /\ offered[i] \in Nat
         /\ \A i \in Ids : i # c.id /\ i # taker.id => traded'[i] = traded[i]
         /\ traded'[c.id] = traded[c.id] + q /\ traded'[taker.id] = traded[taker.id] + q
         /\ offered' = offered
    BY <1>2, <1>4, <1>5, SMTT(30) DEF TypeOK
  <1>13. \A p \in Afoot : p.order.id \in Ids /\ UnfilledQuantity(p.order) \in Nat
    BY AfootIsForm DEF Forms, Order, UnfilledQuantity
  <1>14. \A r \in asks \cup bids : r.id \in Ids /\ UnfilledQuantity(r) \in Nat
    <2>1. \A r \in asks \cup bids : r \in Forms
      BY DEF TypeOK
    <2> QED BY <2>1 DEF Forms, Order, UnfilledQuantity
  <1>15. /\ \A i \in Ids : traded[i] <= offered[i]
         /\ \A p \in Afoot : traded[p.order.id] + UnfilledQuantity(p.order) <= offered[p.order.id]
         /\ \A r \in asks \cup bids : traded[r.id] + UnfilledQuantity(r) <= offered[r.id]
         /\ \A p \in Afoot, r \in asks \cup bids : r.id = p.order.id =>
              traded[r.id] + UnfilledQuantity(r) + UnfilledQuantity(p.order) <= offered[r.id]
    BY DEF AfootBacked, Backed, Volume
  <1>16. UnfilledQuantity(taker) \in Nat /\ UnfilledQuantity(c) \in Nat
    BY <1>1 DEF Forms, Order, UnfilledQuantity
  <1>17. \A i \in Ids : traded'[i] <= offered[i]
    <2>1. traded[taker.id] + UnfilledQuantity(taker) <= offered[taker.id]
      BY <1>7, <1>15
    <2>2. traded[c.id] + UnfilledQuantity(c) <= offered[c.id]
      BY <1>15
    <2> QED BY <1>2, <1>4, <1>12, <1>15, <1>16, <2>1, <2>2
  <1>18. ASSUME NEW r \in asks' \cup bids'
         PROVE  /\ traded'[r.id] + UnfilledQuantity(r) <= offered[r.id]
                /\ r.id \in Ids /\ UnfilledQuantity(r) \in Nat
    <2>1. CASE r = Filling(c, q)
      <3>1. traded[c.id] + UnfilledQuantity(c) <= offered[c.id]
        BY <1>15
      <3> QED BY <1>2, <1>3, <1>4, <1>12, <1>16, <2>1, <3>1
    <2>2. CASE r \in (asks \cup bids) \ {c} /\ r.id = taker.id
      <3>1. traded[r.id] + UnfilledQuantity(r) + UnfilledQuantity(taker) <= offered[r.id]
        BY <1>7, <1>15, <2>2
      <3> QED BY <1>2, <1>4, <1>12, <1>14, <1>16, <2>2, <3>1
    <2>3. CASE r \in (asks \cup bids) \ {c} /\ r.id # taker.id
      BY <1>11, <1>12, <1>14, <1>15, <2>3
    <2> QED BY <1>6, <2>1, <2>2, <2>3
  <1>19. ASSUME NEW p \in Afoot'
         PROVE  /\ traded'[p.order.id] + UnfilledQuantity(p.order) <= offered[p.order.id]
                /\ \A r \in asks' \cup bids' : r.id = p.order.id =>
                     traded'[r.id] + UnfilledQuantity(r) + UnfilledQuantity(p.order) <= offered[r.id]
    <2>1. CASE p = next
      <3>1. p.order.id = taker.id /\ UnfilledQuantity(p.order) = UnfilledQuantity(taker) - q
        BY <1>3, <1>7, <2>1
      <3>2. traded[taker.id] + UnfilledQuantity(taker) <= offered[taker.id]
        BY <1>7, <1>15
      <3>3. ASSUME NEW r \in asks' \cup bids', r.id = taker.id
            PROVE  traded'[r.id] + UnfilledQuantity(r) + UnfilledQuantity(p.order) <= offered[r.id]
        <4>1. r \in asks \cup bids
          BY <1>3, <1>4, <1>6, <3>3
        <4>2. traded[r.id] + UnfilledQuantity(r) + UnfilledQuantity(taker) <= offered[r.id]
          BY <1>7, <1>15, <3>3, <4>1
        <4> QED BY <1>2, <1>4, <1>12, <1>14, <1>16, <3>1, <3>3, <4>1, <4>2
      <3> QED BY <1>2, <1>4, <1>12, <1>16, <3>1, <3>2, <3>3
    <2>2. CASE p \in Afoot /\ p # here /\ p.order.id = c.id
      <3>1. traded[c.id] + UnfilledQuantity(c) + UnfilledQuantity(p.order) <= offered[c.id]
        BY <1>15, <2>2
      <3>2. ASSUME NEW r \in asks' \cup bids', r.id = c.id PROVE r = Filling(c, q)
        BY <1>6, <1>11, <3>2
      <3> QED BY <1>2, <1>3, <1>4, <1>12, <1>13, <1>16, <2>2, <3>1, <3>2
    <2>3. CASE p \in Afoot /\ p # here /\ p.order.id # c.id
      <3>1. p.order.id # taker.id /\ p.order.id \in Ids
        BY <1>9, <1>13, <2>3
      <3>2. ASSUME NEW r \in asks' \cup bids', r.id = p.order.id PROVE r \in asks \cup bids
        BY <1>3, <1>6, <2>3, <3>2
      <3> QED BY <1>12, <1>13, <1>14, <1>15, <2>3, <3>1, <3>2
    <2> QED BY <1>8, <2>1, <2>2, <2>3
  <1>20. Backed(Afoot, asks \cup bids)'
    BY <1>12, <1>17, <1>18, <1>19 DEF Backed, Volume
  <1> QED BY <1>10, <1>20 DEF AfootBacked

\* What is left of an order rests once it is no longer being matched.
LEMMA EndCovered ==
  ASSUME TypeOK, Sided, AfootOnce, AfootBacked, EndMatch
  PROVE  AfootOnce' /\ AfootBacked'
  <1> DEFINE here == [place |-> "match", nr |-> 0, order |-> taker]
  <1>1. /\ UNCHANGED <<stopAsks, stopBids, pendingOrders, batch, snapshotTaken, offered, traded>>
        /\ pc = "match" /\ pc' = "next" /\ taker \in Forms
        /\ asks' \cup bids' \subseteq asks \cup bids \cup {taker}
    BY DEF EndMatch, WithOrder, TypeOK, stops, adding, topics, inputs
  <1>2. here \in Afoot /\ here.order = taker
    BY <1>1 DEF Afoot, Matched
  <1>3. \A p \in Afoot' : p \in Afoot /\ p # here
    BY <1>1 DEF Afoot, InTree, Queued, Batched, Matched
  <1> HIDE DEF here
  <1>4. AfootOnce'
    BY <1>3 DEF AfootOnce, Single
  <1>5. \A p \in Afoot' : p.order.id # taker.id
    BY <1>2, <1>3 DEF AfootOnce, Single
  <1>6. Volume(taker) <= offered[taker.id]
    BY <1>2 DEF AfootBacked, Backed
  <1>7. Backed(Afoot', asks' \cup bids')
    BY <1>1, <1>3, <1>5, <1>6 DEF AfootBacked, Backed
  <1>8. AfootBacked'
    BY <1>1, <1>7 DEF AfootBacked, Backed, Volume
  <1> QED BY <1>4, <1>8

LEMMA CoveredStep == Covered /\ [Next]_vars => Covered'
  <1> SUFFICES ASSUME Covered, [Next]_vars PROVE Covered'
    OBVIOUS
  <1> USE DEF Covered
  <1>1. TypeOK' /\ Sided' /\ RestingIsLive' /\ StopsAreStops' /\ IdleIsEmpty'
    BY TypeStep, SidedStep, LiveStep, StopsAreStopsStep, IdleStep
  <1>2. ASSUME NEW o \in Submissions, Submit(o) \/ Load(o) PROVE AfootOnce' /\ AfootBacked'
    BY <1>2, AddCovered DEF Submit, Load
  <1>3. loading \subseteq Submissions
    BY DEF TypeOK
  <1>4. AfootOnce' /\ AfootBacked'
    BY <1>2, <1>3, StayStep, TakeStep, SnapshotStep, PopStep, FillCovered, EndCovered
    DEF Next, Receive, Work
  <1> QED BY <1>1, <1>4

LEMMA CoveredInit == Init => Covered
  <1> SUFFICES ASSUME Init PROVE Covered
    OBVIOUS
  <1>1. Afoot = {} /\ asks \cup bids = {}
    BY DEF Init, Afoot, InTree, Queued, Batched, Matched
  <1>2. \A i \in Ids : traded[i] = 0 /\ offered[i] = 0
    BY DEF Init
  <1>3. AfootOnce /\ AfootBacked
    BY <1>1, <1>2 DEF AfootOnce, AfootBacked, Single, Backed
  <1> QED BY <1>3, TypeInit DEF Init, Covered, Sided, RestingIsLive, StopsAreStops, IdleIsEmpty

LEMMA CoveredIsEnough == Covered => NoOverfill
  BY DEF Covered, AfootBacked, Backed, NoOverfill

\* For any orders, delivered any number of times, in any order of matches, triggered stops,
\* cancels and reloads, an order trades no more than was delivered for it.
THEOREM NothingOverfills == Spec => []NoOverfill
  BY CoveredInit, CoveredIsEnough, CoveredStep, PTL DEF Spec

-----------------------------------------------------------------------------
(* What the engine publishes: trades of orders it was given. *)

InStops(i) == \E s \in stopAsks \cup stopBids : s.id = i

InQueue(i) == \E k \in 1 .. Len(pendingOrders) : pendingOrders[k].id = i

\* Some form of the order is in the engine.
Present(i) == InBook(i) \/ InStops(i) \/ InQueue(i) \/ InBatch(i) \/ Active(i)

PresentIsKnown == \A i \in Ids : Present(i) => received[i] > 0

\* Two orders of opposite sides that were delivered trade at the price of a limit order,
\* and no more than either asked for.
FairTrade(t) ==
  /\ received[t.maker] > 0 /\ received[t.taker] > 0
  /\ \E s, r \in Submissions :
       /\ s.id = t.maker /\ r.id = t.taker /\ s.side # r.side
       /\ t.quantity \in 1 .. s.quantity
       /\ \E c \in {s, r} : c.type = "limit" /\ t.price = c.price

TradesFair == \A k \in 1 .. Len(tradeTopic) : FairTrade(tradeTopic[k])

LEMMA ReceivedGrows ==
  ASSUME TypeOK, [Next]_vars
  PROVE  \A i \in Ids : received[i] <= received'[i] /\ (received[i] > 0 => received'[i] > 0)
  <1>1. received \in [Ids -> Nat] /\ loading \subseteq Submissions
    BY DEF TypeOK
  <1>2. ASSUME NEW o \in Submissions, Add(o), NEW i \in Ids
        PROVE  received[i] <= received'[i] /\ (received[i] > 0 => received'[i] > 0)
    <2>1. received'[i] \in {received[i], received[i] + 1}
      BY <1>1, <1>2 DEF Add
    <2> QED BY <1>1, <2>1
  <1>3. received' = received \/ \E o \in Submissions : Add(o)
    BY <1>1 DEF Next, Receive, Work, Submit, Load, CancelWithKey, Reload, TakeNext, TakeSnapshot, Finish,
       BeginMatch, Fill, SkipLevel, PopStopBid, PopStopAsk, StopsDone, EndMatch, inputs, vars
  <1> QED BY <1>1, <1>2, <1>3

\* An order gets into the engine by a delivery.
LEMMA PresentAdd ==
  ASSUME TypeOK, NEW i \in Ids, Present(i)', NEW o \in Submissions, Add(o)
  PROVE  Present(i) \/ (o.id = i /\ received'[i] > 0)
  <1>1. CASE o.id = i
    <2>1. received' = [received EXCEPT ![i] = @ + 1] /\ received[i] \in Nat
      BY <1>1 DEF Add, TypeOK
    <2> QED BY <1>1, <2>1 DEF TypeOK
  <1>2. CASE o.id # i /\ AddStop(o)
    <2>1. /\ stopAsks' \subseteq stopAsks \cup {o} /\ stopBids' \subseteq stopBids \cup {o}
          /\ UNCHANGED <<asks, bids, pendingOrders, batch, pc, taker>>
      BY <1>2 DEF AddStop, book, adding
    <2> QED BY <1>2, <2>1 DEF Present, InBook, InStops, InQueue, InBatch, Active
  <1>3. CASE o.id # i /\ AddOrder(o)
    <2>1. /\ UNCHANGED <<asks, bids, stopAsks, stopBids, pendingOrders>>
          /\ pc' = "next" /\ batch' = <<o>>
      BY <1>3 DEF AddOrder, book, stops
    <2>2. ~ InBatch(i)' /\ ~ Active(i)'
      BY <1>3, <2>1 DEF InBatch, Active
    <2> QED BY <2>1, <2>2 DEF Present, InBook, InStops, InQueue
  <1> QED BY <1>1, <1>2, <1>3 DEF Add

LEMMA PresentLoop ==
  ASSUME TypeOK, NEW i \in Ids, Present(i)', TakeNext \/ TakeSnapshot \/ Finish
  PROVE  Present(i)
  <1>1. UNCHANGED <<asks, bids, stopAsks, stopBids>> /\ batch \in Seq(Forms)
    BY DEF TakeNext, TakeSnapshot, Finish, book, stops, TypeOK
  <1>2. CASE TakeNext
    <2>1. /\ taker' = batch[1] /\ batch' = Tail(batch) /\ 1 \in 1 .. Len(batch)
          /\ UNCHANGED pendingOrders
      BY <1>1, <1>2 DEF TakeNext
    <2>2. \A k \in 1 .. Len(batch') : k + 1 \in 1 .. Len(batch) /\ batch'[k] = batch[k + 1]
      BY <1>1, <2>1
    <2> QED BY <1>1, <2>1, <2>2 DEF Present, InBook, InStops, InQueue, InBatch, Active
  <1>3. CASE TakeSnapshot
    BY <1>1, <1>3 DEF TakeSnapshot, Present, InBook, InStops, InQueue, InBatch, Active
  <1>4. CASE Finish
    BY <1>1, <1>4 DEF Finish, Present, InBook, InStops, InQueue, InBatch, Active
  <1> QED BY <1>2, <1>3, <1>4

LEMMA PresentPop ==
  ASSUME TypeOK, NEW i \in Ids, Present(i)',
         NEW o \in stopAsks \cup stopBids, PopStopAsk(o) \/ PopStopBid(o)
  PROVE  Present(i)
  <1>1. /\ pendingOrders' = Append(pendingOrders, o) /\ pendingOrders \in Seq(Forms)
        /\ stopAsks' \subseteq stopAsks /\ stopBids' \subseteq stopBids
        /\ UNCHANGED <<asks, bids, batch, pc, taker>>
    BY DEF PopStopAsk, PopStopBid, book, adding, TypeOK
  <1>2. \A k \in 1 .. Len(pendingOrders') :
          pendingOrders'[k] = o \/ (k \in 1 .. Len(pendingOrders) /\ pendingOrders'[k] = pendingOrders[k])
    BY <1>1
  <1> QED BY <1>1, <1>2 DEF Present, InBook, InStops, InQueue, InBatch, Active

LEMMA PresentFill ==
  ASSUME TypeOK, NEW i \in Ids, Present(i)', NEW c \in asks \cup bids, Fill(c)
  PROVE  Present(i)
  <1> DEFINE q == Smaller(UnfilledQuantity(taker), UnfilledQuantity(c))
  <1>1. taker \in Forms /\ c \in Opposite(taker) /\ Opposite(taker) \subseteq Forms
    BY DEF Fill, TypeOK, BestOffers, Offers, Opposite
  <1>2. q \in Nat /\ q <= UnfilledQuantity(c) /\ q <= UnfilledQuantity(taker)
    BY <1>1, SmallerBounds
  <1>3. /\ \A r \in AfterFill(Opposite(taker), c, q) : r \in Opposite(taker) \/ r.id = c.id
        /\ taker'.id = taker.id
    <2>1. SameOrder(Filling(taker, q), taker)
      BY <1>1, <1>2, FillingIsForm
    <2> QED BY <1>1, <1>2, <2>1, AfterFillShape DEF Fill, SameOrder
  <1>4. \A r \in asks' \cup bids' : \E p \in asks \cup bids : r.id = p.id
    <2> HIDE DEF q
    <2>1. \/ asks' = AfterFill(asks, c, q) /\ bids' = bids /\ Opposite(taker) = asks
          \/ bids' = AfterFill(bids, c, q) /\ asks' = asks /\ Opposite(taker) = bids
      BY DEF Fill, Opposite, q
    <2> QED BY <1>3, <2>1
  <1>5. UNCHANGED <<stopAsks, stopBids, pendingOrders, batch>> /\ pc = "match"
    BY DEF Fill, stops, adding
  <1> QED BY <1>3, <1>4, <1>5 DEF Present, InBook, InStops, InQueue, InBatch, Active

LEMMA PresentOwn == ASSUME TypeOK, NEW i \in Ids, Present(i)', Own PROVE Present(i)
  <1>1. CASE BeginMatch \/ SkipLevel \/ StopsDone
    BY <1>1 DEF BeginMatch, SkipLevel, StopsDone, book, stops, adding, Present, InBook, InStops, InQueue,
       InBatch, Active
  <1>2. CASE EndMatch
    <2>1. /\ asks' \subseteq asks \cup {taker} /\ bids' \subseteq bids \cup {taker}
          /\ pc = "match" /\ pc' = "next" /\ UNCHANGED <<stopAsks, stopBids, pendingOrders, batch>>
      BY <1>2 DEF EndMatch, WithOrder, stops, adding
    <2> QED BY <2>1 DEF Present, InBook, InStops, InQueue, InBatch, Active
  <1> QED BY <1>1, <1>2, PresentLoop, PresentPop, PresentFill DEF Own

LEMMA PresentCancel ==
  ASSUME NEW i \in Ids, Present(i)', NEW o \in Submissions, CancelWithKey(o)
  PROVE  Present(i)
  <1>1. asks' \subseteq asks /\ bids' \subseteq bids
        /\ UNCHANGED <<stopAsks, stopBids, pendingOrders, batch, pc, taker>>
    BY DEF CancelWithKey, WithoutKey, stops, adding
  <1> QED BY <1>1 DEF Present, InBook, InStops, InQueue, InBatch, Active

LEMMA PresentStep ==
  ASSUME TypeOK, [Next]_vars, NEW i \in Ids, Present(i)'
  PROVE  Present(i) \/ received'[i] > 0
  <1>1. ASSUME NEW waiting \in LoadSets, Reload(waiting) PROVE Present(i)
    BY <1>1 DEF Reload, adding, Present, InBook, InStops, InQueue, InBatch, Active
  <1>2. CASE UNCHANGED vars
    BY <1>2 DEF vars, Present, InBook, InStops, InQueue, InBatch, Active
  <1>3. loading \subseteq Submissions
    BY DEF TypeOK
  <1>4. (\E o \in Submissions : Add(o)) => Present(i) \/ received'[i] > 0
    BY PresentAdd
  <1> QED
    BY <1>1, <1>2, <1>3, <1>4, PresentOwn, PresentCancel
    DEF Next, Receive, Work, Own, Submit, Load

LEMMA KnownStep == ASSUME TypeOK, PresentIsKnown, [Next]_vars PROVE PresentIsKnown'
  BY PresentStep, ReceivedGrows DEF PresentIsKnown

\* A fill is a fair trade.
LEMMA FillIsFair ==
  ASSUME TypeOK, Sided, PresentIsKnown, NEW c \in asks \cup bids, Fill(c)
  PROVE  \E t \in Trade : tradeTopic' = Append(tradeTopic, t) /\ FairTrade(t)
  <1> DEFINE q == Smaller(UnfilledQuantity(taker), UnfilledQuantity(c))
             t == TradeOf(taker, c, q)
  <1>1. /\ taker \in Forms /\ c \in Forms /\ c \in Opposite(taker) /\ pc = "match"
        /\ ~ Filled(taker) /\ tradeTopic' = Append(tradeTopic, t)
    BY DEF Fill, TypeOK, BestOffers, Offers, Opposite
  <1>2. c.side # taker.side /\ c.type = "limit" /\ ~ Filled(c)
    BY <1>1 DEF Sided, Opposite
  <1>3. /\ taker.quantity \in Nat /\ c.quantity \in Nat /\ taker.filled \in Nat /\ c.filled \in Nat
        /\ taker.id \in Ids /\ c.id \in Ids /\ c.price \in Nat
    BY <1>1 DEF Forms, Order
  <1>4. q \in 1 .. taker.quantity /\ q \in 1 .. c.quantity
    <2>1. q \in Nat /\ q <= UnfilledQuantity(taker) /\ q <= UnfilledQuantity(c)
      BY <1>1, SmallerBounds
    <2>2. q # 0
      BY <1>1, <1>2 DEF Smaller, Filled
    <2> HIDE DEF q
    <2> QED BY <1>3, <2>1, <2>2 DEF UnfilledQuantity
  <1> HIDE DEF q
  <1>5. received[taker.id] > 0 /\ received[c.id] > 0
    BY <1>1, <1>3 DEF PresentIsKnown, Present, InBook, Active
  <1>6. PICK s \in Submissions, r \in Submissions : SameOrder(taker, s) /\ SameOrder(c, r)
    BY <1>1 DEF Forms
  <1>7. t \in Trade
    BY <1>3, <1>4 DEF TradeOf, Trade
  <1>8. FairTrade(t)
    BY <1>2, <1>4, <1>5, <1>6 DEF TradeOf, FairTrade, SameOrder
  <1> QED BY <1>1, <1>7, <1>8

LEMMA FairStep ==
  ASSUME TypeOK, Sided, PresentIsKnown, TradesFair, [Next]_vars
  PROVE  TradesFair'
  <1>1. ASSUME NEW t \in Trade, FairTrade(t) PROVE FairTrade(t)'
    <2>1. t.maker \in Ids /\ t.taker \in Ids
      BY DEF Trade
    <2>2. received'[t.maker] > 0 /\ received'[t.taker] > 0
      BY <1>1, <2>1, ReceivedGrows DEF FairTrade
    <2> QED BY <1>1, <2>2 DEF FairTrade
  <1>2. CASE UNCHANGED tradeTopic
    BY <1>1, <1>2 DEF TradesFair, TypeOK
  <1>3. ASSUME NEW c \in asks \cup bids, Fill(c) PROVE TradesFair'
    <2>1. PICK t \in Trade : tradeTopic' = Append(tradeTopic, t) /\ FairTrade(t)
      BY <1>3, FillIsFair
    <2>2. tradeTopic \in Seq(Trade)
      BY DEF TypeOK
    <2>3. \A k \in 1 .. Len(tradeTopic') :
            tradeTopic'[k] = t \/ (k \in 1 .. Len(tradeTopic) /\ tradeTopic'[k] = tradeTopic[k])
      BY <2>1, <2>2
    <2>4. \A k \in 1 .. Len(tradeTopic') : \E x \in Trade : tradeTopic'[k] = x /\ FairTrade(x)
      BY <2>1, <2>2, <2>3 DEF TradesFair
    <2>5. \A k \in 1 .. Len(tradeTopic') : \E x \in Trade : tradeTopic'[k] = x /\ FairTrade(x)'
      BY <1>1, <2>4
    <2> QED BY <2>5, SMTT(30) DEF TradesFair, FairTrade
  <1> QED BY <1>2, <1>3, TradesChange

\* What a reader of the trade topic can rely on, and what the engine needs for it.
PublishesFairly == TypeOK /\ Sided /\ TradesWithinLimits /\ PresentIsKnown /\ TradesFair

LEMMA FairInit == Init => PublishesFairly
  BY TypeInit DEF Init, PublishesFairly, Sided, PresentIsKnown, Present, InBook, InStops, InQueue, InBatch,
     Active, TradesFair, TradesWithinLimits

LEMMA FairNext == PublishesFairly /\ [Next]_vars => PublishesFairly'
  BY TypeStep, SidedStep, LimitsStep, KnownStep, FairStep DEF PublishesFairly

\* For any orders and any history of deliveries and reloads, a trade is between two orders
\* that were delivered, of opposite sides, at the price of a limit order among them.
THEOREM TradesAreFair == Spec => []TradesFair
  <1>1. PublishesFairly => TradesFair
    BY DEF PublishesFairly
  <1> QED BY <1>1, FairInit, FairNext, PTL DEF Spec

-----------------------------------------------------------------------------
(* Orders that are not in the engine, for the composition with Settlement. *)

\* A plain order is in no stop tree and not in the queue.
LEMMA PlainIsAbsent ==
  ASSUME TypeOK, StopsAreStops, NEW i \in Ids, IsPlain(i)
  PROVE  Nowhere(i) <=> ~ Present(i)
  <1>1. ASSUME NEW o \in Forms, o.stop > 0 PROVE o.id # i
    BY <1>1, PlainForms
  <1>2. ~ InStops(i)
    BY <1>1 DEF InStops, TypeOK, StopsAreStops
  <1>3. ASSUME NEW k \in 1 .. Len(pendingOrders) PROVE pendingOrders[k].id # i
    <2>1. pendingOrders[k] \in Forms /\ pendingOrders[k].stop > 0
      BY DEF TypeOK, StopsAreStops
    <2> QED BY <1>1, <2>1
  <1>4. ~ InQueue(i)
    BY <1>3 DEF InQueue
  <1> QED BY <1>2, <1>4 DEF Nowhere, Present

\* A plain order that is not in the engine gets there by a delivery only.
LEMMA AbsentStays ==
  ASSUME TypeOK, TypeOK', StopsAreStops, StopsAreStops', NEW i \in Ids, IsPlain(i), Nowhere(i),
         Own \/ \E o \in Submissions : CancelWithKey(o)
  PROVE  Nowhere(i)'
  <1>1. ~ Present(i)
    BY PlainIsAbsent
  <1>2. ~ Present(i)'
    BY <1>1, PresentOwn, PresentCancel
  <1> QED BY <1>2 DEF Present, Nowhere

LEMMA AbsentAdd ==
  ASSUME TypeOK, StopsAreStops, NEW i \in Ids, IsPlain(i), Nowhere(i),
         NEW o \in Submissions, Add(o), o.id # i
  PROVE  Nowhere(i)'
  <1>1. ~ Present(i)
    BY PlainIsAbsent
  <1>2. ~ Present(i)'
    BY <1>1, PresentAdd
  <1> QED BY <1>2 DEF Present, Nowhere

\* A cancel takes all there is of a plain order out of the engine.
LEMMA CancelTakesOut ==
  ASSUME TypeOK, Sided, IdleIsEmpty, NEW key \in Submissions, CancelWithKey(key)
  PROVE  Nowhere(key.id)'
  <1>1. pc' = "idle" /\ batch' = <<>>
    BY DEF CancelWithKey, adding, IdleIsEmpty
  <1>2. ASSUME NEW r \in asks' \cup bids', r.id = key.id PROVE FALSE
    <2>1. r \in Forms /\ key \in Forms /\ r \in asks \cup bids
      BY SubmissionIsForm DEF CancelWithKey, WithoutKey, TypeOK
    <2>2. r.price = key.price /\ r.side = key.side
      BY <1>2, <2>1, FormsAgree DEF SameOrder
    <2> QED BY <1>2, <2>1, <2>2 DEF CancelWithKey, WithoutKey, Sided
  <1> QED BY <1>1, <1>2 DEF Nowhere, InBook, InBatch, Active

\* A new engine starts empty.
LEMMA ReloadTakesOut ==
  ASSUME NEW waiting, Reload(waiting), NEW i
  PROVE  Nowhere(i)'
  BY DEF Reload, Nowhere, InBook, InBatch, Active

\* Nothing moves where nothing happens.
LEMMA PlaceKept ==
  ASSUME UNCHANGED vars, NEW i
  PROVE  (InOnePlace(i) => InOnePlace(i)') /\ (Nowhere(i) => Nowhere(i)')
  BY DEF vars, InOnePlace, Nowhere, Arriving, Matching, OnOffer, HoldsRest, InBook, InBatch, Active,
     UnfilledQuantity

\* Between two messages the rest of an order in one place is on offer.
LEMMA RestIsOnOffer ==
  ASSUME NEW i, InOnePlace(i), pc = "idle", offered[i] # traded[i]
  PROVE  \E r \in asks \cup bids : r.id = i /\ offered[i] = traded[i] + UnfilledQuantity(r)
  BY DEF InOnePlace, Arriving, Matching, OnOffer, HoldsRest, Active

\* An order that rests has been offered more than it has traded.
LEMMA RestsOpen ==
  ASSUME Covered, NEW r \in asks \cup bids
  PROVE  traded[r.id] < offered[r.id]
  <1>1. r \in Forms /\ ~ Filled(r)
    BY DEF Covered, RestingIsLive, TypeOK
  <1>2. r.id \in Ids /\ UnfilledQuantity(r) \in Nat /\ UnfilledQuantity(r) # 0
    BY <1>1 DEF Forms, Order, UnfilledQuantity, Filled
  <1>3. traded[r.id] + UnfilledQuantity(r) <= offered[r.id]
    BY DEF Covered, AfootBacked, Backed, Volume
  <1>4. traded[r.id] \in Nat /\ offered[r.id] \in Nat
    BY <1>2 DEF Covered, TypeOK
  <1> QED BY <1>2, <1>3, <1>4

\* What a step of the engine adds to the trades it has counted, it publishes.
Counts(t) ==
  /\ tradeTopic' = Append(tradeTopic, t)
  /\ \A i \in Ids : traded'[i] = traded[i] + IF i \in {t.maker, t.taker} THEN t.quantity ELSE 0

LEMMA FillCounts ==
  ASSUME TypeOK, NEW c \in asks \cup bids, Fill(c)
  PROVE  \E t \in Trade : Counts(t) /\ {t.maker, t.taker} = {taker.id, c.id}
  <1> DEFINE q == Smaller(UnfilledQuantity(taker), UnfilledQuantity(c))
             t == TradeOf(taker, c, q)
  <1>1. taker \in Forms /\ c \in Forms
    BY DEF Fill, TypeOK
  <1>2. q \in Nat /\ taker.id \in Ids /\ c.id \in Ids /\ c.price \in Nat
    BY <1>1, SmallerBounds DEF Forms, Order
  <1>3. t \in Trade /\ {t.maker, t.taker} = {taker.id, c.id} /\ t.quantity = q
    <2> HIDE DEF q
    <2> QED BY <1>2 DEF TradeOf, Trade
  <1>4. tradeTopic' = Append(tradeTopic, t)
    BY DEF Fill
  <1>5. \A i \in Ids : traded'[i] = traded[i] + IF i \in {taker.id, c.id} THEN q ELSE 0
    BY DEF Fill
  <1> HIDE DEF q, t
  <1> QED BY <1>3, <1>4, <1>5 DEF Counts

LEMMA OwnCounts ==
  ASSUME TypeOK, PresentIsKnown, Own
  PROVE  /\ UNCHANGED <<loading, received, offered>>
         /\ \/ UNCHANGED <<tradeTopic, traded>>
            \/ \E t \in Trade : Counts(t) /\ received[t.maker] > 0 /\ received[t.taker] > 0
  <1>1. UNCHANGED <<loading, received, offered>>
    BY DEF Own, TakeNext, TakeSnapshot, Finish, BeginMatch, SkipLevel, StopsDone, EndMatch, Fill,
       PopStopBid, PopStopAsk, inputs
  <1>2. ASSUME NEW c \in asks \cup bids, Fill(c)
        PROVE  \E t \in Trade : Counts(t) /\ received[t.maker] > 0 /\ received[t.taker] > 0
    <2>1. taker.id \in Ids /\ c.id \in Ids /\ Active(taker.id) /\ InBook(c.id)
      BY <1>2 DEF Fill, TypeOK, Forms, Order, Active, InBook
    <2>2. received[c.id] > 0 /\ received[taker.id] > 0
      BY <2>1 DEF PresentIsKnown, Present
    <2> QED BY <1>2, <2>2, FillCounts
  <1>3. (\E c \in asks \cup bids : Fill(c)) \/ UNCHANGED <<tradeTopic, traded>>
    BY DEF Own, TakeNext, TakeSnapshot, Finish, BeginMatch, SkipLevel, StopsDone, EndMatch,
       PopStopBid, PopStopAsk, topics
  <1> QED BY <1>1, <1>2, <1>3

-----------------------------------------------------------------------------
(* The order book implements the auction: every step of the engine is a    *)
(* step of Auction, or none at all.                                        *)

\* What the mapping needs to know of the engine.
Mapped == TypeOK /\ Sided /\ WalkIsWhole

ActiveOrder == IF Stage = "open" THEN NoOrder ELSE taker

abstract == <<asks, bids, Stage, ActiveOrder, tradeTopic, processorTopic>>

\* What the auction sees is unchanged.
LEMMA HiddenSteps ==
  ASSUME UNCHANGED <<asks, bids, tradeTopic, processorTopic>>,
         Stage' = Stage, Stage # "open" => taker' = taker
  PROVE  UNCHANGED Auctioned!vars
BY DEF Auctioned!vars, ActiveOrder

-----------------------------------------------------------------------------
(* The steps that the auction sees. *)

LEMMA ArriveStep == ASSUME TypeOK, TakeNext PROVE Auctioned!Arrive
  <1>1. taker' \in Forms
    BY DEF TakeNext, TypeOK
  <1>2. Stage = "open" /\ Stage' = "arrived"
    BY DEF TakeNext, Stage
  <1> QED BY <1>1, <1>2 DEF TakeNext, Auctioned!Arrive, book, topics

LEMMA BeginStep == ASSUME TypeOK, BeginMatch PROVE Auctioned!Reject \/ Auctioned!Admit
  <1>1. taker \in Forms /\ taker' = taker /\ Stage = "arrived"
    BY DEF BeginMatch, TypeOK, Stage
  <1>2. taker.price = 0 <=> taker.type = "market"
    BY <1>1, SubmissionsAssumption DEF Forms, Order, WellFormed, SameOrder
  <1>3. CASE NoOfferAtAll
    <2>1. Stage' = "open"
      BY <1>3 DEF BeginMatch, Stage
    <2> QED BY <1>1, <1>2, <1>3, <2>1
            DEF BeginMatch, NoOfferAtAll, Opposite, Auctioned!Reject, Auctioned!Counter, book
  <1>4. CASE ~ NoOfferAtAll
    <2>1. Stage' = "matching"
      BY <1>4 DEF BeginMatch, Stage
    <2> QED BY <1>1, <1>2, <1>4, <2>1
            DEF BeginMatch, NoOfferAtAll, Opposite, Auctioned!Admit, Auctioned!Counter, book
  <1> QED BY <1>3, <1>4

\* The counter order of a fill is the offer whose turn it is.
LEMMA TurnOfCounter ==
  ASSUME Mapped, NEW c \in BestOffers
  PROVE  \A d \in Opposite(taker) :
           /\ IteratorIsStable => IF c.side = "sell" THEN ~ (d.price < c.price) ELSE ~ (d.price > c.price)
           /\ d.price = c.price => d.at <= c.at
  <1>1. c \in Opposite(taker) /\ c.price \notin iter.skipped
    BY DEF BestOffers, Offers
  <1>2. \A d \in Opposite(taker) : d.side = c.side /\ d.at \in Nat /\ c.at \in Nat
    BY <1>1 DEF Mapped, TypeOK, Sided, Opposite, Forms, Order
  <1>3. ASSUME NEW d \in Opposite(taker), IteratorIsStable
        PROVE  IF c.side = "sell" THEN ~ (d.price < c.price) ELSE ~ (d.price > c.price)
    <2>1. d \in Offers
      BY <1>3 DEF Mapped, WalkIsWhole, Offers
    <2>2. ~ BetterOffer(d.price, c.price, d.side)
      BY <2>1 DEF BestOffers, GoesBefore
    <2> QED BY <1>2, <2>2 DEF BetterOffer
  <1>4. ASSUME NEW d \in Opposite(taker), d.price = c.price PROVE d.at <= c.at
    <2>1. d \in Offers
      BY <1>1, <1>4 DEF Offers
    <2>2. ~ (d.price = c.price /\ d.at > c.at)
      BY <2>1 DEF BestOffers, GoesBefore
    <2> QED BY <1>2, <1>4, <2>2
  <1> QED BY <1>3, <1>4

LEMMA DealStep ==
  ASSUME Mapped, NEW c \in asks \cup bids, Fill(c)
  PROVE  Auctioned!Deal(c)
  <1> DEFINE q == Smaller(UnfilledQuantity(taker), UnfilledQuantity(c))
             left == AfterFill(Opposite(taker), c, q)
  <1>1. c \in BestOffers /\ c \in Opposite(taker) /\ pc = "match" /\ Stage = "matching"
    BY DEF Fill, BestOffers, Offers, Stage
  <1>2. Stage' = "matching"
    <2>1. c \in Forms /\ c.price \in Nat /\ marketPrice \in Nat
      BY DEF Mapped, TypeOK, Forms, Order
    <2>2. pc' \in {"match", "popStopBids", "popStopAsks"}
      BY <2>1 DEF Fill, StopLoop
    <2> QED BY <2>2 DEF Stage
  <1>3. q = Auctioned!Lesser(Auctioned!Left(taker), Auctioned!Left(c))
    BY DEF Smaller, UnfilledQuantity, Auctioned!Lesser, Auctioned!Left
  <1>4. Auctioned!Left(taker) # 0
    BY DEF Fill, Filled, UnfilledQuantity, Auctioned!Left
  <1>5. Auctioned!HasTurn(c)
    BY <1>1, TurnOfCounter
       DEF Auctioned!HasTurn, Auctioned!Counter, Auctioned!Cheaper, Opposite, Stage
  <1>6. Auctioned!Acceptable(taker, c)
    BY DEF Fill, Crosses, IsCrossed, Auctioned!Acceptable
  <1>7. left = (Opposite(taker) \ {c})
                 \cup (IF Auctioned!Left(Auctioned!With(c, q)) = 0 \/ c.cancelled
                       THEN {} ELSE {Auctioned!With(c, q)})
    BY DEF AfterFill, Filled, UnfilledQuantity, Filling, Auctioned!Left, Auctioned!With
  <1>8. /\ taker' = Auctioned!With(taker, q)
        /\ asks' = IF taker.side = "sell" THEN asks ELSE left
        /\ bids' = IF taker.side = "sell" THEN left ELSE bids
    BY DEF Fill, Filling, Auctioned!With
  <1>9. tradeTopic' =
          Append(tradeTopic, [maker |-> IF taker.at < c.at THEN taker.id ELSE c.id,
                              taker |-> IF taker.at < c.at THEN c.id ELSE taker.id,
                              price |-> c.price, quantity |-> q])
    BY DEF Fill, TradeOf
  <1>10. processorTopic' = processorTopic
    BY DEF Fill
  <1>11. Opposite(taker) = Auctioned!Counter(taker)
    BY DEF Opposite, Auctioned!Counter
  <1> HIDE DEF q, left
  <1> QED BY <1>1, <1>2, <1>3, <1>4, <1>5, <1>6, <1>7, <1>8, <1>9, <1>10, <1>11
          DEF Auctioned!Deal

\* At the end of a match the order rests or leaves.
LEMMA EndStep == ASSUME Mapped, EndMatch PROVE Auctioned!Offer \/ Auctioned!Leave
  <1>1. taker \in Forms /\ Stage = "matching" /\ Stage' = "open"
    BY DEF EndMatch, Mapped, TypeOK, Stage
  <1>2. taker.type \in {"limit", "market"} /\ taker.side \in Sides
    BY <1>1 DEF Forms, Order
  <1>3. Filled(taker) \/ Auctioned!Exhausted
    BY <1>1 DEF EndMatch, WalkIsOver, Mapped, WalkIsWhole, Offers, Opposite, Crosses, IsCrossed,
                Auctioned!Exhausted, Auctioned!Counter, Auctioned!Acceptable
  <1>4. Filled(taker) <=> Auctioned!Left(taker) = 0
    BY DEF Filled, UnfilledQuantity, Auctioned!Left
  <1>5. CASE Rests(taker)
    <2>1. ASSUME NEW S, S \subseteq Forms
          PROVE  WithOrder(S, taker) = IF \E r \in S : r.id = taker.id THEN S ELSE S \cup {taker}
      BY <1>1, <2>1, FormsAgree DEF WithOrder, SameOrder
    <2>2. asks \subseteq Forms /\ bids \subseteq Forms
      BY DEF Mapped, TypeOK
    <2>3. /\ asks' = IF taker.side = "sell" THEN WithOrder(asks, taker) ELSE asks
          /\ bids' = IF taker.side = "sell" THEN bids ELSE WithOrder(bids, taker)
      BY <1>2, <1>5 DEF EndMatch, Sides
    <2>4. /\ asks' = IF taker.side = "sell"
                     THEN IF \E r \in asks : r.id = taker.id THEN asks ELSE asks \cup {taker}
                     ELSE asks
          /\ bids' = IF taker.side = "sell" THEN bids
                     ELSE IF \E r \in bids : r.id = taker.id THEN bids ELSE bids \cup {taker}
      BY <2>1, <2>2, <2>3
    <2> QED BY <1>1, <1>3, <1>4, <1>5, <2>4
            DEF EndMatch, Rests, topics, Auctioned!Offer
  <1>6. CASE ~ Rests(taker)
    BY <1>1, <1>2, <1>3, <1>4, <1>6 DEF EndMatch, Rests, book, topics, Auctioned!Leave
  <1> QED BY <1>5, <1>6

\* A cancel finds every resting form of its order: they share its side and price.
LEMMA WithdrawStep ==
  ASSUME Mapped, NEW o \in Submissions, CancelWithKey(o)
  PROVE  Auctioned!Withdraw(o.id)
  <1>1. o \in Forms /\ o.side \in Sides
    BY SubmissionIsForm, SubmissionsAssumption DEF Order
  <1>2. \A r \in asks \cup bids : r.id = o.id => r.price = o.price /\ r.side = o.side
    BY <1>1, FormsAgree DEF Mapped, TypeOK, SameOrder
  <1>3. asks' = {r \in asks : r.id # o.id}
    BY <1>1, <1>2 DEF CancelWithKey, WithoutKey, Mapped, Sided, Sides
  <1>4. bids' = {r \in bids : r.id # o.id}
    BY <1>1, <1>2 DEF CancelWithKey, WithoutKey, Mapped, Sided, Sides
  <1>5. Stage = "open" /\ Stage' = "open"
    BY DEF CancelWithKey, Stage
  <1>6. processorTopic' \in {processorTopic, Append(processorTopic, o.id)}
        /\ tradeTopic' = tradeTopic
    BY DEF CancelWithKey
  <1> QED BY <1>3, <1>4, <1>5, <1>6 DEF Auctioned!Withdraw

LEMMA ReopenStep == ASSUME NEW waiting \in LoadSets, Reload(waiting) PROVE Auctioned!Reopen
BY DEF Reload, Stage, topics, Auctioned!Reopen

-----------------------------------------------------------------------------

\* Every step of the engine is a step of the auction or one that the auction does not
\* see: submitting, arming and popping stop orders, and the turns of the loops.
LEMMA StepIsAuctionStep ==
  ASSUME Mapped, [Next]_vars
  PROVE  [Auctioned!Next]_Auctioned!vars
  <1>1. ASSUME NEW o \in Submissions, Submit(o) PROVE UNCHANGED Auctioned!vars
    BY <1>1, HiddenSteps DEF Submit, Add, AddStop, AddOrder, Stage, book, topics
  <1>2. ASSUME NEW o \in Submissions, CancelWithKey(o) PROVE Auctioned!Next
    <2>1. o.id \in Ids
      BY SubmissionsAssumption DEF Order
    <2> QED BY <1>2, <2>1, WithdrawStep DEF Auctioned!Next
  <1>3. ASSUME NEW waiting \in LoadSets, Reload(waiting) PROVE Auctioned!Next
    BY <1>3, ReopenStep DEF Auctioned!Next
  <1>4. ASSUME NEW o \in loading, Load(o) PROVE UNCHANGED Auctioned!vars
    BY <1>4, HiddenSteps DEF Load, Add, AddStop, AddOrder, Stage, book, topics
  <1>5. CASE TakeNext
    BY <1>5, ArriveStep DEF Mapped, Auctioned!Next
  <1>6. CASE TakeSnapshot \/ Finish \/ SkipLevel \/ StopsDone
    BY <1>6, HiddenSteps DEF TakeSnapshot, Finish, SkipLevel, StopsDone, Stage, book, topics
  <1>7. CASE BeginMatch
    BY <1>7, BeginStep DEF Mapped, Auctioned!Next
  <1>8. ASSUME NEW c \in asks \cup bids, Fill(c) PROVE Auctioned!Next
    BY <1>8, DealStep DEF Auctioned!Next
  <1>9. ASSUME NEW o \in stopBids, PopStopBid(o) PROVE UNCHANGED Auctioned!vars
    BY <1>9, HiddenSteps DEF PopStopBid, Stage, book, topics
  <1>10. ASSUME NEW o \in stopAsks, PopStopAsk(o) PROVE UNCHANGED Auctioned!vars
    BY <1>10, HiddenSteps DEF PopStopAsk, Stage, book, topics
  <1>11. CASE EndMatch
    BY <1>11, EndStep DEF Auctioned!Next
  <1>12. CASE UNCHANGED vars
    BY <1>12, HiddenSteps DEF vars, Stage
  <1> QED BY <1>1, <1>2, <1>3, <1>4, <1>5, <1>6, <1>7, <1>8, <1>9, <1>10, <1>11, <1>12
          DEF Next, Receive, Work

\* The engine is an auction: price priority and the youngest order first, both limits,
\* all that both have left, resting only when nothing crosses, cancels that take the
\* whole order; with the best price promised when the walk over the levels is whole.
THEOREM EngineIsAuction == Spec => ImplementsAuction
  <1>1. Init => Sided /\ WalkIsWhole
    BY DEF Init, Sided, WalkIsWhole, FreshWalk
  <1>2. TypeOK /\ Sided /\ WalkIsWhole /\ [Next]_vars => (Sided /\ WalkIsWhole)'
    BY SidedStep, WalkStep
  <1>3. Init => Auctioned!Init
    BY DEF Init, Stage, Auctioned!Init
  <1>4. TypeOK /\ Sided /\ WalkIsWhole /\ [Next]_vars => [Auctioned!Next]_Auctioned!vars
    BY StepIsAuctionStep DEF Mapped
  <1> QED BY <1>1, <1>2, <1>3, <1>4, TypeCorrect, PTL
          DEF Spec, ImplementsAuction, Auctioned!Spec

-----------------------------------------------------------------------------
(* What a market order costs. *)

\* What the orders of a set cost an order o that takes them all.
Value(o, S) == SumFunction([r \in S |-> UnitCost(o, r.price) * UnfilledQuantity(r)])

LEMMA OrderNumbers ==
  ASSUME NEW r \in Forms
  PROVE  r.id \in Ids /\ UnfilledQuantity(r) \in Nat /\ r.price \in Nat
BY DEF Forms, Order, UnfilledQuantity

LEMMA UnitCostIsNat == ASSUME NEW o, NEW p \in Nat PROVE UnitCost(o, p) \in Nat
BY DEF UnitCost

\* The terms of the two sums.
LEMMA ValueIsNat ==
  ASSUME NEW o, NEW r \in Forms
  PROVE  UnitCost(o, r.price) * UnfilledQuantity(r) \in Nat
  <1>1. \A a, b \in Nat : a * b \in Nat
    OBVIOUS
  <1> QED BY <1>1, OrderNumbers, UnitCostIsNat

\* Both sums as sums of one function over its parts.
LEMMA SumsOverParts ==
  ASSUME NEW o, NEW S, S \subseteq Forms, IsFiniteSet(S), NEW T \in SUBSET S
  PROVE  /\ Total(T) = SumFunctionOnSet([r \in S |-> UnfilledQuantity(r)], T)
         /\ Value(o, T) = SumFunctionOnSet([r \in S |-> UnitCost(o, r.price) * UnfilledQuantity(r)], T)
         /\ Total(T) \in Nat /\ Value(o, T) \in Nat /\ IsFiniteSet(T)
  <1> DEFINE f == [r \in S |-> UnfilledQuantity(r)]
             g == [r \in S |-> UnitCost(o, r.price) * UnfilledQuantity(r)]
             ft == [r \in T |-> UnfilledQuantity(r)]
             gt == [r \in T |-> UnitCost(o, r.price) * UnfilledQuantity(r)]
  <1>1. IsFiniteSet(T)
    BY SmallerIsFinite
  <1>2. \A r \in T : f[r] \in Nat /\ g[r] \in Nat /\ f[r] = ft[r] /\ g[r] = gt[r]
    BY OrderNumbers, ValueIsNat
  <1>3. Total(T) = SumFunctionOnSet(ft, T) /\ Value(o, T) = SumFunctionOnSet(gt, T)
    BY DEF Total, Value, SumFunction
  <1> HIDE DEF f, g, ft, gt
  <1>4. SumFunctionOnSet(ft, T) = SumFunctionOnSet(f, T)
    BY <1>1, <1>2, SumOfSame
  <1>5. SumFunctionOnSet(gt, T) = SumFunctionOnSet(g, T)
    BY <1>1, <1>2, SumOfSame
  <1>6. SumFunctionOnSet(f, T) \in Nat
    BY <1>1, <1>2, SumIsNat
  <1>7. SumFunctionOnSet(g, T) \in Nat
    BY <1>1, <1>2, SumIsNat
  <1> QED BY <1>1, <1>3, <1>4, <1>5, <1>6, <1>7 DEF f, g

LEMMA SumsOfNone == ASSUME NEW o PROVE Total({}) = 0 /\ Value(o, {}) = 0
  <1>1. \A f : SumFunctionOnSet(f, {}) = 0
    BY SumOfNone
  <1> QED BY <1>1 DEF Total, Value, SumFunction

LEMMA SumsOfUnion ==
  ASSUME NEW o, NEW S, NEW T, S \subseteq Forms, T \subseteq Forms,
         IsFiniteSet(S), IsFiniteSet(T), S \cap T = {}
  PROVE  /\ Total(S \cup T) = Total(S) + Total(T)
         /\ Value(o, S \cup T) = Value(o, S) + Value(o, T)
  <1> DEFINE W == S \cup T
             f == [r \in W |-> UnfilledQuantity(r)]
             g == [r \in W |-> UnitCost(o, r.price) * UnfilledQuantity(r)]
  <1>1. IsFiniteSet(W) /\ W \subseteq Forms /\ S \in SUBSET W /\ T \in SUBSET W /\ W \in SUBSET W
    BY FS_Union
  <1>2. ASSUME NEW r \in W PROVE f[r] \in Int /\ g[r] \in Int
    <2>1. r \in Forms
      BY <1>1
    <2> QED BY <2>1, OrderNumbers, ValueIsNat
  <1> HIDE DEF W
  <1>3. ASSUME NEW U \in SUBSET W
        PROVE  Total(U) = SumFunctionOnSet(f, U) /\ Value(o, U) = SumFunctionOnSet(g, U)
    BY <1>1, SumsOverParts
  <1> USE DEF W
  <1> HIDE DEF f, g
  <1>4. SumFunctionOnSet(f, S \cup T) = SumFunctionOnSet(f, S) + SumFunctionOnSet(f, T)
    BY <1>2, SumOfUnion
  <1>5. SumFunctionOnSet(g, S \cup T) = SumFunctionOnSet(g, S) + SumFunctionOnSet(g, T)
    BY <1>2, SumOfUnion
  <1> QED BY <1>1, <1>3, <1>4, <1>5

LEMMA SumsOfOne ==
  ASSUME NEW o, NEW r \in Forms
  PROVE  Total({r}) = UnfilledQuantity(r) /\ Value(o, {r}) = UnitCost(o, r.price) * UnfilledQuantity(r)
  <1> DEFINE f == [s \in {r} |-> UnfilledQuantity(s)]
             g == [s \in {r} |-> UnitCost(o, s.price) * UnfilledQuantity(s)]
  <1>1. IsFiniteSet({r}) /\ {r} \ {r} = {}
    BY FS_Singleton
  <1>2. f[r] = UnfilledQuantity(r) /\ f[r] \in Int
    BY OrderNumbers
  <1>3. g[r] = UnitCost(o, r.price) * UnfilledQuantity(r) /\ g[r] \in Int
    BY ValueIsNat
  <1>4. Total({r}) = SumFunctionOnSet(f, {r}) /\ Value(o, {r}) = SumFunctionOnSet(g, {r})
    BY DEF Total, Value, SumFunction
  <1> HIDE DEF f, g
  <1>5. SumFunctionOnSet(f, {r}) = f[r] + SumFunctionOnSet(f, {r} \ {r})
    BY <1>1, <1>2, SumTakesOut
  <1>6. SumFunctionOnSet(g, {r}) = g[r] + SumFunctionOnSet(g, {r} \ {r})
    BY <1>1, <1>3, SumTakesOut
  <1>7. SumFunctionOnSet(f, {}) = 0 /\ SumFunctionOnSet(g, {}) = 0
    BY SumOfNone
  <1> QED BY <1>1, <1>2, <1>3, <1>4, <1>5, <1>6, <1>7

LEMMA SumsTakeOut ==
  ASSUME NEW o, NEW S, S \subseteq Forms, IsFiniteSet(S), NEW c \in S
  PROVE  /\ Total(S) = Total(S \ {c}) + UnfilledQuantity(c)
         /\ Value(o, S) = Value(o, S \ {c}) + UnitCost(o, c.price) * UnfilledQuantity(c)
         /\ Total(S \ {c}) \in Nat /\ Value(o, S \ {c}) \in Nat
         /\ Total(S) \in Nat /\ Value(o, S) \in Nat
  <1>1. S = (S \ {c}) \cup {c} /\ (S \ {c}) \cap {c} = {} /\ {c} \subseteq Forms /\ S \ {c} \subseteq Forms
    OBVIOUS
  <1>2. IsFiniteSet(S \ {c}) /\ IsFiniteSet({c})
    BY SmallerIsFinite, FS_Singleton
  <1>3. /\ Total(S) = Total(S \ {c}) + Total({c})
        /\ Value(o, S) = Value(o, S \ {c}) + Value(o, {c})
    BY <1>1, <1>2, SumsOfUnion
  <1>4. \A T \in SUBSET S : Total(T) \in Nat /\ Value(o, T) \in Nat
    BY SumsOverParts
  <1> QED BY <1>3, <1>4, SumsOfOne

\* A level costs its price times its total.
LEMMA ValueOfLevel ==
  ASSUME NEW o, NEW p \in Nat, NEW S, S \subseteq Forms, IsFiniteSet(S), \A r \in S : r.price = p
  PROVE  Value(o, S) = UnitCost(o, p) * Total(S)
  <1> DEFINE f == [r \in S |-> UnfilledQuantity(r)]
             g == [r \in S |-> UnitCost(o, r.price) * UnfilledQuantity(r)]
  <1>1. \A r \in S : f[r] \in Int /\ g[r] = UnitCost(o, p) * f[r]
    BY OrderNumbers
  <1>2. Total(S) = SumFunctionOnSet(f, S) /\ Value(o, S) = SumFunctionOnSet(g, S)
    BY DEF Total, Value, SumFunction
  <1>3. UnitCost(o, p) \in Int
    BY UnitCostIsNat
  <1> HIDE DEF f, g
  <1> QED BY <1>1, <1>2, <1>3, SumScales

\* Live orders have a volume.
LEMMA LiveHaveVolume ==
  ASSUME NEW S, S \subseteq Forms, IsFiniteSet(S), \A r \in S : ~ Filled(r), Total(S) <= 0
  PROVE  S = {}
  <1> SUFFICES ASSUME NEW c \in S PROVE FALSE
    OBVIOUS
  <1>1. Total(S) = Total(S \ {c}) + UnfilledQuantity(c) /\ Total(S \ {c}) \in Nat
    BY SumsTakeOut
  <1>2. UnfilledQuantity(c) \in Nat /\ UnfilledQuantity(c) # 0
    BY OrderNumbers DEF Filled
  <1> QED BY <1>1, <1>2

\* What a fill takes from a set of orders: its volume, and the whole order when it is
\* cancelled.
LEMMA SumsAfterFill ==
  ASSUME NEW o, NEW S, S \subseteq Forms, IsFiniteSet(S), NEW c \in S, \A r \in S : r.id = c.id => r = c,
         NEW q \in Nat, q <= UnfilledQuantity(c)
  PROVE  /\ AfterFill(S, c, q) \subseteq Forms /\ IsFiniteSet(AfterFill(S, c, q))
         /\ Total(AfterFill(S, c, q)) \in Nat /\ Value(o, AfterFill(S, c, q)) \in Nat
         /\ Total(AfterFill(S, c, q)) <= Total(S) - q
         /\ q = UnfilledQuantity(c) \/ ~ c.cancelled =>
              /\ Total(AfterFill(S, c, q)) = Total(S) - q
              /\ Value(o, AfterFill(S, c, q)) = Value(o, S) - UnitCost(o, c.price) * q
  <1> DEFINE D == AfterFill(S, c, q)
             f == Filling(c, q)
             u == UnitCost(o, c.price)
             v == UnfilledQuantity(c)
             rest == S \ {c}
  <1>1. /\ f \in Forms /\ f.id = c.id /\ f.price = c.price /\ UnfilledQuantity(f) = v - q
        /\ v \in Nat /\ u \in Nat
    BY FillingIsForm, OrderNumbers, UnitCostIsNat DEF SameOrder
  <1>2. /\ Total(S) = Total(rest) + v /\ Value(o, S) = Value(o, rest) + u * v
        /\ Total(rest) \in Nat /\ Value(o, rest) \in Nat
    BY SumsTakeOut
  <1>3. IsFiniteSet(rest) /\ rest \subseteq Forms
    BY SmallerIsFinite
  <1>4. \A a, b \in Nat : u * (a - b) = u * a - u * b
    BY <1>1
  <1>5. CASE Filled(f) \/ c.cancelled
    <2>1. D = rest
      BY <1>5 DEF AfterFill
    <2>2. q = v \/ ~ c.cancelled => q = v
      BY <1>1, <1>5 DEF Filled
    <2>3. q <= v
      OBVIOUS
    <2> HIDE DEF D, f, u, v, rest
    <2>4. Total(D) \in Nat /\ Value(o, D) \in Nat /\ Total(D) <= Total(S) - q
      BY <1>1, <1>2, <2>1, <2>3
    <2>5. ASSUME q = v PROVE Total(D) = Total(S) - q /\ Value(o, D) = Value(o, S) - u * q
      <3>1. u * v \in Int
        BY <1>1
      <3> QED BY <1>1, <1>2, <2>1, <2>5, <3>1
    <2> QED BY <1>3, <2>1, <2>2, <2>4, <2>5 DEF D, u, v
  <1>6. CASE ~ (Filled(f) \/ c.cancelled)
    <2>1. D = rest \cup {f}
      BY <1>6 DEF AfterFill
    <2>2. rest \cap {f} = {}
      BY <1>1
    <2>3. Total({f}) = v - q /\ Value(o, {f}) = u * (v - q)
      BY <1>1, SumsOfOne
    <2>4. {f} \subseteq Forms /\ IsFiniteSet({f}) /\ IsFiniteSet(rest \cup {f})
      BY <1>1, <1>3, FS_Singleton, FS_Union
    <2> HIDE DEF D, f, u, v, rest
    <2>5. /\ Total(D) = Total(rest) + Total({f}) /\ Value(o, D) = Value(o, rest) + Value(o, {f})
          /\ IsFiniteSet(D) /\ D \subseteq Forms
      BY <1>3, <2>1, <2>2, <2>4, SumsOfUnion
    <2>6. q <= v
      BY DEF v
    <2>7. u * (v - q) = u * v - u * q /\ u * (v - q) \in Nat
      <3>1. v - q \in Nat
        BY <1>1, <2>6
      <3>2. \A a \in Nat : u * a \in Nat
        BY <1>1
      <3> QED BY <1>1, <1>4, <3>1, <3>2
    <2>8. u * v \in Nat /\ u * q \in Nat
      BY <1>1
    <2>9. /\ Total(D) \in Nat /\ Value(o, D) \in Nat
          /\ Total(D) = Total(S) - q /\ Value(o, D) = Value(o, S) - u * q
      BY <1>1, <1>2, <2>3, <2>5, <2>6, <2>7, <2>8
    <2> QED BY <1>1, <1>2, <2>5, <2>9 DEF D, u, v
  <1> QED BY <1>5, <1>6

\* The orders of a side that come before a price.
Preceding(o, p, R) == {r \in R : BetterOffer(r.price, p, OfferSide(o))}

\* An order o that takes n of the side R, best prices first, has to pay k: all that comes
\* before some price p, and the rest at p.
CostsAt(o, p, R, n, k) ==
  /\ Total(Preceding(o, p, R)) <= n
  /\ n <= Total(Preceding(o, p, R)) + Total(LevelOf(R, p))
  /\ k = Value(o, Preceding(o, p, R)) + UnitCost(o, p) * (n - Total(Preceding(o, p, R)))

Costs(o, R, n, k) == \E p \in Nat : CostsAt(o, p, R, n, k)

\* A side of the book: finite, each order live and there once.
Side(R) ==
  /\ R \subseteq Forms /\ IsFiniteSet(R)
  /\ \A r \in R : ~ Filled(r)
  /\ \A r, s \in R : r.id = s.id => r = s

LEMMA PartsOfSide ==
  ASSUME NEW o, NEW R, Side(R), NEW p
  PROVE  /\ Preceding(o, p, R) \in SUBSET R /\ LevelOf(R, p) \in SUBSET R
         /\ Side(Preceding(o, p, R)) /\ Side(LevelOf(R, p))
         /\ Total(Preceding(o, p, R)) \in Nat /\ Value(o, Preceding(o, p, R)) \in Nat
         /\ Total(LevelOf(R, p)) \in Nat /\ Total(R) \in Nat
  <1>1. R \subseteq Forms /\ IsFiniteSet(R)
    BY DEF Side
  <1>2. \A T \in SUBSET R : Total(T) \in Nat /\ Value(o, T) \in Nat /\ IsFiniteSet(T)
    BY <1>1, SumsOverParts
  <1>3. \A T \in SUBSET R : Side(T)
    BY <1>2 DEF Side
  <1>4. Preceding(o, p, R) \in SUBSET R /\ LevelOf(R, p) \in SUBSET R /\ R \in SUBSET R
    BY DEF Preceding, LevelOf
  <1> QED BY <1>2, <1>3, <1>4

\* The parts of what a fill leaves.
LEMMA PartsAfterFill ==
  ASSUME NEW o, NEW R, Side(R), NEW c \in R, NEW q \in Nat, q <= UnfilledQuantity(c), NEW p
  PROVE  /\ Preceding(o, p, AfterFill(R, c, q)) =
              IF c \in Preceding(o, p, R) THEN AfterFill(Preceding(o, p, R), c, q) ELSE Preceding(o, p, R)
         /\ LevelOf(AfterFill(R, c, q), p) =
              IF c \in LevelOf(R, p) THEN AfterFill(LevelOf(R, p), c, q) ELSE LevelOf(R, p)
  <1>1. c \in Forms
    BY DEF Side
  <1>2. Filling(c, q).price = c.price
    BY <1>1, FillingIsForm DEF SameOrder
  <1> QED BY <1>2 DEF AfterFill, Preceding, LevelOf

\* The next fill of an order costs what is left to pay, at the price of the best offer.
LEMMA FillKeepsCosts ==
  ASSUME NEW o, NEW R, Side(R), NEW c \in R,
         \A r \in R : ~ BetterOffer(r.price, c.price, OfferSide(o)),
         NEW n \in Nat, n > 0, NEW q, q = Smaller(n, UnfilledQuantity(c)),
         NEW k \in Int, Costs(o, R, n, k)
  PROVE  Costs(o, AfterFill(R, c, q), n - q, k - UnitCost(o, c.price) * q)
  <1> DEFINE u == UnitCost(o, c.price)
             v == UnfilledQuantity(c)
             D == AfterFill(R, c, q)
             j == k - u * q
  <1>1. /\ c \in Forms /\ v \in Nat /\ u \in Nat /\ c.price \in Nat
        /\ q \in Nat /\ q <= v /\ q <= n /\ q \in {n, v}
    BY OrderNumbers, UnitCostIsNat DEF Side, Smaller
  <1>2. PICK p \in Nat : CostsAt(o, p, R, n, k)
    BY DEF Costs
  <1> DEFINE B == Preceding(o, p, R)
             L == LevelOf(R, p)
             up == UnitCost(o, p)
  <1>3. /\ Side(B) /\ Side(L) /\ B \in SUBSET R /\ L \in SUBSET R
        /\ Total(B) \in Nat /\ Total(L) \in Nat /\ Value(o, B) \in Nat
    BY PartsOfSide
  <1>4. /\ Total(B) <= n /\ n <= Total(B) + Total(L)
        /\ k = Value(o, B) + up * (n - Total(B))
    BY <1>2 DEF CostsAt
  <1>5. /\ Preceding(o, p, D) = IF c \in B THEN AfterFill(B, c, q) ELSE B
        /\ LevelOf(D, p) = IF c \in L THEN AfterFill(L, c, q) ELSE L
    BY <1>1, PartsAfterFill
  <1>6. up \in Nat
    BY UnitCostIsNat
  <1>7. \A r \in Forms : r.price \in Nat
    BY OrderNumbers
  <1>8. CASE c \in B
    <2>1. Total(B) = Total(B \ {c}) + v /\ Total(B \ {c}) \in Nat
      BY <1>3, <1>8, SumsTakeOut DEF Side
    <2>2. q = v
      BY <1>1, <1>3, <1>4, <2>1
    <2>3. /\ Total(AfterFill(B, c, q)) = Total(B) - q
          /\ Value(o, AfterFill(B, c, q)) = Value(o, B) - u * q
      BY <1>1, <1>3, <1>8, <2>2, SumsAfterFill DEF Side
    <2>4. c \notin L
      BY <1>1, <1>8 DEF Preceding, LevelOf, BetterOffer
    <2>5. Preceding(o, p, D) = AfterFill(B, c, q) /\ LevelOf(D, p) = L
      BY <1>5, <1>8, <2>4
    <2>6. u * q \in Int
      BY <1>1
    <2> HIDE DEF u, v, B, L, D, up
    <2>7. (n - q) - (Total(B) - q) = n - Total(B)
      BY <1>1, <1>3
    <2>8. up * (n - Total(B)) \in Int
      BY <1>3, <1>6
    <2>9. CostsAt(o, p, D, n - q, j)
      <3>1. Total(B) - q <= n - q /\ n - q <= Total(B) - q + Total(L)
        BY <1>1, <1>3, <1>4
      <3>2. j = Value(o, B) - u * q + up * ((n - q) - (Total(B) - q))
        BY <1>3, <1>4, <2>6, <2>7, <2>8
      <3> QED BY <2>3, <2>5, <3>1, <3>2 DEF CostsAt, up
    <2> QED BY <2>9 DEF Costs, D, u
  <1>9. CASE c \notin B
    <2>1. B = {}
      <3> SUFFICES ASSUME NEW r \in B PROVE FALSE
        OBVIOUS
      <3>1. /\ r \in R /\ r \in Forms /\ BetterOffer(r.price, p, OfferSide(o))
            /\ ~ BetterOffer(c.price, p, OfferSide(o)) /\ ~ BetterOffer(r.price, c.price, OfferSide(o))
        BY <1>9 DEF Preceding, Side
      <3>2. r.price \in Nat /\ c.price \in Nat /\ p \in Nat
        BY <1>1, <1>7, <3>1
      <3> QED BY <3>1, <3>2 DEF BetterOffer
    <2>2. Total(B) = 0 /\ Value(o, B) = 0
      BY <2>1, SumsOfNone
    <2>3. L # {}
      <3>1. L = {} => Total(L) = 0
        BY SumsOfNone
      <3> QED BY <1>4, <2>2, <3>1
    <2>4. c.price = p
      <3>1. PICK r \in R : r.price = p
        BY <2>3 DEF LevelOf
      <3>2. ~ BetterOffer(p, c.price, OfferSide(o)) /\ ~ BetterOffer(c.price, p, OfferSide(o))
        BY <1>9, <3>1 DEF Preceding
      <3> QED BY <1>1, <3>2 DEF BetterOffer
    <2>5. c \in L
      BY <2>4 DEF LevelOf
    <2>6. Preceding(o, p, D) = {} /\ LevelOf(D, p) = AfterFill(L, c, q)
      BY <1>5, <1>9, <2>1, <2>5
    <2>7. n - q <= Total(AfterFill(L, c, q)) /\ Total(AfterFill(L, c, q)) \in Nat
      <3>1. /\ Total(AfterFill(L, c, q)) \in Nat
            /\ q = v => Total(AfterFill(L, c, q)) = Total(L) - q
        BY <1>1, <1>3, <2>5, SumsAfterFill DEF Side
      <3>2. n <= Total(L)
        BY <1>3, <1>4, <2>2
      <3> HIDE DEF v, L
      <3> QED BY <1>1, <1>3, <3>1, <3>2
    <2>8. up = u
      BY <2>4
    <2> HIDE DEF u, v, B, L, D, up
    <2>9. k = u * n
      <3>1. n - Total(B) = n
        BY <2>2
      <3>2. u * n \in Int
        BY <1>1
      <3> QED BY <1>4, <2>2, <2>8, <3>1, <3>2
    <2>10. j = u * (n - q)
      BY <1>1, <2>9
    <2>11. CostsAt(o, p, D, n - q, j)
      <3>1. Total({}) = 0 /\ Value(o, {}) = 0
        BY SumsOfNone
      <3>2. 0 <= n - q /\ (n - q) - 0 = n - q /\ u * (n - q) \in Int
        BY <1>1
      <3>3. n - q <= 0 + Total(AfterFill(L, c, q))
        BY <2>7
      <3>4. j = 0 + up * ((n - q) - 0)
        BY <2>8, <2>10, <3>2
      <3> QED BY <2>6, <3>1, <3>2, <3>3, <3>4 DEF CostsAt, up
    <2> QED BY <2>11 DEF Costs, D, u
  <1> QED BY <1>8, <1>9

\* An order that has taken all it was quoted for has nothing left to pay.
LEMMA NothingCostsNothing ==
  ASSUME NEW o, NEW R, Side(R), NEW k, Costs(o, R, 0, k)
  PROVE  k = 0
  <1>1. PICK p \in Nat : CostsAt(o, p, R, 0, k)
    BY DEF Costs
  <1> DEFINE B == Preceding(o, p, R)
  <1>2. Side(B) /\ Total(B) \in Nat /\ Total(B) <= 0
    BY <1>1, PartsOfSide DEF CostsAt
  <1>3. B = {}
    BY <1>2, LiveHaveVolume DEF Side
  <1>4. Total(B) = 0 /\ Value(o, B) = 0
    BY <1>3, SumsOfNone
  <1>5. k = Value(o, B) + UnitCost(o, p) * (0 - Total(B))
    BY <1>1 DEF CostsAt
  <1>6. UnitCost(o, p) * 0 = 0 /\ 0 - 0 = 0
    BY UnitCostIsNat
  <1> QED BY <1>4, <1>5, <1>6

\* An empty side has nothing to take.
LEMMA NoneCostsNothing ==
  ASSUME NEW o, NEW n \in Nat, NEW k, Costs(o, {}, n, k)
  PROVE  n = 0
  <1>1. PICK p \in Nat : CostsAt(o, p, {}, n, k)
    BY DEF Costs
  <1>2. Preceding(o, p, {}) = {} /\ LevelOf({}, p) = {}
    BY DEF Preceding, LevelOf
  <1>3. Total({}) = 0
    BY SumsOfNone
  <1>4. n <= Total({}) + Total({})
    BY <1>1, <1>2 DEF CostsAt
  <1> QED BY <1>3, <1>4

-----------------------------------------------------------------------------
(* The engine while a market order is quoted. *)

FiniteBook == IsFiniteSet(asks) /\ IsFiniteSet(bids)

\* Of an order that was never delivered nothing was offered and nothing has traded.
UnknownIsUntouched == \A i \in Ids : received[i] = 0 => offered[i] = 0 /\ traded[i] = 0

IdleHasNoTaker == pc = "idle" => taker = NoOrder

\* What the quote needs of the engine.
EngineInv ==
  /\ TypeOK /\ Sided /\ RestingIsLive /\ WalkIsWhole /\ StopsAreStops
  /\ FiniteBook /\ PresentIsKnown /\ TradesFair /\ UnknownIsUntouched /\ IdleHasNoTaker

\* Volume is traded by fills only.
LEMMA TradedChanges ==
  ASSUME [Next]_vars
  PROVE  UNCHANGED <<tradeTopic, traded>> \/ \E c \in asks \cup bids : Fill(c)
BY DEF Next, Receive, Work, Submit, Load, Add, AddStop, AddOrder, CancelWithKey, Reload, TakeNext,
       TakeSnapshot, Finish, BeginMatch, SkipLevel, PopStopBid, PopStopAsk, StopsDone, EndMatch,
       topics, vars

\* What is delivered is counted in both histories.
LEMMA OfferedChanges ==
  ASSUME TypeOK, [Next]_vars
  PROVE  UNCHANGED <<received, offered>> \/ \E o \in Submissions : pc = "idle" /\ Add(o)
  <1>1. loading \subseteq Submissions
    BY DEF TypeOK
  <1> QED
    BY <1>1 DEF Next, Receive, Work, Submit, Load, CancelWithKey, Reload, TakeNext, TakeSnapshot, Finish,
       BeginMatch, Fill, SkipLevel, PopStopBid, PopStopAsk, StopsDone, EndMatch, inputs, vars

\* What a fill does, in one place.
LEMMA FillFacts ==
  ASSUME TypeOK, Sided, NEW c \in asks \cup bids, Fill(c)
  PROVE  LET q == Smaller(UnfilledQuantity(taker), UnfilledQuantity(c))
         IN /\ taker \in Forms /\ c \in Forms /\ c \in Opposite(taker) /\ taker.id \in Ids /\ c.id \in Ids
            /\ UnfilledQuantity(taker) \in Nat /\ UnfilledQuantity(taker) > 0
            /\ UnfilledQuantity(c) \in Nat /\ UnfilledQuantity(c) > 0
            /\ q \in Nat /\ q > 0 /\ q <= UnfilledQuantity(taker) /\ q <= UnfilledQuantity(c)
            /\ taker' \in Forms /\ SameOrder(taker', taker)
            /\ UnfilledQuantity(taker') = UnfilledQuantity(taker) - q
            /\ \/ taker.side = "sell" /\ bids' = AfterFill(bids, c, q) /\ asks' = asks
               \/ taker.side = "buy" /\ asks' = AfterFill(asks, c, q) /\ bids' = bids
            /\ tradeTopic' = Append(tradeTopic, TradeOf(taker, c, q))
            /\ traded' = [i \in Ids |-> traded[i] + IF i \in {taker.id, c.id} THEN q ELSE 0]
            /\ pc = "match" /\ pc' \in {"match", "popStopBids", "popStopAsks"}
            /\ UNCHANGED <<batch, received, offered>>
  <1> DEFINE q == Smaller(UnfilledQuantity(taker), UnfilledQuantity(c))
  <1>1. /\ taker \in Forms /\ c \in Forms /\ c \in Opposite(taker) /\ pc = "match"
        /\ ~ Filled(taker) /\ ~ Filled(c)
    BY DEF Fill, TypeOK, BestOffers, Offers, Opposite, Sided
  <1>2. /\ UnfilledQuantity(taker) \in Nat /\ UnfilledQuantity(c) \in Nat
        /\ taker.id \in Ids /\ c.id \in Ids /\ c.price \in Nat
    BY <1>1, OrderNumbers
  <1>3. UnfilledQuantity(taker) > 0 /\ UnfilledQuantity(c) > 0
    BY <1>1, <1>2 DEF Filled
  <1>4. q \in Nat /\ q > 0 /\ q <= UnfilledQuantity(taker) /\ q <= UnfilledQuantity(c)
    BY <1>2, <1>3 DEF Smaller
  <1>5. /\ taker' \in Forms /\ SameOrder(taker', taker)
        /\ UnfilledQuantity(taker') = UnfilledQuantity(taker) - q
    BY <1>1, <1>4, FillingIsForm DEF Fill
  <1>6. taker.side \in {"buy", "sell"}
    BY <1>1 DEF Forms, Order, Sides
  <1>7. \/ taker.side = "sell" /\ bids' = AfterFill(bids, c, q) /\ asks' = asks
        \/ taker.side = "buy" /\ asks' = AfterFill(asks, c, q) /\ bids' = bids
    BY <1>6 DEF Fill, Opposite
  <1>8. pc' \in {"match", "popStopBids", "popStopAsks"}
    <2>1. marketPrice \in Nat
      BY DEF TypeOK
    <2> QED BY <1>2, <2>1 DEF Fill, StopLoop
  <1>9. /\ tradeTopic' = Append(tradeTopic, TradeOf(taker, c, q))
        /\ traded' = [i \in Ids |-> traded[i] + IF i \in {taker.id, c.id} THEN q ELSE 0]
        /\ UNCHANGED <<batch, received, offered>>
    BY DEF Fill, adding, inputs
  <1> HIDE DEF q
  <1> QED BY <1>1, <1>2, <1>3, <1>4, <1>5, <1>7, <1>8, <1>9 DEF q

LEMMA FiniteBookStep == ASSUME TypeOK, Sided, FiniteBook, [Next]_vars PROVE FiniteBook'
  <1>1. CASE UNCHANGED <<asks, bids>>
    BY <1>1 DEF FiniteBook
  <1>2. CASE (\E o \in Submissions : CancelWithKey(o)) \/ (\E waiting \in LoadSets : Reload(waiting))
    <2>1. asks' \subseteq asks /\ bids' \subseteq bids
      BY <1>2 DEF CancelWithKey, WithoutKey, Reload
    <2> QED BY <2>1, FS_Subset DEF FiniteBook
  <1>3. ASSUME NEW c \in asks \cup bids, Fill(c) PROVE FiniteBook'
    <2> DEFINE q == Smaller(UnfilledQuantity(taker), UnfilledQuantity(c))
    <2>1. /\ asks' = AfterFill(asks, c, q) \/ asks' = asks
          /\ bids' = AfterFill(bids, c, q) \/ bids' = bids
      BY <1>3, FillFacts
    <2> HIDE DEF q
    <2>2. ASSUME NEW S, IsFiniteSet(S) PROVE IsFiniteSet(AfterFill(S, c, q))
      <3>1. IsFiniteSet(S \cup {Filling(c, q)})
        BY <2>2, FS_AddElement
      <3>2. AfterFill(S, c, q) \subseteq S \cup {Filling(c, q)}
        BY DEF AfterFill
      <3> QED BY <3>1, <3>2, FS_Subset
    <2> QED BY <2>1, <2>2 DEF FiniteBook
  <1>4. CASE EndMatch
    <2>1. IsFiniteSet(asks \cup {taker}) /\ IsFiniteSet(bids \cup {taker})
      BY FS_AddElement DEF FiniteBook
    <2>2. asks' \subseteq asks \cup {taker} /\ bids' \subseteq bids \cup {taker}
      BY <1>4 DEF EndMatch, WithOrder
    <2> QED BY <2>1, <2>2, FS_Subset DEF FiniteBook
  <1> QED BY <1>1, <1>2, <1>3, <1>4, BookChanges

LEMMA UnknownStep ==
  ASSUME TypeOK, Sided, PresentIsKnown, UnknownIsUntouched, [Next]_vars
  PROVE  UnknownIsUntouched'
  <1> SUFFICES ASSUME NEW i \in Ids, received'[i] = 0 PROVE offered'[i] = 0 /\ traded'[i] = 0
    BY DEF UnknownIsUntouched
  <1>1. received[i] = 0
    <2>1. received[i] <= received'[i] /\ received[i] \in Nat
      BY ReceivedGrows DEF TypeOK
    <2> QED BY <2>1
  <1>2. offered[i] = 0 /\ traded[i] = 0
    BY <1>1 DEF UnknownIsUntouched
  <1>3. offered'[i] = offered[i]
    <2>1. ASSUME NEW o \in Submissions, Add(o) PROVE o.id # i /\ offered'[i] = offered[i]
      BY <1>1, <2>1 DEF Add, TypeOK
    <2> QED BY <2>1, OfferedChanges
  <1>4. ASSUME NEW c \in asks \cup bids, Fill(c) PROVE traded'[i] = traded[i]
    <2>1. taker.id \in Ids /\ c.id \in Ids /\ Active(taker.id) /\ InBook(c.id)
      BY <1>4, FillFacts DEF Active, InBook
    <2>2. received[taker.id] > 0 /\ received[c.id] > 0
      BY <2>1 DEF PresentIsKnown, Present
    <2>3. traded'[i] = traded[i] + IF i \in {taker.id, c.id} THEN Smaller(UnfilledQuantity(taker), UnfilledQuantity(c)) ELSE 0
      BY <1>4, FillFacts
    <2> QED BY <1>1, <1>2, <2>2, <2>3
  <1> QED BY <1>2, <1>3, <1>4, TradedChanges

LEMMA IdleTakerStep == ASSUME TypeOK, Sided, IdleHasNoTaker, [Next]_vars PROVE IdleHasNoTaker'
  <1>1. ASSUME NEW c \in asks \cup bids, Fill(c) PROVE IdleHasNoTaker'
    BY <1>1, FillFacts DEF IdleHasNoTaker
  <1>2. ASSUME NEW o \in Submissions, Add(o), pc = "idle" PROVE IdleHasNoTaker'
    BY <1>2 DEF IdleHasNoTaker, Add, AddStop, AddOrder
  <1>3. ASSUME NEW o, CancelWithKey(o) \/ Reload(o) \/ PopStopBid(o) \/ PopStopAsk(o)
        PROVE  IdleHasNoTaker'
    BY <1>3 DEF IdleHasNoTaker, CancelWithKey, Reload, PopStopBid, PopStopAsk
  <1>4. CASE TakeNext \/ TakeSnapshot \/ Finish \/ BeginMatch \/ SkipLevel \/ StopsDone \/ EndMatch
    BY <1>4 DEF IdleHasNoTaker, TakeNext, TakeSnapshot, Finish, BeginMatch, SkipLevel, StopsDone, EndMatch
  <1>5. CASE UNCHANGED vars
    BY <1>5 DEF IdleHasNoTaker, vars
  <1>6. loading \subseteq Submissions
    BY DEF TypeOK
  <1> QED BY <1>1, <1>2, <1>3, <1>4, <1>5, <1>6 DEF Next, Receive, Work, Submit, Load

LEMMA EngineInit == Init => EngineInv
  <1> SUFFICES ASSUME Init PROVE EngineInv
    OBVIOUS
  <1>1. PresentIsKnown /\ TradesFair
    BY FairInit DEF PublishesFairly
  <1>2. Sided /\ RestingIsLive /\ WalkIsWhole /\ StopsAreStops /\ UnknownIsUntouched /\ IdleHasNoTaker
    BY DEF Init, Sided, RestingIsLive, WalkIsWhole, FreshWalk, StopsAreStops, UnknownIsUntouched, IdleHasNoTaker
  <1>3. FiniteBook
    BY FS_EmptySet DEF Init, FiniteBook
  <1> QED BY <1>1, <1>2, <1>3, TypeInit DEF EngineInv

LEMMA EngineStep == EngineInv /\ [Next]_vars => EngineInv'
  <1> SUFFICES ASSUME EngineInv, [Next]_vars PROVE EngineInv'
    OBVIOUS
  <1>1. TypeOK' /\ Sided' /\ WalkIsWhole'
    BY TypeStep, SidedStep, WalkStep DEF EngineInv
  <1>2. RestingIsLive'
    BY <1>1, LiveStep DEF EngineInv
  <1>3. StopsAreStops' /\ PresentIsKnown' /\ TradesFair'
    BY StopsAreStopsStep, KnownStep, FairStep DEF EngineInv
  <1>4. FiniteBook' /\ UnknownIsUntouched' /\ IdleHasNoTaker'
    BY FiniteBookStep, UnknownStep, IdleTakerStep DEF EngineInv
  <1> QED BY <1>1, <1>2, <1>3, <1>4 DEF EngineInv

-----------------------------------------------------------------------------
(* Where the quoted order is. *)

Asked == quote.for

Wanted == UnfilledQuantity(quote.for)

\* What it has still to trade.
Rest == Wanted - traded[quote.for.id]

\* It was not delivered yet, or once and as it was quoted.
SentAsAsked ==
  \/ received[quote.for.id] = 0
  \/ received[quote.for.id] = 1 /\ offered[quote.for.id] = Wanted

Quote == [phase: {"none", "walking", "answered"}, for: Submissions \cup {NoOrder}, left: Int,
          quantity: Int, locked: Int, passed: SUBSET Nat, quiet: BOOLEAN]

QuoteTypeOK ==
  /\ quote \in Quote
  /\ quote.phase # "none" => quote.for \in Submissions /\ quote.for.type = "market"

\* A market order is on its way, in a match, or done: then it has traded its volume or
\* has left an empty side behind.
Sent(i) == received[i] = 0 /\ ~ InBatch(i) /\ ~ Active(i) /\ traded[i] = 0

Coming(i) ==
  /\ received[i] = 1 /\ traded[i] = 0 /\ ~ Active(i)
  /\ pc = "next" /\ Len(batch) = 1 /\ batch[1].id = i /\ UnfilledQuantity(batch[1]) = Wanted

InMatch(i) == received[i] = 1 /\ Active(i) /\ ~ InBatch(i) /\ UnfilledQuantity(taker) = Rest

Done(i) ==
  /\ received[i] = 1 /\ ~ Active(i) /\ ~ InBatch(i)
  /\ quote.quiet => Rest = 0 \/ Opposite(quote.for) = {}

QuotedPlace ==
  quote.phase # "none" /\ SentAsAsked =>
    \/ Sent(quote.for.id) \/ Coming(quote.for.id) \/ InMatch(quote.for.id) \/ Done(quote.for.id)

\* Every form of a market order is one, without price and stop price.
LEMMA MarketForms ==
  ASSUME NEW o \in Submissions, o.type = "market", NEW r \in Forms, r.id = o.id
  PROVE  /\ r.type = "market" /\ r.price = 0 /\ r.stop = 0 /\ r.side = o.side
         /\ r.side \in {"buy", "sell"} /\ r.id \in Ids /\ UnfilledQuantity(r) \in Nat
  <1>1. PICK s \in Submissions : SameOrder(r, s)
    BY DEF Forms
  <1>2. SameOrder(s, o) /\ WellFormed(s)
    BY <1>1, SubmissionsAssumption DEF SameOrder
  <1>3. r.side \in {"buy", "sell"} /\ r.id \in Ids /\ UnfilledQuantity(r) \in Nat
    BY DEF Forms, Order, Sides, UnfilledQuantity
  <1> QED BY <1>1, <1>2, <1>3 DEF SameOrder, WellFormed

\* A step of the engine keeps the question; a change of the book that the quoted order
\* does not make ends the quiet.
LEMMA EngineQuote ==
  ASSUME QuoteTypeOK, Engine
  PROVE  /\ UNCHANGED <<quote.phase, quote.for, quote.left, quote.quantity, quote.locked, quote.passed>>
         /\ quote' \in Quote
         /\ quote'.quiet => quote.quiet /\ UNCHANGED reloads /\ (UNCHANGED <<asks, bids>> \/ IsQuoted(taker))
BY DEF QuoteTypeOK, Quote, Engine, book

\* While the engine keeps to itself, what is sent as asked was so before.
LEMMA SentBefore ==
  ASSUME TypeOK, [Next]_vars, NEW i \in Ids, NEW w,
         received'[i] = 0 \/ (received'[i] = 1 /\ offered'[i] = w)
  PROVE  /\ received[i] = 0 \/ (received[i] = 1 /\ offered[i] = w)
         /\ received[i] = 1 => received'[i] = 1
  <1>1. ASSUME NEW o \in Submissions, Add(o)
        PROVE  received'[i] = received[i] + 1 \/ (received'[i] = received[i] /\ offered'[i] = offered[i])
    BY <1>1 DEF Add, TypeOK
  <1>2. received[i] \in Nat
    BY DEF TypeOK
  <1> QED BY <1>1, <1>2, OfferedChanges

LEMMA QuotedAdd ==
  ASSUME EngineInv, QuoteTypeOK, QuotedPlace, quote.phase # "none", Engine, SentAsAsked, SentAsAsked',
         NEW o \in Submissions, Add(o), pc = "idle"
  PROVE  QuotedPlace'
  <1> DEFINE i == quote.for.id
  <1>1. /\ quote.for \in Submissions /\ quote.for.type = "market" /\ quote'.for = quote.for
        /\ i \in Ids
        /\ quote'.quiet => quote.quiet
    BY EngineQuote, OrderNumbers, SubmissionIsForm DEF QuoteTypeOK
  <1>2. /\ UNCHANGED <<asks, bids, traded>>
        /\ received' = [received EXCEPT ![o.id] = @ + 1]
        /\ offered' = [offered EXCEPT ![o.id] = @ + UnfilledQuantity(o)]
        /\ AddStop(o) \/ AddOrder(o)
    BY DEF Add, AddStop, AddOrder, book, topics
  <1>3. /\ received \in [Ids -> Nat] /\ offered \in [Ids -> Nat] /\ traded \in [Ids -> Nat]
        /\ o \in Forms /\ o.id \in Ids /\ UnfilledQuantity(o) \in Nat
    BY SubmissionIsForm, OrderNumbers DEF EngineInv, TypeOK
  <1>4. ~ Active(i) /\ ~ Active(i)'
    BY <1>2, <1>1 DEF Active, AddStop, AddOrder
  <1>5. CASE o.id = i
    <2>1. received[i] = 0 /\ received'[i] = 1 /\ offered'[i] = Wanted
      BY <1>1, <1>2, <1>3, <1>5 DEF SentAsAsked, Wanted
    <2>2. offered[i] = 0 /\ traded[i] = 0
      <3>1. UnknownIsUntouched
        BY DEF EngineInv
      <3> QED BY <1>1, <2>1, <3>1 DEF UnknownIsUntouched
    <2>3. UnfilledQuantity(o) = Wanted
      BY <1>2, <1>3, <1>5, <2>1, <2>2
    <2>4. o.stop = 0
      BY <1>1, <1>3, <1>5, MarketForms
    <2>5. pc' = "next" /\ batch' = <<o>>
      BY <1>2, <2>4 DEF AddStop, AddOrder
    <2>6. Len(batch') = 1 /\ batch'[1] = o
      BY <2>5
    <2>7. Wanted' = Wanted
      BY <1>1 DEF Wanted, UnfilledQuantity
    <2>8. UnfilledQuantity(batch[1])' = Wanted'
      BY <2>3, <2>6, <2>7 DEF UnfilledQuantity
    <2>9. Coming(i)'
      BY <1>1, <1>2, <1>4, <1>5, <2>1, <2>2, <2>5, <2>6, <2>8 DEF Coming
    <2> QED BY <1>1, <2>9 DEF QuotedPlace
  <1>6. CASE o.id # i
    <2>1. received'[i] = received[i] /\ (~ InBatch(i)' \/ UNCHANGED batch)
      BY <1>1, <1>2, <1>3, <1>6 DEF AddStop, AddOrder, adding, InBatch
    <2>2. Sent(i) \/ Done(i)
      BY <1>4 DEF QuotedPlace, Coming, InMatch
    <2>3. ~ InBatch(i)' /\ received'[i] = received[i]
      BY <1>1, <2>1, <2>2 DEF Sent, Done, InBatch
    <2>4. Sent(i) => Sent(i)'
      BY <1>1, <1>2, <1>4, <2>3 DEF Sent
    <2>5. Done(i) => Done(i)'
      <3>1. Rest' = Rest /\ Opposite(quote.for)' = Opposite(quote.for)
        BY <1>1, <1>2 DEF Rest, Wanted, UnfilledQuantity, Opposite
      <3> QED BY <1>1, <1>2, <1>4, <2>3, <3>1 DEF Done
    <2> QED BY <1>1, <2>2, <2>4, <2>5 DEF QuotedPlace
  <1> QED BY <1>5, <1>6

\* Steps between messages and within a match that move no volume.
LEMMA QuotedCancel ==
  ASSUME EngineInv, QuoteTypeOK, QuotedPlace, quote.phase # "none", Engine, SentAsAsked,
         \E key \in Submissions : CancelWithKey(key)
  PROVE  QuotedPlace'
  <1> DEFINE i == quote.for.id
  <1>1. /\ pc = "idle" /\ pc' = "idle" /\ UNCHANGED <<taker, batch, received, offered, traded>>
    BY DEF CancelWithKey, adding
  <1>2. taker = NoOrder
    BY <1>1 DEF EngineInv, IdleHasNoTaker
  <1>3. quote'.for = quote.for /\ (quote'.quiet => quote.quiet /\ UNCHANGED <<asks, bids>>)
    BY <1>2, EngineQuote DEF IsQuoted
  <1>4. ~ Active(i) /\ ~ Active(i)'
    BY <1>1 DEF Active
  <1>5. Sent(i) \/ Done(i)
    BY <1>1, <1>4 DEF QuotedPlace, Coming, InMatch
  <1>6. Sent(i) => Sent(i)'
    BY <1>1, <1>3, <1>4 DEF Sent, InBatch
  <1>7. Done(i) => Done(i)'
    BY <1>1, <1>3, <1>4 DEF Done, InBatch, Rest, Wanted, UnfilledQuantity, Opposite
  <1> QED BY <1>3, <1>5, <1>6, <1>7 DEF QuotedPlace

\* A new engine has lost the order, and is not the engine that was asked.
LEMMA QuotedReload ==
  ASSUME EngineInv, QuoteTypeOK, quote.phase # "none", Engine, SentAsAsked,
         NEW waiting \in LoadSets, Reload(waiting)
  PROVE  QuotedPlace'
  <1> DEFINE i == quote.for.id
  <1>1. /\ pc' = "idle" /\ batch' = <<>> /\ UNCHANGED <<received, offered, traded>> /\ reloads' = reloads + 1
    BY DEF Reload, topics
  <1>2. reloads' # reloads
    BY <1>1 DEF EngineInv, TypeOK
  <1>3. quote'.for = quote.for /\ ~ quote'.quiet /\ i \in Ids
    BY <1>2, EngineQuote, OrderNumbers, SubmissionIsForm DEF QuoteTypeOK
  <1>4. ~ Active(i)' /\ ~ InBatch(i)'
    BY <1>1 DEF Active, InBatch
  <1>5. received[i] = 0 => traded[i] = 0
    BY <1>3 DEF EngineInv, UnknownIsUntouched
  <1>6. received[i] = 0 => Sent(i)'
    BY <1>1, <1>3, <1>4, <1>5 DEF Sent
  <1>7. received[i] = 1 => Done(i)'
    BY <1>1, <1>3, <1>4 DEF Done
  <1> QED BY <1>3, <1>6, <1>7 DEF QuotedPlace, SentAsAsked

LEMMA QuotedLoop ==
  ASSUME EngineInv, QuoteTypeOK, QuotedPlace, quote.phase # "none", Engine, SentAsAsked,
         TakeNext \/ TakeSnapshot \/ Finish
  PROVE  QuotedPlace'
  <1> DEFINE i == quote.for.id
  <1>1. /\ UNCHANGED <<asks, bids, received, offered, traded>> /\ pc = "next"
        /\ batch \in Seq(Forms) /\ pendingOrders \in Seq(Forms)
    BY DEF TakeNext, TakeSnapshot, Finish, book, topics, inputs, EngineInv, TypeOK
  <1>2. /\ quote'.for = quote.for /\ (quote'.quiet => quote.quiet)
        /\ quote.for \in Submissions /\ quote.for.type = "market"
    BY EngineQuote DEF QuoteTypeOK
  <1>3. ~ Active(i)
    BY <1>1 DEF Active
  <1>4. ASSUME ~ InBatch(i)', ~ Active(i)', Sent(i) \/ Done(i) PROVE QuotedPlace'
    <2>1. Sent(i) => Sent(i)'
      BY <1>1, <1>2, <1>4 DEF Sent
    <2>2. Done(i) => Done(i)'
      BY <1>1, <1>2, <1>4 DEF Done, Rest, Wanted, UnfilledQuantity, Opposite
    <2> QED BY <1>2, <1>4, <2>1, <2>2 DEF QuotedPlace
  <1>5. Sent(i) \/ Coming(i) \/ Done(i)
    BY <1>3 DEF QuotedPlace, InMatch
  <1>6. Coming(i) => InBatch(i)
    BY <1>1 DEF Coming, InBatch
  <1>7. CASE TakeNext
    <2>1. /\ batch # <<>> /\ taker' = batch[1] /\ batch' = Tail(batch) /\ pc' = "begin"
          /\ 1 \in 1 .. Len(batch)
      BY <1>1, <1>7 DEF TakeNext
    <2>2. CASE Coming(i)
      <3>1. ~ InBatch(i)'
        BY <1>1, <1>2, <2>1, <2>2 DEF Coming, InBatch
      <3>2. Active(i)'
        BY <1>2, <2>1, <2>2 DEF Coming, Active
      <3>3. UnfilledQuantity(batch[1]) = Wanted - traded[i]
        <4>1. Wanted \in Nat /\ traded[i] = 0
          BY <1>2, <2>2, SubmissionIsForm, OrderNumbers DEF Coming, Wanted
        <4> QED BY <2>2, <4>1 DEF Coming
      <3>4. UnfilledQuantity(taker)' = Rest'
        BY <1>1, <1>2, <2>1, <3>3 DEF Rest, Wanted, UnfilledQuantity
      <3>5. InMatch(i)'
        BY <1>1, <1>2, <2>2, <3>1, <3>2, <3>4 DEF InMatch, Coming
      <3> QED BY <1>2, <3>5 DEF QuotedPlace
    <2>3. CASE ~ Coming(i)
      <3>1. \A k \in 1 .. Len(batch') : k + 1 \in 1 .. Len(batch) /\ batch'[k] = batch[k + 1]
        BY <1>1, <2>1
      <3>2. ~ InBatch(i)
        BY <1>5, <2>3 DEF Sent, Done
      <3>3. ~ InBatch(i)' /\ ~ Active(i)'
        BY <1>2, <2>1, <3>1, <3>2 DEF InBatch, Active
      <3> QED BY <1>4, <1>5, <2>3, <3>3
    <2> QED BY <2>2, <2>3
  <1>8. CASE TakeSnapshot
    <2>1. batch = <<>> /\ batch' = pendingOrders /\ pc' = "next"
      BY <1>1, <1>8 DEF TakeSnapshot
    <2>2. ASSUME NEW k \in 1 .. Len(pendingOrders) PROVE pendingOrders[k].id # i
      <3>1. pendingOrders[k] \in Forms /\ pendingOrders[k].stop > 0
        BY <1>1 DEF EngineInv, StopsAreStops
      <3> QED BY <1>2, <3>1, MarketForms
    <2>3. ~ InBatch(i)' /\ ~ Active(i)' /\ ~ InBatch(i)
      BY <1>2, <2>1, <2>2 DEF InBatch, Active
    <2> QED BY <1>4, <1>5, <1>6, <2>3
  <1>9. CASE Finish
    <2>1. ~ InBatch(i)' /\ ~ Active(i)' /\ ~ InBatch(i)
      BY <1>9, <1>2 DEF Finish, InBatch, Active
    <2> QED BY <1>4, <1>5, <1>6, <2>1
  <1> QED BY <1>7, <1>8, <1>9

LEMMA QuotedWalk ==
  ASSUME EngineInv, QuoteTypeOK, QuotedPlace, quote.phase # "none", Engine, SentAsAsked,
         \/ BeginMatch \/ SkipLevel \/ StopsDone
         \/ \E o \in stopBids : PopStopBid(o)
         \/ \E o \in stopAsks : PopStopAsk(o)
         \/ UNCHANGED vars
  PROVE  QuotedPlace'
  <1> DEFINE i == quote.for.id
  <1>1. UNCHANGED <<asks, bids, taker, batch, received, offered, traded>>
    BY DEF BeginMatch, SkipLevel, StopsDone, PopStopBid, PopStopAsk, book, adding, topics, inputs, vars
  <1>2. /\ quote'.for = quote.for /\ (quote'.quiet => quote.quiet)
        /\ quote.for \in Submissions /\ quote.for.type = "market"
    BY EngineQuote DEF QuoteTypeOK
  <1>3. \/ pc' = pc
        \/ /\ pc \in {"begin", "match", "popStopBids", "popStopAsks"}
           /\ pc' \in {"begin", "match", "popStopBids", "popStopAsks"}
        \/ pc = "begin" /\ pc' = "next" /\ NoOfferAtAll
    BY DEF BeginMatch, SkipLevel, StopsDone, PopStopBid, PopStopAsk, vars
  <1>4. Sent(i) => Sent(i)'
    BY <1>1, <1>2, <1>3 DEF Sent, InBatch, Active
  <1>5. Coming(i) => Coming(i)'
    BY <1>1, <1>2, <1>3 DEF Coming, Active, Wanted, UnfilledQuantity
  <1>6. Done(i) => Done(i)'
    BY <1>1, <1>2, <1>3 DEF Done, InBatch, Active, Rest, Wanted, UnfilledQuantity, Opposite
  <1>7. ASSUME InMatch(i) PROVE InMatch(i)' \/ Done(i)'
    <2>1. CASE Active(i)'
      BY <1>1, <1>2, <1>7, <2>1 DEF InMatch, InBatch, Rest, Wanted, UnfilledQuantity
    <2>2. CASE ~ Active(i)'
      <3>1. NoOfferAtAll /\ taker.id = i /\ taker \in Forms
        BY <1>1, <1>2, <1>3, <1>7, <2>2 DEF InMatch, Active, EngineInv, TypeOK
      <3>2. taker.side = quote.for.side
        BY <1>2, <3>1, MarketForms
      <3>3. Opposite(quote.for)' = {}
        BY <1>1, <1>2, <3>1, <3>2 DEF NoOfferAtAll, Opposite
      <3> QED BY <1>1, <1>2, <1>7, <2>2, <3>3 DEF InMatch, Done, InBatch
    <2> QED BY <2>1, <2>2
  <1> QED BY <1>2, <1>4, <1>5, <1>6, <1>7 DEF QuotedPlace

LEMMA QuotedFill ==
  ASSUME EngineInv, QuoteTypeOK, QuotedPlace, quote.phase # "none", Engine, SentAsAsked,
         NEW c \in asks \cup bids, Fill(c)
  PROVE  QuotedPlace'
  <1> DEFINE i == quote.for.id
             q == Smaller(UnfilledQuantity(taker), UnfilledQuantity(c))
  <1>1. /\ quote'.for = quote.for
        /\ quote'.quiet => quote.quiet /\ (UNCHANGED <<asks, bids>> \/ taker.id = i)
        /\ quote.for \in Submissions /\ quote.for.type = "market" /\ i \in Ids
    BY EngineQuote, SubmissionIsForm, OrderNumbers DEF QuoteTypeOK, IsQuoted
  <1>2. /\ taker \in Forms /\ c \in Forms /\ UnfilledQuantity(taker) \in Nat
        /\ q \in Nat /\ q <= UnfilledQuantity(taker)
        /\ SameOrder(taker', taker) /\ UnfilledQuantity(taker') = UnfilledQuantity(taker) - q
        /\ traded' = [j \in Ids |-> traded[j] + IF j \in {taker.id, c.id} THEN q ELSE 0]
        /\ pc = "match" /\ pc' \in {"match", "popStopBids", "popStopAsks"}
        /\ UNCHANGED <<batch, received, offered>>
    BY FillFacts DEF EngineInv
  <1> HIDE DEF q
  <1>3. c.id # i
    <2>1. c.type = "limit"
      BY DEF EngineInv, Sided
    <2> QED BY <1>1, <1>2, <2>1, MarketForms
  <1>4. traded'[i] = traded[i] + (IF taker.id = i THEN q ELSE 0) /\ traded[i] \in Nat
    BY <1>1, <1>2, <1>3 DEF EngineInv, TypeOK
  <1>5. Active(i)' <=> Active(i)
    BY <1>1, <1>2 DEF Active, SameOrder
  <1>6. CASE taker.id = i
    <2>1. InMatch(i)
      BY <1>2, <1>6 DEF QuotedPlace, Sent, Coming, Done, Active
    <2>2. UnfilledQuantity(taker') = Wanted - traded'[i]
      <3>1. UnfilledQuantity(taker) = Wanted - traded[i] /\ Wanted \in Nat
        BY <1>1, <2>1, SubmissionIsForm, OrderNumbers DEF InMatch, Rest, Wanted
      <3> QED BY <1>2, <1>4, <1>6, <3>1
    <2>3. UnfilledQuantity(taker)' = Rest'
      BY <1>1, <2>2 DEF Rest, Wanted, UnfilledQuantity
    <2>4. InMatch(i)'
      BY <1>1, <1>2, <1>5, <2>1, <2>3 DEF InMatch, InBatch
    <2> QED BY <1>1, <2>4 DEF QuotedPlace
  <1>7. CASE taker.id # i
    <2>1. Sent(i) \/ Done(i)
      BY <1>2, <1>7 DEF QuotedPlace, Coming, InMatch, Active
    <2>2. traded'[i] = traded[i]
      BY <1>4, <1>7
    <2>3. Sent(i) => Sent(i)'
      BY <1>1, <1>2, <1>5, <2>2 DEF Sent, InBatch
    <2>4. Done(i) => Done(i)'
      BY <1>1, <1>2, <1>5, <1>7, <2>2 DEF Done, InBatch, Rest, Wanted, UnfilledQuantity, Opposite
    <2> QED BY <1>1, <2>1, <2>3, <2>4 DEF QuotedPlace
  <1> QED BY <1>6, <1>7

LEMMA QuotedEnd ==
  ASSUME IteratorIsStable, EngineInv, QuoteTypeOK, QuotedPlace, quote.phase # "none", Engine,
         SentAsAsked, EndMatch
  PROVE  QuotedPlace'
  <1> DEFINE i == quote.for.id
  <1>1. /\ quote'.for = quote.for
        /\ quote'.quiet => quote.quiet /\ (UNCHANGED <<asks, bids>> \/ taker.id = i)
        /\ quote.for \in Submissions /\ quote.for.type = "market"
    BY EngineQuote DEF QuoteTypeOK, IsQuoted
  <1>2. /\ pc = "match" /\ pc' = "next" /\ WalkIsOver /\ taker \in Forms
        /\ UNCHANGED <<taker, batch, received, offered, traded>>
    BY DEF EndMatch, adding, topics, inputs, EngineInv, TypeOK
  <1>3. ~ Active(i)'
    BY <1>1, <1>2 DEF Active
  <1>4. CASE taker.id = i
    <2>1. InMatch(i)
      BY <1>2, <1>4 DEF QuotedPlace, Sent, Coming, Done, Active
    <2>2. taker.type = "market" /\ taker.side = quote.for.side
      BY <1>1, <1>2, <1>4, MarketForms
    <2>3. UNCHANGED <<asks, bids>>
      BY <2>2 DEF EndMatch, Rests
    <2>4. Filled(taker) \/ Opposite(taker) = {}
      <3>1. iter.skipped = {}
        BY DEF EngineInv, WalkIsWhole
      <3> QED BY <1>2, <2>2, <3>1 DEF WalkIsOver, Offers, Crosses
    <2>5. Rest' = Rest /\ Opposite(quote.for)' = Opposite(taker)
      BY <1>1, <1>2, <2>2, <2>3 DEF Rest, Wanted, UnfilledQuantity, Opposite
    <2>6. Done(i)'
      BY <1>1, <1>2, <1>3, <2>1, <2>4, <2>5 DEF Done, InMatch, InBatch, Filled
    <2> QED BY <1>1, <2>6 DEF QuotedPlace
  <1>5. CASE taker.id # i
    <2>1. Sent(i) \/ Done(i)
      BY <1>2, <1>5 DEF QuotedPlace, Coming, InMatch, Active
    <2>2. Sent(i) => Sent(i)'
      BY <1>1, <1>2, <1>3 DEF Sent, InBatch
    <2>3. Done(i) => Done(i)'
      BY <1>1, <1>2, <1>3, <1>5 DEF Done, InBatch, Rest, Wanted, UnfilledQuantity, Opposite
    <2> QED BY <1>1, <2>1, <2>2, <2>3 DEF QuotedPlace
  <1> QED BY <1>4, <1>5

LEMMA QuotedEngine ==
  ASSUME IteratorIsStable, EngineInv, QuoteTypeOK, QuotedPlace, Engine
  PROVE  QuotedPlace'
  <1> DEFINE i == quote.for.id
  <1>1. quote'.phase = quote.phase /\ quote'.for = quote.for
    BY EngineQuote
  <1> SUFFICES ASSUME quote.phase # "none", SentAsAsked' PROVE QuotedPlace'
    BY <1>1 DEF QuotedPlace
  <1>2. quote.for \in Submissions /\ i \in Ids /\ TypeOK /\ Next
    BY SubmissionIsForm, OrderNumbers DEF QuoteTypeOK, EngineInv, Engine
  <1>3. received'[i] = 0 \/ (received'[i] = 1 /\ offered'[i] = Wanted)
    BY <1>1 DEF SentAsAsked, Wanted, UnfilledQuantity
  <1>4. SentAsAsked
    BY <1>2, <1>3, SentBefore DEF SentAsAsked
  <1>5. \/ \E o \in Submissions : Add(o) /\ pc = "idle"
        \/ (\E key \in Submissions : CancelWithKey(key)) \/ (\E waiting \in LoadSets : Reload(waiting))
        \/ TakeNext \/ TakeSnapshot \/ Finish
        \/ BeginMatch \/ SkipLevel \/ StopsDone
        \/ \E o \in stopBids : PopStopBid(o)
        \/ \E o \in stopAsks : PopStopAsk(o)
        \/ \E c \in asks \cup bids : Fill(c)
        \/ EndMatch
    BY <1>2 DEF Next, Receive, Work, Submit, Load, TypeOK
  <1> QED BY <1>4, <1>5, QuotedAdd, QuotedCancel, QuotedReload, QuotedLoop, QuotedWalk, QuotedFill, QuotedEnd

-----------------------------------------------------------------------------
(* The numbers of the quote. *)

LEMMA WireOfFitting == ASSUME NEW x \in Nat, Fits(x) PROVE Wire(x) = x
  <1> DEFINE h == Width \div 2
  <1>1. Width \in Nat /\ h \in Nat /\ h + h = Width /\ Width > 0
    BY WidthAssumption
  <1>2. x + h \in 0 .. Width - 1
    BY <1>1 DEF Fits
  <1>3. \A y \in 0 .. Width - 1 : y % Width = y
    BY <1>1
  <1>4. (x + h) % Width = x + h
    BY <1>2, <1>3
  <1> HIDE DEF h
  <1>5. Wire(x) = ((x + h) % Width) - h
    BY DEF Wire, h
  <1> QED BY <1>1, <1>4, <1>5

LEMMA WireIsInt == ASSUME NEW x \in Int PROVE Wire(x) \in Int
  <1>1. Width \in Nat /\ Width > 0 /\ Width \div 2 \in Int
    BY WidthAssumption
  <1>2. (x + Width \div 2) % Width \in Int
    BY <1>1
  <1> QED BY <1>1, <1>2 DEF Wire

LEMMA OppositeIsSide ==
  ASSUME EngineInv, NEW o
  PROVE  /\ Side(Opposite(o))
         /\ o.side \in {"buy", "sell"} => \A r \in Opposite(o) : r.side = OfferSide(o)
BY DEF EngineInv, TypeOK, Sided, RestingIsLive, FiniteBook, Side, Opposite, OfferSide

\* The amounts that are not part of the orders of the market: what one turn of the
\* walk finds.
LEMMA LevelNumbers ==
  ASSUME EngineInv, QuoteTypeOK, NEW p \in Ahead
  PROVE  /\ p \in Nat /\ UnitCost(quote.for, p) \in Nat
         /\ Total(LevelOf(Opposite(quote.for), p)) \in Nat
  <1>1. Side(Opposite(quote.for))
    BY OppositeIsSide
  <1>2. PICK r \in Opposite(quote.for) : p = r.price
    BY DEF Ahead
  <1>3. p \in Nat
    BY <1>1, <1>2, OrderNumbers DEF Side
  <1> QED BY <1>1, <1>3, PartsOfSide, UnitCostIsNat

LEMMA NextIsAhead == NextLevels \subseteq Ahead
BY DEF NextLevels

LEMMA QuoteTypeInit == QuoteInit => QuoteTypeOK
BY DEF QuoteInit, NoQuote, QuoteTypeOK, Quote

LEMMA QuoteTypeStep ==
  ASSUME EngineInv, QuoteTypeOK, [QuoteNext]_<<vars, quote>>
  PROVE  QuoteTypeOK'
  <1>1. ASSUME NEW o \in Submissions, Ask(o) PROVE QuoteTypeOK'
    <2>1. Wire(UnfilledQuantity(o)) \in Int
      BY SubmissionIsForm, OrderNumbers, WireIsInt
    <2> DEFINE w == Wire(UnfilledQuantity(o))
    <2>2. quote' = [phase |-> "walking", for |-> o, left |-> w, quantity |-> 0, locked |-> 0,
                    passed |-> {}, quiet |-> TRUE]
      BY <1>1 DEF Ask, NoQuote
    <2>3. o.type = "market"
      BY <1>1 DEF Ask
    <2> HIDE DEF w
    <2>4. quote' \in Quote
      BY <2>1, <2>2 DEF Quote, w
    <2> QED BY <2>2, <2>3, <2>4 DEF QuoteTypeOK
  <1>2. CASE WalkLevel
    <2>1. PICK p \in NextLevels :
            LET v == Smaller(Total(LevelOf(Opposite(quote.for), p)), quote.left)
            IN quote' = [quote EXCEPT !.left = @ - v, !.quantity = @ + v,
                                      !.locked = @ + UnitCost(quote.for, p) * v,
                                      !.passed = @ \cup {p}]
      BY <1>2 DEF WalkLevel
    <2> DEFINE v == Smaller(Total(LevelOf(Opposite(quote.for), p)), quote.left)
               w == UnitCost(quote.for, p) * v
    <2>2. /\ p \in Nat /\ UnitCost(quote.for, p) \in Nat
          /\ Total(LevelOf(Opposite(quote.for), p)) \in Nat
      BY LevelNumbers, NextIsAhead
    <2>3. v \in Int
      BY <2>2 DEF Smaller, QuoteTypeOK, Quote
    <2> HIDE DEF v
    <2>4. w \in Int
      BY <2>2, <2>3
    <2> HIDE DEF w
    <2>5. quote' = [quote EXCEPT !.left = quote.left - v, !.quantity = quote.quantity + v,
                                 !.locked = quote.locked + w, !.passed = quote.passed \cup {p}]
      BY <2>1 DEF v, w
    <2>6. quote \in Quote
      BY DEF QuoteTypeOK
    <2>7. quote.left - v \in Int /\ quote.quantity + v \in Int /\ quote.locked + w \in Int
      BY <2>3, <2>4, <2>6 DEF Quote
    <2>8. quote' \in Quote
      BY <2>2, <2>5, <2>6, <2>7 DEF Quote
    <2>9. quote'.phase = quote.phase /\ quote'.for = quote.for
      BY <2>5, <2>6 DEF Quote
    <2> QED BY <2>8, <2>9 DEF QuoteTypeOK
  <1>3. CASE Answer
    <2>1. Wire(quote.quantity) \in Int /\ Wire(quote.locked) \in Int
      BY WireIsInt DEF QuoteTypeOK, Quote
    <2> DEFINE m == IF quote.left = 0 THEN Wire(quote.quantity) ELSE 0
               k == IF quote.left = 0 THEN Wire(quote.locked) ELSE 0
    <2>2. m \in Int /\ k \in Int
      BY <2>1
    <2>3. quote.phase = "walking" /\ quote \in Quote
      BY <1>3 DEF Answer, QuoteTypeOK
    <2>4. quote' = [quote EXCEPT !.phase = "answered", !.quantity = m, !.locked = k]
      BY <1>3 DEF Answer
    <2> HIDE DEF m, k
    <2>5. quote' \in Quote /\ quote'.for = quote.for
      BY <2>2, <2>3, <2>4 DEF Quote
    <2> QED BY <2>3, <2>5 DEF QuoteTypeOK
  <1>4. CASE Engine
    BY <1>4, EngineQuote DEF QuoteTypeOK
  <1>5. CASE UNCHANGED <<vars, quote>>
    BY <1>5 DEF QuoteTypeOK
  <1> QED BY <1>1, <1>2, <1>3, <1>4, <1>5 DEF QuoteNext

-----------------------------------------------------------------------------
(* What the trades of the quoted order have cost. *)

LEMMA TradeNumbers ==
  ASSUME TradesFair, TypeOK, NEW k \in 1 .. Len(tradeTopic)
  PROVE  tradeTopic[k].quantity \in Nat /\ tradeTopic[k].price \in Nat
  <1>1. tradeTopic \in Seq(Trade)
    BY DEF TypeOK
  <1>2. tradeTopic[k] \in Trade
    BY <1>1
  <1> QED BY <1>2 DEF Trade

LEMMA CostIsNat ==
  ASSUME EngineInv, NEW o
  PROVE  Cost(o) \in Nat /\ IsFiniteSet(TradesOf(o.id))
  <1> DEFINE S == TradesOf(o.id)
             f == [k \in S |-> tradeTopic[k].quantity * UnitCost(o, tradeTopic[k].price)]
  <1>1. Len(tradeTopic) \in Nat /\ S \in SUBSET (1 .. Len(tradeTopic))
    BY DEF EngineInv, TypeOK, TradesOf
  <1>2. IsFiniteSet(S)
    BY <1>1, FS_Interval, SmallerIsFinite
  <1>3. ASSUME NEW k \in S PROVE f[k] \in Nat
    <2>1. tradeTopic[k].quantity \in Nat /\ UnitCost(o, tradeTopic[k].price) \in Nat
      BY <1>1, TradeNumbers, UnitCostIsNat DEF EngineInv
    <2>2. \A a, b \in Nat : a * b \in Nat
      OBVIOUS
    <2> QED BY <2>1, <2>2
  <1>4. Cost(o) = SumFunctionOnSet(f, S)
    BY DEF Cost, SumFunction
  <1> HIDE DEF f, S
  <1>5. SumFunctionOnSet(f, S) \in Nat
    BY <1>2, <1>3, SumIsNat
  <1> QED BY <1>2, <1>4, <1>5 DEF S

LEMMA NoTradesCostNothing == ASSUME NEW o, TradesOf(o.id) = {} PROVE Cost(o) = 0
  <1>1. \A f : SumFunctionOnSet(f, {}) = 0
    BY SumOfNone
  <1> QED BY <1>1 DEF Cost, SumFunction

\* A fill of the order adds its price.
LEMMA FillCosts ==
  ASSUME EngineInv, EngineInv', NEW o, NEW t \in Trade, tradeTopic' = Append(tradeTopic, t),
         o.id \in {t.maker, t.taker}
  PROVE  Cost(o)' = Cost(o) + UnitCost(o, t.price) * t.quantity
  <1> DEFINE n == Len(tradeTopic)
             e == n + 1
             S == TradesOf(o.id)
             f == [k \in S |-> tradeTopic[k].quantity * UnitCost(o, tradeTopic[k].price)]
             g == [k \in S \cup {e} |-> tradeTopic'[k].quantity * UnitCost(o, tradeTopic'[k].price)]
  <1>1. tradeTopic \in Seq(Trade) /\ n \in Nat
    BY DEF EngineInv, TypeOK
  <1>2. /\ Len(tradeTopic') = n + 1 /\ tradeTopic'[n + 1] = t
        /\ \A k \in 1 .. n : tradeTopic'[k] = tradeTopic[k]
    BY <1>1
  <1>3. S \in SUBSET (1 .. n) /\ e \notin S
    BY <1>1 DEF TradesOf
  <1>4. TradesOf(o.id)' = S \cup {e}
    BY <1>1, <1>2 DEF TradesOf
  <1>5. Cost(o) = SumFunction(f) /\ Cost(o)' = SumFunction(g)
    BY <1>4 DEF Cost
  <1>6. \A k \in S : f[k] \in Int /\ g[k] = f[k]
    <2> SUFFICES ASSUME NEW k \in S PROVE f[k] \in Int /\ g[k] = f[k]
      OBVIOUS
    <2>1. tradeTopic[k].quantity \in Nat /\ UnitCost(o, tradeTopic[k].price) \in Nat
      BY <1>3, TradeNumbers, UnitCostIsNat DEF EngineInv
    <2> QED BY <1>2, <1>3, <2>1
  <1>7. t.quantity \in Nat /\ UnitCost(o, t.price) \in Nat
    BY UnitCostIsNat DEF Trade
  <1>8. g[e] = UnitCost(o, t.price) * t.quantity /\ g[e] \in Int
    BY <1>2, <1>7
  <1>9. IsFiniteSet(S) /\ DOMAIN f = S /\ DOMAIN g = S \cup {e}
    BY CostIsNat
  <1> HIDE DEF f, g, S, n, e
  <1>10. SumFunction(g) = SumFunction(f) + g[e]
    <2>1. g[e] \in Int
      BY <1>8
    <2>2. IsFiniteSet(S)
      BY <1>9
    <2>3. e \notin S
      BY <1>3
    <2>4. DOMAIN f = S /\ DOMAIN g = S \cup {e}
      BY <1>9
    <2>5. \A x \in S : f[x] \in Int /\ g[x] = f[x]
      BY <1>6
    <2> QED BY <2>1, <2>2, <2>3, <2>4, <2>5, SumOfMore
  <1> QED BY <1>5, <1>8, <1>10

-----------------------------------------------------------------------------
(* The walk over the levels and the answer. *)

\* The orders at the prices passed.
Passed == {r \in Opposite(quote.for) : r.price \in quote.passed}

\* What the walk has found so far is the orders it has passed, and the orders it has not
\* come to are worse; when it has found all, it has found what they cost.
Walking ==
  quote.phase = "walking" /\ quote.quiet /\ Fits(Wanted) =>
    /\ traded[quote.for.id] = 0 /\ TradesOf(quote.for.id) = {}
    /\ quote.left \in Nat /\ quote.left <= Wanted /\ quote.quantity = Wanted - quote.left
    /\ quote.left = 0 => Wanted = 0 \/ Costs(quote.for, Opposite(quote.for), Wanted, quote.locked)
    /\ quote.left # 0 =>
         /\ quote.quantity = Total(Passed) /\ quote.locked = Value(quote.for, Passed)
         /\ \A r \in Opposite(quote.for) \ Passed, s \in quote.passed :
              BetterOffer(s, r.price, OfferSide(quote.for))

\* What is still to be traded costs what was locked without what the trades have cost.
Bill ==
  quote.phase = "answered" /\ quote.quiet /\ Fits(Wanted) /\ SentAsAsked =>
    IF quote.quantity = 0
    THEN Wanted = 0 \/ Total(Opposite(quote.for)) < Rest
    ELSE /\ quote.quantity = Wanted
         /\ \E k \in Int : /\ quote.locked = Wire(k)
                           /\ Costs(quote.for, Opposite(quote.for), Rest, k - Cost(quote.for))

QuoteInv == EngineInv /\ QuoteTypeOK /\ QuotedPlace /\ Walking /\ Bill

LEMMA WantedIsNat ==
  ASSUME QuoteTypeOK, quote.phase # "none"
  PROVE  Wanted \in Nat /\ quote.for.id \in Ids /\ quote.for \in Submissions
BY SubmissionIsForm, OrderNumbers DEF QuoteTypeOK, Wanted

\* An order that was never delivered is in no trade and nowhere in the engine.
LEMMA AskedIsNew ==
  ASSUME EngineInv, NEW i \in Ids, received[i] = 0
  PROVE  traded[i] = 0 /\ TradesOf(i) = {} /\ Sent(i)
  <1>1. traded[i] = 0
    BY DEF EngineInv, UnknownIsUntouched
  <1>2. TradesOf(i) = {}
    <2> SUFFICES ASSUME NEW k \in 1 .. Len(tradeTopic), i \in {tradeTopic[k].maker, tradeTopic[k].taker}
                 PROVE  FALSE
      BY DEF TradesOf
    <2>1. received[tradeTopic[k].maker] > 0 /\ received[tradeTopic[k].taker] > 0
      BY DEF EngineInv, TradesFair, FairTrade
    <2> QED BY <2>1
  <1>3. ~ Present(i)
    BY DEF EngineInv, PresentIsKnown
  <1> QED BY <1>1, <1>2, <1>3 DEF Present, Sent

LEMMA AskStep ==
  ASSUME EngineInv, NEW o \in Submissions, Ask(o)
  PROVE  QuotedPlace' /\ Walking' /\ Bill'
  <1>1. /\ quote' = [phase |-> "walking", for |-> o, left |-> Wire(UnfilledQuantity(o)), quantity |-> 0,
                     locked |-> 0, passed |-> {}, quiet |-> TRUE]
        /\ received[o.id] = 0 /\ UNCHANGED vars
    BY DEF Ask, NoQuote
  <1>2. o.id \in Ids /\ UnfilledQuantity(o) \in Nat
    BY SubmissionIsForm, OrderNumbers
  <1>3. traded[o.id] = 0 /\ TradesOf(o.id) = {} /\ Sent(o.id)
    BY <1>1, <1>2, AskedIsNew
  <1>4. QuotedPlace'
    BY <1>1, <1>3 DEF QuotedPlace, Sent, InBatch, Active, vars
  <1>5. Bill'
    BY <1>1 DEF Bill
  <1>6. Walking'
    <2> DEFINE w == UnfilledQuantity(o)
    <2>1. /\ Wanted' = w /\ quote'.for = o /\ quote'.passed = {} /\ quote'.quantity = 0
          /\ quote'.locked = 0 /\ quote'.left = Wire(w)
      BY <1>1 DEF Wanted, UnfilledQuantity
    <2>2. traded'[o.id] = 0 /\ TradesOf(o.id)' = {}
      BY <1>1, <1>3 DEF vars, TradesOf
    <2>3. Passed' = {}
      BY <2>1 DEF Passed
    <2>4. Total({}) = 0 /\ Value(o, {}) = 0
      BY SumsOfNone
    <2>5. Total(Passed)' = 0 /\ Value(quote.for, Passed)' = 0
      BY <2>1, <2>3, <2>4 DEF Total, Value, UnitCost, UnfilledQuantity
    <2> HIDE DEF w
    <2>6. SUFFICES ASSUME Fits(w) PROVE Walking'
      BY <2>1 DEF Walking, Fits
    <2>7. quote'.left = w /\ w \in Nat
      BY <1>2, <2>1, <2>6, WireOfFitting DEF w
    <2> QED BY <2>1, <2>2, <2>5, <2>7 DEF Walking
  <1> QED BY <1>4, <1>5, <1>6

\* The next level comes after all that was passed and before all else.
LEMMA NextPrecedes ==
  ASSUME IteratorIsStable, EngineInv, QuoteTypeOK, NEW p \in NextLevels,
         \A r \in Opposite(quote.for) \ Passed, s \in quote.passed :
           BetterOffer(s, r.price, OfferSide(quote.for))
  PROVE  /\ Preceding(quote.for, p, Opposite(quote.for)) = Passed
         /\ LevelOf(Opposite(quote.for), p) \cap Passed = {}
         /\ \A r \in Opposite(quote.for) \ Passed :
              r.price = p \/ BetterOffer(p, r.price, OfferSide(quote.for))
  <1> DEFINE O == Opposite(quote.for)
             B(x, y) == BetterOffer(x, y, OfferSide(quote.for))
  <1>1. p \in Nat /\ \A r \in O : r.price \in Nat
    BY LevelNumbers, NextIsAhead, OppositeIsSide, OrderNumbers DEF Side
  <1>2. \A x, y \in Nat : ~ (B(x, y) /\ B(y, x)) /\ ~ B(x, x)
    BY DEF BetterOffer
  <1>3. /\ \A s \in quote.passed : B(s, p)
        /\ \A x \in Ahead : x = p \/ B(p, x)
    BY DEF NextLevels, Ahead
  <1>4. \A r \in O \ Passed : r.price \in Ahead
    BY DEF Ahead, Passed
  <1>5. \A r \in O \ Passed : r.price = p \/ B(p, r.price)
    BY <1>3, <1>4
  <1>6. \A r \in Passed : r \in O /\ B(r.price, p)
    BY <1>3 DEF Passed
  <1> HIDE DEF B
  <1>7. \A r \in O : B(r.price, p) <=> r \in Passed
    BY <1>1, <1>2, <1>5, <1>6
  <1>8. LevelOf(O, p) \cap Passed = {}
    BY <1>1, <1>2, <1>6 DEF LevelOf
  <1>9. Preceding(quote.for, p, O) = {r \in O : B(r.price, p)}
    BY DEF Preceding, B
  <1> HIDE DEF O
  <1>10. Preceding(quote.for, p, O) = Passed
    BY <1>6, <1>7, <1>9
  <1> QED BY <1>5, <1>8, <1>10 DEF B, O

LEMMA WalkKeepsFinding ==
  ASSUME IteratorIsStable, EngineInv, QuoteTypeOK, Walking, WalkLevel
  PROVE  Walking'
  <1> DEFINE o == quote.for
             O == Opposite(quote.for)
  <1> SUFFICES ASSUME quote'.quiet, Fits(Wanted)' PROVE Walking'
    BY DEF Walking
  <1>1. PICK p \in NextLevels :
          LET v == Smaller(Total(LevelOf(O, p)), quote.left)
          IN quote' = [quote EXCEPT !.left = @ - v, !.quantity = @ + v,
                                    !.locked = @ + UnitCost(o, p) * v,
                                    !.passed = @ \cup {p}]
    BY DEF WalkLevel
  <1> DEFINE L == LevelOf(O, p)
             v == Smaller(Total(L), quote.left)
             u == UnitCost(o, p)
  <1>2. quote \in Quote /\ UNCHANGED vars /\ quote.phase = "walking" /\ quote.left > 0
    BY DEF QuoteTypeOK, WalkLevel
  <1>3. /\ quote'.left = quote.left - v /\ quote'.quantity = quote.quantity + v
        /\ quote'.locked = quote.locked + u * v /\ quote'.passed = quote.passed \cup {p}
        /\ quote'.for = o /\ quote'.quiet = quote.quiet /\ quote'.phase = "walking"
    BY <1>1, <1>2 DEF Quote
  <1>4. /\ O' = O /\ Wanted' = Wanted /\ traded' = traded /\ TradesOf(o.id)' = TradesOf(o.id)
    BY <1>2, <1>3 DEF vars, Opposite, Wanted, UnfilledQuantity, TradesOf
  <1>5. Fits(Wanted) /\ quote.quiet
    BY <1>3, <1>4 DEF Fits
  <1>6. /\ traded[o.id] = 0 /\ TradesOf(o.id) = {}
        /\ quote.left \in Nat /\ quote.left <= Wanted /\ quote.quantity = Wanted - quote.left
        /\ quote.quantity = Total(Passed) /\ quote.locked = Value(o, Passed)
        /\ \A r \in O \ Passed, s \in quote.passed : BetterOffer(s, r.price, OfferSide(o))
    BY <1>2, <1>5 DEF Walking
  <1>7. Side(O) /\ Passed \in SUBSET O
    BY OppositeIsSide DEF Passed
  <1>8. /\ Preceding(o, p, O) = Passed /\ L \cap Passed = {}
        /\ \A r \in O \ Passed : r.price = p \/ BetterOffer(p, r.price, OfferSide(o))
    BY <1>6, NextPrecedes
  <1>9. /\ Side(L) /\ Side(Passed) /\ L \in SUBSET O
        /\ Total(L) \in Nat /\ Total(Passed) \in Nat /\ Value(o, Passed) \in Nat
    BY <1>7, <1>8, PartsOfSide
  <1>10. p \in Nat /\ u \in Nat /\ Wanted \in Nat
    BY <1>2, LevelNumbers, NextIsAhead, WantedIsNat
  <1>11. Passed' = Passed \cup L
    BY <1>3, <1>4 DEF Passed, LevelOf
  <1>12. v \in Nat /\ v <= quote.left /\ (quote.left - v = 0 => quote.left <= Total(L) /\ v = quote.left)
         /\ (quote.left - v # 0 => v = Total(L))
    BY <1>6, <1>9 DEF Smaller
  <1> HIDE DEF v
  <1>13. /\ quote'.left \in Nat /\ quote'.left <= Wanted /\ quote'.quantity = Wanted - quote'.left
    BY <1>3, <1>6, <1>10, <1>12
  <1>14. ASSUME quote'.left = 0 PROVE Costs(o, O, Wanted, quote'.locked)
    <2>1. v = quote.left /\ quote.left <= Total(L) /\ v = Wanted - Total(Passed)
      BY <1>3, <1>6, <1>10, <1>12, <1>14
    <2> HIDE DEF u, L, O
    <2>2. Total(Passed) <= Wanted /\ Wanted <= Total(Passed) + Total(L)
      BY <1>6, <1>9, <1>10, <2>1
    <2>3. quote'.locked = Value(o, Passed) + u * (Wanted - Total(Passed))
      BY <1>3, <1>6, <2>1
    <2>4. CostsAt(o, p, O, Wanted, quote'.locked)
      BY <1>8, <2>2, <2>3 DEF CostsAt, L, u
    <2> QED BY <1>10, <2>4 DEF Costs
  <1>15. ASSUME quote'.left # 0
         PROVE  /\ quote'.quantity = Total(Passed') /\ quote'.locked = Value(o, Passed')
                /\ \A r \in O \ Passed', s \in quote'.passed : BetterOffer(s, r.price, OfferSide(o))
    <2>1. v = Total(L)
      BY <1>3, <1>12, <1>15
    <2>2. /\ Total(Passed \cup L) = Total(Passed) + Total(L)
          /\ Value(o, Passed \cup L) = Value(o, Passed) + Value(o, L)
      <3>1. /\ Passed \subseteq Forms /\ L \subseteq Forms /\ IsFiniteSet(Passed) /\ IsFiniteSet(L)
            /\ Passed \cap L = {}
        BY <1>8, <1>9 DEF Side
      <3> HIDE DEF L
      <3> QED BY <3>1, SumsOfUnion
    <2>3. Value(o, L) = u * Total(L)
      <3>1. L \subseteq Forms /\ IsFiniteSet(L) /\ \A r \in L : r.price = p
        BY <1>9 DEF Side, LevelOf
      <3> HIDE DEF L
      <3> QED BY <1>10, <3>1, ValueOfLevel
    <2>4. quote'.quantity = Total(Passed') /\ quote'.locked = Value(o, Passed')
      BY <1>3, <1>6, <1>11, <2>1, <2>2, <2>3
    <2>5. ASSUME NEW r \in O \ Passed', NEW s \in quote'.passed PROVE BetterOffer(s, r.price, OfferSide(o))
      <3>1. r \in O \ Passed /\ r.price # p
        BY <1>11 DEF LevelOf
      <3> QED BY <1>3, <1>6, <1>8, <3>1
    <2> QED BY <2>4, <2>5
  <1>16. /\ Total(Passed)' = Total(Passed') /\ Value(quote.for, Passed)' = Value(o, Passed')
         /\ Opposite(quote.for)' = O /\ OfferSide(quote.for)' = OfferSide(o)
         /\ Costs(quote.for, Opposite(quote.for), Wanted, quote.locked)' <=> Costs(o, O, Wanted, quote'.locked)
    BY <1>3, <1>4
  <1> QED BY <1>3, <1>4, <1>6, <1>13, <1>14, <1>15, <1>16 DEF Walking

LEMMA AnswerBills ==
  ASSUME EngineInv, QuoteTypeOK, Walking, Answer
  PROVE  Bill'
  <1> DEFINE o == quote.for
             O == Opposite(quote.for)
  <1>1. quote \in Quote /\ UNCHANGED vars /\ quote.phase = "walking"
    BY DEF QuoteTypeOK, Answer
  <1>2. /\ quote'.phase = "answered" /\ quote'.for = o /\ quote'.quiet = quote.quiet
        /\ quote'.quantity = (IF quote.left = 0 THEN Wire(quote.quantity) ELSE 0)
        /\ quote'.locked = (IF quote.left = 0 THEN Wire(quote.locked) ELSE 0)
    BY <1>1 DEF Answer, Quote
  <1>3. /\ O' = O /\ Wanted' = Wanted /\ Rest' = Rest /\ Cost(quote.for)' = Cost(o)
    BY <1>1, <1>2 DEF vars, Opposite, Rest, Wanted, UnfilledQuantity, Cost, TradesOf, UnitCost
  <1> SUFFICES ASSUME quote.quiet, Fits(Wanted) PROVE Bill'
    BY <1>2, <1>3 DEF Bill, Fits
  <1>4. /\ traded[o.id] = 0 /\ TradesOf(o.id) = {}
        /\ quote.left \in Nat /\ quote.left <= Wanted /\ quote.quantity = Wanted - quote.left
        /\ quote.left = 0 => Wanted = 0 \/ Costs(o, O, Wanted, quote.locked)
        /\ quote.left # 0 =>
             /\ quote.quantity = Total(Passed)
             /\ \A r \in O \ Passed, s \in quote.passed : BetterOffer(s, r.price, OfferSide(o))
    BY <1>1 DEF Walking
  <1>5. Wanted \in Nat /\ Rest = Wanted /\ Cost(o) = 0
    BY <1>1, <1>4, WantedIsNat, NoTradesCostNothing DEF Rest
  <1>6. CASE quote.left = 0
    <2>1. quote'.quantity = Wanted
      BY <1>2, <1>4, <1>5, <1>6, WireOfFitting
    <2>2. quote.locked \in Int /\ quote.locked - Cost(o) = quote.locked
      BY <1>1, <1>5 DEF Quote
    <2>3. ASSUME Wanted # 0
          PROVE  \E k \in Int : quote'.locked = Wire(k) /\ Costs(o, O, Rest, k - Cost(o))
      BY <1>2, <1>4, <1>5, <1>6, <2>2, <2>3
    <2> QED BY <1>2, <1>3, <2>1, <2>3 DEF Bill
  <1>7. CASE quote.left # 0
    <2>1. Ahead = {} /\ quote'.quantity = 0
      BY <1>2, <1>4, <1>7 DEF Answer
    <2>2. Passed = O
      BY <1>4, <1>7, <2>1 DEF Ahead, Passed
    <2>3. Total(O) < Rest
      BY <1>4, <1>5, <1>7, <2>2
    <2>4. Total(Opposite(quote.for))' = Total(O)
      BY <1>3 DEF Total, UnfilledQuantity
    <2> QED BY <1>3, <2>1, <2>3, <2>4 DEF Bill
  <1> QED BY <1>6, <1>7

\* A fill changes the book.
LEMMA FillChangesBook ==
  ASSUME EngineInv, NEW c \in asks \cup bids, Fill(c)
  PROVE  ~ UNCHANGED <<asks, bids>>
  <1> DEFINE q == Smaller(UnfilledQuantity(taker), UnfilledQuantity(c))
  <1>1. /\ c \in Forms /\ c \in Opposite(taker)
        /\ UnfilledQuantity(c) \in Nat /\ q \in Nat /\ q > 0 /\ q <= UnfilledQuantity(c)
        /\ \/ taker.side = "sell" /\ bids' = AfterFill(bids, c, q)
           \/ taker.side = "buy" /\ asks' = AfterFill(asks, c, q)
    BY FillFacts DEF EngineInv
  <1> HIDE DEF q
  <1>2. UnfilledQuantity(Filling(c, q)) = UnfilledQuantity(c) - q
    BY <1>1, FillingIsForm
  <1>3. Filling(c, q) # c
    BY <1>1, <1>2
  <1>4. \A S : c \notin AfterFill(S, c, q)
    BY <1>3 DEF AfterFill
  <1> QED BY <1>1, <1>4 DEF Opposite

\* In quiet nobody but the quoted order changes the book, and that in its fills.
LEMMA QuietSteps ==
  ASSUME EngineInv, QuoteTypeOK, Engine, quote.phase # "none", quote'.quiet
  PROVE  \/ UNCHANGED <<asks, bids, traded, tradeTopic>>
         \/ quote.phase = "answered" /\ \E c \in asks \cup bids : Fill(c) /\ taker.id = quote.for.id
  <1>1. UNCHANGED <<asks, bids>> \/ IsQuoted(taker)
    BY EngineQuote
  <1>2. Next
    BY DEF Engine
  <1>3. ASSUME NEW c \in asks \cup bids, Fill(c)
        PROVE  quote.phase = "answered" /\ taker.id = quote.for.id
    BY <1>1, <1>3, FillChangesBook DEF IsQuoted
  <1>4. ASSUME ~ UNCHANGED <<asks, bids>>, \A c \in asks \cup bids : ~ Fill(c) PROVE FALSE
    <2>1. taker # NoOrder /\ taker.id = quote.for.id /\ quote.for \in Submissions /\ quote.for.type = "market"
      BY <1>1, <1>4 DEF IsQuoted, QuoteTypeOK
    <2>2. pc # "idle"
      BY <2>1 DEF EngineInv, IdleHasNoTaker
    <2>3. \A waiting : ~ Reload(waiting)
      <3>1. UNCHANGED reloads /\ reloads \in Nat
        BY EngineQuote DEF EngineInv, TypeOK
      <3> QED BY <3>1 DEF Reload
    <2>6. EndMatch
      BY <1>2, <1>4, <2>2, <2>3, BookChanges DEF CancelWithKey
    <2>4. taker \in Forms
      BY <2>1 DEF EngineInv, TypeOK
    <2>5. ~ Rests(taker)
      BY <2>1, <2>4, MarketForms DEF Rests
    <2> QED BY <1>4, <2>5, <2>6 DEF EndMatch
  <1> QED BY <1>2, <1>3, <1>4, TradedChanges

LEMMA EngineKeepsFinding ==
  ASSUME EngineInv, QuoteTypeOK, Walking, Engine
  PROVE  Walking'
  <1>1. /\ quote'.phase = quote.phase /\ quote'.for = quote.for /\ quote'.left = quote.left
        /\ quote'.quantity = quote.quantity /\ quote'.locked = quote.locked
        /\ quote'.passed = quote.passed
        /\ quote'.quiet => quote.quiet
    BY EngineQuote
  <1> SUFFICES ASSUME quote.phase = "walking", quote'.quiet, Fits(Wanted)' PROVE Walking'
    BY <1>1 DEF Walking
  <1>2. UNCHANGED <<asks, bids, traded, tradeTopic>>
    BY QuietSteps
  <1>3. /\ Wanted' = Wanted /\ Opposite(quote.for)' = Opposite(quote.for) /\ Passed' = Passed
        /\ TradesOf(quote.for.id)' = TradesOf(quote.for.id) /\ traded' = traded
    BY <1>1, <1>2 DEF Wanted, UnfilledQuantity, Opposite, Passed, TradesOf
  <1>4. /\ Total(Passed)' = Total(Passed) /\ Value(quote.for, Passed)' = Value(quote.for, Passed)
        /\ OfferSide(quote.for)' = OfferSide(quote.for)
        /\ Costs(quote.for, Opposite(quote.for), Wanted, quote.locked)' <=>
             Costs(quote.for, Opposite(quote.for), Wanted, quote.locked)
    BY <1>1, <1>3
  <1>5. quote.quiet /\ Fits(Wanted)
    BY <1>1, <1>3 DEF Fits
  <1> QED BY <1>1, <1>3, <1>4, <1>5 DEF Walking

\* The fill of the quoted order is the next part of its bill.
LEMMA FillKeepsBill ==
  ASSUME IteratorIsStable, EngineInv, EngineInv', QuoteTypeOK, QuotedPlace, Bill, Engine,
         quote.phase = "answered", quote'.quiet, Fits(Wanted), SentAsAsked,
         NEW c \in asks \cup bids, Fill(c), taker.id = quote.for.id
  PROVE  Bill'
  <1> DEFINE o == quote.for
             O == Opposite(quote.for)
             q == Smaller(UnfilledQuantity(taker), UnfilledQuantity(c))
  <1>1. /\ quote'.phase = quote.phase /\ quote'.for = o /\ quote'.quantity = quote.quantity
        /\ quote'.locked = quote.locked
        /\ quote'.quiet => quote.quiet
    BY EngineQuote
  <1>2. /\ o \in Submissions /\ o.id \in Ids /\ Wanted \in Nat /\ o.type = "market"
    BY WantedIsNat DEF QuoteTypeOK
  <1>3. /\ taker \in Forms /\ c \in Forms /\ c \in Opposite(taker)
        /\ UnfilledQuantity(taker) \in Nat /\ UnfilledQuantity(taker) > 0
        /\ UnfilledQuantity(c) \in Nat /\ q \in Nat /\ q > 0 /\ q <= UnfilledQuantity(c)
        /\ \/ taker.side = "sell" /\ bids' = AfterFill(bids, c, q) /\ asks' = asks
           \/ taker.side = "buy" /\ asks' = AfterFill(asks, c, q) /\ bids' = bids
        /\ tradeTopic' = Append(tradeTopic, TradeOf(taker, c, q))
        /\ traded' = [i \in Ids |-> traded[i] + IF i \in {taker.id, c.id} THEN q ELSE 0]
        /\ pc = "match"
    BY FillFacts DEF EngineInv
  <1>4. taker.side = o.side /\ o.side \in {"buy", "sell"}
    BY <1>2, <1>3, MarketForms
  <1>5. O = Opposite(taker) /\ O' = AfterFill(O, c, q)
    BY <1>1, <1>3, <1>4 DEF Opposite
  <1>6. Side(O) /\ \A r \in O : r.side = OfferSide(o)
    BY <1>4, OppositeIsSide
  <1>7. InMatch(o.id)
    BY <1>3 DEF QuotedPlace, Sent, Coming, Done, Active
  <1>8. UnfilledQuantity(taker) = Rest /\ Rest \in Nat /\ Rest > 0 /\ q = Smaller(Rest, UnfilledQuantity(c))
    BY <1>3, <1>7 DEF InMatch
  <1> HIDE DEF q
  <1>9. Rest' = Rest - q /\ Wanted' = Wanted
    <2>1. traded'[o.id] = traded[o.id] + q /\ traded[o.id] \in Nat
      BY <1>2, <1>3 DEF EngineInv, TypeOK
    <2>2. Wanted' = Wanted
      BY <1>1 DEF Wanted, UnfilledQuantity
    <2> QED BY <1>1, <1>2, <1>3, <2>1, <2>2 DEF Rest
  <1>10. \A r \in O : ~ BetterOffer(r.price, c.price, OfferSide(o))
    <2>1. Offers = O
      BY <1>5 DEF EngineInv, WalkIsWhole, Offers
    <2>2. \A d \in O : ~ GoesBefore(d, c)
      BY <2>1 DEF Fill, BestOffers
    <2> QED BY <1>6, <2>2 DEF GoesBefore
  <1>11. Cost(quote.for)' = Cost(o) + UnitCost(o, c.price) * q /\ Cost(o) \in Nat
    <2> DEFINE t == TradeOf(taker, c, q)
    <2>1. t.price = c.price /\ t.quantity = q /\ o.id \in {t.maker, t.taker}
      BY DEF TradeOf
    <2>2. t \in Trade
      BY <1>3, OrderNumbers DEF TradeOf, Trade
    <2>3. PICK w : w = quote.for
      OBVIOUS
    <2>4. w.id \in {t.maker, t.taker} /\ tradeTopic' = Append(tradeTopic, t)
      BY <1>3, <2>1, <2>3
    <2> HIDE DEF t
    <2>5. Cost(w)' = Cost(w) + UnitCost(w, t.price) * t.quantity /\ Cost(w) \in Nat
      BY <2>2, <2>4, FillCosts, CostIsNat
    <2>6. w = quote'.for
      BY <1>1, <2>3
    <2>7. Cost(quote.for)' = Cost(w)' /\ Cost(quote.for) = Cost(w)
      BY <2>3, <2>6 DEF Cost, TradesOf, UnitCost
    <2> QED BY <2>1, <2>3, <2>5, <2>7
  <1>12. Opposite(quote.for)' = AfterFill(O, c, q) /\ quote.quiet
    BY <1>1, <1>5
  <1>13. CASE quote.quantity = 0
    <2>1. Wanted = 0 \/ Total(O) < Rest
      BY <1>12, <1>13 DEF Bill
    <2>2. Total(AfterFill(O, c, q)) <= Total(O) - q /\ Total(AfterFill(O, c, q)) \in Nat
      BY <1>3, <1>5, <1>6, SumsAfterFill DEF Side
    <2>3. Total(O) \in Nat
      BY <1>6, PartsOfSide
    <2>4. Wanted = 0 \/ Total(AfterFill(O, c, q)) < Rest - q
      <3> HIDE DEF O
      <3> QED BY <1>3, <1>8, <2>1, <2>2, <2>3
    <2>5. Total(Opposite(quote.for))' = Total(AfterFill(O, c, q))
      BY <1>12
    <2> QED BY <1>1, <1>9, <1>13, <2>4, <2>5 DEF Bill
  <1>14. CASE quote.quantity # 0
    <2>1. PICK k \in Int : quote.locked = Wire(k) /\ Costs(o, O, Rest, k - Cost(o))
      BY <1>12, <1>14 DEF Bill
    <2>2. quote.quantity = Wanted
      BY <1>12, <1>14 DEF Bill
    <2>3. k - Cost(o) \in Int
      BY <1>11
    <2>4. Costs(o, AfterFill(O, c, q), Rest - q, k - Cost(o) - UnitCost(o, c.price) * q)
      BY <1>3, <1>5, <1>6, <1>8, <1>10, <2>1, <2>3, FillKeepsCosts
    <2>5. k - Cost(o) - UnitCost(o, c.price) * q = k - Cost(quote.for)'
      <3>1. UnitCost(o, c.price) * q \in Int
        BY <1>3, OrderNumbers, UnitCostIsNat
      <3> QED BY <1>11, <3>1
    <2>6. Costs(quote.for, Opposite(quote.for), Rest, k - Cost(quote.for))' <=>
            Costs(o, AfterFill(O, c, q), Rest - q, k - Cost(quote.for)')
      BY <1>1, <1>9, <1>12
    <2>7. Wire(k)' = Wire(k)
      OBVIOUS
    <2> QED BY <1>1, <1>9, <1>14, <2>1, <2>2, <2>4, <2>5, <2>6, <2>7 DEF Bill
  <1> QED BY <1>13, <1>14

LEMMA EngineKeepsBill ==
  ASSUME IteratorIsStable, EngineInv, EngineInv', QuoteTypeOK, QuotedPlace, Bill, Engine
  PROVE  Bill'
  <1>1. /\ quote'.phase = quote.phase /\ quote'.for = quote.for /\ quote'.quantity = quote.quantity
        /\ quote'.locked = quote.locked
        /\ quote'.quiet => quote.quiet
    BY EngineQuote
  <1> SUFFICES ASSUME quote.phase = "answered", quote'.quiet, Fits(Wanted)', SentAsAsked' PROVE Bill'
    BY <1>1 DEF Bill
  <1>2. Wanted' = Wanted /\ Fits(Wanted) /\ quote.quiet
    BY <1>1 DEF Wanted, UnfilledQuantity, Fits
  <1>3. SentAsAsked
    <2>1. quote.for.id \in Ids /\ TypeOK /\ Next
      BY WantedIsNat DEF EngineInv, Engine
    <2>2. received'[quote.for.id] = 0 \/ (received'[quote.for.id] = 1 /\ offered'[quote.for.id] = Wanted)
      BY <1>1, <1>2 DEF SentAsAsked
    <2> QED BY <2>1, <2>2, SentBefore DEF SentAsAsked
  <1>4. CASE UNCHANGED <<asks, bids, traded, tradeTopic>>
    <2>1. Rest' = Rest /\ Opposite(quote.for)' = Opposite(quote.for) /\ Cost(quote.for)' = Cost(quote.for)
      BY <1>1, <1>2, <1>4 DEF Rest, Opposite, Cost, TradesOf, UnitCost
    <2>2. Total(Opposite(quote.for))' = Total(Opposite(quote.for))
      BY <2>1
    <2>3. \A k \in Int :
            /\ Wire(k)' = Wire(k)
            /\ Costs(quote.for, Opposite(quote.for), Rest, k - Cost(quote.for))' <=>
                 Costs(quote.for, Opposite(quote.for), Rest, k - Cost(quote.for))
      BY <1>1, <2>1
    <2> QED BY <1>1, <1>2, <1>3, <2>1, <2>2, <2>3 DEF Bill
  <1>5. ASSUME NEW c \in asks \cup bids, Fill(c), taker.id = quote.for.id PROVE Bill'
    BY <1>2, <1>3, <1>5, FillKeepsBill
  <1> QED BY <1>4, <1>5, QuietSteps

LEMMA QuoteInvInit == QuoteInit => QuoteInv
  <1>1. QuoteInit => QuotedPlace /\ Walking /\ Bill
    BY DEF QuoteInit, NoQuote, QuotedPlace, Walking, Bill
  <1>2. QuoteInit => EngineInv
    BY EngineInit DEF QuoteInit
  <1> QED BY <1>1, <1>2, QuoteTypeInit DEF QuoteInv

LEMMA QuoteInvStep ==
  ASSUME IteratorIsStable, QuoteInv, [QuoteNext]_<<vars, quote>>
  PROVE  QuoteInv'
  <1>1. [Next]_vars
    BY Zenon DEF QuoteNext, Ask, WalkLevel, Answer, Engine
  <1>2. EngineInv' /\ QuoteTypeOK'
    BY <1>1, EngineStep, QuoteTypeStep DEF QuoteInv
  <1>3. ASSUME NEW o \in Submissions, Ask(o) PROVE QuotedPlace' /\ Walking' /\ Bill'
    BY <1>3, AskStep DEF QuoteInv
  <1>4. CASE WalkLevel \/ Answer
    <2>1. quote \in Quote
      BY DEF QuoteInv, QuoteTypeOK
    <2>2. UNCHANGED vars /\ quote'.for = quote.for /\ quote'.quiet = quote.quiet /\ quote.phase # "none"
      BY <1>4, <2>1 DEF WalkLevel, Answer, Quote
    <2>3. QuotedPlace'
      BY <2>2 DEF QuoteInv, QuotedPlace, SentAsAsked, Sent, Coming, InMatch, Done, Active, InBatch, Rest,
                  Wanted, UnfilledQuantity, Opposite, vars
    <2>4. CASE WalkLevel
      <3>1. quote'.phase = "walking"
        BY <2>1, <2>4 DEF WalkLevel, Quote
      <3> QED BY <1>2, <2>3, <2>4, <3>1, WalkKeepsFinding DEF QuoteInv, Bill
    <2>5. CASE Answer
      <3>1. quote'.phase = "answered"
        BY <2>1, <2>5 DEF Answer, Quote
      <3> QED BY <1>2, <2>3, <2>5, <3>1, AnswerBills DEF QuoteInv, Walking
    <2> QED BY <1>4, <2>4, <2>5
  <1>5. CASE Engine
    BY <1>2, <1>5, QuotedEngine, EngineKeepsFinding, EngineKeepsBill DEF QuoteInv
  <1>6. CASE UNCHANGED <<vars, quote>>
    <2>1. UNCHANGED vars /\ quote' = quote
      BY <1>6
    <2>2. /\ Wanted' = Wanted /\ Rest' = Rest /\ Opposite(quote.for)' = Opposite(quote.for)
          /\ Passed' = Passed /\ TradesOf(quote.for.id)' = TradesOf(quote.for.id)
          /\ Cost(quote.for)' = Cost(quote.for) /\ traded' = traded /\ received' = received
          /\ offered' = offered
      BY <2>1 DEF Wanted, Rest, UnfilledQuantity, Opposite, Passed, TradesOf, Cost, vars
    <2>3. SentAsAsked' <=> SentAsAsked
      BY <2>1, <2>2 DEF SentAsAsked
    <2>4. QuotedPlace'
      <3>1. UNCHANGED <<pc, taker, batch>>
        BY <2>1 DEF vars
      <3> QED BY <2>1, <2>2, <2>3, <3>1 DEF QuoteInv, QuotedPlace, Sent, Coming, InMatch, Done, Active, InBatch
    <2>5. Walking'
      BY <2>1, <2>2 DEF QuoteInv, Walking
    <2>6. Bill'
      BY <2>1, <2>2, <2>3 DEF QuoteInv, Bill
    <2> QED BY <1>2, <2>4, <2>5, <2>6 DEF QuoteInv
  <1> QED BY <1>2, <1>3, <1>4, <1>5, <1>6 DEF QuoteNext, QuoteInv

LEMMA InvIsPaid == ASSUME QuoteInv PROVE QuoteIsPaid
  <1> DEFINE o == quote.for
             O == Opposite(quote.for)
  <1> SUFFICES ASSUME ExecutedAsQuoted, Fits(UnfilledQuantity(o)), Fits(Cost(o))
               PROVE  IF quote.quantity = 0
                      THEN UnfilledQuantity(o) = 0 \/ traded[o.id] < UnfilledQuantity(o)
                      ELSE /\ traded[o.id] = quote.quantity
                           /\ quote.quantity = UnfilledQuantity(o)
                           /\ Cost(o) = quote.locked
    BY DEF QuoteIsPaid
  <1>1. /\ quote.phase = "answered" /\ quote.quiet /\ received[o.id] = 1
        /\ offered[o.id] = Wanted /\ pc = "idle"
    BY DEF ExecutedAsQuoted, Wanted
  <1>2. SentAsAsked /\ Fits(Wanted)
    BY <1>1 DEF SentAsAsked, Wanted
  <1>3. Done(o.id)
    BY <1>1, <1>2 DEF QuoteInv, QuotedPlace, Sent, Coming, InMatch, Active
  <1>4. Rest = 0 \/ O = {}
    BY <1>1, <1>3 DEF Done
  <1>5. /\ Wanted = UnfilledQuantity(o) /\ Wanted \in Nat /\ traded[o.id] \in Nat
        /\ Rest = Wanted - traded[o.id] /\ Cost(o) \in Nat
    BY <1>1, WantedIsNat, CostIsNat DEF QuoteInv, EngineInv, TypeOK, Wanted, Rest
  <1>6. Side(O)
    BY OppositeIsSide DEF QuoteInv
  <1>7. CASE quote.quantity = 0
    <2>1. Wanted = 0 \/ Total(O) < Rest
      BY <1>1, <1>2, <1>7 DEF QuoteInv, Bill
    <2>2. Total(O) \in Nat
      BY <1>6, PartsOfSide
    <2> HIDE DEF O
    <2> QED BY <1>5, <1>7, <2>1, <2>2
  <1>8. CASE quote.quantity # 0
    <2>1. PICK k \in Int : quote.locked = Wire(k) /\ Costs(o, O, Rest, k - Cost(o))
      BY <1>1, <1>2, <1>8 DEF QuoteInv, Bill
    <2>2. quote.quantity = Wanted
      BY <1>1, <1>2, <1>8 DEF QuoteInv, Bill
    <2>3. Rest \in Nat
      <3>1. PICK p \in Nat : CostsAt(o, p, O, Rest, k - Cost(o))
        BY <2>1 DEF Costs
      <3>2. Total(Preceding(o, p, O)) \in Nat /\ Total(Preceding(o, p, O)) <= Rest
        BY <1>6, <3>1, PartsOfSide DEF CostsAt
      <3> QED BY <1>5, <3>2
    <2>4. Rest = 0
      BY <1>4, <2>1, <2>3, NoneCostsNothing
    <2>5. k - Cost(o) = 0
      BY <1>6, <2>1, <2>4, NothingCostsNothing
    <2>6. k = Cost(o)
      BY <1>5, <2>1, <2>5
    <2>7. Wire(k) = Cost(o)
      BY <1>5, <2>6, WireOfFitting
    <2> QED BY <1>5, <1>8, <2>1, <2>2, <2>4, <2>7
  <1> QED BY <1>7, <1>8

\* A market order is executed as it was quoted: on a book that nobody else has changed
\* since the answer of CalcMarketOrder, the order that was asked about takes the whole
\* quantity, and its trades cost exactly what was locked; where the answer was zero, it
\* does not get its quantity.  (For a walk over the levels that survives a removal.)
THEOREM QuotesArePaid == ASSUME IteratorIsStable PROVE QuoteSpec => []QuoteIsPaid
  <1>1. QuoteInv /\ [QuoteNext]_<<vars, quote>> => QuoteInv'
    BY QuoteInvStep
  <1>2. QuoteInv => QuoteIsPaid
    BY InvIsPaid
  <1> QED BY QuoteInvInit, <1>1, <1>2, PTL DEF QuoteSpec

\* Asking for a quote changes nothing of the engine: what holds of the engine holds of it
\* with clients that ask, in particular what the run of the quote checks of the book.
LEMMA QuotesLeaveEngine == QuoteSpec => Spec
  <1>1. QuoteInit => Init
    BY DEF QuoteInit
  <1>2. [QuoteNext]_<<vars, quote>> => [Next]_vars
    BY Zenon DEF QuoteNext, Ask, WalkLevel, Answer, Engine
  <1> QED BY <1>1, <1>2, PTL DEF QuoteSpec, Spec
=============================================================================
