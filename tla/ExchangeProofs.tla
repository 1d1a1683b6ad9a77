--------------------------- MODULE ExchangeProofs ---------------------------
(***************************************************************************)
(* The engine and the money side fit together: for any orders, prices and  *)
(* histories, what the engine publishes is what Settlement assumes of it.  *)
(* Both sides are instances of modules about which the facts needed are    *)
(* proved already; what is left is what connects them, the topics.         *)
(***************************************************************************)
EXTENDS Exchange, Sums

Eng == INSTANCE OrderBookProofs
  WITH Ids <- Orders, Submissions <- AllForms, LoadSets <- SUBSET AllForms,
       IteratorIsStable <- TRUE, MaxCancels <- Readings, MaxReloads <- Readings,
       Width <- 2, quote <- NoOrder   \* nobody asks for a quote here

Mon == INSTANCE SettlementProofs WITH MaxRestarts <- MaxFaults

LEMMA SameOrders ==
  /\ \A i : Money!IsBuy(i) = Mon!IsBuy(i) /\ Money!IsLimit(i) = Mon!IsLimit(i)
  /\ \A i : Money!Outcome(i) = Mon!Outcome(i) /\ Money!Income(i) = Mon!Income(i)
  /\ \A i, row : Money!Message(i, row) = Mon!Message(i, row)
BY DEF Money!IsBuy, Money!IsLimit, Money!Outcome, Money!Income, Money!Message,
   Mon!IsBuy, Mon!IsLimit, Mon!Outcome, Mon!Income, Mon!Message

LEMMA SameAmounts ==
  /\ \A i, t : Money!Pays(i, t) = Mon!Pays(i, t)
  /\ \A i, t : Money!Earns(i, t) = Mon!Earns(i, t)
  /\ \A i, t : Money!FeeRate(i, t) = Mon!FeeRate(i, t)
  /\ \A i, t : Money!Net(i, t) = Mon!Net(i, t)
<1>1. \A i, t : Money!Pays(i, t) = Mon!Pays(i, t)  BY SameOrders DEF Money!Pays, Mon!Pays
<1>2. \A i, t : Money!Earns(i, t) = Mon!Earns(i, t)  BY SameOrders DEF Money!Earns, Mon!Earns
<1>3. \A i, t : Money!FeeRate(i, t) = Mon!FeeRate(i, t)  BY DEF Money!FeeRate, Mon!FeeRate
<1>4. \A i, t : Money!Net(i, t) = Mon!Net(i, t)  BY <1>2, <1>3, Zenon DEF Money!Net, Mon!Net
<1> QED BY <1>1, <1>2, <1>3, <1>4

LEMMA SameStrike ==
  ASSUME NEW s, NEW i, NEW t
  PROVE  Money!Strike(s, i, t) = Mon!Strike(s, i, t)
<1>1. \A row : Money!StruckRow(row, i, t) = Mon!StruckRow(row, i, t)
  BY SameOrders, SameAmounts, Zenon DEF Money!StruckRow, Mon!StruckRow
<1>2. \A row : Money!Refund(row) = Mon!Refund(row)  BY DEF Money!Refund, Mon!Refund
<1> DEFINE row == Mon!StruckRow(s.rows[i], i, t)
<1>3. Money!StruckRow(s.rows[i], i, t) = row /\ Money!Refund(row) = Mon!Refund(row)
  BY <1>1, <1>2
<1>4. /\ Money!Outcome(i) = Mon!Outcome(i) /\ Money!Income(i) = Mon!Income(i)
      /\ Money!Pays(i, t) = Mon!Pays(i, t) /\ Money!Net(i, t) = Mon!Net(i, t)
  BY SameOrders, SameAmounts
<1> HIDE DEF row
<1>5. Money!Strike(s, i, t) = Mon!Strike(s, i, t)
  BY <1>3, <1>4 DEF Money!Strike, Mon!Strike, Money!Covered, Mon!Covered, row
<1> QED BY <1>5

LEMMA SameStruck == ASSUME NEW t PROVE Money!Struck(t) = Mon!Struck(t)
BY SameStrike, Zenon DEF Money!Struck, Mon!Struck

LEMMA SameValid == ASSUME NEW t PROVE Money!Valid(t) = Mon!Valid(t)
BY SameOrders DEF Money!Valid, Money!AskExceedsStrike, Money!BidBelowStrike, Money!AskOrder, Money!BidOrder,
   Money!MakerSells, Money!IsBuy, Money!IsLimit, Money!StatesWait, Money!Real, Money!VolumesSuffice,
   Mon!Valid, Mon!AskExceedsStrike, Mon!BidBelowStrike, Mon!AskOrder, Mon!BidOrder,
   Mon!MakerSells, Mon!IsBuy, Mon!IsLimit, Mon!StatesWait, Mon!Real, Mon!VolumesSuffice

LEMMA SameFees ==
  ASSUME NEW c, NEW t
  PROVE  Money!FeesIn(c, t) = Mon!FeesIn(c, t) /\ Money!FakeReceives(c, t) = Mon!FakeReceives(c, t)
<1>1. \A i : Money!Fee(i, c, t) = Mon!Fee(i, c, t)
  BY SameOrders, SameAmounts, Zenon DEF Money!Fee, Mon!Fee
<1>2. \A i : Money!Takes(i, c, t) = Mon!Takes(i, c, t)
  BY SameOrders, SameAmounts, Zenon DEF Money!Takes, Mon!Takes
<1>3. /\ Money!Fee(t.maker, c, t) = Mon!Fee(t.maker, c, t)
      /\ Money!Fee(t.taker, c, t) = Mon!Fee(t.taker, c, t)
      /\ Money!Takes(t.maker, c, t) = Mon!Takes(t.maker, c, t)
      /\ Money!Takes(t.taker, c, t) = Mon!Takes(t.taker, c, t)
  BY <1>1, <1>2
<1>4. Money!FeesIn(c, t) = Mon!FeesIn(c, t)
  BY <1>3 DEF Money!FeesIn, Mon!FeesIn
<1>5. Money!FakeReceives(c, t) = Mon!FakeReceives(c, t)
  BY <1>3 DEF Money!FakeReceives, Mon!FakeReceives
<1> QED BY <1>4, <1>5

LEMMA SameSettle == ASSUME NEW t, Money!Settle(t) PROVE Mon!Settle(t)
BY SameStruck, SameValid, SameFees, Zenon DEF Money!Settle, Mon!Settle, Money!Currencies, Mon!Currencies,
   Money!processor, Mon!processor

LEMMA SameRefuse ==
  ASSUME NEW t
  PROVE  /\ Money!HandedBack(t) = Mon!HandedBack(t)
         /\ Money!Refuse(t) => Mon!Refuse(t)
<1>1. Money!HandedBack(t) = Mon!HandedBack(t)
  BY SameStruck, SameValid, SameOrders, Zenon DEF Money!HandedBack, Money!RowsInMemory, Money!Real,
     Mon!HandedBack, Mon!RowsInMemory, Mon!Real
<1> QED BY <1>1, SameStruck, SameValid, Zenon
        DEF Money!Refuse, Mon!Refuse, Money!processor, Mon!processor, Money!accounts, Mon!accounts

LEMMA SamePublishes == ASSUME NEW t PROVE Money!EnginePublishes(t) = Mon!EnginePublishes(t)
BY SameOrders DEF Money!EnginePublishes, Mon!EnginePublishes, Money!Real, Mon!Real, Money!Announced, Mon!Announced,
   Money!Accepts, Mon!Accepts

LEMMA SameSubmitOrder == ASSUME NEW i, Money!SubmitOrder(i) PROVE Mon!SubmitOrder(i)
BY DEF Money!SubmitOrder, Money!IsPending, Money!Covered, Money!Outcome, Money!IsBuy, Money!ToEngine,
   Money!Message, Mon!SubmitOrder, Mon!IsPending, Mon!Covered, Mon!Outcome, Mon!IsBuy, Mon!ToEngine, Mon!Message

LEMMA SameNext == ASSUME Money!Next PROVE Mon!Next
<1>1. ASSUME NEW i \in Orders, Money!Create(i) \/ Money!CheckBalance(i) \/ Money!Save(i) \/ Money!ProduceSubmit(i)
      PROVE  Mon!Api
  <2>1. Mon!Create(i) \/ Mon!CheckBalance(i) \/ Mon!Save(i) \/ Mon!ProduceSubmit(i)
    BY <1>1 DEF Money!Create, Money!CheckBalance, Money!Save, Money!ProduceSubmit, Money!FreshRow, Money!Outcome,
       Money!IsBuy, Money!accounts, Money!processor, Mon!Create, Mon!CheckBalance, Mon!Save, Mon!ProduceSubmit,
       Mon!FreshRow, Mon!Outcome, Mon!IsBuy, Mon!accounts, Mon!processor
  <2> QED BY <2>1 DEF Mon!Api
<1>2. ASSUME NEW i \in Orders, Money!HandleSubmit(i) \/ Money!SubmitAtStart(i)
      PROVE  Mon!HandleSubmit(i) \/ Mon!SubmitAtStart(i)
  BY <1>2, SameSubmitOrder DEF Money!HandleSubmit, Money!SubmitAtStart, Mon!HandleSubmit, Mon!SubmitAtStart
<1>3. ASSUME NEW i \in Orders, Money!HandleCancel(i) PROVE Mon!HandleCancel(i)
  BY <1>3 DEF Money!HandleCancel, Money!Cancellable, Money!Covered, Money!Outcome, Money!IsBuy, Money!processor,
     Mon!HandleCancel, Mon!Cancellable, Mon!Covered, Mon!Outcome, Mon!IsBuy, Mon!processor
<1>4. Money!ProduceMatching => Mon!ProduceMatching
  BY DEF Money!ProduceMatching, Money!accounts, Mon!ProduceMatching, Mon!accounts
<1>5. Money!Restart => Mon!Restart
  BY DEF Money!Restart, Money!ToSubmitAtStart, Money!accounts, Mon!Restart, Mon!ToSubmitAtStart, Mon!accounts
<1>6. ASSUME NEW t \in Money!Payload, Money!SettleTrade(t) \/ Money!RefuseTrade(t)
      PROVE  Mon!TradeExecutor
  <2>1. t \in Mon!Payload  BY DEF Money!Payload, Mon!Payload
  <2>2. Mon!SettleTrade(t) \/ Mon!RefuseTrade(t)
    BY <1>6, SameSettle, SameRefuse, SamePublishes
       DEF Money!SettleTrade, Money!RefuseTrade, Mon!SettleTrade, Mon!RefuseTrade
  <2> QED BY <2>1, <2>2 DEF Mon!TradeExecutor
<1>7. Money!LoadOrders => Mon!LoadOrders
  BY DEF Money!LoadOrders, Money!Message, Money!accounts, Money!processor,
     Mon!LoadOrders, Mon!Message, Mon!accounts, Mon!processor
<1> QED BY <1>1, <1>2, <1>3, <1>4, <1>5, <1>6, <1>7
        DEF Money!Next, Money!Api, Money!OrderProcessor, Money!TradeExecutor, Mon!Next, Mon!OrderProcessor

-----------------------------------------------------------------------------
(* The engine of Exchange is the engine of OrderBookProofs. *)

LEMMA SameAdd == ASSUME NEW o, Engine!Add(o) PROVE Eng!Add(o)
BY DEF Engine!Add, Engine!AddStop, Engine!AddOrder, Engine!UnfilledQuantity, Engine!book, Engine!stops,
   Engine!adding, Engine!topics, Eng!Add, Eng!AddStop, Eng!AddOrder, Eng!UnfilledQuantity, Eng!book, Eng!stops,
   Eng!adding, Eng!topics

LEMMA SameReceive ==
  /\ Engine!Init => Eng!Init
  /\ \A o \in AllForms : Engine!Submit(o) => Eng!Submit(o) /\ Eng!Next
  /\ \A o \in AllForms : Engine!CancelWithKey(o) => Eng!CancelWithKey(o) /\ Eng!Next
  /\ \A waiting \in SUBSET AllForms : Engine!Reload(waiting) => Eng!Reload(waiting) /\ Eng!Next
<1>1. Engine!Init => Eng!Init
  BY DEF Engine!Init, Engine!FreshWalk, Eng!Init, Eng!FreshWalk
<1>2. ASSUME NEW o, Engine!Submit(o) PROVE Eng!Submit(o)
  BY <1>2, SameAdd DEF Engine!Submit, Eng!Submit
<1>3. ASSUME NEW o, Engine!CancelWithKey(o) PROVE Eng!CancelWithKey(o)
  BY <1>3 DEF Engine!CancelWithKey, Engine!WithoutKey, Engine!stops, Engine!adding,
     Eng!CancelWithKey, Eng!WithoutKey, Eng!stops, Eng!adding
<1>4. ASSUME NEW waiting, Engine!Reload(waiting) PROVE Eng!Reload(waiting)
  BY <1>4 DEF Engine!Reload, Engine!FreshWalk, Engine!adding, Engine!topics, Eng!Reload, Eng!FreshWalk,
     Eng!adding, Eng!topics
<1> QED BY <1>1, <1>2, <1>3, <1>4 DEF Eng!Receive, Eng!Next

LEMMA SameWork == ASSUME Engine!Work PROVE Eng!Work
<1>1. ASSUME NEW o \in loading, Engine!Load(o) PROVE Eng!Load(o)
  BY <1>1, SameAdd DEF Engine!Load, Eng!Load
<1>2. ASSUME NEW c \in asks \cup bids, Engine!Fill(c) PROVE Eng!Fill(c)
  BY <1>2 DEF Engine!Fill, Engine!BestOffers, Engine!Offers, Engine!Opposite, Engine!GoesBefore,
     Engine!BetterOffer, Engine!Crosses, Engine!IsCrossed, Engine!AfterFill, Engine!Filling, Engine!Filled,
     Engine!UnfilledQuantity, Engine!Smaller, Engine!LevelOf, Engine!TradeOf, Engine!StopLoop, Engine!stops,
     Engine!adding, Engine!inputs, Eng!Fill, Eng!BestOffers, Eng!Offers, Eng!Opposite, Eng!GoesBefore,
     Eng!BetterOffer, Eng!Crosses, Eng!IsCrossed, Eng!AfterFill, Eng!Filling, Eng!Filled,
     Eng!UnfilledQuantity, Eng!Smaller, Eng!LevelOf, Eng!TradeOf, Eng!StopLoop, Eng!stops, Eng!adding, Eng!inputs
<1>3. /\ Engine!TakeNext => Eng!TakeNext
      /\ Engine!TakeSnapshot => Eng!TakeSnapshot
      /\ Engine!Finish => Eng!Finish
      /\ Engine!BeginMatch => Eng!BeginMatch
  BY DEF Engine!TakeNext, Engine!TakeSnapshot, Engine!Finish, Engine!BeginMatch, Engine!NoOfferAtAll,
     Engine!Opposite, Engine!FreshWalk, Engine!book, Engine!stops, Engine!adding, Engine!topics, Engine!inputs,
     Eng!TakeNext, Eng!TakeSnapshot, Eng!Finish, Eng!BeginMatch, Eng!NoOfferAtAll, Eng!Opposite, Eng!FreshWalk,
     Eng!book, Eng!stops, Eng!adding, Eng!topics, Eng!inputs
<1>4. Engine!SkipLevel => FALSE
  BY DEF Engine!SkipLevel
<1>5. ASSUME NEW o, Engine!PopStopBid(o) PROVE Eng!PopStopBid(o)
  BY <1>5 DEF Engine!PopStopBid, Engine!BestStops, Engine!TriggersBefore, Engine!Reached, Engine!book,
     Engine!adding, Engine!topics, Engine!inputs, Eng!PopStopBid, Eng!BestStops, Eng!TriggersBefore,
     Eng!Reached, Eng!book, Eng!adding, Eng!topics, Eng!inputs
<1>6. ASSUME NEW o, Engine!PopStopAsk(o) PROVE Eng!PopStopAsk(o)
  BY <1>6 DEF Engine!PopStopAsk, Engine!BestStops, Engine!TriggersBefore, Engine!Reached, Engine!book,
     Engine!adding, Engine!topics, Engine!inputs, Eng!PopStopAsk, Eng!BestStops, Eng!TriggersBefore,
     Eng!Reached, Eng!book, Eng!adding, Eng!topics, Eng!inputs
<1>7. /\ Engine!StopsDone => Eng!StopsDone
      /\ Engine!EndMatch => Eng!EndMatch
  BY DEF Engine!StopsDone, Engine!BestStops, Engine!TriggersBefore, Engine!Reached, Engine!EndMatch,
     Engine!WalkIsOver, Engine!Offers, Engine!Opposite, Engine!Crosses, Engine!IsCrossed, Engine!Rests,
     Engine!Filled, Engine!UnfilledQuantity, Engine!WithOrder, Engine!book, Engine!stops, Engine!adding,
     Engine!topics, Engine!inputs, Eng!StopsDone, Eng!BestStops, Eng!TriggersBefore, Eng!Reached, Eng!EndMatch,
     Eng!WalkIsOver, Eng!Offers, Eng!Opposite, Eng!Crosses, Eng!IsCrossed, Eng!Rests, Eng!Filled,
     Eng!UnfilledQuantity, Eng!WithOrder, Eng!book, Eng!stops, Eng!adding, Eng!topics, Eng!inputs
<1> QED BY <1>1, <1>2, <1>3, <1>4, <1>5, <1>6, <1>7 DEF Engine!Work, Eng!Work

-----------------------------------------------------------------------------
(* The constants of Exchange are what the two sides assume theirs to be. *)

LEMMA MoneyConstants ==
  /\ Scale \in Nat \ {0}
  /\ Details \in [Orders -> Mon!OrderDetails]
  /\ \A i \in Orders : Mon!LockedInFull(Details[i])
  /\ Funds \in [Mon!Accounts -> Nat]
  /\ Prices \subseteq Nat /\ Volumes \subseteq Nat
  /\ Fake \notin Orders /\ None \notin Orders
  /\ Mon!IsFiniteSet(Orders) /\ Mon!IsFiniteSet(Members)
  /\ MaxFaults \in Nat
<1>1. Mon!IsFiniteSet(Orders) /\ Mon!IsFiniteSet(Members)
  BY TablesAssumption DEF IsFiniteSet, Mon!IsFiniteSet
<1> QED
  BY <1>1, OrdersAssumption, DetailsAssumption, FundsAssumption, TradesAssumption, BoundsAssumption
  DEF Money!OrderDetails, Mon!OrderDetails, Money!LockedInFull, Mon!LockedInFull, Money!Accounts,
      Mon!Accounts, Money!Currencies, Mon!Currencies

\* The row of an order, seen from both sides.
LEMMA RowOfOrder ==
  ASSUME NEW i \in Orders
  PROVE  /\ i \in Nat /\ StopPrices[i] \in Nat
         /\ Details[i].side \in {"buy", "sell"} /\ Details[i].type \in {"limit", "market"}
         /\ Details[i].price \in Nat /\ Details[i].quantity \in Nat
BY OrdersAssumption, DetailsAssumption DEF Money!OrderDetails

\* A message whose fills fit its order carries an order the engine may be given.
LEMMA FormIsSubmission ==
  ASSUME NEW m \in Mon!Bounded
  PROVE  Form(m) \in AllForms /\ Form(m).id = m.id
<1>1. m.id \in Orders /\ m.filled \in 0 .. Details[m.id].quantity /\ m.cancelled \in BOOLEAN
  BY DEF Mon!Bounded, Mon!Messages
<1>2. Form(m) = Form([id |-> m.id, filled |-> m.filled, cancelled |-> m.cancelled])
  BY DEF Form
<1>3. Form(m) \in {Form([id |-> m.id, filled |-> f, cancelled |-> c]) :
                     f \in 0 .. Details[m.id].quantity, c \in BOOLEAN}
  BY <1>1, <1>2
<1>4. Form(m) \in AllForms  BY <1>1, <1>3 DEF AllForms
<1>5. Form(m).id = m.id  BY DEF Form
<1> QED BY <1>4, <1>5

LEMMA FormRecord ==
  ASSUME NEW o \in AllForms
  PROVE  o = [id |-> o.id, side |-> o.side, type |-> o.type, price |-> o.price, stop |-> o.stop,
              quantity |-> o.quantity, filled |-> o.filled, cancelled |-> o.cancelled,
              fake |-> o.fake, at |-> o.at]
BY DEF AllForms, Form

LEMMA FormFields ==
  ASSUME NEW o \in AllForms
  PROVE  /\ o.id \in Orders /\ o.filled \in 0 .. Details[o.id].quantity /\ o.cancelled \in BOOLEAN
         /\ o.side = Details[o.id].side /\ o.type = Details[o.id].type /\ o.price = Details[o.id].price
         /\ o.stop = StopPrices[o.id] /\ o.quantity = Details[o.id].quantity /\ o.at = o.id
         /\ o.fake = FALSE
<1>1. PICK i \in Orders : \E f \in 0 .. Details[i].quantity, c \in BOOLEAN :
        o = Form([id |-> i, filled |-> f, cancelled |-> c])
  BY DEF AllForms
<1> QED BY <1>1 DEF Form

LEMMA EngineConstants ==
  /\ Orders \subseteq Nat
  /\ AllForms \subseteq Eng!Order
  /\ \A o \in AllForms : Eng!WellFormed(o)
  /\ \A o, s \in AllForms : o.id = s.id => Eng!SameOrder(o, s)
  /\ SUBSET AllForms \subseteq SUBSET AllForms
  /\ StartPrices \subseteq Nat
  /\ NoOrder \notin Eng!Order
  /\ TRUE \in BOOLEAN /\ MaxDeliveries \in Nat /\ Readings \in Nat
  /\ 2 \in Nat \ {0} /\ 2 % 2 = 0
<1>1. ASSUME NEW o \in AllForms PROVE o \in Eng!Order /\ Eng!WellFormed(o)
  <2>1. o.id \in Orders  BY FormFields
  <2>2. o = [id |-> o.id, side |-> o.side, type |-> o.type, price |-> o.price, stop |-> o.stop,
             quantity |-> o.quantity, filled |-> o.filled, cancelled |-> o.cancelled, fake |-> o.fake,
             at |-> o.at]
    BY FormRecord
  <2>3. /\ o.side \in {"buy", "sell"} /\ o.type \in {"limit", "market"} /\ o.price \in Nat /\ o.stop \in Nat
        /\ o.quantity \in Nat /\ o.filled \in Nat /\ o.cancelled \in BOOLEAN /\ o.fake \in BOOLEAN
        /\ o.at \in Nat
    <3>1. /\ o.side = Details[o.id].side /\ o.type = Details[o.id].type /\ o.price = Details[o.id].price
          /\ o.stop = StopPrices[o.id] /\ o.quantity = Details[o.id].quantity /\ o.at = o.id
          /\ o.filled \in 0 .. Details[o.id].quantity
      BY FormFields
    <3>2. o.cancelled \in BOOLEAN /\ o.fake \in BOOLEAN
      BY FormFields
    <3> QED BY <2>1, <3>1, <3>2, RowOfOrder
  <2>4. o \in Eng!Order  BY <2>1, <2>2, <2>3 DEF Eng!Order, Eng!Sides
  <2>5. Eng!WellFormed(o)
    <3>1. IF Details[o.id].type = "limit" THEN Details[o.id].price > 0
          ELSE Details[o.id].price = 0 /\ StopPrices[o.id] = 0
      BY <2>1, DetailsAssumption
    <3>2. o.filled <= o.quantity
      <4>1. o.filled \in 0 .. Details[o.id].quantity /\ o.quantity = Details[o.id].quantity
        BY FormFields
      <4>2. Details[o.id].quantity \in Nat  BY <2>1, RowOfOrder
      <4> QED BY <4>1, <4>2
    <3>3. o.type = Details[o.id].type /\ o.price = Details[o.id].price /\ o.stop = StopPrices[o.id]
      BY FormFields
    <3> QED BY <3>1, <3>2, <3>3 DEF Eng!WellFormed
  <2> QED BY <2>4, <2>5
<1>2. ASSUME NEW o \in AllForms, NEW s \in AllForms, o.id = s.id PROVE Eng!SameOrder(o, s)
  BY <1>2, FormFields DEF Eng!SameOrder
<1>3. NoOrder \notin Eng!Order
  BY NoOrderAssumption DEF Engine!Order, Engine!Sides, Eng!Order, Eng!Sides
<1>4. Readings \in Nat
  BY BoundsAssumption DEF Readings
<1> QED BY <1>1, <1>2, <1>3, <1>4, OrdersAssumption, TradesAssumption, BoundsAssumption

LEMMA EngineKeeps == ASSUME Eng!PublishesFairly, [Eng!Next]_(Eng!vars) PROVE Eng!PublishesFairly'
BY EngineConstants, Eng!FairNext

LEMMA MoneyKeeps == ASSUME Mon!IInv, [Mon!Next]_(Mon!vars) PROVE Mon!IInv'
BY MoneyConstants, Mon!LimitsNext

-----------------------------------------------------------------------------
(* What connects the two sides. *)

\* What may stand in the matching topic: a submit is of an order that was announced.
Entries == [action: {"submit", "cancel"}, order: Mon!Bounded] \cup [action: {"reload"}]

Known == {e \in Entries : e.action = "submit" => Money!Announced(e.order.id)}

\* The engine has only orders that were announced, and no message has more fills than
\* its order has volume.
TopicsSound ==
  /\ matchingTopic \in Seq(Known) /\ inbox \in Seq(Known)
  /\ producing # None => producing \in Mon!Bounded
  /\ \A i \in Orders : received[i] > 0 => Money!Announced(i)
  /\ \A o \in loading : Money!Announced(o.id)
  /\ executed \in Nat /\ submitsRead \in Nat /\ cancelsRead \in Nat

Sound == Eng!PublishesFairly /\ Mon!IInv /\ TopicsSound

LEMMA SoundInit == Init => Sound
<1> SUFFICES ASSUME Init PROVE Sound
  OBVIOUS
<1>1. Eng!PublishesFairly
  <2>1. Eng!Init  BY SameReceive DEF Init
  <2> QED BY <2>1, EngineConstants, Eng!FairInit
<1>2. Mon!IInv
  <2>1. Mon!SubmittedInit
    BY DEF Init, Money!SubmittedInit, Money!FreshRow, Money!Accounts, Money!Currencies, Mon!SubmittedInit,
       Mon!FreshRow, Mon!Accounts, Mon!Currencies
  <2> QED BY <2>1, MoneyConstants, Mon!SubmittedIsSound
<1>3. TopicsSound
  BY DEF Init, Engine!Init, Money!SubmittedInit, TopicsSound
<1> QED BY <1>1, <1>2, <1>3 DEF Sound

LEMMA AnnouncedStays ==
  ASSUME TopicsSound, announced \subseteq announced'
  PROVE  /\ \A i : Money!Announced(i) => Money!Announced(i)'
         /\ matchingTopic \in Seq(Known') /\ inbox \in Seq(Known')
         /\ Known \subseteq Known'
<1>1. \A i : Money!Announced(i) => Money!Announced(i)'
  BY DEF Money!Announced
<1>2. Known \subseteq Known'
  BY <1>1 DEF Known, Entries
<1>3. matchingTopic \in Seq(Known) /\ inbox \in Seq(Known)  BY DEF TopicsSound
<1>4. matchingTopic \in Seq(Known') /\ inbox \in Seq(Known')
  BY <1>2, <1>3
<1> QED BY <1>1, <1>2, <1>4

\* The row of an order as a message.
LEMMA RowAsMessage ==
  ASSUME Mon!IInv, NEW i \in Orders
  PROVE  Money!Message(i, rows[i]) \in Mon!Bounded /\ Money!Message(i, rows[i]).id = i
<1>1. rows[i] \in Mon!Row /\ rows[i].volume <= Details[i].quantity
  BY DEF Mon!IInv, Mon!TypeOK, Mon!RowsSound, Mon!Sound
<1> QED BY <1>1, SameOrders, MoneyConstants, Mon!MessageIsBounded

\* The next message.
LEMMA HeadIsKnown ==
  ASSUME TopicsSound, inbox # <<>>
  PROVE  /\ Head(inbox) \in Known /\ Tail(inbox) \in Seq(Known)
         /\ Head(inbox).action \in {"submit", "cancel"} => Head(inbox).order \in Mon!Bounded
<1>1. Head(inbox) \in Known /\ Tail(inbox) \in Seq(Known)
  BY DEF TopicsSound
<1> QED BY <1>1 DEF Known, Entries

\* The trade the executor reads is one Settlement counts with.
LEMMA NextTradeIsPublished ==
  ASSUME Sound, executed < Len(tradeTopic)
  PROVE  NextTrade \in Mon!Payload /\ Mon!EnginePublishes(NextTrade)
<1> DEFINE k == executed + 1
           t == NextTrade
<1>1. k \in 1 .. Len(tradeTopic) /\ t = tradeTopic[k] /\ tradeTopic \in Seq(Eng!Trade)
  BY DEF Sound, TopicsSound, Eng!PublishesFairly, Eng!TypeOK, NextTrade
<1>2. Eng!FairTrade(t) /\ Eng!Accepts(t.maker, t.price) /\ Eng!Accepts(t.taker, t.price)
  BY <1>1 DEF Sound, Eng!PublishesFairly, Eng!TradesFair, Eng!TradesWithinLimits
<1>3. t = [maker |-> t.maker, taker |-> t.taker, price |-> t.price, quantity |-> t.quantity]
      /\ t.maker \in Orders /\ t.taker \in Orders /\ t.price \in Nat
  <2>1. t \in Eng!Trade  BY <1>1
  <2> HIDE DEF t
  <2> QED BY <2>1 DEF Eng!Trade
<1> HIDE DEF t
<1>4. PICK s \in AllForms, r \in AllForms :
        /\ s.id = t.maker /\ r.id = t.taker /\ s.side # r.side
        /\ t.quantity \in 1 .. s.quantity
        /\ \E c \in {s, r} : c.type = "limit" /\ t.price = c.price
  BY <1>2 DEF Eng!FairTrade
<1>5. t.price \in Prices
  <2>1. PICK c \in {s, r} : c.type = "limit" /\ t.price = c.price  BY <1>4
  <2>2. c.id \in Orders /\ Details[c.id].type = "limit" /\ t.price = Details[c.id].price
    BY <2>1, FormFields
  <2> QED BY <2>2, TradesAssumption
<1>6. t.quantity \in Volumes
  BY <1>3, <1>4, FormFields, TradesAssumption
<1>7. t \in Mon!Payload
  BY <1>3, <1>5, <1>6 DEF Mon!Payload
<1>8. Mon!Real(t) = {t.maker, t.taker}
  BY <1>3, OrdersAssumption DEF Mon!Real
<1>9. ASSUME NEW i \in {t.maker, t.taker} PROVE Mon!Announced(i) /\ Mon!Accepts(i, t.price)
  <2>1. i \in Orders /\ received[i] > 0 /\ Eng!Accepts(i, t.price)
    BY <1>2, <1>3 DEF Eng!FairTrade
  <2>2. Mon!Announced(i)
    BY <2>1 DEF Sound, TopicsSound, Money!Announced, Mon!Announced
  <2>3. PICK o \in AllForms : o.id = i /\ (o.type = "limit" => Eng!IsCrossed(o, t.price))
    BY <2>1 DEF Eng!Accepts
  <2>4. o.side = Details[i].side /\ o.type = Details[i].type /\ o.price = Details[i].price
    BY <2>3, FormFields
  <2>5. Mon!Accepts(i, t.price)
    BY <2>3, <2>4 DEF Eng!IsCrossed, Mon!Accepts, Mon!IsLimit, Mon!IsBuy
  <2> QED BY <2>2, <2>5
<1>10. Mon!IsBuy(t.maker) # Mon!IsBuy(t.taker)
  <2>1. Details[t.maker].side = s.side /\ Details[t.taker].side = r.side  BY <1>4, FormFields
  <2>2. Details[t.maker].side \in {"buy", "sell"} /\ Details[t.taker].side \in {"buy", "sell"}
    BY <1>3, RowOfOrder
  <2> QED BY <1>4, <2>1, <2>2 DEF Mon!IsBuy
<1>11. Mon!EnginePublishes(t)
  BY <1>8, <1>9, <1>10 DEF Mon!EnginePublishes
<1> QED BY <1>7, <1>11 DEF t

-----------------------------------------------------------------------------
(* One step of the whole. *)

Fits == [Eng!Next]_(Eng!vars) /\ [Money!Next]_moneyVars /\ TopicsSound'

\* Nothing but the matching topic has changed, by a message that may stand there.
LEMMA ClientsFit ==
  ASSUME Sound, (\E i \in Orders : RequestCancel(i)) \/ RequestReload
  PROVE  Fits
<1>1. \E e \in Known : Produce(e)
  <2>1. ASSUME NEW i \in Orders, RequestCancel(i) PROVE \E e \in Known : Produce(e)
    <3>1. Money!Message(i, rows[i]) \in Mon!Bounded  BY RowAsMessage DEF Sound
    <3>2. [action |-> "cancel", order |-> Money!Message(i, rows[i])] \in Known
      BY <3>1 DEF Known, Entries
    <3> QED BY <2>1, <3>2 DEF RequestCancel
  <2>2. [action |-> "reload"] \in Known  BY DEF Known, Entries
  <2> QED BY <2>1, <2>2 DEF RequestReload
<1>2. UNCHANGED <<engineVars, moneyVars, submitsRead, cancelsRead, executed>>
  BY DEF RequestCancel, RequestReload, Fault, Produce, processorRead, executorRead
<1>3. UNCHANGED <<Eng!vars, producing, received, loading, announced>>
  BY <1>2 DEF engineVars, moneyVars, Eng!vars
<1>4. TopicsSound  BY DEF Sound
<1>5. Known \subseteq Known' /\ matchingTopic \in Seq(Known') /\ inbox \in Seq(Known')
  BY <1>3, <1>4, AnnouncedStays
<1>6. matchingTopic' \in Seq(Known') /\ inbox' \in Seq(Known')  BY <1>1, <1>5 DEF Produce
<1>7. TopicsSound'
  BY <1>2, <1>3, <1>4, <1>6 DEF TopicsSound, Money!Announced
<1> QED BY <1>2, <1>3, <1>7 DEF Fits

LEMMA ReadSubmitFits == ASSUME Sound, ReadSubmit PROVE Fits
<1> DEFINE m == Head(inbox).order
<1>1. /\ inbox # <<>> /\ Head(inbox).action = "submit" /\ inbox' = Tail(inbox) /\ Engine!Submit(Form(m))
      /\ UNCHANGED <<moneyVars, matchingTopic, submitsRead, cancelsRead, executed>>
  BY DEF ReadSubmit, Read, processorRead, executorRead
<1>2. TopicsSound  BY DEF Sound
<1>3. m \in Mon!Bounded /\ Head(inbox) \in Known /\ Tail(inbox) \in Seq(Known)
  BY <1>1, <1>2, HeadIsKnown
<1>4. Money!Announced(m.id)
  BY <1>1, <1>3 DEF Known
<1> HIDE DEF m
<1>5. Form(m) \in AllForms /\ Form(m).id = m.id /\ m.id \in Orders
  BY <1>3, FormIsSubmission DEF Mon!Bounded, Mon!Messages
<1>6. Eng!Submit(Form(m)) /\ Eng!Next
  BY <1>1, <1>5, SameReceive
<1>7. /\ received \in [Orders -> Nat] /\ UNCHANGED loading
      /\ received' = [received EXCEPT ![m.id] = @ + 1]
  BY <1>5, <1>6 DEF Eng!Submit, Eng!Add, Sound, Eng!PublishesFairly, Eng!TypeOK
<1>8. UNCHANGED <<producing, announced>>
  BY <1>1 DEF moneyVars
<1>9. Known' = Known
  BY <1>8 DEF Known, Money!Announced
<1>10. TopicsSound'
  <2>1. matchingTopic' \in Seq(Known') /\ inbox' \in Seq(Known')  BY <1>1, <1>2, <1>3, <1>9 DEF TopicsSound
  <2>2. \A i \in Orders : received'[i] > 0 => Money!Announced(i)'
    BY <1>2, <1>4, <1>7, <1>8 DEF TopicsSound, Money!Announced
  <2> QED BY <1>1, <1>2, <1>7, <1>8, <2>1, <2>2 DEF TopicsSound, Money!Announced
<1> QED BY <1>1, <1>6, <1>10 DEF Fits

LEMMA ReadCancelFits == ASSUME Sound, ReadCancel PROVE Fits
<1> DEFINE m == Head(inbox).order
<1>1. /\ inbox # <<>> /\ Head(inbox).action = "cancel" /\ inbox' = Tail(inbox) /\ Engine!CancelWithKey(Form(m))
      /\ UNCHANGED <<moneyVars, matchingTopic, submitsRead, cancelsRead, executed>>
  BY DEF ReadCancel, Read, processorRead, executorRead
<1>2. TopicsSound  BY DEF Sound
<1>3. m \in Mon!Bounded /\ Tail(inbox) \in Seq(Known)
  BY <1>1, <1>2, HeadIsKnown
<1> HIDE DEF m
<1>4. Form(m) \in AllForms
  BY <1>3, FormIsSubmission
<1>5. Eng!CancelWithKey(Form(m)) /\ Eng!Next
  BY <1>1, <1>4, SameReceive
<1>6. UNCHANGED <<received, loading>>
  BY <1>5 DEF Eng!CancelWithKey
<1>7. UNCHANGED <<producing, announced>>
  BY <1>1 DEF moneyVars
<1>8. Known' = Known
  BY <1>7 DEF Known, Money!Announced
<1>9. TopicsSound'
  BY <1>1, <1>2, <1>3, <1>6, <1>7, <1>8 DEF TopicsSound, Money!Announced
<1> QED BY <1>1, <1>5, <1>9 DEF Fits

LEMMA LoadOrdersFit ==
  ASSUME Sound, LoadOrders, UNCHANGED matchingTopic, inbox' \in {<<>>, Tail(inbox)}, inbox' = <<>> \/ inbox # <<>>
  PROVE  Fits
<1> DEFINE waiting == {Form(Money!Message(i, rows[i])) : i \in Waiting}
<1>1. /\ Engine!Reload(waiting) /\ Money!LoadOrders
      /\ UNCHANGED <<submitsRead, cancelsRead, executed>>
  BY DEF LoadOrders, processorRead, executorRead
<1>2. TopicsSound  BY DEF Sound
<1>3. \A i \in Waiting : /\ Money!Message(i, rows[i]) \in Mon!Bounded /\ Money!Message(i, rows[i]).id = i
                        /\ Money!Message(i, rows[i]) \in announced'
  BY <1>1, RowAsMessage DEF Sound, Waiting, Money!LoadOrders
<1>4. waiting \in SUBSET AllForms
  BY <1>3, FormIsSubmission
<1>5. \A o \in waiting : Money!Announced(o.id)'
  BY <1>3, FormIsSubmission DEF Money!Announced
<1> HIDE DEF waiting
<1>6. Eng!Reload(waiting) /\ Eng!Next
  BY <1>1, <1>4, SameReceive
<1>7. loading' = waiting /\ UNCHANGED received
  BY <1>6 DEF Eng!Reload
<1>8. announced \subseteq announced' /\ UNCHANGED producing
  BY <1>1 DEF Money!LoadOrders, Money!processor
<1>9. /\ matchingTopic' \in Seq(Known') /\ inbox' \in Seq(Known')
      /\ \A i : Money!Announced(i) => Money!Announced(i)'
  <2>1. /\ matchingTopic \in Seq(Known') /\ inbox \in Seq(Known')
        /\ \A i : Money!Announced(i) => Money!Announced(i)'
    BY <1>2, <1>8, AnnouncedStays
  <2>2. inbox # <<>> => Tail(inbox) \in Seq(Known')
    BY <2>1
  <2>3. <<>> \in Seq(Known')
    OBVIOUS
  <2> QED BY <2>1, <2>2, <2>3
<1>10. TopicsSound'
  BY <1>1, <1>2, <1>5, <1>7, <1>8, <1>9 DEF TopicsSound
<1>11. Money!Next  BY <1>1 DEF Money!Next
<1> QED BY <1>6, <1>10, <1>11 DEF Fits

LEMMA ReadReloadFits == ASSUME Sound, ReadReload PROVE Fits
BY LoadOrdersFit DEF ReadReload, Read

LEMMA RestartEngineFits == ASSUME Sound, RestartEngine PROVE Fits
BY LoadOrdersFit DEF RestartEngine

LEMMA JoinFits == ASSUME Sound, Join PROVE Fits
<1>1. /\ UNCHANGED <<engineVars, moneyVars, matchingTopic, submitsRead, cancelsRead, executed>>
      /\ inbox' = matchingTopic \/ inbox' = <<>>
  BY DEF Join, processorRead, executorRead
<1>2. UNCHANGED <<Eng!vars, producing, received, loading, announced>>
  BY <1>1 DEF engineVars, moneyVars, Eng!vars
<1>3. Known' = Known
  BY <1>2 DEF Known, Money!Announced
<1>4. TopicsSound'
  <2>1. TopicsSound  BY DEF Sound
  <2>2. matchingTopic' \in Seq(Known') /\ inbox' \in Seq(Known')
    <3>1. matchingTopic \in Seq(Known') /\ <<>> \in Seq(Known')
      BY <1>3, <2>1 DEF TopicsSound
    <3> QED BY <1>1, <3>1
  <2> QED BY <1>1, <1>2, <2>1, <2>2 DEF TopicsSound, Money!Announced
<1> QED BY <1>1, <1>2, <1>4 DEF Fits

LEMMA MatchFits == ASSUME Sound, Match PROVE Fits
<1>1. Eng!Work /\ UNCHANGED <<moneyVars, matchingTopic, inbox, submitsRead, cancelsRead, executed>>
  BY SameWork DEF Match, matching, processorRead, executorRead
<1>2. TopicsSound /\ received \in [Orders -> Nat]  BY DEF Sound, Eng!PublishesFairly, Eng!TypeOK
<1>3. UNCHANGED <<producing, announced>>
  BY <1>1 DEF moneyVars
<1>4. loading \subseteq AllForms  BY DEF Sound, Eng!PublishesFairly, Eng!TypeOK
<1>5. /\ loading' \subseteq loading
      /\ \A i \in Orders : received'[i] > 0 => received[i] > 0 \/ \E o \in loading : o.id = i
  <2>1. ASSUME NEW o \in loading, Eng!Load(o)
        PROVE  loading' \subseteq loading /\ \A i \in Orders : i # o.id => received'[i] = received[i]
    <3>1. loading' = loading \ {o} /\ received' = [received EXCEPT ![o.id] = @ + 1]
      BY <2>1 DEF Eng!Load, Eng!Add
    <3> QED BY <1>2, <3>1
  <2>2. (\E o \in loading : Eng!Load(o)) \/ UNCHANGED <<loading, received>>
    BY <1>1 DEF Eng!Work, Eng!TakeNext, Eng!TakeSnapshot, Eng!Finish, Eng!BeginMatch, Eng!Fill, Eng!SkipLevel,
       Eng!PopStopBid, Eng!PopStopAsk, Eng!StopsDone, Eng!EndMatch, Eng!inputs
  <2> QED BY <2>1, <2>2
<1>6. Known' = Known
  BY <1>3 DEF Known, Money!Announced
<1>7. TopicsSound'
  <2>1. \A i \in Orders : received'[i] > 0 => Money!Announced(i)'
    BY <1>2, <1>3, <1>5 DEF TopicsSound, Money!Announced
  <2>2. \A o \in loading' : Money!Announced(o.id)'
    BY <1>2, <1>3, <1>5 DEF TopicsSound, Money!Announced
  <2> QED BY <1>1, <1>2, <1>3, <1>6, <2>1, <2>2 DEF TopicsSound
<1> QED BY <1>1, <1>7 DEF Fits, Eng!Next

LEMMA SubmitFits ==
  ASSUME Sound, HandleSubmit \/ \E i \in Orders : SubmitAtStart(i)
  PROVE  Fits
<1>1. PICK i \in Orders : Money!HandleSubmit(i) \/ Money!SubmitAtStart(i)
  <2>1. HandleSubmit => Submits[submitsRead + 1] \in Orders
    BY SubmitsAssumption DEF HandleSubmit, Sound, TopicsSound
  <2> QED BY <2>1 DEF HandleSubmit, SubmitAtStart
<1>2. /\ UNCHANGED <<engineVars, matchingTopic, inbox, cancelsRead, executed>>
      /\ submitsRead' = submitsRead \/ submitsRead' = submitsRead + 1
  BY DEF HandleSubmit, SubmitAtStart, matching, processorRead, executorRead
<1>3. TopicsSound  BY DEF Sound
<1>4. Money!SubmitOrder(i)
  BY <1>1 DEF Money!HandleSubmit, Money!SubmitAtStart
<1>5. /\ UNCHANGED announced
      /\ producing' = producing \/ producing' = Money!Message(i, rows[i])
  BY <1>4 DEF Money!SubmitOrder, Money!ToEngine
<1>6. producing' # None => producing' \in Mon!Bounded
  BY <1>3, <1>5, RowAsMessage DEF Sound, TopicsSound
<1>7. UNCHANGED <<Eng!vars, received, loading>>
  BY <1>2 DEF engineVars, Eng!vars
<1>8. Known' = Known
  BY <1>5 DEF Known, Money!Announced
<1>9. TopicsSound'
  BY <1>2, <1>3, <1>5, <1>6, <1>7, <1>8 DEF TopicsSound, Money!Announced
<1>10. Money!Next  BY <1>1 DEF Money!Next, Money!OrderProcessor
<1> QED BY <1>7, <1>9, <1>10 DEF Fits

LEMMA HandleCancelFits == ASSUME Sound, HandleCancel PROVE Fits
<1> DEFINE i == processorTopic[cancelsRead + 1]
<1>1. i \in Orders
  BY DEF HandleCancel, Sound, TopicsSound, Eng!PublishesFairly, Eng!TypeOK
<1>2. /\ UNCHANGED <<engineVars, matchingTopic, inbox, submitsRead, executed>> /\ cancelsRead' = cancelsRead + 1
      /\ Money!HandleCancel(i) \/ UNCHANGED moneyVars
  BY DEF HandleCancel, CancelOrPass, matching, executorRead
<1> HIDE DEF i
<1>3. [Money!Next]_moneyVars
  BY <1>1, <1>2 DEF Money!Next, Money!OrderProcessor
<1>4. UNCHANGED <<producing, announced>>
  BY <1>2 DEF Money!HandleCancel, Money!processor, moneyVars
<1>5. UNCHANGED <<Eng!vars, received, loading>>
  BY <1>2 DEF engineVars, Eng!vars
<1>6. Known' = Known
  BY <1>4 DEF Known, Money!Announced
<1>7. TopicsSound'
  BY <1>2, <1>4, <1>5, <1>6 DEF Sound, TopicsSound, Money!Announced
<1> QED BY <1>3, <1>5, <1>7 DEF Fits

LEMMA ProduceMatchingFits == ASSUME Sound, ProduceMatching PROVE Fits
<1>1. /\ Money!ProduceMatching /\ inbox' = Append(inbox, Submission(producing))
      /\ matchingTopic' = Append(matchingTopic, Submission(producing))
      /\ UNCHANGED <<engineVars, submitsRead, cancelsRead, executed>>
  BY DEF ProduceMatching, Produce, processorRead, executorRead
<1>2. TopicsSound  BY DEF Sound
<1>3. PICK m \in Mon!Bounded : m = producing
  BY <1>1, <1>2 DEF Money!ProduceMatching, TopicsSound
<1>4. producing' = None /\ announced' = announced \cup {m}
  BY <1>1, <1>3 DEF Money!ProduceMatching
<1>5. /\ \A i : Money!Announced(i) => Money!Announced(i)'
      /\ matchingTopic \in Seq(Known') /\ inbox \in Seq(Known')
  BY <1>2, <1>4, AnnouncedStays
<1>6. Submission(m) \in Known'
  <2>1. Money!Announced(m.id)'  BY <1>4 DEF Money!Announced
  <2> QED BY <2>1 DEF Known, Entries, Submission
<1>7. UNCHANGED <<Eng!vars, received, loading>>
  BY <1>1 DEF engineVars, Eng!vars
<1>8. TopicsSound'
  <2>1. matchingTopic' \in Seq(Known') /\ inbox' \in Seq(Known')  BY <1>1, <1>3, <1>5, <1>6
  <2> QED BY <1>1, <1>2, <1>4, <1>5, <1>7, <2>1 DEF TopicsSound
<1>9. Money!Next  BY <1>1 DEF Money!Next, Money!OrderProcessor
<1> QED BY <1>7, <1>8, <1>9 DEF Fits

LEMMA RestartsFit == ASSUME Sound, RestartProcessor \/ RestartExecutor PROVE Fits
<1>1. /\ [Money!Next]_moneyVars /\ UNCHANGED <<engineVars, matchingTopic, inbox, announced>>
      /\ producing' = None \/ producing' = producing
  BY DEF RestartProcessor, RestartExecutor, matching, Money!Restart, Money!Next, Money!OrderProcessor,
     moneyVars
<1>2. executed' \in Nat /\ submitsRead' \in Nat /\ cancelsRead' \in Nat
  <2>1. executed \in Nat /\ submitsRead \in Nat /\ cancelsRead \in Nat
        /\ Len(tradeTopic) \in Nat /\ Len(processorTopic) \in Nat /\ Len(Submits) \in Nat
    BY SubmitsAssumption DEF Sound, TopicsSound, Eng!PublishesFairly, Eng!TypeOK
  <2> QED BY <2>1 DEF RestartProcessor, RestartExecutor, processorRead, executorRead
<1>3. UNCHANGED <<Eng!vars, received, loading>>
  BY <1>1 DEF engineVars, Eng!vars
<1>4. Known' = Known
  BY <1>1 DEF Known, Money!Announced
<1>5. TopicsSound'
  BY <1>1, <1>2, <1>3, <1>4 DEF Sound, TopicsSound, Money!Announced
<1> QED BY <1>1, <1>3, <1>5 DEF Fits

LEMMA SettleFits == ASSUME Sound, SettleTrade PROVE Fits
<1>1. /\ executed < Len(tradeTopic) /\ Money!Settle(NextTrade) /\ executed' = executed + 1
      /\ UNCHANGED <<engineVars, matchingTopic, inbox, submitsRead, cancelsRead>>
  BY DEF SettleTrade, matching, processorRead
<1>2. Money!Next
  <2>1. NextTrade \in Money!Payload /\ Money!EnginePublishes(NextTrade)
    BY <1>1, NextTradeIsPublished, SamePublishes DEF Money!Payload, Mon!Payload
  <2> QED BY <1>1, <2>1 DEF Money!Next, Money!TradeExecutor, Money!SettleTrade
<1>3. UNCHANGED <<producing, announced>>
  BY <1>1 DEF Money!Settle, Money!processor
<1>4. UNCHANGED <<Eng!vars, received, loading>>
  BY <1>1 DEF engineVars, Eng!vars
<1>5. Known' = Known
  BY <1>3 DEF Known, Money!Announced
<1>6. TopicsSound'
  BY <1>1, <1>3, <1>4, <1>5 DEF Sound, TopicsSound, Money!Announced
<1> QED BY <1>2, <1>4, <1>6 DEF Fits

\* What is handed back, in its order, is submits of orders announced with them.
LEMMA ToHandBackIsKnown ==
  ASSUME NEW t, Money!HandedBack(t) \subseteq Mon!Bounded,
         \A m \in Money!HandedBack(t) : Money!Announced(m.id)'
  PROVE  ToHandBack(t) \in Seq(Known')
<1> DEFINE of(i) == {m \in Money!HandedBack(t) : m.id = i}
           one(S) == IF S = {} THEN <<>> ELSE <<Submission(CHOOSE m \in S : TRUE)>>
<1>1. ASSUME NEW i PROVE one(of(i)) \in Seq(Known')
  <2>1. CASE of(i) = {}  BY <2>1
  <2>2. CASE of(i) # {}
    <3>1. (CHOOSE m \in of(i) : TRUE) \in Money!HandedBack(t)  BY <2>2
    <3>2. Submission(CHOOSE m \in of(i) : TRUE) \in Known'
      BY <3>1 DEF Known, Entries, Submission
    <3> QED BY <2>2, <3>2
  <2> QED BY <2>1, <2>2
<1>2. ToHandBack(t) = one(of(t.maker)) \o one(of(t.taker))
  BY DEF ToHandBack, InOrder
<1> HIDE DEF of, one
<1> QED BY <1>1, <1>2

LEMMA RefuseFits == ASSUME Sound, RefuseTrade PROVE Fits
<1>1. /\ executed < Len(tradeTopic) /\ Money!Refuse(NextTrade) /\ executed' = executed + 1
      /\ inbox' = inbox \o ToHandBack(NextTrade)
      /\ matchingTopic' = matchingTopic \o ToHandBack(NextTrade)
      /\ UNCHANGED <<engineVars, submitsRead, cancelsRead>>
  BY DEF RefuseTrade, processorRead
<1>2. TopicsSound  BY DEF Sound
<1>3. NextTrade \in Mon!Payload /\ Mon!EnginePublishes(NextTrade)
  BY <1>1, NextTradeIsPublished
<1>4. Money!Next
  <2>1. NextTrade \in Money!Payload /\ Money!EnginePublishes(NextTrade)
    BY <1>3, SamePublishes DEF Money!Payload, Mon!Payload
  <2> QED BY <1>1, <2>1 DEF Money!Next, Money!TradeExecutor, Money!RefuseTrade
<1>5. /\ UNCHANGED producing
      /\ announced' = announced \cup Money!HandedBack(NextTrade)
  BY <1>1 DEF Money!Refuse, Money!processor
<1>6. Money!HandedBack(NextTrade) \subseteq Mon!Bounded
  <2>1. Mon!HandedBack(NextTrade) \subseteq Mon!Bounded
    BY <1>3, MoneyConstants, Mon!HandedBackIsBounded DEF Sound
  <2> QED BY <2>1, SameRefuse
<1>7. /\ \A i : Money!Announced(i) => Money!Announced(i)'
      /\ matchingTopic \in Seq(Known') /\ inbox \in Seq(Known')
  BY <1>2, <1>5, AnnouncedStays
<1>8. ToHandBack(NextTrade) \in Seq(Known')
  <2>1. \A m \in Money!HandedBack(NextTrade) : Money!Announced(m.id)'
    BY <1>5 DEF Money!Announced
  <2> QED BY <1>6, <2>1, ToHandBackIsKnown
<1>9. UNCHANGED <<Eng!vars, received, loading>>
  BY <1>1 DEF engineVars, Eng!vars
<1>10. TopicsSound'
  <2>1. matchingTopic' \in Seq(Known') /\ inbox' \in Seq(Known')  BY <1>1, <1>7, <1>8
  <2> QED BY <1>1, <1>2, <1>5, <1>7, <1>9, <2>1 DEF TopicsSound
<1> QED BY <1>4, <1>9, <1>10 DEF Fits

LEMMA StepFits == ASSUME Sound, [Next]_vars PROVE Fits
<1>1. CASE UNCHANGED vars
  <2>1. UNCHANGED <<engineVars, moneyVars, matchingTopic, inbox, submitsRead, cancelsRead, executed>>
    BY <1>1 DEF vars, matching, processorRead, executorRead
  <2>2. UNCHANGED <<Eng!vars, producing, received, loading, announced>>
    BY <2>1 DEF engineVars, moneyVars, Eng!vars
  <2>3. Known' = Known
    BY <2>2 DEF Known, Money!Announced
  <2>4. TopicsSound'
    BY <2>1, <2>2, <2>3 DEF Sound, TopicsSound, Money!Announced
  <2> QED BY <2>1, <2>2, <2>4 DEF Fits
<1> QED
  BY <1>1, ClientsFit, ReadSubmitFits, ReadCancelFits, ReadReloadFits, RestartEngineFits, JoinFits,
     MatchFits, SubmitFits, HandleCancelFits, ProduceMatchingFits, RestartsFit, SettleFits, RefuseFits
  DEF Next, Work

LEMMA SoundStep == Sound /\ [Next]_vars => Sound'
<1> SUFFICES ASSUME Sound, [Next]_vars PROVE Sound'
  OBVIOUS
<1>1. Fits  BY StepFits
<1>2. [Mon!Next]_(Mon!vars)
  BY <1>1, SameNext DEF Fits, moneyVars, Mon!vars
<1> QED BY <1>1, <1>2, EngineKeeps, MoneyKeeps DEF Sound, Fits

-----------------------------------------------------------------------------
(* The theorems. *)

\* Whatever the three processes do and however their messages, cancels, reloads and restarts
\* interleave, every step is one Settlement allows: what it assumes of the engine, the
\* engine does.
THEOREM EngineFitsMoney == Spec => MoneyStepsAreSettlement
<1>1. Sound /\ [Next]_vars => [Money!Next]_moneyVars
  BY StepFits DEF Fits
<1> QED BY <1>1, SoundInit, SoundStep, PTL DEF Spec, MoneyStepsAreSettlement

\* So the invariants of Settlement hold of the whole: no account is overdrawn, and every
\* limit order is executed within its limit over all its trades, replays of the topics and
\* reloads and restarts of
\* the engine included.
THEOREM WholeIsSafe == Spec => [](Money!NonNegative /\ Money!ExecutedWithinLimit)
<1>1. Sound => Money!NonNegative
  BY DEF Sound, Mon!IInv, Mon!NonNegative, Money!NonNegative, Mon!Accounts, Money!Accounts, Mon!Currencies,
     Money!Currencies
<1>2. Sound => Money!ExecutedWithinLimit
  BY DEF Sound, Mon!IInv, Mon!RowsSound, Mon!Sound, Mon!Within, Mon!Traded, Mon!Spent, Mon!IsLimit, Mon!IsBuy,
     Money!ExecutedWithinLimit, Money!IsLimit, Money!IsBuy
<1> QED BY <1>1, <1>2, SoundInit, SoundStep, PTL DEF Spec

-----------------------------------------------------------------------------
(* The trades the executor has not read, and what they hold of an order.    *)

\* What a trade moves of order i.
Amount(i, t) == IF i \in {t.maker, t.taker} THEN t.quantity ELSE 0

Share(topic, i) == [k \in 1 .. Len(topic) |-> Amount(i, topic[k])]

UnreadOf(topic, from, i) == SumFunctionOnSet(Share(topic, i), from + 1 .. Len(topic))

Unread(i) == UnreadOf(tradeTopic, executed, i)

LEMMA ShareIsNat ==
  ASSUME NEW topic \in Seq(Eng!Trade), NEW i, NEW k \in 1 .. Len(topic)
  PROVE  Share(topic, i)[k] = Amount(i, topic[k]) /\ Share(topic, i)[k] \in Nat
<1>1. topic[k] \in Eng!Trade
  OBVIOUS
<1>2. topic[k].quantity \in Nat
  BY <1>1 DEF Eng!Trade
<1> QED BY <1>2 DEF Share, Amount

LEMMA Intervals ==
  ASSUME NEW a \in Nat, NEW n \in Nat
  PROVE  /\ IsFiniteSet(a + 1 .. n)
         /\ a <= n => n + 1 \notin a + 1 .. n /\ a + 1 .. n + 1 = (a + 1 .. n) \cup {n + 1}
         /\ a < n => a + 1 \in a + 1 .. n /\ (a + 1 .. n) \ {a + 1} = a + 1 + 1 .. n
<1>1. IsFiniteSet(a + 1 .. n)
  BY FS_Interval
<1>2. ASSUME NEW k, a <= n PROVE k \in a + 1 .. n + 1 <=> k \in (a + 1 .. n) \cup {n + 1}
  BY <1>2
<1>3. ASSUME NEW k, a < n PROVE k \in (a + 1 .. n) \ {a + 1} <=> k \in a + 1 + 1 .. n
  BY <1>3
<1>4. a <= n => a + 1 .. n + 1 = (a + 1 .. n) \cup {n + 1}
  BY <1>2
<1>5. a < n => (a + 1 .. n) \ {a + 1} = a + 1 + 1 .. n
  BY <1>3
<1> QED BY <1>1, <1>4, <1>5

LEMMA UnreadIsNat ==
  ASSUME NEW topic \in Seq(Eng!Trade), NEW from \in Nat, NEW i
  PROVE  UnreadOf(topic, from, i) \in Nat
<1> DEFINE S == from + 1 .. Len(topic)
           f == Share(topic, i)
<1>1. IsFiniteSet(S)
  BY FS_Interval
<1>2. \A k \in S : f[k] \in Nat
  BY ShareIsNat
<1> HIDE DEF f, S
<1>3. SumFunctionOnSet(f, S) \in Nat
  BY <1>1, <1>2, SumIsNat
<1> QED BY <1>3 DEF UnreadOf, f, S

LEMMA UnreadOfMore ==
  ASSUME NEW topic \in Seq(Eng!Trade), NEW t \in Eng!Trade, NEW from \in Nat, from <= Len(topic), NEW i
  PROVE  UnreadOf(Append(topic, t), from, i) = UnreadOf(topic, from, i) + Amount(i, t)
<1> DEFINE more == Append(topic, t)
           e == Len(topic) + 1
           S == from + 1 .. Len(topic)
           f == Share(topic, i)
           g == Share(more, i)
<1>1. /\ more \in Seq(Eng!Trade) /\ Len(more) = e /\ more[e] = t
      /\ \A k \in 1 .. Len(topic) : more[k] = topic[k]
  OBVIOUS
<1>2. IsFiniteSet(S) /\ e \notin S /\ from + 1 .. Len(more) = S \cup {e}
  <2>1. Len(topic) \in Nat
    OBVIOUS
  <2> HIDE DEF more
  <2> QED BY <1>1, <2>1, Intervals
<1>3. \A k \in S : f[k] \in Int /\ g[k] = f[k]
  <2> SUFFICES ASSUME NEW k \in S PROVE f[k] \in Int /\ g[k] = f[k]
    OBVIOUS
  <2>1. k \in 1 .. Len(topic) /\ k \in 1 .. Len(more) /\ more[k] = topic[k]
    BY <1>1
  <2> HIDE DEF more
  <2> QED BY <1>1, <2>1, ShareIsNat
<1>4. g[e] = Amount(i, t) /\ g[e] \in Int
  <2>1. e \in 1 .. Len(more)
    BY <1>1
  <2> HIDE DEF more, e
  <2> QED BY <1>1, <2>1, ShareIsNat
<1> HIDE DEF f, g, S, e
<1>5. SumFunctionOnSet(g, S \cup {e}) = g[e] + SumFunctionOnSet(g, S)
  <2>1. \A x \in S \cup {e} : g[x] \in Int
    BY <1>3, <1>4
  <2> QED BY <1>2, <2>1, SumPutsIn
<1>6. SumFunctionOnSet(g, S) = SumFunctionOnSet(f, S)
  BY <1>2, <1>3, SumOfSame
<1>7. SumFunctionOnSet(f, S) \in Int
  BY <1>2, <1>3, SumIsInt
<1>8. /\ UnreadOf(more, from, i) = SumFunctionOnSet(g, from + 1 .. Len(more))
      /\ UnreadOf(topic, from, i) = SumFunctionOnSet(f, S)
  BY DEF UnreadOf, f, g, S
<1> HIDE DEF more
<1>9. UnreadOf(more, from, i) = SumFunctionOnSet(g, S \cup {e})
  BY <1>2, <1>8
<1>10. UnreadOf(more, from, i) = UnreadOf(topic, from, i) + Amount(i, t)
  BY <1>4, <1>5, <1>6, <1>7, <1>8, <1>9
<1> QED BY <1>10 DEF more

LEMMA UnreadOfNext ==
  ASSUME NEW topic \in Seq(Eng!Trade), NEW from \in Nat, from < Len(topic), NEW i
  PROVE  UnreadOf(topic, from, i) = Amount(i, topic[from + 1]) + UnreadOf(topic, from + 1, i)
<1> DEFINE e == from + 1
           S == e .. Len(topic)
           f == Share(topic, i)
<1>1. IsFiniteSet(S) /\ e \in S /\ e \in 1 .. Len(topic) /\ S \ {e} = e + 1 .. Len(topic)
  <2>1. Len(topic) \in Nat
    OBVIOUS
  <2> QED BY <2>1, Intervals
<1>2. \A k \in S : f[k] \in Int
  BY ShareIsNat
<1>3. f[e] = Amount(i, topic[e])
  BY <1>1, ShareIsNat
<1> HIDE DEF f, S, e
<1>4. SumFunctionOnSet(f, S) = f[e] + SumFunctionOnSet(f, S \ {e})
  BY <1>1, <1>2, SumTakesOut
<1>5. SumFunctionOnSet(f, S) = Amount(i, topic[e]) + SumFunctionOnSet(f, e + 1 .. Len(topic))
  BY <1>1, <1>3, <1>4
<1> QED BY <1>5 DEF UnreadOf, f, S, e

\* An order the engine never had is in no trade.
LEMMA UnreadOfUnknown ==
  ASSUME NEW topic \in Seq(Eng!Trade), NEW from \in Nat, NEW i,
         \A k \in 1 .. Len(topic) : i \notin {topic[k].maker, topic[k].taker}
  PROVE  UnreadOf(topic, from, i) = 0
<1> DEFINE S == from + 1 .. Len(topic)
           f == Share(topic, i)
<1>1. IsFiniteSet(S)
  BY FS_Interval
<1>2. \A k \in S : f[k] = 0
  BY DEF Share, Amount
<1> HIDE DEF f, S
<1>3. SumFunctionOnSet(f, S) = 0
  BY <1>1, <1>2, SumOfZeros
<1> QED BY <1>3 DEF UnreadOf, f, S

-----------------------------------------------------------------------------
(* Book and table.  What the engine was given of an order, less what it has *)
(* traded, plus what the executor has not read of that, is what the row of  *)
(* the order has left; as long as the order was given once.                 *)

Open(i) == offered[i] - traded[i] + Unread(i)

\* The orders of the submits the engine has not read, and of all it may still be given.
SubmitsOf(topic) == {topic[k].order : k \in {j \in 1 .. Len(topic) : topic[j].action = "submit"}}

Submitted == SubmitsOf(inbox)

\* What was ever produced, which a new group reads again.
Logged == SubmitsOf(matchingTopic)

ReadsLog == Submitted \subseteq Logged

InFlight == Logged \cup loading \cup ({producing} \ {None})

\* The engine is about to be given the order.
Again(i) == \E m \in Submitted \cup loading : m.id = i

Once(i) ==
  received[i] = 1 /\ rows[i].state \in {"wait", "done"} /\ ~ Again(i) /\ i \notin missed

\* An order that is given for the first time has no fills, and is over only if cancelled.
Fit(m) == received[m.id] = 0 => m.filled = 0 /\ (m.cancelled => rows[m.id].state = "cancel")

MessagesFit == \A m \in InFlight : Fit(m)

\* An order that was never given to the engine is as it was submitted.
Fresh ==
  \A i \in Orders : received[i] = 0 =>
    /\ rows[i].volume = Details[i].quantity /\ rows[i].state # "done"
    /\ offered[i] = 0 /\ traded[i] = 0

\* An order that was not given to the engine since it was cancelled there is not in it.
Gone ==
  /\ cancelledAt \in [Orders -> Int]
  /\ \A i \in Orders :
       /\ cancelledAt[i] <= received[i]
       /\ Plain(i) /\ cancelledAt[i] = received[i] => Eng!Nowhere(i)

ReadsOn == executed <= Len(tradeTopic) /\ rewinds \in Nat

Kept(i) ==
  /\ received[i] <= 1 => Open(i) <= rows[i].volume
  /\ Once(i) => rows[i].volume = Open(i)
  /\ Once(i) /\ Plain(i) /\ cancelledAt[i] < 1 => Eng!InOnePlace(i)

Counted == rewinds = 0 => \A i \in Orders : Kept(i)

Paired == MessagesFit /\ Fresh /\ Gone /\ ReadsOn /\ Counted

\* What the rows and accounts add to Sound.
MoneySound == ~ raced /\ Mon!NotCreatedYet /\ Mon!Backed /\ Mon!SentIsSubmitted /\ Mon!DoneIsEmpty

Whole == Sound /\ Eng!Covered /\ MoneySound /\ ReadsLog /\ Paired

LEMMA Types ==
  ASSUME Sound
  PROVE  /\ received \in [Orders -> Nat] /\ offered \in [Orders -> Nat] /\ traded \in [Orders -> Nat]
         /\ tradeTopic \in Seq(Eng!Trade) /\ loading \subseteq AllForms /\ executed \in Nat
         /\ rows \in [Orders -> Mon!Row] /\ \A i \in Orders : rows[i].volume \in Nat
         /\ inbox \in Seq(Known) /\ matchingTopic \in Seq(Known) /\ Len(tradeTopic) \in Nat
         /\ Eng!TypeOK /\ Mon!TypeOK
<1>1. Eng!TypeOK /\ Mon!TypeOK /\ TopicsSound
  BY DEF Sound, Eng!PublishesFairly, Mon!IInv
<1>2. rows \in [Orders -> Mon!Row] /\ \A i \in Orders : rows[i].volume \in Nat
  BY <1>1 DEF Mon!TypeOK, Mon!Row
<1> QED BY <1>1, <1>2 DEF Eng!TypeOK, TopicsSound

LEMMA OpenIsInt ==
  ASSUME Sound, NEW i \in Orders
  PROVE  /\ Unread(i) \in Nat /\ Open(i) \in Int
         /\ offered[i] \in Nat /\ traded[i] \in Nat /\ received[i] \in Nat /\ rows[i].volume \in Nat
<1>1. Unread(i) \in Nat
  BY Types, UnreadIsNat DEF Unread
<1>2. offered[i] \in Nat /\ traded[i] \in Nat /\ received[i] \in Nat /\ rows[i].volume \in Nat
  BY Types
<1> QED BY <1>1, <1>2 DEF Open

LEMMA InFlightIsKnown ==
  ASSUME Sound, NEW m \in InFlight
  PROVE  m.id \in Orders
<1>1. ASSUME NEW k \in 1 .. Len(matchingTopic), matchingTopic[k].action = "submit",
             m = matchingTopic[k].order
      PROVE  m \in Mon!Bounded
  <2>1. matchingTopic[k] \in Known
    BY Types
  <2> QED BY <1>1, <2>1 DEF Known, Entries
<1>2. m \in Mon!Bounded \/ m \in AllForms
  BY <1>1, Types DEF InFlight, Logged, SubmitsOf, Sound, TopicsSound
<1>3. m \in Mon!Bounded => m.id \in Orders
  BY DEF Mon!Bounded, Mon!Messages
<1> QED BY <1>2, <1>3, FormFields

LEMMA PlainIsPlain == ASSUME NEW i \in Orders, Plain(i) PROVE Eng!IsPlain(i)
BY FormFields DEF Plain, Eng!IsPlain

\* The trade the executor reads next.
LEMMA NextTradeIsFair ==
  ASSUME Sound, executed < Len(tradeTopic)
  PROVE  /\ NextTrade \in Eng!Trade /\ NextTrade \in Mon!Payload /\ Mon!EnginePublishes(NextTrade)
         /\ NextTrade.maker \in Orders /\ NextTrade.taker \in Orders
         /\ Mon!Real(NextTrade) = {NextTrade.maker, NextTrade.taker}
         /\ received[NextTrade.maker] > 0 /\ received[NextTrade.taker] > 0
         /\ NextTrade.quantity \in Nat \ {0} /\ NextTrade.price \in Nat \ {0}
<1> DEFINE t == NextTrade
           k == executed + 1
<1>1. k \in 1 .. Len(tradeTopic) /\ t = tradeTopic[k]
  BY Types DEF NextTrade
<1>2. t \in Eng!Trade /\ Eng!FairTrade(t)
  BY <1>1, Types DEF Sound, Eng!PublishesFairly, Eng!TradesFair
<1>3. t \in Mon!Payload /\ Mon!EnginePublishes(t)
  BY NextTradeIsPublished
<1> HIDE DEF t
<1>4. t.maker \in Orders /\ t.taker \in Orders /\ t.quantity \in Nat /\ t.price \in Nat
  BY <1>2 DEF Eng!Trade
<1>5. Mon!Real(t) = {t.maker, t.taker}
  BY <1>4, OrdersAssumption DEF Mon!Real
<1>6. PICK s \in AllForms, r \in AllForms :
        /\ t.quantity \in 1 .. s.quantity
        /\ \E c \in {s, r} : c.type = "limit" /\ t.price = c.price
  BY <1>2 DEF Eng!FairTrade
<1>7. t.quantity # 0
  BY <1>4, <1>6
<1>8. t.price # 0
  <2>1. PICK c \in {s, r} : c.type = "limit" /\ t.price = c.price
    BY <1>6
  <2>2. c.id \in Orders /\ Details[c.id].type = "limit" /\ t.price = Details[c.id].price
    BY <2>1, FormFields
  <2>3. Details[c.id].price > 0
    BY <2>2, DetailsAssumption
  <2> QED BY <1>4, <2>2, <2>3
<1>9. received[t.maker] > 0 /\ received[t.taker] > 0
  BY <1>2 DEF Eng!FairTrade
<1> QED BY <1>2, <1>3, <1>4, <1>5, <1>7, <1>8, <1>9 DEF t

\* An order that was never given to the engine is not in it, and in no trade.
LEMMA UnknownIsAbsent ==
  ASSUME Sound, NEW i \in Orders, received[i] = 0
  PROVE  Eng!Nowhere(i) /\ Unread(i) = 0
<1>1. ~ Eng!Present(i)
  BY DEF Sound, Eng!PublishesFairly, Eng!PresentIsKnown
<1>2. Eng!Nowhere(i)
  BY <1>1 DEF Eng!Present, Eng!Nowhere
<1>3. \A k \in 1 .. Len(tradeTopic) : i \notin {tradeTopic[k].maker, tradeTopic[k].taker}
  BY DEF Sound, Eng!PublishesFairly, Eng!TradesFair, Eng!FairTrade
<1>4. Unread(i) = 0
  BY <1>3, Types, UnreadOfUnknown DEF Unread
<1> QED BY <1>2, <1>4

-----------------------------------------------------------------------------
(* What every step leaves alone. *)

LEMMA MoneySteps == ASSUME Sound, [Next]_vars PROVE [Mon!Next]_(Mon!vars) /\ UNCHANGED raced
<1>1. [Mon!Next]_(Mon!vars)
  BY StepFits, SameNext DEF Fits, moneyVars, Mon!vars
<1>2. ASSUME NEW i \in Orders, Money!SubmitOrder(i) \/ Money!HandleCancel(i) PROVE UNCHANGED raced
  BY <1>2 DEF Money!SubmitOrder, Money!HandleCancel
<1>3. ASSUME NEW t, Money!Settle(t) \/ Money!Refuse(t) PROVE UNCHANGED raced
  BY <1>3 DEF Money!Settle, Money!Refuse
<1>4. Money!ProduceMatching \/ Money!Restart \/ Money!LoadOrders => UNCHANGED raced
  BY DEF Money!ProduceMatching, Money!Restart, Money!LoadOrders
<1>5. HandleSubmit => \E i \in Orders : Money!SubmitOrder(i)
  <2>1. HandleSubmit => Submits[submitsRead + 1] \in Orders
    BY SubmitsAssumption DEF HandleSubmit, Sound, TopicsSound
  <2> QED BY <2>1 DEF HandleSubmit, Money!HandleSubmit
<1>6. HandleCancel => UNCHANGED raced \/ \E i \in Orders : Money!HandleCancel(i)
  <2>1. HandleCancel => processorTopic[cancelsRead + 1] \in Orders
    BY DEF HandleCancel, Sound, TopicsSound, Eng!PublishesFairly, Eng!TypeOK
  <2> QED BY <2>1 DEF HandleCancel, CancelOrPass, moneyVars
<1>7. \A i \in Orders : SubmitAtStart(i) => Money!SubmitOrder(i)
  BY DEF SubmitAtStart, Money!SubmitAtStart
<1>8. UNCHANGED raced
  BY <1>2, <1>3, <1>4, <1>5, <1>6, <1>7
  DEF Next, Work, ReadSubmit, ReadCancel, ReadReload, LoadOrders, Join, Match, ProduceMatching, SettleTrade,
      RefuseTrade, RequestCancel, RequestReload, RestartEngine, RestartProcessor, RestartExecutor, moneyVars, vars
<1> QED BY <1>1, <1>8

Moves ==
  /\ \A i \in Orders : received[i] <= received'[i]
  /\ \A i \in Orders : rows[i].state = "cancel" => rows'[i].state = "cancel"
  /\ \A i \in Orders :
       received[i] > 0 /\ rows'[i].state \in {"wait", "done"} => rows[i].state \in {"wait", "done"}

LEMMA MovesStep == ASSUME Sound, MoneySound, [Next]_vars PROVE Moves /\ MoneySound'
<1>1. [Mon!Next]_(Mon!vars) /\ UNCHANGED raced
  BY MoneySteps
<1>2. Mon!TypeOK
  BY Types
<1>3. Mon!LifeGoesOn /\ Mon!NotCreatedYet'
  BY <1>1, <1>2, MoneyConstants, Mon!LifeStep DEF MoneySound
<1>4. Mon!BackedUnlessRaced'
  BY <1>1, <1>2, MoneyConstants, Mon!BackedNext DEF MoneySound, Mon!BackedUnlessRaced
<1>5. Mon!DoneIsEmpty'
  BY <1>1, <1>2, MoneyConstants, Mon!DoneStep DEF MoneySound
<1>6. Mon!SentIsSubmitted'
  BY <1>1, <1>2, MoneyConstants, Mon!SentStep DEF MoneySound
<1>7. MoneySound'
  BY <1>1, <1>3, <1>4, <1>5, <1>6 DEF MoneySound, Mon!BackedUnlessRaced
<1>8. \A i \in Orders : received[i] <= received'[i]
  <2>1. [Eng!Next]_(Eng!vars) /\ Eng!TypeOK
    BY StepFits, Types DEF Fits
  <2> QED BY <2>1, EngineConstants, Eng!ReceivedGrows
<1>9. ~ raced'
  BY <1>1 DEF MoneySound
<1>10. \A i \in Orders : rows[i].state = "cancel" => rows'[i].state = "cancel"
  BY <1>3, <1>9 DEF Mon!LifeGoesOn
<1>11. ASSUME NEW i \in Orders, received[i] > 0, rows'[i].state \in {"wait", "done"}
       PROVE  rows[i].state \in {"wait", "done"}
  <2>1. Mon!Announced(i)
    BY <1>11 DEF Sound, TopicsSound, Money!Announced, Mon!Announced
  <2>2. rows[i].state \notin {"none", "pending"}
    BY <2>1 DEF MoneySound, Mon!SentIsSubmitted
  <2> QED BY <1>3, <1>9, <1>11, <2>2 DEF Mon!LifeGoesOn
<1> QED BY <1>7, <1>8, <1>10, <1>11 DEF Moves

LEMMA MessagesStay ==
  ASSUME Sound, MessagesFit, Moves, \A m \in InFlight' : m \in InFlight \/ Fit(m)'
  PROVE  MessagesFit'
<1> SUFFICES ASSUME NEW m \in InFlight PROVE Fit(m)'
  BY DEF MessagesFit
<1>1. m.id \in Orders /\ Fit(m)
  BY InFlightIsKnown DEF MessagesFit
<1>2. received'[m.id] = 0 => received[m.id] = 0
  BY <1>1, Types DEF Moves
<1> QED BY <1>1, <1>2 DEF Fit, Moves

\* An order that none of it happens to.
LEMMA KeptStays ==
  ASSUME NEW i \in Orders, Kept(i), Open(i)' = Open(i), UNCHANGED received[i],
         rows'[i].volume = rows[i].volume, Once(i)' => Once(i), UNCHANGED cancelledAt[i],
         Eng!InOnePlace(i) /\ Eng!IsPlain(i) => Eng!InOnePlace(i)'
  PROVE  Kept(i)'
BY PlainIsPlain DEF Kept, Plain

\* The engine does nothing.
LEMMA EngineRests ==
  ASSUME Sound, MessagesFit, Fresh, Gone, Moves, UNCHANGED <<engineVars, cancelledAt>>,
         \A m \in InFlight' : m \in InFlight \/ Fit(m)',
         \A i \in Orders : received[i] = 0 => Mon!Stands(i)
  PROVE  /\ MessagesFit' /\ Fresh' /\ Gone'
         /\ UNCHANGED <<received, offered, traded, tradeTopic, loading>>
         /\ \A i \in Orders : Eng!InOnePlace(i) => Eng!InOnePlace(i)'
<1>1. UNCHANGED <<received, offered, traded, tradeTopic, loading>> /\ UNCHANGED Eng!vars
  BY DEF engineVars, Eng!vars
<1>2. \A i \in Orders : (Eng!InOnePlace(i) => Eng!InOnePlace(i)') /\ (Eng!Nowhere(i) => Eng!Nowhere(i)')
  BY <1>1, EngineConstants, Eng!PlaceKept
<1>3. Gone'
  BY <1>1, <1>2 DEF Gone, Plain
<1>4. Fresh'
  BY <1>1 DEF Fresh, Mon!Stands
<1> QED BY <1>1, <1>2, <1>3, <1>4, MessagesStay

\* The executor does nothing either.
LEMMA CountsStay ==
  ASSUME Sound, Counted, ReadsOn, Moves,
         UNCHANGED <<cancelledAt, executed, rewinds, received, offered, traded, tradeTopic>>,
         \A i \in Orders : Eng!InOnePlace(i) => Eng!InOnePlace(i)',
         \A i \in Orders : Mon!Stands(i),
         missed \subseteq missed', \A i \in Orders : Again(i) => Again(i)' \/ i \in missed'
  PROVE  Counted' /\ ReadsOn'
<1>1. ReadsOn'
  BY DEF ReadsOn
<1>2. ASSUME NEW i \in Orders, Kept(i) PROVE Kept(i)'
  <2>1. Open(i)' = Open(i)
    BY DEF Open, Unread
  <2>2. Once(i)' => Once(i)
    BY DEF Once, Moves
  <2>3. rows'[i].volume = rows[i].volume
    BY DEF Mon!Stands
  <2> QED BY <1>2, <2>1, <2>2, <2>3, KeptStays
<1> QED BY <1>1, <1>2 DEF Counted

-----------------------------------------------------------------------------
(* The submits of the matching topic. *)

LEMMA SubmitsOfMore ==
  ASSUME NEW S, NEW topic \in Seq(S), NEW e \in S
  PROVE  /\ SubmitsOf(topic) \subseteq SubmitsOf(Append(topic, e))
         /\ \A m \in SubmitsOf(Append(topic, e)) : m \in SubmitsOf(topic) \/ (e.action = "submit" /\ m = e.order)
         /\ e.action = "submit" => e.order \in SubmitsOf(Append(topic, e))
<1> DEFINE more == Append(topic, e)
<1>1. /\ Len(topic) \in Nat /\ Len(more) = Len(topic) + 1 /\ more[Len(topic) + 1] = e
      /\ \A k \in 1 .. Len(topic) : more[k] = topic[k]
  OBVIOUS
<1> HIDE DEF more
<1>2. SubmitsOf(topic) \subseteq SubmitsOf(more)
  BY <1>1 DEF SubmitsOf
<1>3. ASSUME NEW m \in SubmitsOf(more)
      PROVE  m \in SubmitsOf(topic) \/ (e.action = "submit" /\ m = e.order)
  <2>1. PICK k \in 1 .. Len(more) : more[k].action = "submit" /\ m = more[k].order
    BY DEF SubmitsOf
  <2>2. k = Len(topic) + 1 \/ k \in 1 .. Len(topic)
    BY <1>1
  <2> QED BY <1>1, <2>1, <2>2 DEF SubmitsOf
<1>4. e.action = "submit" => e.order \in SubmitsOf(more)
  <2>1. Len(more) \in 1 .. Len(more) /\ more[Len(more)] = e
    BY <1>1
  <2> QED BY <2>1 DEF SubmitsOf
<1> QED BY <1>2, <1>3, <1>4 DEF more

LEMMA SubmitsOfTail ==
  ASSUME NEW S, NEW topic \in Seq(S), topic # <<>>
  PROVE  /\ SubmitsOf(Tail(topic)) \subseteq SubmitsOf(topic)
         /\ \A m \in SubmitsOf(topic) :
              m \in SubmitsOf(Tail(topic)) \/ (Head(topic).action = "submit" /\ m = Head(topic).order)
         /\ Head(topic).action = "submit" => Head(topic).order \in SubmitsOf(topic)
<1> DEFINE rest == Tail(topic)
<1>1. /\ Len(topic) \in Nat \ {0} /\ Len(rest) = Len(topic) - 1 /\ Head(topic) = topic[1]
      /\ \A k \in 1 .. Len(rest) : rest[k] = topic[k + 1]
  OBVIOUS
<1> HIDE DEF rest
<1>2. SubmitsOf(rest) \subseteq SubmitsOf(topic)
  <2> SUFFICES ASSUME NEW k \in 1 .. Len(rest), rest[k].action = "submit"
               PROVE  rest[k].order \in SubmitsOf(topic)
    BY DEF SubmitsOf
  <2>1. k + 1 \in 1 .. Len(topic) /\ rest[k] = topic[k + 1]
    BY <1>1
  <2> QED BY <2>1 DEF SubmitsOf
<1>3. ASSUME NEW m \in SubmitsOf(topic)
      PROVE  m \in SubmitsOf(rest) \/ (topic[1].action = "submit" /\ m = topic[1].order)
  <2>1. PICK k \in 1 .. Len(topic) : topic[k].action = "submit" /\ m = topic[k].order
    BY DEF SubmitsOf
  <2>2. CASE k = 1
    BY <2>1, <2>2
  <2>3. CASE k # 1
    <3>1. k - 1 \in 1 .. Len(rest) /\ k - 1 + 1 = k
      BY <1>1, <2>3
    <3>2. rest[k - 1] = topic[k]
      BY <1>1, <3>1
    <3> QED BY <2>1, <3>1, <3>2 DEF SubmitsOf
  <2> QED BY <2>2, <2>3
<1>4. topic[1].action = "submit" => topic[1].order \in SubmitsOf(topic)
  BY <1>1 DEF SubmitsOf
<1> QED BY <1>1, <1>2, <1>3, <1>4 DEF rest

LEMMA SubmitsOfBoth ==
  ASSUME NEW S, NEW topic \in Seq(S), NEW more \in Seq(S)
  PROVE  SubmitsOf(topic \o more) = SubmitsOf(topic) \cup SubmitsOf(more)
<1> DEFINE both == topic \o more
           n == Len(topic)
<1>1. /\ n \in Nat /\ Len(more) \in Nat /\ Len(both) = n + Len(more)
      /\ \A k \in 1 .. n : both[k] = topic[k]
      /\ \A k \in 1 .. Len(more) : both[n + k] = more[k]
  OBVIOUS
<1> HIDE DEF both, n
<1>2. ASSUME NEW k \in 1 .. Len(both), both[k].action = "submit"
      PROVE  both[k].order \in SubmitsOf(topic) \cup SubmitsOf(more)
  <2>1. CASE k \in 1 .. n
    BY <1>1, <1>2, <2>1 DEF SubmitsOf, n
  <2>2. CASE k \notin 1 .. n
    <3>1. k - n \in 1 .. Len(more) /\ n + (k - n) = k
      BY <1>1, <2>2
    <3>2. both[k] = more[k - n]
      BY <1>1, <3>1
    <3> QED BY <1>2, <3>1, <3>2 DEF SubmitsOf
  <2> QED BY <2>1, <2>2
<1>3. SubmitsOf(topic) \subseteq SubmitsOf(both)
  <2> SUFFICES ASSUME NEW k \in 1 .. n, topic[k].action = "submit" PROVE topic[k].order \in SubmitsOf(both)
    BY DEF SubmitsOf, n
  <2>1. k \in 1 .. Len(both) /\ both[k] = topic[k]
    BY <1>1
  <2> QED BY <2>1 DEF SubmitsOf
<1>4. SubmitsOf(more) \subseteq SubmitsOf(both)
  <2> SUFFICES ASSUME NEW k \in 1 .. Len(more), more[k].action = "submit" PROVE more[k].order \in SubmitsOf(both)
    BY DEF SubmitsOf
  <2>1. n + k \in 1 .. Len(both) /\ both[n + k] = more[k]
    BY <1>1
  <2> QED BY <2>1 DEF SubmitsOf
<1>5. SubmitsOf(both) \subseteq SubmitsOf(topic) \cup SubmitsOf(more)
  BY <1>2 DEF SubmitsOf
<1>6. SubmitsOf(both) = SubmitsOf(topic) \cup SubmitsOf(more)
  BY <1>3, <1>4, <1>5
<1> QED BY <1>6 DEF both

\* A message that is produced.
LEMMA ProducedSubmits ==
  ASSUME Sound, NEW e \in Entries, Produce(e)
  PROVE  /\ Submitted \subseteq Submitted' /\ Logged \subseteq Logged'
         /\ \A m \in Submitted' : m \in Submitted \/ (e.action = "submit" /\ m = e.order)
         /\ \A m \in Logged' : m \in Logged \/ (e.action = "submit" /\ m = e.order)
         /\ e.action = "submit" => e.order \in Submitted' /\ e.order \in Logged'
<1>1. inbox \in Seq(Entries) /\ matchingTopic \in Seq(Entries)
  <2>1. Known \subseteq Entries
    BY DEF Known
  <2>2. inbox \in Seq(Known) /\ matchingTopic \in Seq(Known)
    BY Types
  <2> QED BY <2>1, <2>2
<1>2. inbox' = Append(inbox, e) /\ matchingTopic' = Append(matchingTopic, e)
  BY DEF Produce
<1> QED BY <1>1, <1>2, SubmitsOfMore DEF Submitted, Logged

\* What an executor hands back.
LEMMA HandedBackSubmits ==
  ASSUME Sound, NEW more \in Seq([action: {"submit"}, order: Mon!Bounded]),
         inbox' = inbox \o more, matchingTopic' = matchingTopic \o more
  PROVE  Submitted' = Submitted \cup SubmitsOf(more) /\ Logged' = Logged \cup SubmitsOf(more)
<1>1. inbox \in Seq(Entries) /\ matchingTopic \in Seq(Entries)
  <2>1. Known \subseteq Entries
    BY DEF Known
  <2>2. inbox \in Seq(Known) /\ matchingTopic \in Seq(Known)
    BY Types
  <2> QED BY <2>1, <2>2
<1>2. more \in Seq(Entries)
  <2> DEFINE Sent == [action: {"submit"}, order: Mon!Bounded]
  <2>1. more \in Seq(Sent) /\ Sent \subseteq Entries
    BY DEF Entries
  <2> HIDE DEF Sent
  <2> QED BY <2>1
<1> QED BY <1>1, <1>2, SubmitsOfBoth DEF Submitted, Logged

\* The row of an order makes a message that fits.
LEMMA RowFits ==
  ASSUME Sound, Fresh, Moves, NEW i \in Orders, NEW m, m.id = i,
         m.filled = Details[i].quantity - rows[i].volume,
         m.cancelled => rows[i].state \in {"cancel", "done"}
  PROVE  Fit(m)'
<1>1. received'[i] = 0 => received[i] = 0
  BY Types DEF Moves
<1>2. received[i] = 0 => m.filled = 0 /\ (m.cancelled => rows[i].state = "cancel")
  BY RowOfOrder DEF Fresh
<1> QED BY <1>1, <1>2 DEF Fit, Moves

-----------------------------------------------------------------------------
(* The steps of the clients and the order_processor. *)

\* A step that neither the engine nor the executor takes.
LEMMA NothingDone ==
  ASSUME Whole, Moves, UNCHANGED <<engineVars, cancelledAt, executed, rewinds, missed>>,
         \A m \in InFlight' : m \in InFlight \/ Fit(m)',
         \A i \in Orders : Mon!Stands(i), Submitted \subseteq Submitted'
  PROVE  Paired'
<1>1. Sound /\ MessagesFit /\ Fresh /\ Gone /\ ReadsOn /\ Counted
  BY DEF Whole, Paired
<1>2. /\ MessagesFit' /\ Fresh' /\ Gone'
      /\ UNCHANGED <<received, offered, traded, tradeTopic, loading>>
      /\ \A i \in Orders : Eng!InOnePlace(i) => Eng!InOnePlace(i)'
  BY <1>1, EngineRests
<1>3. \A i \in Orders : Again(i) => Again(i)'
  BY <1>2 DEF Again
<1>4. Counted' /\ ReadsOn'
  BY <1>1, <1>2, <1>3, CountsStay
<1> QED BY <1>2, <1>4 DEF Paired

LEMMA ClientsPaired ==
  ASSUME Whole, Moves, (\E i \in Orders : RequestCancel(i)) \/ RequestReload
  PROVE  Paired'
<1>1. PICK e : Produce(e) /\ e \in Entries /\ e.action # "submit"
  <2>1. ASSUME NEW i \in Orders, RequestCancel(i)
        PROVE  \E e \in Entries : Produce(e) /\ e.action # "submit"
    <3>1. Money!Message(i, rows[i]) \in Mon!Bounded
      BY RowAsMessage DEF Whole, Sound
    <3>2. [action |-> "cancel", order |-> Money!Message(i, rows[i])] \in Entries
      BY <3>1 DEF Entries
    <3> QED BY <2>1, <3>2 DEF RequestCancel
  <2>2. [action |-> "reload"] \in Entries  BY DEF Entries
  <2> QED BY <2>1, <2>2 DEF RequestReload
<1>2. UNCHANGED <<engineVars, moneyVars, cancelledAt, executed, rewinds, missed>>
  BY DEF RequestCancel, RequestReload, Produce, started, Fault, executorRead
<1>3. UNCHANGED <<rows, producing, loading>>
  BY <1>2 DEF engineVars, moneyVars
<1>4. Submitted \subseteq Submitted' /\ Logged' \subseteq Logged
  BY <1>1, ProducedSubmits DEF Whole
<1>5. InFlight' \subseteq InFlight
  BY <1>3, <1>4 DEF InFlight
<1>6. \A i \in Orders : Mon!Stands(i)
  BY <1>3 DEF Mon!Stands
<1> QED BY <1>2, <1>4, <1>5, <1>6, NothingDone

LEMMA SubmitPaired ==
  ASSUME Whole, Moves, HandleSubmit \/ \E i \in Orders : SubmitAtStart(i)
  PROVE  Paired'
<1>1. PICK i \in Orders : Money!SubmitOrder(i)
  <2>1. HandleSubmit => Submits[submitsRead + 1] \in Orders
    BY SubmitsAssumption DEF HandleSubmit, Whole, Sound, TopicsSound
  <2> QED BY <2>1 DEF HandleSubmit, SubmitAtStart, Money!HandleSubmit, Money!SubmitAtStart
<1>2. UNCHANGED <<engineVars, matchingTopic, inbox, missed, cancelledAt, executed, rewinds>>
  BY DEF HandleSubmit, SubmitAtStart, matching, executorRead
<1>3. Mon!SubmitOrder(i)
  BY <1>1, SameSubmitOrder
<1>4. \A j \in Orders : Mon!Stands(j)
  BY <1>3, MoneyConstants, Types, Mon!SubmitStands DEF Whole
<1>5. Submitted' = Submitted /\ Logged' = Logged /\ loading' = loading
  BY <1>2 DEF Submitted, Logged, engineVars
<1>6. PICK m : m = Money!Message(i, rows[i])
  OBVIOUS
<1>7. producing' = producing \/ producing' = m
  BY <1>1, <1>6 DEF Money!SubmitOrder, Money!ToEngine
<1>8. m.id = i /\ m.filled = Details[i].quantity - rows[i].volume
      /\ m.cancelled = (rows[i].state \in {"cancel", "done"})
  BY <1>6 DEF Money!Message
<1>9. Fit(m)'
  BY <1>8, RowFits DEF Whole, Paired
<1>10. \A x \in InFlight' : x \in InFlight \/ Fit(x)'
  BY <1>5, <1>7, <1>9 DEF InFlight
<1> QED BY <1>2, <1>4, <1>5, <1>10, NothingDone

LEMMA HandleCancelPaired == ASSUME Whole, Moves, HandleCancel PROVE Paired'
<1> DEFINE i == processorTopic[cancelsRead + 1]
<1>1. i \in Orders
  BY DEF HandleCancel, Whole, Sound, TopicsSound, Eng!PublishesFairly, Eng!TypeOK
<1>2. /\ UNCHANGED <<engineVars, matchingTopic, inbox, missed, cancelledAt, executed, rewinds>>
      /\ Money!HandleCancel(i) \/ UNCHANGED moneyVars
  BY DEF HandleCancel, CancelOrPass, matching, executorRead
<1> HIDE DEF i
<1>3. PICK j \in Orders : Money!HandleCancel(j) \/ UNCHANGED moneyVars
  BY <1>1, <1>2
<1>4. Money!HandleCancel(j) => Mon!HandleCancel(j)
  BY DEF Money!HandleCancel, Money!Cancellable, Money!Covered, Money!Outcome, Money!IsBuy, Money!processor,
     Mon!HandleCancel, Mon!Cancellable, Mon!Covered, Mon!Outcome, Mon!IsBuy, Mon!processor
<1>5. \A k \in Orders : Mon!Stands(k)
  <2>1. CASE UNCHANGED moneyVars
    BY <2>1 DEF moneyVars, Mon!Stands
  <2> QED BY <1>3, <1>4, <2>1, MoneyConstants, Types, Mon!CancelStands DEF Whole
<1>6. UNCHANGED producing
  BY <1>3 DEF Money!HandleCancel, Money!processor, moneyVars
<1>7. Submitted' = Submitted /\ InFlight' = InFlight
  BY <1>2, <1>6 DEF InFlight, Submitted, Logged, engineVars
<1> QED BY <1>2, <1>5, <1>7, NothingDone

LEMMA ProduceMatchingPaired == ASSUME Whole, Moves, ProduceMatching PROVE Paired'
<1>1. /\ Money!ProduceMatching /\ Produce(Submission(producing))
      /\ UNCHANGED <<engineVars, missed, cancelledAt, executed, rewinds>>
  BY DEF ProduceMatching, Produce, started, executorRead
<1>2. PICK m \in Mon!Bounded : m = producing /\ m # None
  BY <1>1 DEF Money!ProduceMatching, Whole, Sound, TopicsSound
<1>3. producing' = None /\ UNCHANGED <<rows, loading>>
  BY <1>1 DEF Money!ProduceMatching, engineVars
<1>4. Submission(m) \in Entries /\ Submission(m).order = m
  BY <1>2 DEF Entries, Submission
<1>5. Submitted \subseteq Submitted' /\ \A x \in Logged' : x \in Logged \/ x = m
  BY <1>1, <1>2, <1>4, ProducedSubmits DEF Whole
<1>6. InFlight' \subseteq InFlight
  BY <1>2, <1>3, <1>5 DEF InFlight
<1>7. \A i \in Orders : Mon!Stands(i)
  BY <1>3 DEF Mon!Stands
<1> QED BY <1>1, <1>5, <1>6, <1>7, NothingDone

LEMMA RestartProcessorPaired == ASSUME Whole, Moves, RestartProcessor PROVE Paired'
<1>1. /\ UNCHANGED <<engineVars, matchingTopic, inbox, missed, rows, cancelledAt, executed, rewinds>>
      /\ producing' = None
  BY DEF RestartProcessor, matching, Money!Restart, executorRead
<1>2. Submitted' = Submitted /\ InFlight' \subseteq InFlight
  BY <1>1 DEF InFlight, Submitted, Logged, engineVars
<1>3. \A i \in Orders : Mon!Stands(i)
  BY <1>1 DEF Mon!Stands
<1> QED BY <1>1, <1>2, <1>3, NothingDone

LEMMA StutterPaired == ASSUME Whole, Moves, UNCHANGED vars PROVE Paired'
<1>1. UNCHANGED <<engineVars, matchingTopic, inbox, missed, rows, producing, cancelledAt, executed, rewinds>>
  BY DEF vars, matching, moneyVars, executorRead
<1>2. Submitted' = Submitted /\ InFlight' \subseteq InFlight
  BY <1>1 DEF InFlight, Submitted, Logged, engineVars
<1>3. \A i \in Orders : Mon!Stands(i)
  BY <1>1 DEF Mon!Stands
<1> QED BY <1>1, <1>2, <1>3, NothingDone

\* An executor that starts again counts as one that has read some trades twice.
LEMMA RestartExecutorPaired == ASSUME Whole, Moves, RestartExecutor PROVE Paired'
<1>1. /\ UNCHANGED <<engineVars, matchingTopic, rows, producing, cancelledAt>> /\ rewinds' = rewinds + 1
      /\ executed' \in {0, Len(tradeTopic)}
  BY DEF RestartExecutor, matching, moneyVars
<1>2. Sound /\ MessagesFit /\ Fresh /\ Gone /\ ReadsOn
  BY DEF Whole, Paired
<1>3. InFlight' \subseteq InFlight
  BY <1>1 DEF InFlight, Logged, engineVars
<1>4. \A i \in Orders : Mon!Stands(i)
  BY <1>1 DEF Mon!Stands
<1>5. MessagesFit' /\ Fresh' /\ Gone' /\ UNCHANGED tradeTopic
  BY <1>1, <1>2, <1>3, <1>4, EngineRests
<1>6. ReadsOn' /\ rewinds' # 0
  BY <1>1, <1>2, <1>5, Types DEF ReadsOn
<1> QED BY <1>5, <1>6 DEF Paired, Counted

-----------------------------------------------------------------------------
(* The steps of the engine. *)

LEMMA EngineParts ==
  ASSUME Whole, Eng!Covered'
  PROVE  /\ Eng!TypeOK /\ Eng!TypeOK' /\ Eng!StopsAreStops /\ Eng!StopsAreStops'
         /\ Eng!Sided /\ Eng!IdleIsEmpty /\ Eng!RestingIsLive /\ Eng!PresentIsKnown
BY DEF Whole, Sound, Eng!PublishesFairly, Eng!Covered

\* An order that is given to the engine: the first time all its volume is open.
LEMMA DeliveryPairs ==
  ASSUME Whole, Moves, Eng!Covered', NEW o \in AllForms, Eng!Add(o), pc = "idle", Fit(o),
         UNCHANGED <<rows, missed, cancelledAt, executed, rewinds>>,
         \A m \in InFlight' : m \in InFlight,
         \A i \in Orders : i # o.id /\ Again(i) => Again(i)'
  PROVE  Paired'
<1>1. Sound /\ MessagesFit /\ Fresh /\ Gone /\ ReadsOn /\ Counted
  BY DEF Whole, Paired
<1>2. /\ received \in [Orders -> Nat] /\ offered \in [Orders -> Nat] /\ traded \in [Orders -> Nat]
      /\ Len(tradeTopic) \in Nat
  BY <1>1, Types
<1>3. o.id \in Orders /\ o.quantity = Details[o.id].quantity /\ Eng!UnfilledQuantity(o) = o.quantity - o.filled
  BY FormFields DEF Eng!UnfilledQuantity
<1>4. /\ received' = [received EXCEPT ![o.id] = @ + 1]
      /\ offered' = [offered EXCEPT ![o.id] = @ + Eng!UnfilledQuantity(o)]
      /\ UNCHANGED <<tradeTopic, traded>>
  BY DEF Eng!Add, Eng!AddStop, Eng!AddOrder, Eng!topics
<1>5. ASSUME NEW i \in Orders, i # o.id PROVE received'[i] = received[i] /\ offered'[i] = offered[i]
  BY <1>2, <1>4, <1>5
<1>6. received'[o.id] = received[o.id] + 1
  BY <1>2, <1>3, <1>4
<1>7. MessagesFit'
  BY <1>1, MessagesStay
<1>8. Fresh'
  BY <1>1, <1>2, <1>3, <1>4, <1>5, <1>6 DEF Fresh
<1>9. Gone'
  <2>1. ASSUME NEW i \in Orders, Plain(i), cancelledAt[i] = received'[i] PROVE Eng!Nowhere(i)'
    <3>1. i # o.id
      BY <1>1, <1>2, <1>3, <1>6, <2>1 DEF Gone
    <3>2. Eng!Nowhere(i)
      BY <1>1, <1>5, <2>1, <3>1 DEF Gone
    <3>3. Eng!IsPlain(i) /\ Eng!TypeOK /\ Eng!StopsAreStops
      BY <2>1, EngineParts, PlainIsPlain
    <3> QED BY <3>1, <3>2, <3>3, EngineConstants, Eng!AbsentAdd
  <2>2. ASSUME NEW i \in Orders PROVE cancelledAt[i] <= received'[i]
    <3>1. cancelledAt[i] <= received[i] /\ cancelledAt[i] \in Int /\ received[i] \in Nat
      BY <1>1, <1>2 DEF Gone
    <3>2. received'[i] = received[i] \/ received'[i] = received[i] + 1
      BY <1>5, <1>6
    <3> QED BY <3>1, <3>2
  <2> QED BY <1>1, <2>1, <2>2 DEF Gone, Plain
<1>10. ReadsOn'
  BY <1>1, <1>4 DEF ReadsOn
<1>11. ASSUME Kept(o.id) PROVE Kept(o.id)'
  <2>1. CASE received[o.id] # 0
    <3>1. received'[o.id] > 1
      BY <1>2, <1>3, <1>6, <2>1
    <3>2. received'[o.id] # 1 /\ ~ received'[o.id] <= 1
      BY <1>2, <1>3, <1>6, <2>1
    <3> QED BY <3>2 DEF Kept, Once
  <2>2. CASE received[o.id] = 0
    <3>1. /\ rows[o.id].volume = Details[o.id].quantity /\ offered[o.id] = 0 /\ traded[o.id] = 0
          /\ o.filled = 0 /\ (o.cancelled => rows[o.id].state = "cancel")
      BY <1>1, <1>3, <2>2 DEF Fresh, Fit
    <3>2. Eng!Nowhere(o.id) /\ Unread(o.id) = 0
      BY <1>1, <1>3, <2>2, UnknownIsAbsent
    <3>3. Unread(o.id)' = 0
      BY <1>4, <3>2 DEF Unread
    <3>4. offered'[o.id] = Details[o.id].quantity
      BY <1>2, <1>3, <1>4, <3>1, RowOfOrder
    <3>5. Open(o.id)' = rows[o.id].volume
      BY <1>3, <1>4, <3>1, <3>3, <3>4, RowOfOrder DEF Open
    <3>6. ASSUME Once(o.id)', Plain(o.id) PROVE Eng!InOnePlace(o.id)'
      <4>1. ~ o.cancelled
        BY <3>1, <3>6 DEF Once
      <4>2. Eng!InOnePlace(o.id)
        BY <3>1, <3>2 DEF Eng!InOnePlace
      <4>3. Eng!TypeOK /\ Eng!IsPlain(o.id)
        BY <1>3, <3>6, EngineParts, PlainIsPlain
      <4> QED BY <1>3, <2>2, <4>1, <4>2, <4>3, EngineConstants, Eng!PlaceAdd
    <3>7. Open(o.id)' <= rows[o.id].volume
      BY <1>1, <1>3, <3>5, OpenIsInt
    <3> QED BY <3>5, <3>6, <3>7 DEF Kept, Plain
  <2> QED BY <2>1, <2>2
<1>12. ASSUME NEW i \in Orders, i # o.id, Kept(i) PROVE Kept(i)'
  <2>1. Open(i)' = Open(i)
    BY <1>4, <1>5, <1>12 DEF Open, Unread
  <2>2. Once(i)' => Once(i)
    BY <1>5, <1>12 DEF Once
  <2>3. Eng!InOnePlace(i) /\ Eng!IsPlain(i) => Eng!InOnePlace(i)'
    BY <1>12, EngineParts, EngineConstants, Eng!PlaceAdd
  <2> QED BY <1>5, <1>12, <2>1, <2>2, <2>3, KeptStays
<1>13. Counted'
  BY <1>1, <1>3, <1>11, <1>12 DEF Counted
<1> QED BY <1>7, <1>8, <1>9, <1>10, <1>13 DEF Paired

LEMMA FormFits == ASSUME NEW m, Fit(m) PROVE Fit(Form(m))
BY DEF Fit, Form

LEMMA ReadSubmitPaired == ASSUME Whole, Moves, Eng!Covered', ReadSubmit PROVE Paired'
<1> DEFINE m == Head(inbox).order
<1>1. /\ inbox # <<>> /\ Head(inbox).action = "submit" /\ inbox' = Tail(inbox) /\ Engine!Submit(Form(m))
      /\ UNCHANGED <<moneyVars, matchingTopic, missed, cancelledAt, executed, rewinds>>
  BY DEF ReadSubmit, Read, executorRead
<1>2. inbox \in Seq(Known) /\ TopicsSound
  BY Types DEF Whole, Sound
<1>3. m \in Mon!Bounded
  BY <1>1, <1>2, HeadIsKnown
<1>4. m \in Submitted
  BY <1>1, <1>2, SubmitsOfTail DEF Submitted
<1>5. Submitted' \subseteq Submitted /\ \A x \in Submitted : x \in Submitted' \/ x = m
  BY <1>1, <1>2, SubmitsOfTail DEF Submitted
<1> HIDE DEF m
<1>6. PICK o \in AllForms : o = Form(m) /\ o.id = m.id
  BY <1>3, FormIsSubmission
<1>7. Eng!Submit(o)
  BY <1>1, <1>6, SameReceive
<1>8. pc = "idle" /\ Eng!Add(o) /\ UNCHANGED loading
  BY <1>7 DEF Eng!Submit
<1>9. Fit(o)
  BY <1>4, <1>6, FormFits DEF Whole, Paired, ReadsLog, MessagesFit, InFlight
<1>10. UNCHANGED <<rows, producing>> /\ Logged' = Logged
  BY <1>1 DEF moneyVars, Logged
<1>11. \A x \in InFlight' : x \in InFlight
  BY <1>8, <1>10 DEF InFlight
<1>12. \A i \in Orders : i # o.id /\ Again(i) => Again(i)'
  BY <1>5, <1>6, <1>8 DEF Again
<1> QED BY <1>1, <1>8, <1>9, <1>10, <1>11, <1>12, DeliveryPairs

LEMMA LoadPaired ==
  ASSUME Whole, Moves, Eng!Covered', NEW o \in loading, Eng!Load(o),
         UNCHANGED <<moneyVars, matchingTopic, inbox, missed, executed, rewinds, cancelledAt>>
  PROVE  Paired'
<1>1. pc = "idle" /\ Eng!Add(o) /\ loading' = loading \ {o}
  BY DEF Eng!Load
<1>2. o \in AllForms
  BY Types DEF Whole
<1>3. Fit(o)
  BY DEF Whole, Paired, MessagesFit, InFlight
<1>4. UNCHANGED <<rows, producing>> /\ Submitted' = Submitted /\ Logged' = Logged
  BY DEF moneyVars, Submitted, Logged
<1>5. \A x \in InFlight' : x \in InFlight
  BY <1>1, <1>4 DEF InFlight
<1>6. \A i \in Orders : i # o.id /\ Again(i) => Again(i)'
  BY <1>1, <1>4 DEF Again
<1> QED BY <1>1, <1>2, <1>3, <1>4, <1>5, <1>6, DeliveryPairs

\* What the engine trades it publishes, and the executor has not read it yet.
LEMMA OwnPaired ==
  ASSUME Whole, Moves, Eng!Covered', Eng!Own,
         UNCHANGED <<moneyVars, matchingTopic, inbox, missed, executed, rewinds, cancelledAt>>
  PROVE  Paired'
<1>1. Sound /\ MessagesFit /\ Fresh /\ Gone /\ ReadsOn /\ Counted
  BY DEF Whole, Paired
<1>2. /\ UNCHANGED <<loading, received, offered>>
      /\ \/ UNCHANGED <<tradeTopic, traded>>
         \/ \E t \in Eng!Trade : Eng!Counts(t) /\ received[t.maker] > 0 /\ received[t.taker] > 0
  BY EngineParts, EngineConstants, Eng!OwnCounts
<1>3. UNCHANGED <<rows, producing>> /\ Submitted' = Submitted /\ Logged' = Logged
  BY DEF moneyVars, Submitted, Logged
<1>4. MessagesFit'
  <2>1. InFlight' = InFlight
    BY <1>2, <1>3 DEF InFlight
  <2> QED BY <1>1, <2>1, MessagesStay
<1>5. /\ ReadsOn' /\ Fresh'
      /\ \A i \in Orders : Open(i)' = Open(i)
  <2>1. CASE UNCHANGED <<tradeTopic, traded>>
    BY <1>1, <1>2, <1>3, <2>1 DEF ReadsOn, Fresh, Open, Unread
  <2>2. ASSUME NEW t \in Eng!Trade, Eng!Counts(t), received[t.maker] > 0, received[t.taker] > 0
        PROVE  ReadsOn' /\ Fresh' /\ \A i \in Orders : Open(i)' = Open(i)
    <3>1. /\ tradeTopic' = Append(tradeTopic, t)
          /\ \A i \in Orders : traded'[i] = traded[i] + Amount(i, t)
      BY <2>2 DEF Eng!Counts, Amount
    <3>2. tradeTopic \in Seq(Eng!Trade) /\ executed \in Nat /\ Len(tradeTopic) \in Nat
      BY <1>1, Types
    <3>3. ReadsOn'
      <4>1. Len(Append(tradeTopic, t)) = Len(tradeTopic) + 1
        BY <3>2
      <4> QED BY <1>1, <3>1, <3>2, <4>1 DEF ReadsOn
    <3>4. ASSUME NEW i \in Orders PROVE Open(i)' = Open(i)
      <4>1. UnreadOf(Append(tradeTopic, t), executed, i) = UnreadOf(tradeTopic, executed, i) + Amount(i, t)
        BY <1>1, <2>2, <3>2, UnreadOfMore DEF ReadsOn
      <4>2. Unread(i)' = Unread(i) + Amount(i, t)
        BY <3>1, <4>1 DEF Unread
      <4>3. Amount(i, t) \in Nat
        BY DEF Amount, Eng!Trade
      <4> QED BY <1>1, <1>2, <3>1, <4>2, <4>3, OpenIsInt DEF Open
    <3>5. Fresh'
      <4>1. \A i \in Orders : received[i] = 0 => traded'[i] = traded[i]
        <5>1. \A i \in Orders : received[i] = 0 => Amount(i, t) = 0
          BY <2>2 DEF Amount
        <5> QED BY <1>1, <3>1, <5>1, Types
      <4> QED BY <1>1, <1>2, <1>3, <4>1 DEF Fresh
    <3> QED BY <3>3, <3>4, <3>5
  <2> QED BY <1>2, <2>1, <2>2
<1>6. Gone'
  <2>1. ASSUME NEW i \in Orders, Plain(i), cancelledAt[i] = received[i] PROVE Eng!Nowhere(i)'
    <3>1. Eng!Nowhere(i)
      BY <1>1, <2>1 DEF Gone
    <3> QED BY <2>1, <3>1, EngineParts, PlainIsPlain, EngineConstants, Eng!AbsentStays
  <2> QED BY <1>1, <1>2, <2>1 DEF Gone, Plain
<1>7. Counted'
  <2>1. ASSUME NEW i \in Orders, Kept(i) PROVE Kept(i)'
    <3>1. Once(i)' => Once(i)
      BY <1>2, <1>3 DEF Once, Again
    <3>2. Eng!InOnePlace(i) /\ Eng!IsPlain(i) => Eng!InOnePlace(i)'
      BY EngineParts, EngineConstants, Eng!PlaceOwn
    <3> QED BY <1>2, <1>3, <1>5, <2>1, <3>1, <3>2, KeptStays
  <2> QED BY <1>1, <2>1 DEF Counted
<1> QED BY <1>4, <1>5, <1>6, <1>7 DEF Paired

LEMMA MatchPaired == ASSUME Whole, Moves, Eng!Covered', Match PROVE Paired'
<1>1. Eng!Work /\ UNCHANGED <<moneyVars, matchingTopic, inbox, missed, executed, rewinds, cancelledAt>>
  BY SameWork DEF Match, matching, executorRead
<1>2. Eng!Own \/ \E o \in loading : Eng!Load(o)
  BY <1>1 DEF Eng!Work, Eng!Own
<1> QED BY <1>1, <1>2, OwnPaired, LoadPaired

-----------------------------------------------------------------------------
(* Cancels and reloads. *)

LEMMA ReadCancelPaired == ASSUME Whole, Moves, Eng!Covered', ReadCancel PROVE Paired'
<1> DEFINE m == Head(inbox).order
<1>1. /\ inbox # <<>> /\ Head(inbox).action = "cancel" /\ inbox' = Tail(inbox) /\ Engine!CancelWithKey(Form(m))
      /\ cancelledAt' = [cancelledAt EXCEPT ![m.id] = received[m.id]]
      /\ UNCHANGED <<moneyVars, matchingTopic, missed, executed, rewinds>>
  BY DEF ReadCancel, Read, executorRead
<1>2. inbox \in Seq(Known) /\ TopicsSound
  BY Types DEF Whole, Sound
<1>3. m \in Mon!Bounded
  BY <1>1, <1>2, HeadIsKnown
<1>4. SubmitsOf(Tail(inbox)) = SubmitsOf(inbox)
  <2>1. /\ SubmitsOf(Tail(inbox)) \subseteq SubmitsOf(inbox)
        /\ \A x \in SubmitsOf(inbox) : x \in SubmitsOf(Tail(inbox)) \/ Head(inbox).action = "submit"
    BY <1>1, <1>2, SubmitsOfTail
  <2> QED BY <1>1, <2>1
<1> HIDE DEF m
<1>5. PICK key \in AllForms : key = Form(m) /\ key.id = m.id
  BY <1>3, FormIsSubmission
<1>6. key.id \in Orders /\ Eng!CancelWithKey(key)
  BY <1>1, <1>5, SameReceive, FormFields
<1>7. UNCHANGED <<loading, received, offered, traded, tradeTopic>>
  BY <1>6 DEF Eng!CancelWithKey
<1>8. UNCHANGED <<rows, producing>> /\ Submitted' = Submitted /\ Logged' = Logged
  BY <1>1, <1>4 DEF moneyVars, Submitted, Logged
<1>9. Sound /\ MessagesFit /\ Fresh /\ Gone /\ ReadsOn /\ Counted
  BY DEF Whole, Paired
<1>10. received \in [Orders -> Nat]
  BY <1>9, Types
<1>11. /\ cancelledAt' \in [Orders -> Int] /\ cancelledAt'[key.id] = received[key.id]
       /\ \A i \in Orders : i # key.id => cancelledAt'[i] = cancelledAt[i]
  BY <1>1, <1>5, <1>6, <1>9, <1>10 DEF Gone
<1>12. MessagesFit'
  <2>1. InFlight' = InFlight
    BY <1>7, <1>8 DEF InFlight
  <2> QED BY <1>9, <2>1, MessagesStay
<1>13. Fresh' /\ ReadsOn'
  BY <1>1, <1>7, <1>8, <1>9 DEF Fresh, ReadsOn
<1>14. Gone'
  <2>1. Eng!Nowhere(key.id)'
    BY <1>6, EngineParts, EngineConstants, Eng!CancelTakesOut
  <2>2. ASSUME NEW i \in Orders, i # key.id, Plain(i), cancelledAt'[i] = received[i] PROVE Eng!Nowhere(i)'
    <3>1. Eng!Nowhere(i)
      BY <1>9, <1>11, <2>2 DEF Gone
    <3> QED BY <1>6, <2>2, <3>1, EngineParts, PlainIsPlain, EngineConstants, Eng!AbsentStays
  <2>3. \A i \in Orders : cancelledAt'[i] <= received[i]
    BY <1>9, <1>10, <1>11 DEF Gone
  <2> QED BY <1>7, <1>11, <2>1, <2>2, <2>3 DEF Gone, Plain
<1>15. \A i \in Orders : Open(i)' = Open(i)
  BY <1>1, <1>7 DEF Open, Unread
<1>16. \A i \in Orders : Once(i)' => Once(i)
  BY <1>1, <1>7, <1>8 DEF Once, Again
<1>17. ASSUME Kept(key.id) PROVE Kept(key.id)'
  <2>1. Once(key.id)' => ~ cancelledAt'[key.id] < 1
    BY <1>6, <1>7, <1>11 DEF Once
  <2>2. (received[key.id] <= 1 => Open(key.id) <= rows[key.id].volume)'
    BY <1>6, <1>7, <1>8, <1>15, <1>17 DEF Kept
  <2>3. (Once(key.id) => rows[key.id].volume = Open(key.id))'
    BY <1>6, <1>8, <1>15, <1>16, <1>17 DEF Kept
  <2> QED BY <2>1, <2>2, <2>3 DEF Kept
<1>18. ASSUME NEW i \in Orders, i # key.id, Kept(i) PROVE Kept(i)'
  <2>1. Eng!InOnePlace(i) => Eng!InOnePlace(i)'
    BY <1>6, <1>18, EngineParts, EngineConstants, Eng!PlaceCancel
  <2> QED BY <1>7, <1>8, <1>11, <1>15, <1>16, <1>18, <2>1, KeptStays
<1>19. Counted'
  BY <1>1, <1>6, <1>9, <1>17, <1>18 DEF Counted
<1> QED BY <1>12, <1>13, <1>14, <1>19 DEF Paired

\* An order that is over has nothing open, when it was given to the engine once.
LEMMA DoneIsTraded ==
  ASSUME Whole, NEW i \in Orders, Kept(i), received[i] <= 1, rows[i].state = "done"
  PROVE  offered[i] = traded[i] /\ Unread(i) = 0
<1>1. rows[i].volume = 0
  BY DEF Whole, MoneySound, Mon!DoneIsEmpty
<1>2. traded[i] <= offered[i]
  BY EngineConstants, Eng!CoveredIsEnough DEF Whole, Eng!NoOverfill
<1>3. Open(i) <= 0
  BY <1>1 DEF Kept
<1>4. Unread(i) \in Nat /\ offered[i] \in Nat /\ traded[i] \in Nat
  BY OpenIsInt DEF Whole
<1>5. offered[i] - traded[i] + Unread(i) <= 0 /\ traded[i] <= offered[i]
  BY <1>2, <1>3 DEF Open
<1> QED BY <1>4, <1>5

\* A new engine, for a reload or a process that starts again: every order that waits is
\* given to it, so none is left that was given to the engine once and waits.
LEMMA LoadOrdersPaired ==
  ASSUME Whole, Moves, LoadOrders, UNCHANGED <<matchingTopic, executed, rewinds>>
  PROVE  Paired'
<1> DEFINE waiting == {Form(Money!Message(i, rows[i])) : i \in Waiting}
<1>1. Engine!Reload(waiting) /\ Money!LoadOrders /\ UNCHANGED cancelledAt
  BY DEF LoadOrders
<1>2. Sound /\ MessagesFit /\ Fresh /\ Gone /\ ReadsOn /\ Counted
  BY DEF Whole, Paired
<1>4. UNCHANGED <<rows, producing>> /\ Logged' = Logged
  BY <1>1 DEF Money!LoadOrders, Money!processor, Logged
<1>5. ASSUME NEW x \in waiting PROVE x \in AllForms /\ Fit(x)'
  <2>1. PICK i \in Waiting : x = Form(Money!Message(i, rows[i]))
    OBVIOUS
  <2>2. i \in Orders
    BY DEF Waiting
  <2>3. x \in AllForms
    BY <1>2, <2>1, <2>2, RowAsMessage, FormIsSubmission DEF Sound
  <2>4. x.id = i /\ x.filled = Details[i].quantity - rows[i].volume
        /\ x.cancelled = (rows[i].state \in {"cancel", "done"})
    BY <2>1 DEF Form, Money!Message
  <2>5. Fit(x)'
    BY <1>2, <2>2, <2>4, RowFits
  <2> QED BY <2>3, <2>5
<1>6. ASSUME NEW i \in Orders, rows[i].state = "wait" PROVE \E x \in waiting : x.id = i
  <2>1. i \in Waiting
    BY <1>6 DEF Waiting
  <2>2. Form(Money!Message(i, rows[i])) \in waiting
    BY <2>1
  <2>3. Form(Money!Message(i, rows[i])).id = i
    BY DEF Form, Money!Message
  <2> QED BY <2>2, <2>3
<1>7. PICK w \in SUBSET AllForms :
        w = waiting /\ (\A x \in w : Fit(x)') /\ \A i \in Orders : rows[i].state = "wait" => \E x \in w : x.id = i
  BY <1>5, <1>6
<1> HIDE DEF waiting
<1>8. Eng!Reload(w)
  BY <1>1, <1>7, SameReceive
<1>9. loading' = w /\ UNCHANGED <<received, offered, traded, tradeTopic>>
  BY <1>8 DEF Eng!Reload, Eng!topics
<1>10. \A i : Eng!Nowhere(i)'
  BY <1>8, EngineConstants, Eng!ReloadTakesOut
<1>11. MessagesFit'
  <2>1. \A m \in InFlight' : m \in InFlight \/ Fit(m)'
    BY <1>4, <1>7, <1>9 DEF InFlight
  <2> QED BY <1>2, <2>1, MessagesStay
<1>12. Fresh' /\ ReadsOn' /\ Gone'
  BY <1>1, <1>2, <1>4, <1>9, <1>10 DEF Fresh, ReadsOn, Gone
<1>13. ASSUME NEW i \in Orders, Kept(i) PROVE Kept(i)'
  <2>1. Open(i)' = Open(i)
    BY <1>1, <1>9 DEF Open, Unread
  <2>2. Once(i)' => received[i] = 1 /\ rows[i].state = "done"
    <3>1. rows[i].state = "wait" => Again(i)'
      BY <1>7, <1>9 DEF Again
    <3> QED BY <1>4, <1>9, <3>1 DEF Once
  <2>3. Once(i)' => Eng!InOnePlace(i)'
    <3>1. Once(i)' => offered[i] = traded[i]
      BY <1>13, <2>2, DoneIsTraded
    <3> QED BY <1>9, <1>10, <3>1 DEF Eng!InOnePlace
  <2>4. (received[i] <= 1 => Open(i) <= rows[i].volume)'
    BY <1>4, <1>9, <1>13, <2>1 DEF Kept
  <2>5. (Once(i) => rows[i].volume = Open(i))'
    <3>1. Once(i)' => offered[i] = traded[i] /\ Unread(i) = 0
      BY <1>13, <2>2, DoneIsTraded
    <3>2. Once(i)' => rows[i].volume = 0
      BY <2>2 DEF Whole, MoneySound, Mon!DoneIsEmpty
    <3>3. Once(i)' => Open(i) = 0
      BY <1>2, <3>1, OpenIsInt DEF Open
    <3> QED BY <1>4, <2>1, <3>2, <3>3
  <2> QED BY <2>3, <2>4, <2>5 DEF Kept
<1>14. Counted'
  BY <1>1, <1>2, <1>13 DEF Counted
<1> QED BY <1>11, <1>12, <1>14 DEF Paired

LEMMA ReloadsPaired == ASSUME Whole, Moves, ReadReload \/ RestartEngine PROVE Paired'
<1>1. LoadOrders /\ UNCHANGED matchingTopic
  BY DEF ReadReload, Read, RestartEngine
<1>2. UNCHANGED <<executed, rewinds>>
  BY <1>1 DEF LoadOrders, executorRead
<1> QED BY <1>1, <1>2, LoadOrdersPaired

\* The engine joins: what it was still to read it may miss, and then it counts as missed,
\* or it is in what is read again.
LEMMA JoinPaired == ASSUME Whole, Moves, Join PROVE Paired'
<1>1. /\ UNCHANGED <<engineVars, moneyVars, matchingTopic, cancelledAt, executed, rewinds>>
      /\ \/ inbox' = matchingTopic /\ UNCHANGED missed
         \/ inbox' = <<>> /\ missed' = missed \cup OrdersOf(inbox)
  BY DEF Join, executorRead
<1>2. Sound /\ MessagesFit /\ Fresh /\ Gone /\ ReadsOn /\ Counted
  BY DEF Whole, Paired
<1>3. UNCHANGED <<rows, producing, loading>> /\ Logged' = Logged
  BY <1>1 DEF engineVars, moneyVars, Logged
<1>4. \A i \in Orders : Mon!Stands(i)
  BY <1>3 DEF Mon!Stands
<1>5. InFlight' = InFlight
  BY <1>3 DEF InFlight
<1>6. /\ MessagesFit' /\ Fresh' /\ Gone'
      /\ UNCHANGED <<received, offered, traded, tradeTopic>>
      /\ \A i \in Orders : Eng!InOnePlace(i) => Eng!InOnePlace(i)'
  BY <1>1, <1>2, <1>4, <1>5, EngineRests
<1>7. ASSUME NEW i \in Orders, Again(i) PROVE Again(i)' \/ i \in missed'
  <2>1. CASE \E m \in loading : m.id = i
    BY <1>3, <2>1 DEF Again
  <2>2. CASE \E m \in Submitted : m.id = i
    <3>1. Submitted \subseteq Logged
      BY DEF Whole, ReadsLog
    <3>2. inbox' = matchingTopic => Again(i)'
      BY <1>3, <2>2, <3>1 DEF Again, Submitted, Logged
    <3>3. i \in OrdersOf(inbox)
      BY <2>2 DEF Submitted, SubmitsOf, OrdersOf
    <3> QED BY <1>1, <3>2, <3>3
  <2> QED BY <1>7, <2>1, <2>2 DEF Again
<1>8. Counted' /\ ReadsOn'
  BY <1>1, <1>2, <1>4, <1>6, <1>7, CountsStay
<1> QED BY <1>6, <1>8 DEF Paired

-----------------------------------------------------------------------------
(* The steps of the trade_executor. *)

\* What is left to read once the next trade is read.
LEMMA NextIsRead ==
  ASSUME Sound, executed < Len(tradeTopic), executed' = executed + 1, UNCHANGED tradeTopic,
         NEW t, t = NextTrade, NEW i
  PROVE  Unread(i) = Amount(i, t) + Unread(i)'
<1>1. t = tradeTopic[executed + 1]
  BY DEF NextTrade
<1>2. UnreadOf(tradeTopic, executed, i)
        = Amount(i, tradeTopic[executed + 1]) + UnreadOf(tradeTopic, executed + 1, i)
  BY Types, UnreadOfNext
<1> QED BY <1>1, <1>2 DEF Unread

LEMMA SettlePaired == ASSUME Whole, Moves, SettleTrade PROVE Paired'
<1>1. /\ executed < Len(tradeTopic) /\ Money!Settle(NextTrade) /\ executed' = executed + 1
      /\ UNCHANGED <<engineVars, matchingTopic, inbox, missed, cancelledAt, rewinds>>
  BY DEF SettleTrade, matching
<1>2. Sound /\ MessagesFit /\ Fresh /\ Gone /\ ReadsOn /\ Counted
  BY DEF Whole, Paired
<1>3. PICK t \in Mon!Payload :
        /\ t = NextTrade /\ Mon!EnginePublishes(t) /\ t.maker \in Orders /\ t.taker \in Orders
        /\ Mon!Real(t) = {t.maker, t.taker} /\ received[t.maker] > 0 /\ received[t.taker] > 0
        /\ t.quantity \in Nat \ {0}
  BY <1>1, <1>2, NextTradeIsFair
<1>4. Mon!SettleTrade(t)
  BY <1>1, <1>3, SameSettle DEF Mon!SettleTrade
<1>5. ASSUME NEW j \in Orders
      PROVE  IF j \in {t.maker, t.taker}
             THEN rows[j].state = "wait" /\ rows'[j].volume = rows[j].volume - t.quantity
             ELSE rows'[j] = rows[j]
  BY <1>2, <1>3, <1>4, Types, MoneyConstants, Mon!SettleRows
<1>6. UNCHANGED <<producing, missed>> /\ Submitted' = Submitted /\ Logged' = Logged /\ loading' = loading
  BY <1>1 DEF Money!Settle, Money!processor, Submitted, Logged, engineVars
<1>7. \A i \in Orders : received[i] = 0 => Mon!Stands(i)
  BY <1>3, <1>5 DEF Mon!Stands
<1>8. /\ MessagesFit' /\ Fresh' /\ Gone'
      /\ UNCHANGED <<received, offered, traded, tradeTopic, loading>>
      /\ \A i \in Orders : Eng!InOnePlace(i) => Eng!InOnePlace(i)'
  <2>1. \A m \in InFlight' : m \in InFlight \/ Fit(m)'
    BY <1>6 DEF InFlight
  <2> QED BY <1>1, <1>2, <1>7, <2>1, EngineRests
<1>9. ReadsOn'
  BY <1>1, <1>2, <1>8, Types DEF ReadsOn
<1>10. ASSUME NEW i \in Orders, Kept(i) PROVE Kept(i)'
  <2>1. Unread(i) = Amount(i, t) + Unread(i)'
    BY <1>1, <1>2, <1>3, <1>8, NextIsRead
  <2>2. /\ Unread(i) \in Nat /\ offered[i] \in Nat /\ traded[i] \in Nat /\ rows[i].volume \in Nat
        /\ t.quantity \in Nat
    BY <1>2, <1>3, OpenIsInt
  <2>3. \A j \in Orders : Again(j)' = Again(j)
    BY <1>6 DEF Again
  <2>4. CASE i \in {t.maker, t.taker}
    <3>1. rows[i].state = "wait" /\ rows'[i].volume = rows[i].volume - t.quantity /\ Amount(i, t) = t.quantity
      BY <1>5, <2>4 DEF Amount
    <3>2. Unread(i)' = Unread(i) - t.quantity
      <4>1. Unread(i)' \in Nat
        BY <1>1, <1>2, <1>8, Types, UnreadIsNat DEF Unread
      <4>2. Amount(i, t) = t.quantity
        BY <3>1
      <4> QED BY <2>1, <2>2, <4>1, <4>2
    <3>3. Open(i)' = Open(i) - t.quantity
      BY <1>8, <2>2, <3>2 DEF Open
    <3>4. Open(i) \in Int
      BY <1>2, OpenIsInt
    <3>5. Once(i)' => Once(i)
      BY <1>6, <1>8, <2>3, <3>1 DEF Once
    <3>6. (received[i] <= 1 => Open(i) <= rows[i].volume)'
      BY <1>8, <1>10, <2>2, <3>1, <3>3, <3>4 DEF Kept
    <3>7. (Once(i) => rows[i].volume = Open(i))'
      BY <1>10, <3>1, <3>3, <3>5 DEF Kept
    <3>8. (Once(i) /\ Plain(i) /\ cancelledAt[i] < 1 => Eng!InOnePlace(i))'
      BY <1>1, <1>8, <1>10, <3>5 DEF Kept, Plain
    <3> QED BY <3>6, <3>7, <3>8 DEF Kept
  <2>5. CASE i \notin {t.maker, t.taker}
    <3>1. rows'[i] = rows[i] /\ Amount(i, t) = 0
      BY <1>5, <2>5 DEF Amount
    <3>2. Unread(i)' \in Nat
      BY <1>1, <1>2, <1>8, Types, UnreadIsNat DEF Unread
    <3>3. Open(i)' = Open(i)
      BY <1>8, <2>1, <3>1, <3>2 DEF Open
    <3>4. Once(i)' => Once(i)
      BY <1>6, <1>8, <2>3, <3>1 DEF Once
    <3> QED BY <1>1, <1>8, <1>10, <3>1, <3>3, <3>4, KeptStays
  <2> QED BY <2>4, <2>5
<1>11. Counted'
  BY <1>1, <1>2, <1>10 DEF Counted
<1> QED BY <1>8, <1>9, <1>11 DEF Paired

\* What an executor that refuses a trade hands back: the orders that wait by the table.
LEMMA ToHandBackIs ==
  ASSUME NEW t, Money!HandedBack(t) \subseteq Mon!Bounded
  PROVE  /\ ToHandBack(t) \in Seq([action: {"submit"}, order: Mon!Bounded])
         /\ SubmitsOf(ToHandBack(t)) \subseteq Money!HandedBack(t)
         /\ \A m \in Money!HandedBack(t) :
              m.id \in {t.maker, t.taker} => \E x \in SubmitsOf(ToHandBack(t)) : x.id = m.id
<1> DEFINE of(i) == {m \in Money!HandedBack(t) : m.id = i}
           one(S) == IF S = {} THEN <<>> ELSE <<Submission(CHOOSE m \in S : TRUE)>>
           Sent == [action: {"submit"}, order: Mon!Bounded]
<1>1. ASSUME NEW i
      PROVE  /\ one(of(i)) \in Seq(Sent) /\ SubmitsOf(one(of(i))) \subseteq of(i)
             /\ of(i) # {} => \E x \in SubmitsOf(one(of(i))) : x.id = i
  <2>1. CASE of(i) = {}
    <3>1. one(of(i)) = <<>>
      BY <2>1
    <3>2. SubmitsOf(<<>>) = {}
      BY DEF SubmitsOf
    <3>3. <<>> \in Seq(Sent)
      OBVIOUS
    <3> HIDE DEF one, of
    <3> QED BY <2>1, <3>1, <3>2, <3>3
  <2>2. CASE of(i) # {}
    <3>1. PICK m : m = CHOOSE x \in of(i) : TRUE
      OBVIOUS
    <3>2. m \in of(i)
      BY <2>2, <3>1
    <3>3. m.id = i /\ m \in Mon!Bounded /\ one(of(i)) = <<Submission(m)>>
      BY <2>2, <3>1, <3>2
    <3>4. Submission(m) \in Sent /\ Submission(m).order = m /\ Submission(m).action = "submit"
      BY <3>3 DEF Submission
    <3>5. PICK e : e = Submission(m)
      OBVIOUS
    <3> HIDE DEF one, of
    <3>6. SubmitsOf(<<e>>) = {e.order}
      BY <3>4, <3>5 DEF SubmitsOf
    <3>7. <<e>> \in Seq(Sent)
      BY <3>4, <3>5
    <3> QED BY <2>2, <3>2, <3>3, <3>4, <3>5, <3>6, <3>7
  <2> QED BY <2>1, <2>2
<1>2. ToHandBack(t) = one(of(t.maker)) \o one(of(t.taker))
  BY DEF ToHandBack, InOrder
<1>3. \A m \in Money!HandedBack(t) : m \in of(m.id)
  OBVIOUS
<1>4. of(t.maker) \subseteq Money!HandedBack(t) /\ of(t.taker) \subseteq Money!HandedBack(t)
  OBVIOUS
<1> HIDE DEF of, one, Sent
<1>5. SubmitsOf(ToHandBack(t)) = SubmitsOf(one(of(t.maker))) \cup SubmitsOf(one(of(t.taker)))
  BY <1>1, <1>2, SubmitsOfBoth
<1>6. ToHandBack(t) \in Seq(Sent)
  BY <1>1, <1>2
<1>7. SubmitsOf(ToHandBack(t)) \subseteq Money!HandedBack(t)
  BY <1>1, <1>4, <1>5
<1>8. ASSUME NEW m \in Money!HandedBack(t), m.id \in {t.maker, t.taker}
      PROVE  \E x \in SubmitsOf(ToHandBack(t)) : x.id = m.id
  BY <1>1, <1>3, <1>5, <1>8
<1> QED BY <1>6, <1>7, <1>8 DEF Sent

LEMMA RefusePaired ==
  ASSUME Mon!AllLimit, Mon!TakersEarn, Whole, Moves, RefuseTrade
  PROVE  Paired'
<1>1. /\ executed < Len(tradeTopic) /\ Money!Refuse(NextTrade) /\ executed' = executed + 1
      /\ inbox' = inbox \o ToHandBack(NextTrade)
      /\ matchingTopic' = matchingTopic \o ToHandBack(NextTrade)
      /\ UNCHANGED <<engineVars, missed, cancelledAt, rewinds>>
  BY DEF RefuseTrade, started
<1>2. Sound /\ MessagesFit /\ Fresh /\ Gone /\ ReadsOn /\ Counted
  BY DEF Whole, Paired
<1>3. PICK t \in Mon!Payload :
        /\ t = NextTrade /\ Mon!EnginePublishes(t) /\ t.maker \in Orders /\ t.taker \in Orders
        /\ Mon!Real(t) = {t.maker, t.taker} /\ received[t.maker] > 0 /\ received[t.taker] > 0
        /\ t.quantity \in Nat \ {0}
  BY <1>1, <1>2, NextTradeIsFair
<1>4. Mon!Refuse(t) /\ Money!HandedBack(t) = Mon!HandedBack(t)
  BY <1>1, <1>3, SameRefuse
<1>5. UNCHANGED <<rows, producing, loading>>
  BY <1>1 DEF Money!Refuse, Money!processor, engineVars
<1>6. Mon!RowsInMemory(t) = rows
  <2>1. ~ (Mon!Valid(t) /\ Mon!Struck(t).ok)
    BY <1>4 DEF Mon!Refuse
  <2> QED BY <1>3, <2>1, MoneyConstants, Mon!MemoryIsStored DEF Whole, Sound, MoneySound
<1>7. Money!HandedBack(t) = {Mon!Message(i, rows[i]) : i \in {j \in {t.maker, t.taker} : rows[j].state = "wait"}}
  BY <1>3, <1>4, <1>6 DEF Mon!HandedBack
<1>8. Money!HandedBack(t) \subseteq Mon!Bounded
  BY <1>2, <1>3, <1>4, MoneyConstants, Mon!HandedBackIsBounded DEF Sound
<1>9. /\ ToHandBack(t) \in Seq([action: {"submit"}, order: Mon!Bounded])
      /\ SubmitsOf(ToHandBack(t)) \subseteq Money!HandedBack(t)
      /\ \A m \in Money!HandedBack(t) :
           m.id \in {t.maker, t.taker} => \E x \in SubmitsOf(ToHandBack(t)) : x.id = m.id
  BY <1>8, ToHandBackIs
<1>10. Submitted' = Submitted \cup SubmitsOf(ToHandBack(t)) /\ Logged' = Logged \cup SubmitsOf(ToHandBack(t))
  BY <1>1, <1>2, <1>3, <1>9, HandedBackSubmits
<1>11. ASSUME NEW i \in {t.maker, t.taker}, rows[i].state = "wait" PROVE Again(i)'
  <2>1. Mon!Message(i, rows[i]) \in Money!HandedBack(t) /\ Mon!Message(i, rows[i]).id = i
    BY <1>7, <1>11 DEF Mon!Message
  <2>2. \E x \in SubmitsOf(ToHandBack(t)) : x.id = i
    BY <1>9, <2>1
  <2> QED BY <1>10, <2>2 DEF Again
<1>12. \A i \in Orders : Again(i) => Again(i)'
  BY <1>5, <1>10 DEF Again
<1>13. \A i \in Orders : Mon!Stands(i)
  BY <1>5 DEF Mon!Stands
<1>14. /\ MessagesFit' /\ Fresh' /\ Gone'
       /\ UNCHANGED <<received, offered, traded, tradeTopic, loading>>
       /\ \A i \in Orders : Eng!InOnePlace(i) => Eng!InOnePlace(i)'
  <2>1. UNCHANGED received
    BY <1>1 DEF engineVars
  <2>2. \A m \in Money!HandedBack(t) : received[m.id] > 0
    BY <1>3, <1>7 DEF Mon!Message
  <2>3. \A m \in InFlight' : m \in InFlight \/ Fit(m)'
    BY <1>5, <1>9, <1>10, <2>1, <2>2 DEF InFlight, Fit
  <2> QED BY <1>1, <1>2, <1>13, <2>3, EngineRests
<1>15. ReadsOn'
  BY <1>1, <1>2, <1>14, Types DEF ReadsOn
<1>16. ASSUME NEW i \in Orders, Kept(i) PROVE Kept(i)'
  <2>1. Unread(i) = Amount(i, t) + Unread(i)'
    BY <1>1, <1>2, <1>3, <1>14, NextIsRead
  <2>2. /\ Unread(i) \in Nat /\ offered[i] \in Nat /\ traded[i] \in Nat /\ rows[i].volume \in Nat
        /\ t.quantity \in Nat /\ Open(i) \in Int
    BY <1>2, <1>3, OpenIsInt
  <2>3. Unread(i)' \in Nat
    BY <1>1, <1>2, <1>14, Types, UnreadIsNat DEF Unread
  <2>4. Once(i)' => Once(i)
    BY <1>1, <1>5, <1>12, <1>14 DEF Once
  <2>5. CASE i \in {t.maker, t.taker}
    <3>1. Amount(i, t) = t.quantity
      BY <2>5 DEF Amount
    <3>2. Unread(i)' = Unread(i) - t.quantity
      BY <2>1, <2>2, <2>3, <3>1
    <3>3. Open(i)' = Open(i) - t.quantity
      BY <1>14, <2>2, <3>2 DEF Open
    <3>4. ~ Once(i)'
      <4>1. Once(i)' => rows[i].state # "wait"
        BY <1>11, <2>5 DEF Once
      <4>2. Once(i)' => received[i] = 1 /\ rows[i].state = "done"
        BY <2>4, <4>1 DEF Once
      <4>3. Once(i)' => Unread(i) = 0
        BY <1>16, <4>2, DoneIsTraded
      <4> QED BY <1>3, <2>2, <2>3, <3>2, <4>3
    <3>5. (received[i] <= 1 => Open(i) <= rows[i].volume)'
      BY <1>5, <1>14, <1>16, <2>2, <3>3 DEF Kept
    <3> QED BY <3>4, <3>5 DEF Kept
  <2>6. CASE i \notin {t.maker, t.taker}
    <3>1. Amount(i, t) = 0
      BY <2>6 DEF Amount
    <3>2. Open(i)' = Open(i)
      BY <1>14, <2>1, <2>3, <3>1 DEF Open
    <3> QED BY <1>1, <1>5, <1>14, <1>16, <2>4, <3>2, KeptStays
  <2> QED BY <2>5, <2>6
<1>17. Counted'
  BY <1>1, <1>2, <1>16 DEF Counted
<1> QED BY <1>14, <1>15, <1>17 DEF Paired

-----------------------------------------------------------------------------
(* All of it is kept. *)

\* What the engine is still to read was produced.
LEMMA LogStep == ASSUME Sound, ReadsLog, [Next]_vars PROVE ReadsLog'
<1>1. ASSUME NEW e \in Entries, Produce(e) PROVE ReadsLog'
  BY <1>1, ProducedSubmits DEF ReadsLog
<1>2. ASSUME NEW i \in Orders, RequestCancel(i) PROVE ReadsLog'
  <2>1. Money!Message(i, rows[i]) \in Mon!Bounded
    BY RowAsMessage DEF Sound
  <2>2. [action |-> "cancel", order |-> Money!Message(i, rows[i])] \in Entries
    BY <2>1 DEF Entries
  <2> QED BY <1>1, <1>2, <2>2 DEF RequestCancel
<1>3. CASE RequestReload
  <2>1. [action |-> "reload"] \in Entries  BY DEF Entries
  <2> QED BY <1>1, <1>3, <2>1 DEF RequestReload
<1>4. CASE ProduceMatching
  <2>1. producing \in Mon!Bounded
    BY <1>4 DEF ProduceMatching, Money!ProduceMatching, Sound, TopicsSound
  <2>2. Submission(producing) \in Entries
    BY <2>1 DEF Submission, Entries
  <2> QED BY <1>1, <1>4, <2>2 DEF ProduceMatching
<1>5. CASE RefuseTrade
  <2>1. /\ executed < Len(tradeTopic) /\ inbox' = inbox \o ToHandBack(NextTrade)
        /\ matchingTopic' = matchingTopic \o ToHandBack(NextTrade)
    BY <1>5 DEF RefuseTrade
  <2>2. NextTrade \in Mon!Payload /\ Mon!EnginePublishes(NextTrade)
    BY <2>1, NextTradeIsPublished
  <2>3. Money!HandedBack(NextTrade) \subseteq Mon!Bounded
    BY <2>2, SameRefuse, MoneyConstants, Mon!HandedBackIsBounded DEF Sound
  <2>4. ToHandBack(NextTrade) \in Seq([action: {"submit"}, order: Mon!Bounded])
    BY <2>3, ToHandBackIs
  <2> QED BY <2>1, <2>4, HandedBackSubmits DEF ReadsLog
<1>6. CASE ReadSubmit \/ ReadCancel \/ ReadReload
  <2>1. inbox # <<>> /\ inbox' = Tail(inbox) /\ UNCHANGED matchingTopic
    BY <1>6 DEF ReadSubmit, ReadCancel, ReadReload, Read
  <2>2. inbox \in Seq(Known)
    BY Types
  <2> QED BY <2>1, <2>2, SubmitsOfTail DEF ReadsLog, Submitted, Logged
<1>7. CASE RestartEngine \/ Join
  <2>1. UNCHANGED matchingTopic /\ (inbox' = <<>> \/ inbox' = matchingTopic)
    BY <1>7 DEF RestartEngine, Join
  <2> QED BY <2>1 DEF ReadsLog, Submitted, Logged, SubmitsOf
<1>8. UNCHANGED matching => ReadsLog'
  BY DEF matching, ReadsLog, Submitted, Logged
<1> QED
  BY <1>2, <1>3, <1>4, <1>5, <1>6, <1>7, <1>8
  DEF Next, Work, Match, HandleSubmit, SubmitAtStart, HandleCancel, SettleTrade, RestartProcessor,
      RestartExecutor, vars

LEMMA WholeInit == Init => Whole
<1> SUFFICES ASSUME Init PROVE Whole
  OBVIOUS
<1>1. Sound
  BY SoundInit
<1>2. Eng!Covered
  BY SameReceive, EngineConstants, Eng!CoveredInit DEF Init
<1>3. /\ rows = [i \in Orders |-> Money!FreshRow(i)] /\ lockedFunds = [a \in Money!Accounts |-> 0]
      /\ api = [i \in Orders |-> "sent"] /\ producing = None /\ announced = {} /\ ~ raced
  BY DEF Init, Money!SubmittedInit
<1>4. \A i \in Orders : rows[i].state = "pending" /\ rows[i].volume = Details[i].quantity
  BY <1>3 DEF Money!FreshRow
<1>5. MoneySound
  <2>1. lockedFunds = [a \in Mon!Accounts |-> 0]
    BY <1>3 DEF Money!Accounts, Money!Currencies, Mon!Accounts, Mon!Currencies
  <2>2. Mon!Backed
    BY <1>4, <2>1, MoneyConstants, Mon!NothingClaimed
  <2>3. Mon!NotCreatedYet /\ Mon!SentIsSubmitted /\ Mon!DoneIsEmpty
    BY <1>3, <1>4 DEF Mon!NotCreatedYet, Mon!SentIsSubmitted, Mon!Announced, Mon!DoneIsEmpty
  <2> QED BY <1>3, <2>2, <2>3 DEF MoneySound
<1>6. /\ loading = {} /\ inbox = <<>> /\ matchingTopic = <<>> /\ executed = 0 /\ rewinds = 0 /\ tradeTopic = <<>>
      /\ cancelledAt = [i \in Orders |-> -1]
      /\ \A i \in Orders : received[i] = 0 /\ offered[i] = 0 /\ traded[i] = 0
  BY DEF Init, Engine!Init
<1>7. MessagesFit /\ ReadsLog
  BY <1>3, <1>6 DEF MessagesFit, InFlight, ReadsLog, Logged, Submitted, SubmitsOf
<1>8. Fresh /\ Gone /\ ReadsOn
  BY <1>4, <1>6 DEF Fresh, Gone, ReadsOn
<1>9. ASSUME NEW i \in Orders PROVE Kept(i)
  <2>1. Open(i) = 0
    BY <1>1, <1>6, UnknownIsAbsent DEF Open
  <2> QED BY <1>1, <1>6, <2>1, OpenIsInt DEF Kept, Once
<1> QED BY <1>1, <1>2, <1>5, <1>7, <1>8, <1>9 DEF Whole, Paired, Counted

LEMMA WholeStep ==
  ASSUME Mon!AllLimit, Mon!TakersEarn, Whole, [Next]_vars
  PROVE  Whole'
<1>1. Sound /\ Eng!Covered /\ MoneySound /\ ReadsLog
  BY DEF Whole
<1>2. Sound' /\ Fits
  BY <1>1, SoundStep, StepFits
<1>3. Eng!Covered'
  BY <1>1, <1>2, EngineConstants, Eng!CoveredStep DEF Fits
<1>4. Moves /\ MoneySound'
  BY <1>1, MovesStep
<1>5. Paired'
  BY <1>3, <1>4, ClientsPaired, SubmitPaired, HandleCancelPaired, ProduceMatchingPaired,
     RestartProcessorPaired, StutterPaired, RestartExecutorPaired, ReadSubmitPaired, MatchPaired,
     ReadCancelPaired, ReloadsPaired, JoinPaired, SettlePaired, RefusePaired
  DEF Next, Work
<1>6. ReadsLog'
  BY <1>1, LogStep
<1> QED BY <1>2, <1>3, <1>4, <1>5, <1>6 DEF Whole

\* Between two messages, with nothing on its way, an order that waits rests with what its
\* row has left.
LEMMA QuietAgrees ==
  ASSUME Mon!AllLimit, Whole
  PROVE  BookAgrees
<1> SUFFICES ASSUME Quiet, rewinds = 0, NEW i \in Waiting, Plain(i), received[i] = 1, cancelledAt[i] = -1,
                    i \notin missed
             PROVE  \E r \in Resting(i) : Engine!UnfilledQuantity(r) = rows[i].volume
  BY DEF BookAgrees
<1>1. i \in Orders /\ rows[i].state = "wait"
  BY DEF Waiting
<1>2. Sound /\ Kept(i)
  BY <1>1 DEF Whole, Paired, Counted
<1>3. ~ Again(i)
  BY DEF Quiet, Again, Submitted, SubmitsOf
<1>4. rows[i].volume = Open(i) /\ Eng!InOnePlace(i)
  BY <1>1, <1>2, <1>3 DEF Once, Kept
<1>5. Unread(i) = 0
  <2>1. executed + 1 .. Len(tradeTopic) = {}
    BY <1>2, Types DEF Quiet
  <2>2. SumFunctionOnSet(Share(tradeTopic, i), {}) = 0
    BY SumOfNone
  <2> QED BY <2>1, <2>2 DEF Unread, UnreadOf
<1>6. rows[i].volume > 0
  BY <1>1, <1>2 DEF Sound, Mon!IInv, Mon!RowsSound, Mon!Sound, Mon!AllLimit
<1>7. offered[i] # traded[i]
  BY <1>1, <1>2, <1>4, <1>5, <1>6, OpenIsInt DEF Open
<1>8. PICK r \in asks \cup bids : r.id = i /\ offered[i] = traded[i] + Eng!UnfilledQuantity(r)
  BY <1>4, <1>7, EngineConstants, Eng!RestIsOnOffer DEF Quiet
<1>9. Eng!UnfilledQuantity(r) \in Int
  BY DEF Whole, Eng!Covered, Eng!TypeOK, Eng!Forms, Eng!Order, Eng!UnfilledQuantity
<1>10. Eng!UnfilledQuantity(r) = rows[i].volume
  BY <1>1, <1>2, <1>4, <1>5, <1>8, <1>9, OpenIsInt DEF Open
<1> QED BY <1>8, <1>10 DEF Resting, Engine!UnfilledQuantity, Eng!UnfilledQuantity

LEMMA QuietIsGone ==
  ASSUME Whole
  PROVE  OverIsGone
<1> SUFFICES ASSUME Quiet, rewinds = 0, NEW i \in Orders, Plain(i), NEW r \in asks \cup bids, r.id = i
             PROVE  /\ rows[i].state = "cancel" => received[i] > cancelledAt[i]
                    /\ rows[i].state = "done" => received[i] > 1
  BY DEF OverIsGone, Resting
<1>1. Sound /\ Kept(i) /\ Gone /\ Eng!Covered
  BY DEF Whole, Paired, Counted
<1>2. Eng!InBook(i)
  BY DEF Eng!InBook
<1>3. received[i] > cancelledAt[i]
  <2>1. cancelledAt[i] # received[i] /\ cancelledAt[i] <= received[i] /\ cancelledAt[i] \in Int
    BY <1>1, <1>2 DEF Gone, Eng!Nowhere
  <2> QED BY <1>1, <2>1, OpenIsInt
<1>4. rows[i].state = "done" => received[i] > 1
  <2>1. traded[i] < offered[i]
    BY <1>1, EngineConstants, Eng!RestsOpen
  <2>2. rows[i].state = "done" /\ received[i] <= 1 => offered[i] = traded[i]
    BY <1>1, DoneIsTraded
  <2> QED BY <1>1, <2>1, <2>2, OpenIsInt
<1> QED BY <1>3, <1>4

\* Cancels, reloads, restarts of the order_processor and of the engine and refused trades
\* included: when everything sent has been read, what the book holds of a limit order that
\* was given to the engine once is what its row has left.  (Not of one handed back while
\* the engine started, if nobody reads that message.)
THEOREM BookAgreesWithTable ==
  ASSUME Mon!AllLimit, Mon!TakersEarn
  PROVE  Spec => []BookAgrees
<1>1. Whole /\ [Next]_vars => Whole'
  BY WholeStep
<1>2. Whole => BookAgrees
  BY QuietAgrees
<1> QED BY <1>1, <1>2, WholeInit, PTL DEF Spec

\* And an order that is cancelled or done has then left the engine, unless it was given
\* to it again.
THEOREM OrdersOverAreGone ==
  ASSUME Mon!AllLimit, Mon!TakersEarn
  PROVE  Spec => []OverIsGone
<1>1. Whole /\ [Next]_vars => Whole'
  BY WholeStep
<1>2. Whole => OverIsGone
  BY QuietIsGone
<1> QED BY <1>1, <1>2, WholeInit, PTL DEF Spec

\* A trade of two orders that are not cancelled or rejected and were given to the engine
\* once: both rows have the volume of the trade left, so it is valid.
LEMMA UnreadTradeIsValid ==
  ASSUME Whole, rewinds = 0, executed < Len(tradeTopic), NEW t, t = NextTrade,
         \A i \in {t.maker, t.taker} : rows[i].state \notin {"cancel", "reject"} /\ received[i] <= 1
  PROVE  Mon!Valid(t)
<1>1. Sound /\ Counted /\ MoneySound /\ Eng!Covered
  BY DEF Whole, Paired
<1>2. /\ t \in Mon!Payload /\ Mon!EnginePublishes(t) /\ t.maker \in Orders /\ t.taker \in Orders
      /\ Mon!Real(t) = {t.maker, t.taker} /\ received[t.maker] > 0 /\ received[t.taker] > 0
      /\ t.quantity \in Nat \ {0} /\ t.price \in Nat \ {0}
  BY <1>1, NextTradeIsFair
<1>3. ASSUME NEW i \in {t.maker, t.taker}
      PROVE  rows[i].state = "wait" /\ rows[i].volume >= t.quantity
  <2>1. i \in Orders /\ received[i] > 0 /\ received[i] <= 1
    BY <1>2
  <2>2. /\ Unread(i) \in Nat /\ offered[i] \in Nat /\ traded[i] \in Nat /\ rows[i].volume \in Nat
        /\ t.quantity \in Nat
    BY <1>1, <1>2, <2>1, OpenIsInt
  <2>3. Unread(i) >= t.quantity
    <3>1. t = tradeTopic[executed + 1]
      BY DEF NextTrade
    <3>2. UnreadOf(tradeTopic, executed, i)
            = Amount(i, tradeTopic[executed + 1]) + UnreadOf(tradeTopic, executed + 1, i)
      BY <1>1, Types, UnreadOfNext
    <3>3. UnreadOf(tradeTopic, executed + 1, i) \in Nat
      BY <1>1, Types, UnreadIsNat
    <3>4. Amount(i, t) = t.quantity
      BY DEF Amount
    <3> QED BY <2>2, <3>1, <3>2, <3>3, <3>4 DEF Unread
  <2>4. traded[i] <= offered[i]
    BY <1>1, <2>1, EngineConstants, Eng!CoveredIsEnough DEF Eng!NoOverfill
  <2>5. offered[i] - traded[i] + Unread(i) <= rows[i].volume
    BY <1>1, <2>1 DEF Counted, Kept, Open
  <2>6. rows[i].volume >= t.quantity
    BY <2>2, <2>3, <2>4, <2>5
  <2>7. rows[i].volume # 0
    BY <1>2, <2>2, <2>6
  <2>8. rows[i].state # "done"
    BY <1>1, <2>1, <2>7 DEF MoneySound, Mon!DoneIsEmpty
  <2>9. rows[i].state \notin {"none", "pending"}
    <3>1. Mon!Announced(i)
      BY <1>2 DEF Mon!EnginePublishes
    <3> QED BY <1>1, <2>1, <3>1 DEF MoneySound, Mon!SentIsSubmitted
  <2>10. rows[i].state \in {"none", "pending", "wait", "done", "cancel", "reject"}
    BY <1>1, <2>1, Types DEF Mon!Row, Mon!States
  <2> QED BY <2>6, <2>8, <2>9, <2>10
<1>4. ~ Mon!AskExceedsStrike(t) /\ ~ Mon!BidBelowStrike(t)
  <2>1. \A i \in {t.maker, t.taker} : i \in Orders /\ Mon!Accepts(i, t.price)
    BY <1>2 DEF Mon!EnginePublishes
  <2>2. t.maker # t.taker /\ Mon!IsBuy(t.maker) # Mon!IsBuy(t.taker)
    <3>1. t.maker # t.taker
      BY <1>2, OrdersAssumption DEF Mon!EnginePublishes
    <3> QED BY <1>2, <3>1 DEF Mon!EnginePublishes
  <2>3. ~ Mon!IsBuy(Mon!AskOrder(t)) /\ Mon!IsBuy(Mon!BidOrder(t))
        /\ Mon!AskOrder(t) \in {t.maker, t.taker} /\ Mon!BidOrder(t) \in {t.maker, t.taker}
    BY <1>2, <2>2, OrdersAssumption DEF Mon!AskOrder, Mon!BidOrder, Mon!MakerSells, Mon!IsBuy
  <2>4. \A i \in Orders : Details[i].price \in Nat
    BY RowOfOrder
  <2> QED BY <1>2, <2>1, <2>3, <2>4 DEF Mon!AskExceedsStrike, Mon!BidBelowStrike, Mon!Accepts
<1>5. t.price * t.quantity > 0
  BY <1>2
<1>6. Mon!StatesWait(t) /\ Mon!VolumesSuffice(t)
  BY <1>2, <1>3 DEF Mon!StatesWait, Mon!VolumesSuffice
<1> QED BY <1>4, <1>5, <1>6 DEF Mon!Valid

LEMMA RefusedStep ==
  ASSUME Mon!AllLimit, Mon!EveryoneEarns, Whole, [Next]_vars, executed' = executed + 1,
         UNCHANGED <<rewinds, rows>>, rewinds = 0
  PROVE  \E i \in {NextTrade.maker, NextTrade.taker} :
           rows[i].state \in {"cancel", "reject"} \/ received[i] > 1
<1>1. executed \in Nat /\ rewinds \in Nat
  BY Types DEF Whole, Paired, ReadsOn
<1>2. SettleTrade \/ RefuseTrade
  <2>1. executed' # executed /\ rewinds' # rewinds + 1
    BY <1>1
  <2> QED BY <2>1 DEF Next, Work, ReadSubmit, ReadCancel, ReadReload, LoadOrders, Join, Match, HandleSubmit,
             SubmitAtStart, HandleCancel, ProduceMatching, RequestCancel, RequestReload, RestartEngine, RestartProcessor, RestartExecutor,
             executorRead, vars
<1>3. executed < Len(tradeTopic)
  BY <1>2 DEF SettleTrade, RefuseTrade
<1>4. PICK t \in Mon!Payload :
        /\ t = NextTrade /\ Mon!EnginePublishes(t) /\ t.maker \in Orders /\ t.taker \in Orders
        /\ Mon!Real(t) = {t.maker, t.taker} /\ t.quantity \in Nat \ {0}
  BY <1>3, NextTradeIsFair DEF Whole
<1>5. ~ SettleTrade
  <2> SUFFICES ASSUME SettleTrade PROVE FALSE
    OBVIOUS
  <2>1. Mon!SettleTrade(t)
    BY <1>4, SameSettle DEF Mon!SettleTrade, SettleTrade
  <2>2. rows'[t.maker].volume = rows[t.maker].volume - t.quantity
    BY <1>4, <2>1, Types, MoneyConstants, Mon!SettleRows DEF Whole
  <2>3. rows[t.maker].volume \in Nat
    BY <1>4, Types DEF Whole
  <2> QED BY <1>4, <2>2, <2>3
<1>6. Mon!Refuse(t)
  BY <1>2, <1>4, <1>5, SameRefuse DEF RefuseTrade
<1>7. ~ Mon!Valid(t)
  BY <1>4, <1>6, MoneyConstants, Mon!ValidGoesThrough DEF Whole, Sound, MoneySound, Mon!Refuse
<1>8. \E i \in {t.maker, t.taker} : rows[i].state \in {"cancel", "reject"} \/ ~ received[i] <= 1
  BY <1>3, <1>4, <1>7, UnreadTradeIsValid
<1>9. \A i \in {t.maker, t.taker} : received[i] \in Nat
  BY <1>4, Types DEF Whole
<1> QED BY <1>4, <1>8, <1>9

\* Whatever the interleaving: two orders that wait or are done and were given to the
\* engine once never have a trade refused by an executor that reads its topic once.
THEOREM RefusalsHaveCauses ==
  ASSUME Mon!AllLimit, Mon!EveryoneEarns
  PROVE  Spec => RefusedForCause
<1>1. Mon!TakersEarn
  BY DEF Mon!TakersEarn, Mon!EveryoneEarns
<1>2. Whole /\ [Next]_vars => Whole'
  BY <1>1, WholeStep
<1>3. Whole /\ [Next]_vars =>
        [executed' = executed + 1 /\ UNCHANGED <<rewinds, rows>> =>
           \/ rewinds > 0
           \/ \E i \in {NextTrade.maker, NextTrade.taker} :
                rows[i].state \in {"cancel", "reject"} \/ received[i] > 1]_vars
  <2> SUFFICES ASSUME Whole, [Next]_vars, executed' = executed + 1, UNCHANGED <<rewinds, rows>>, ~ rewinds > 0
               PROVE  \E i \in {NextTrade.maker, NextTrade.taker} :
                        rows[i].state \in {"cancel", "reject"} \/ received[i] > 1
    OBVIOUS
  <2>1. rewinds = 0
    BY DEF Whole, Paired, ReadsOn
  <2> QED BY <2>1, RefusedStep
<1> QED BY <1>2, <1>3, WholeInit, PTL DEF Spec, RefusedForCause

=============================================================================
