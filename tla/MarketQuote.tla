---------------------------- MODULE MarketQuote ----------------------------
(***************************************************************************)
(* The quote of a market order next to the engine that matches: finex-api  *)
(* asks the engine what a market order would cost (BuildOrder), and        *)
(* OrderBook.CalcMarketOrder walks the levels of the other side without    *)
(* the mutex of the engine, so messages are handled between two levels.    *)
(* The answer goes over the wire as a coefficient of 64 bits and an        *)
(* exponent; an amount counts units of its last digit here.                *)
(***************************************************************************)
EXTENDS OrderBook, Functions

CONSTANT Width   \* the values a coefficient on the wire can take (2^64)

ASSUME WidthAssumption == Width \in Nat \ {0} /\ Width % 2 = 0

VARIABLE quote

\* The walk for one market order: what is still to be found, what has been found,
\* the prices passed.  quiet (history): nobody else has changed the book since.
NoQuote == [phase |-> "none", for |-> NoOrder, left |-> 0, quantity |-> 0, locked |-> 0,
            passed |-> {}, quiet |-> TRUE]

QuoteInit == Init /\ quote = NoQuote

\* CoefficientInt64: what does not fit is cut to the low 64 bits.
Wire(amount) == ((amount + Width \div 2) % Width) - Width \div 2

\* PriceLevel.Total.
Total(level) == SumFunction([r \in level |-> UnfilledQuantity(r)])

\* What one unit of a market order takes at a price: money for a buy, itself for a sell.
UnitCost(o, price) == IF o.side = "buy" THEN price ELSE 1

OfferSide(o) == IF o.side = "buy" THEN "sell" ELSE "buy"

\* The levels the iterator has not come to.
Ahead ==
  {p \in {c.price : c \in Opposite(quote.for)} :
     \A s \in quote.passed : BetterOffer(s, p, OfferSide(quote.for))}

\* Fault: the tree is walked from its other end.
NextLevelsFromTheEnd ==
  {p \in Ahead : \A q \in Ahead : q = p \/ BetterOffer(q, p, OfferSide(quote.for))}

\* it.Next(): the next level; with a level removed meanwhile perhaps one behind it.
NextLevels ==
  IF IteratorIsStable
  THEN {p \in Ahead : \A q \in Ahead : q = p \/ BetterOffer(p, q, OfferSide(quote.for))}
  ELSE Ahead

Ask(o) ==
  /\ quote.phase = "none" /\ o.type = "market" /\ received[o.id] = 0
  /\ quote' = [NoQuote EXCEPT !.phase = "walking", !.for = o, !.left = Wire(UnfilledQuantity(o))]
  /\ UNCHANGED vars

\* One turn of the loop of CalcMarketOrder.
WalkLevel ==
  /\ quote.phase = "walking" /\ quote.left > 0
  /\ \E p \in NextLevels :
       LET v == Smaller(Total(LevelOf(Opposite(quote.for), p)), quote.left)
       IN quote' = [quote EXCEPT !.left = @ - v, !.quantity = @ + v,
                                 !.locked = @ + UnitCost(quote.for, p) * v,
                                 !.passed = @ \cup {p}]
  /\ UNCHANGED vars

\* With a depth that does not suffice the answer is zero, and BuildOrder refuses.
Answer ==
  /\ quote.phase = "walking"
  /\ quote.left <= 0 \/ Ahead = {}
  /\ quote' = [quote EXCEPT !.phase = "answered",
                            !.quantity = IF quote.left = 0 THEN Wire(@) ELSE 0,
                            !.locked = IF quote.left = 0 THEN Wire(@) ELSE 0]
  /\ UNCHANGED vars

IsQuoted(o) == quote.phase = "answered" /\ o # NoOrder /\ o.id = quote.for.id

\* The engine works on; a book that another order has changed, or a new engine, is not the
\* book quoted.
Engine ==
  /\ Next
  /\ quote' = [quote EXCEPT !.quiet = @ /\ UNCHANGED reloads /\ (UNCHANGED book \/ IsQuoted(taker))]

QuoteNext ==
  \/ \E o \in Submissions : Ask(o)
  \/ WalkLevel
  \/ Answer
  \/ Engine

QuoteSpec == QuoteInit /\ [][QuoteNext]_<<vars, quote>>

-----------------------------------------------------------------------------
(* Properties. *)

TradesOf(i) == {k \in 1 .. Len(tradeTopic) : i \in {tradeTopic[k].maker, tradeTopic[k].taker}}

\* What the trades of a market order have cost.
Cost(o) ==
  SumFunction([k \in TradesOf(o.id) |-> tradeTopic[k].quantity * UnitCost(o, tradeTopic[k].price)])

Fits(amount) == amount < Width \div 2

\* The order was quoted on a book that nobody else has changed since, it was sent to the
\* engine as it was quoted, and the engine is done with it.
ExecutedAsQuoted ==
  /\ quote.phase = "answered" /\ quote.quiet
  /\ received[quote.for.id] = 1 /\ offered[quote.for.id] = UnfilledQuantity(quote.for)
  /\ pc = "idle"

\* CalcMarketOrder, which adds up levels, and Match, which goes order by order, agree:
\* on an unchanged book a market order takes the whole quantity and costs exactly
\* what was quoted and locked for it, and where the quote is zero the book does not
\* have the quantity, or none was asked for.  (As long as what was asked for and what it
\* costs fit a coefficient of 64 bits.)
QuoteIsPaid ==
  ExecutedAsQuoted /\ Fits(UnfilledQuantity(quote.for)) /\ Fits(Cost(quote.for)) =>
    IF quote.quantity = 0
    THEN UnfilledQuantity(quote.for) = 0 \/ traded[quote.for.id] < UnfilledQuantity(quote.for)
    ELSE /\ traded[quote.for.id] = quote.quantity
         /\ quote.quantity = UnfilledQuantity(quote.for)
         /\ Cost(quote.for) = quote.locked
=============================================================================
