--------------------------- MODULE MCMarketQuote ---------------------------
(***************************************************************************)
(* A small order book whose clients ask for quotes while it works.         *)
(***************************************************************************)
EXTENDS MarketQuote, MCOrders

\* Two levels a side, two orders in a level, a market order that eats through
\* levels and one that finds nothing.
PlainIds == 1 .. 7
PlainOrders ==
  {LimitOrder(1, "sell", 2, 2), LimitOrder(2, "sell", 1, 1), LimitOrder(3, "buy", 1, 1),
   LimitOrder(4, "buy", 2, 2), LimitOrder(5, "sell", 2, 1), MarketOrder(6, "buy", 3),
   MarketOrder(7, "sell", 2)}
NoLoad == {{}}
NoPrice == {0}
=============================================================================
