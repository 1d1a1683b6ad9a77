---------------------------- MODULE MCOrderBook ----------------------------
(***************************************************************************)
(* Small instances of OrderBook.                                           *)
(***************************************************************************)
EXTENDS OrderBook, MCOrders

NoLoad == {{}}
AgainPrices == {2}

\* Stop orders of both sides whose triggered orders trade and trigger others.
StopIds == 1 .. 8
StopOrders ==
  {StopOrder(1, "buy", 2, 2, 1), StopOrder(2, "buy", 1, 1, 1), StopOrder(3, "sell", 1, 3, 1),
   LimitOrder(4, "sell", 1, 2), LimitOrder(5, "buy", 3, 2), LimitOrder(6, "sell", 3, 1),
   LimitOrder(7, "buy", 2, 1), StopOrder(8, "buy", 3, 2, 1)}
StartHigh == {2, 3}

\* Messages delivered again: an order in an earlier and a later form, one that
\* has been cancelled meanwhile, a fake order, and what a restart loads.
AgainIds == 1 .. 4
AgainOrders ==
  {LimitOrder(1, "sell", 1, 2),
   [LimitOrder(1, "sell", 1, 2) EXCEPT !.filled = 1],
   [LimitOrder(2, "buy", 2, 2) EXCEPT !.cancelled = TRUE],
   [StopOrder(3, "sell", 3, 1, 1) EXCEPT !.fake = TRUE],
   StopOrder(4, "buy", 1, 2, 1)}
AgainLoads == {{}, {[LimitOrder(1, "sell", 1, 2) EXCEPT !.filled = 1], StopOrder(4, "buy", 1, 2, 1)}}
=============================================================================
