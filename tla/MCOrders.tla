------------------------------ MODULE MCOrders ------------------------------
(***************************************************************************)
(* The orders of the small instances, written <<id, side, type, price,     *)
(* stop, quantity>>; an id is also an age (order.CreatedAt).               *)
(***************************************************************************)
EXTENDS Integers

LimitOrder(i, s, p, q) ==
  [id |-> i, side |-> s, type |-> "limit", price |-> p, stop |-> 0, quantity |-> q,
   filled |-> 0, cancelled |-> FALSE, fake |-> FALSE, at |-> i]

MarketOrder(i, s, q) == [LimitOrder(i, s, 0, q) EXCEPT !.type = "market"]

StopOrder(i, s, p, stop, q) == [LimitOrder(i, s, p, q) EXCEPT !.stop = stop]
=============================================================================
