----------------------------- MODULE MCExchange -----------------------------
(***************************************************************************)
(* A small exchange: two members whose limit orders trade, each of which   *)
(* may be filled in part.                                                  *)
(***************************************************************************)
EXTENDS Exchange

Detail(m, s, p, q) ==
  [member |-> m, side |-> s, type |-> "limit", price |-> p, quantity |-> q,
   locked |-> IF s = "buy" THEN p * q ELSE q, makerFee |-> 1, takerFee |-> 2]

MCMembers == {"ann", "bob"}
MCOrders == 1 .. 2
MCDetails == <<Detail("ann", "buy", 2, 2), Detail("bob", "sell", 1, 3)>>
MCSubmits == <<1, 2>>
MCStops == <<0, 0>>
MCFunds == [a \in MCMembers \X {"base", "quote"} |-> 40]
=============================================================================
