---------------------------- MODULE MCSettlement ----------------------------
(***************************************************************************)
(* Small instances of Settlement: two members, three orders.               *)
(***************************************************************************)
EXTENDS Settlement, TLC

Detail(m, s, t, p, q, l) ==
  [member |-> m, side |-> s, type |-> t, price |-> p, quantity |-> q, locked |-> l,
   makerFee |-> 1, takerFee |-> 2]

MCOrders == 1 .. 3
MCTwoOrders == 1 .. 2
MCMembers == {"ann", "bob"}
MCFunds == [a \in Accounts |-> 10 * 4]

\* Two buys of one member and a sell of the other: the buys share an account, one
\* of them has a price to save on; together they are more than the balance.
LimitDetails == <<Detail("ann", "buy", "limit", 2, 2, 4), Detail("ann", "buy", "limit", 1, 1, 1),
                  Detail("bob", "sell", "limit", 1, 1, 1)>>

\* A sell that takes two trades, and a buy it can trade with.
RestartDetails == <<Detail("bob", "sell", "limit", 1, 2, 2), Detail("ann", "buy", "limit", 2, 1, 2)>>
=============================================================================
