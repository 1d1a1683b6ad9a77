------------------------------- MODULE MCIEO -------------------------------
(***************************************************************************)
(* Small instances of IEO: two members, three orders.                      *)
(***************************************************************************)
EXTENDS IEO

Detail(m, q) == [member |-> m, quantity |-> q]

Terms(open, cost, quantity, limit) ==
  [enabled |-> open, price |-> cost, originQuantity |-> quantity, limitPerUser |-> limit]

\* The sale is open at either price, or closed.
MCPayloads == {Terms(TRUE, 2, 3, 3), Terms(TRUE, 3, 4, 2), Terms(FALSE, 2, 3, 3)}

MCOrders == 1 .. 3
MCMembers == {"ann", "bob"}

\* Two orders of one member, who can pay for both, and one of another, who has
\* funds locked by spot orders.
MCDetails == <<Detail("ann", 1), Detail("ann", 2), Detail("bob", 1)>>
MCFunds == [m \in MCMembers |-> IF m = "ann" THEN 6 ELSE 2]
MCLocked == [m \in MCMembers |-> IF m = "ann" THEN 1 ELSE 2]
=============================================================================
