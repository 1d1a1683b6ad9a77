------------------------------ MODULE MCLedger ------------------------------
(***************************************************************************)
(* Trades between ann and bob, who has brought her and was himself brought *)
(* by carl; a market buy of bob is quoted too low for what it meets.       *)
(***************************************************************************)
EXTENDS Ledger

Detail(m, s, t, p, q, l) ==
  [member |-> m, side |-> s, type |-> t, price |-> p, quantity |-> q, locked |-> l,
   makerFee |-> 1, takerFee |-> 2]

MCMembers == {"ann", "bob", "carl"}
MCOrders == 1 .. 3
MCDetails == <<Detail("bob", "buy", "market", 0, 2, 1), Detail("bob", "buy", "limit", 2, 1, 2),
               Detail("ann", "sell", "limit", 1, 1, 1)>>
MCFunds == [a \in MCMembers \X {"base", "quote"} |-> 4 * Scale]
MCReferrer == [ann |-> "bob", bob |-> "carl", carl |-> None]
MCRewards == {[hold |-> 0, share |-> 1], [hold |-> 4 * Scale + 1, share |-> 2]}
=============================================================================
