------------------------------ MODULE Auction ------------------------------
(***************************************************************************)
(* What one market promises to those who trade on it, without the machine  *)
(* that keeps the promise: no price levels, no stop trees, no queue, no    *)
(* loops.  There are the orders on offer, at most one order being matched, *)
(* the trades and the cancels that have been made public.  OrderBook is    *)
(* shown to implement this module.                                         *)
(***************************************************************************)
EXTENDS Integers, Sequences

CONSTANTS
  Ids,         \* identifiers of orders
  Orders,      \* the orders, in every form their fills give them
  Nobody,      \* no order is being matched
  PriceFirst   \* whether the best price is promised

VARIABLES
  asks, bids,  \* the orders on offer
  stage,       \* "open", or what is being done with the active order
  active,      \* the order being matched
  trades,      \* the trades made public
  withdrawn    \* the ids of the cancels made public

vars == <<asks, bids, stage, active, trades, withdrawn>>

Left(o) == o.quantity - o.filled

With(o, q) == [o EXCEPT !.filled = @ + q]

Counter(o) == IF o.side = "sell" THEN bids ELSE asks

\* Whether offer d has a better price than offer c, for who takes it.
Cheaper(d, c) == IF c.side = "sell" THEN d.price < c.price ELSE d.price > c.price

Acceptable(o, c) ==
  o.type = "limit" => IF o.side = "buy" THEN c.price <= o.price ELSE c.price >= o.price

\* The offer whose turn it is: the best price, the youngest order of that price.
HasTurn(c) ==
  \A d \in Counter(active) :
    /\ PriceFirst => ~ Cheaper(d, c)
    /\ d.price = c.price => d.at <= c.at

Lesser(x, y) == IF x <= y THEN x ELSE y

Init ==
  /\ asks = {} /\ bids = {} /\ stage = "open" /\ active = Nobody
  /\ trades = <<>> /\ withdrawn = <<>>

\* An order arrives: submitted, loaded, or a stop order whose price was reached.
Arrive ==
  /\ stage = "open"
  /\ stage' = "arrived" /\ active' \in Orders
  /\ UNCHANGED <<asks, bids, trades, withdrawn>>

\* A market order that finds no offer at all is cancelled, in public.
Reject ==
  /\ stage = "arrived" /\ active.type = "market" /\ Counter(active) = {}
  /\ withdrawn' = Append(withdrawn, active.id)
  /\ stage' = "open" /\ active' = Nobody
  /\ UNCHANGED <<asks, bids, trades>>

Admit ==
  /\ stage = "arrived" /\ ~ (active.type = "market" /\ Counter(active) = {})
  /\ stage' = "matching"
  /\ UNCHANGED <<asks, bids, active, trades, withdrawn>>

\* A trade: with the offer whose turn it is, at its price, for as much as both have
\* left.  The older order is named the maker.
Deal(c) ==
  /\ stage = "matching" /\ Left(active) # 0
  /\ c \in Counter(active) /\ HasTurn(c) /\ Acceptable(active, c)
  /\ LET q    == Lesser(Left(active), Left(c))
         rest == (Counter(active) \ {c})
                   \cup (IF Left(With(c, q)) = 0 \/ c.cancelled THEN {} ELSE {With(c, q)})
         old  == active.at < c.at
     IN /\ active' = With(active, q)
        /\ asks' = IF active.side = "sell" THEN asks ELSE rest
        /\ bids' = IF active.side = "sell" THEN rest ELSE bids
        /\ trades' = Append(trades, [maker |-> IF old THEN active.id ELSE c.id,
                                     taker |-> IF old THEN c.id ELSE active.id,
                                     price |-> c.price, quantity |-> q])
  /\ UNCHANGED <<stage, withdrawn>>

Exhausted == PriceFirst => \A c \in Counter(active) : ~ Acceptable(active, c)

\* What is left of a limit order that no offer meets is offered itself, once.
Offer ==
  /\ stage = "matching" /\ active.type = "limit" /\ Left(active) # 0 /\ Exhausted
  /\ LET Added(offers) ==
           IF \E r \in offers : r.id = active.id THEN offers ELSE offers \cup {active}
     IN /\ asks' = IF active.side = "sell" THEN Added(asks) ELSE asks
        /\ bids' = IF active.side = "sell" THEN bids ELSE Added(bids)
  /\ stage' = "open" /\ active' = Nobody
  /\ UNCHANGED <<trades, withdrawn>>

\* An order that is filled leaves, and a market order that has met every offer.
Leave ==
  /\ stage = "matching"
  /\ Left(active) = 0 \/ (active.type = "market" /\ Exhausted)
  /\ stage' = "open" /\ active' = Nobody
  /\ UNCHANGED <<asks, bids, trades, withdrawn>>

\* An order is taken off the book, whatever is left of it; in public unless it is fake.
Withdraw(i) ==
  /\ stage = "open"
  /\ asks' = {r \in asks : r.id # i} /\ bids' = {r \in bids : r.id # i}
  /\ withdrawn' \in {withdrawn, Append(withdrawn, i)}
  /\ UNCHANGED <<stage, active, trades>>

\* The market starts over with nothing on offer, in the middle of a match too.
Reopen ==
  /\ asks' = {} /\ bids' = {}
  /\ stage' = "open" /\ active' = Nobody
  /\ UNCHANGED <<trades, withdrawn>>

Next ==
  \/ Arrive
  \/ \E i \in Ids : Withdraw(i)
  \/ Reject
  \/ Admit
  \/ \E c \in asks \cup bids : Deal(c)
  \/ Offer
  \/ Leave
  \/ Reopen

Spec == Init /\ [][Next]_vars
=============================================================================
