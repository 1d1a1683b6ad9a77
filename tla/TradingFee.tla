----------------------------- MODULE TradingFee -----------------------------
(***************************************************************************)
(* The fee record an order gets when it is built (models/trading_fee.go):  *)
(* the records of the table that suit the member's group, the market and   *)
(* the type of the market are fetched, in no particular order, and one     *)
(* loop keeps the first of the greatest weight.                            *)
(***************************************************************************)
EXTENDS Integers

CONSTANTS
  Groups, MarketIds, MarketTypes,  \* what a member and a market may have
  Any,                             \* the word "any" in a record
  Rates,                           \* of makers and takers
  NoRecord,                        \* no record found yet
  Tables                           \* contents the table may have

Record == [group: Groups \cup {Any}, market: MarketIds \cup {Any}, type: MarketTypes \cup {Any},
           maker: Rates, taker: Rates]

Request == [group: Groups, market: MarketIds, type: MarketTypes]

ASSUME AnyAssumption == Any \notin Groups \cup MarketIds \cup MarketTypes
ASSUME RatesAssumption == 0 \in Rates
ASSUME NoRecordAssumption == NoRecord \notin Record
ASSUME TablesAssumption == Tables \subseteq SUBSET Record

VARIABLES
  request,  \* the arguments of TradingFeeFor
  table,    \* the trading_fees table
  unread,   \* fetched records the loop has not looked at
  best      \* trading_fee

vars == <<request, table, unread, best>>

-----------------------------------------------------------------------------

Suits(r, q) ==
  r.group \in {q.group, Any} /\ r.market \in {q.market, Any} /\ r.type \in {q.type, Any}

Fetched == {r \in table : Suits(r, request)}

\* Fault: the market outweighs the group.
WeightOfMarketFirst(r) ==
  (IF r.group = Any THEN 0 ELSE 1) + (IF r.market = Any THEN 0 ELSE 10)

Weight(r) == (IF r.group = Any THEN 0 ELSE 10) + (IF r.market = Any THEN 0 ELSE 1)

\* Fault: the last record of the loop is kept.
IsBetterAlways(r) == TRUE

IsBetter(r) == best = NoRecord \/ Weight(best) < Weight(r)

Init ==
  /\ request \in Request
  /\ table \in Tables
  /\ unread = Fetched
  /\ best = NoRecord

\* One turn of the loop; the database fixes no order.
Look(r) ==
  /\ r \in unread
  /\ unread' = unread \ {r}
  /\ best' = IF IsBetter(r) THEN r ELSE best
  /\ UNCHANGED <<request, table>>

Next == \E r \in table : Look(r)

Spec == Init /\ [][Next]_vars

Returned == unread = {}

\* What the order is charged: nothing when there is no record.
MakerFee == IF best = NoRecord THEN 0 ELSE best.maker

TakerFee == IF best = NoRecord THEN 0 ELSE best.taker

-----------------------------------------------------------------------------
(* Properties. *)

OfGroup(r) == r.group = request.group

OfMarket(r) == r.market = request.market

\* The priorities of the comment of TradingFeeFor, whatever the table holds and in
\* whatever order it is read: a record for both the group and the market, else one for
\* the group, else one for the market, else one for any of them, else zero fees.
FollowsPriorities ==
  Returned =>
    IF Fetched = {} THEN MakerFee = 0 /\ TakerFee = 0
    ELSE /\ best \in Fetched
         /\ (\E r \in Fetched : OfGroup(r) /\ OfMarket(r)) => OfGroup(best) /\ OfMarket(best)
         /\ (\E r \in Fetched : OfGroup(r)) => OfGroup(best)
         /\ (\E r \in Fetched : OfMarket(r)) => OfGroup(best) \/ OfMarket(best)

\* The answer depends on the order of reading only when the table has two records for
\* the same group and market (the weight does not look at the type of the market).
OneAnswer ==
  Returned /\ (\A r, s \in Fetched : r.group = s.group /\ r.market = s.market => r = s) =>
    \A r \in Fetched : r = best \/ Weight(r) < Weight(best)
=============================================================================
