---------------------------- MODULE MCTradingFee ----------------------------
(***************************************************************************)
(* Tables of at most four records about two groups, two markets and one    *)
(* type of market; the rates tell the records apart.                       *)
(***************************************************************************)
EXTENDS TradingFee, FiniteSetsExt

MCRecords ==
  {r \in Record : r.maker = 0 /\ r.taker = (IF r.type = Any THEN 1 ELSE 2)}

MCTables == UNION {kSubset(k, MCRecords) : k \in 0 .. 4}
=============================================================================
