---------------------------- MODULE MCDepthFeed ----------------------------
(***************************************************************************)
(* Small instances of DepthFeed.                                           *)
(***************************************************************************)
EXTENDS DepthFeed, TLC

Placed(s, p, q) == [side |-> s, price |-> p, quantity |-> q]

\* Two orders in one level, one of which takes two fills, and a level of the other side.
FeedIds == 1 .. 3
FeedBook == <<Placed("sell", 2, 2), Placed("sell", 2, 1), Placed("buy", 1, 1)>>
=============================================================================
