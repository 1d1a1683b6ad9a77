-------------------------- MODULE TradingFeeProofs --------------------------
(***************************************************************************)
(* For any table and any order of reading: the loop of TradingFeeFor ends  *)
(* with a record of the greatest weight, and the weights rank the records  *)
(* as the priorities of the comment do.                                    *)
(***************************************************************************)
EXTENDS TradingFee, TLAPS

TypeOK ==
  /\ request \in Request
  /\ table \subseteq Record
  /\ unread \subseteq Fetched
  /\ best \in Fetched \cup {NoRecord}

\* The record kept outweighs every record the loop has looked at.
Outweighs ==
  \A r \in Fetched \ unread : best # NoRecord /\ Weight(r) <= Weight(best)

IInv == TypeOK /\ Outweighs

\* A fetched record is for the group or for any, and for the market or for any.
LEMMA Suiting ==
  ASSUME NEW r, r \in Fetched
  PROVE  r.group \in {request.group, Any} /\ r.market \in {request.market, Any}
BY DEF Fetched, Suits

\* The four weights.
LEMMA WeightIsInt == ASSUME NEW r PROVE Weight(r) \in 0 .. 11
BY DEF Weight

LEMMA InitInvariant == Init => IInv
<1> SUFFICES ASSUME Init PROVE IInv
  OBVIOUS
<1>1. TypeOK
  BY TablesAssumption DEF Init, TypeOK, Fetched
<1>2. Outweighs
  BY DEF Init, Outweighs
<1> QED  BY <1>1, <1>2 DEF IInv

LEMMA NextInvariant == IInv /\ [Next]_vars => IInv'
<1> SUFFICES ASSUME IInv, [Next]_vars PROVE IInv'
  OBVIOUS
<1>1. ASSUME NEW r \in table, Look(r) PROVE IInv'
  <2>1. Fetched' = Fetched
    BY <1>1 DEF Look, Fetched, Suits
  <2>2. r \in Fetched /\ r # NoRecord
    BY <1>1, NoRecordAssumption DEF IInv, TypeOK, Look, Fetched
  <2>3. TypeOK'
    BY <1>1, <2>1, <2>2 DEF IInv, TypeOK, Look
  <2>4. \A s : Weight(s) \in Int
    BY WeightIsInt
  <2>5. Weight(r) <= Weight(best') /\ best' # NoRecord
    BY <1>1, <2>2, <2>4 DEF Look, IsBetter
  <2>6. best # NoRecord => Weight(best) <= Weight(best')
    BY <1>1, <2>4 DEF Look, IsBetter
  <2>7. Outweighs'
    <3> SUFFICES ASSUME NEW s \in Fetched, s \notin unread' PROVE Weight(s) <= Weight(best')
      BY <2>1, <2>5 DEF Outweighs, Weight
    <3>1. CASE s = r
      BY <3>1, <2>5
    <3>2. CASE s # r
      <4>1. s \notin unread
        BY <1>1, <3>2 DEF Look
      <4>2. best # NoRecord /\ Weight(s) <= Weight(best)
        BY <4>1 DEF IInv, Outweighs
      <4> QED  BY <4>2, <2>4, <2>6
    <3> QED  BY <3>1, <3>2
  <2> QED  BY <2>3, <2>7 DEF IInv
<1>2. CASE UNCHANGED vars
  BY <1>2 DEF vars, IInv, TypeOK, Outweighs, Fetched, Suits, Weight
<1> QED  BY <1>1, <1>2 DEF Next

LEMMA Invariance == Spec => []IInv
BY InitInvariant, NextInvariant, PTL DEF Spec

\* The record that is returned is fetched and of the greatest weight.
LEMMA Heaviest ==
  ASSUME IInv, Returned, Fetched # {}
  PROVE  best \in Fetched /\ \A r \in Fetched : Weight(r) <= Weight(best)
BY DEF IInv, TypeOK, Outweighs, Returned

\* TradingFeeFor follows the priorities of its comment, for every table and every order
\* in which the database returns the records.
THEOREM PrioritiesFollowed == Spec => []FollowsPriorities
<1>1. IInv => FollowsPriorities
  <2> SUFFICES ASSUME IInv, Returned PROVE FollowsPriorities
    BY DEF FollowsPriorities
  <2>1. CASE Fetched = {}
    BY <2>1 DEF IInv, TypeOK, FollowsPriorities, MakerFee, TakerFee
  <2>2. CASE Fetched # {}
    <3>1. best \in Fetched /\ \A r \in Fetched : Weight(r) <= Weight(best)
      BY <2>2, Heaviest
    <3>2. Any # request.group /\ Any # request.market
      BY AnyAssumption DEF IInv, TypeOK, Request
    <3>3. \A r \in Fetched : /\ OfGroup(r) <=> r.group # Any
                             /\ OfMarket(r) <=> r.market # Any
      BY <3>2, Suiting DEF OfGroup, OfMarket
    <3>4. ASSUME NEW r \in Fetched, OfGroup(r), OfMarket(r) PROVE OfGroup(best) /\ OfMarket(best)
      BY <3>1, <3>3, <3>4 DEF Weight
    <3>5. ASSUME NEW r \in Fetched, OfGroup(r) PROVE OfGroup(best)
      BY <3>1, <3>3, <3>5 DEF Weight
    <3>6. ASSUME NEW r \in Fetched, OfMarket(r) PROVE OfGroup(best) \/ OfMarket(best)
      BY <3>1, <3>3, <3>6 DEF Weight
    <3> QED  BY <2>2, <3>1, <3>4, <3>5, <3>6 DEF FollowsPriorities
  <2> QED  BY <2>1, <2>2
<1> QED  BY <1>1, Invariance, PTL

\* When no two fetched records are for the same group and market, the order of reading
\* does not matter: the record returned outweighs every other.
THEOREM AnswerIsUnique == Spec => []OneAnswer
<1>1. IInv => OneAnswer
  <2> SUFFICES ASSUME IInv, Returned,
                      \A r, s \in Fetched : r.group = s.group /\ r.market = s.market => r = s,
                      NEW r \in Fetched, r # best
               PROVE  Weight(r) < Weight(best)
    BY DEF OneAnswer
  <2>1. best \in Fetched /\ Weight(r) <= Weight(best)
    BY Heaviest
  <2>2. Any # request.group /\ Any # request.market
    BY AnyAssumption DEF IInv, TypeOK, Request
  <2>3. r.group # best.group \/ r.market # best.market
    BY <2>1
  <2>4. /\ r.group \in {request.group, Any} /\ r.market \in {request.market, Any}
        /\ best.group \in {request.group, Any} /\ best.market \in {request.market, Any}
    BY <2>1, Suiting
  <2>5. Weight(r) # Weight(best)
    BY <2>2, <2>3, <2>4 DEF Weight
  <2>6. Weight(r) \in Int /\ Weight(best) \in Int
    BY WeightIsInt
  <2> QED  BY <2>1, <2>5, <2>6
<1> QED  BY <1>1, Invariance, PTL
=============================================================================
