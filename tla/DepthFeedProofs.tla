--------------------------- MODULE DepthFeedProofs ---------------------------
(***************************************************************************)
(* For any orders, calls, snapshots and restarts increments carry growing  *)
(* sequences, as long as no engine is reloaded and Redis answers; and what *)
(* a client has that follows the running engine, with what is on its way   *)
(* to it, agrees with the book on every level that has not traded since,   *)
(* also after reloads and restarts and whatever Redis answers.             *)
(***************************************************************************)
EXTENDS DepthFeed, Sums, TLAPS

\* The running loop has stored all it has counted, or is about to store the last of it, and
\* what it is about to send has not been sent before.
SequenceIsStored ==
  /\ current \in Generations /\ sequence \in [Generations -> Nat]
  /\ stored \in Nat /\ lastSent \in Nat /\ failures \in Nat
  /\ unstored \subseteq sending /\ sending \subseteq alive
  /\ ~ reloaded /\ failures = 0 =>
       /\ alive = {current}
       /\ sequence[current] = IF current \in unstored THEN stored + 1 ELSE stored
       /\ IF current \in sending \ unstored THEN lastSent < stored ELSE lastSent <= stored

LEMMA StoredInit == Init => SequenceIsStored
<1>1. 1 \in Generations
  BY BoundsAssumption DEF Generations
<1> QED  BY <1>1 DEF Init, SequenceIsStored

LEMMA StoredRenew ==
  ASSUME SequenceIsStored, Reload \/ Restart
  PROVE  SequenceIsStored'
<1>1. current + 1 \in Generations /\ current \in Nat /\ current' = current + 1
      /\ UNCHANGED <<stored, lastSent>>
  BY BoundsAssumption DEF Reload, Restart, Renew, Generations
<1>2. /\ failures' \in Nat
      /\ sequence' \in [Generations -> Nat]
      /\ failures' = 0 => failures = 0 /\ sequence'[current'] = stored'
  <2>1. CASE sequence' = [sequence EXCEPT ![current + 1] = stored] /\ failures' = failures
    BY <1>1, <2>1 DEF SequenceIsStored
  <2>2. CASE sequence' = [sequence EXCEPT ![current + 1] = 0] /\ failures' = failures + 1
    BY <1>1, <2>2 DEF SequenceIsStored
  <2> QED  BY <2>1, <2>2 DEF Reload, Restart, Renew
<1>3. CASE Reload
  BY <1>1, <1>2, <1>3 DEF Reload, SequenceIsStored
<1>4. CASE Restart
  <2>1. ~ reloaded /\ failures = 0 => lastSent <= stored
    BY DEF SequenceIsStored
  <2> QED  BY <1>1, <1>2, <1>4, <2>1 DEF Restart, SequenceIsStored
<1> QED  BY <1>3, <1>4

LEMMA StoredLoop ==
  ASSUME SequenceIsStored, NEW g \in Generations, Loop(g)
  PROVE  SequenceIsStored' /\ (~ reloaded /\ failures = 0 /\ Send(g) => lastSent' > lastSent)
<1>1. g \in alive /\ (~ reloaded /\ failures = 0 => g = current) /\ sequence[g] \in Nat
  BY DEF SequenceIsStored, Loop, Count, Store, Send
<1>2. CASE Count(g)
  <2>1. /\ sending' = sending \cup {g} /\ unstored' = unstored \cup {g}
        /\ sequence' = [sequence EXCEPT ![g] = @ + 1] /\ g \notin sending
        /\ UNCHANGED <<current, alive, stored, lastSent, reloaded, failures>>
    BY <1>2 DEF Count, clients, history
  <2>2. sequence' \in [Generations -> Nat]
    BY <1>1, <2>1 DEF SequenceIsStored
  <2>3. ~ Send(g)
    BY <2>1 DEF Send
  <2> QED  BY <1>1, <2>1, <2>2, <2>3 DEF SequenceIsStored
<1>3. CASE Store(g)
  <2>1. /\ g \in unstored /\ unstored' = unstored \ {g}
        /\ UNCHANGED <<current, alive, sequence, sending, lastSent, reloaded>>
        /\ \/ stored' = sequence[g] /\ failures' = failures
           \/ stored' = stored /\ failures' = failures + 1
    BY <1>3 DEF Store, ToStore, clients
  <2>2. ~ Send(g)
    BY <2>1 DEF Send
  <2>3. stored' \in Nat /\ failures' \in Nat
    BY <1>1, <2>1 DEF SequenceIsStored
  <2>4. ASSUME ~ reloaded', failures' = 0
        PROVE  /\ alive = {current} /\ sequence[current] = stored' /\ lastSent < stored'
    <3>1. failures = 0 /\ stored' = sequence[g] /\ ~ reloaded /\ g = current
      BY <1>1, <2>1, <2>4 DEF SequenceIsStored
    <3>2. sequence[current] = stored + 1 /\ lastSent <= stored /\ alive = {current}
      BY <2>1, <3>1 DEF SequenceIsStored
    <3> QED  BY <3>1, <3>2 DEF SequenceIsStored
  <2>5. failures' = 0 /\ ~ reloaded' => g = current
    BY <1>1, <2>1 DEF SequenceIsStored
  <2> QED  BY <2>1, <2>2, <2>3, <2>4, <2>5 DEF SequenceIsStored
<1>4. CASE Send(g)
  <2>1. /\ g \in sending \ unstored /\ lastSent' = sequence[g] /\ sending' = sending \ {g}
        /\ UNCHANGED <<current, alive, sequence, unstored, stored, reloaded, failures>>
    BY <1>4 DEF Send, history
  <2> QED  BY <1>1, <2>1 DEF SequenceIsStored
<1> QED  BY <1>2, <1>3, <1>4 DEF Loop

LEMMA StoredNext ==
  ASSUME SequenceIsStored, [Next]_vars
  PROVE  /\ SequenceIsStored'
         /\ ~ reloaded /\ failures = 0 /\ (\E g \in Generations : Send(g)) => lastSent' > lastSent
<1>0. ~ reloaded /\ failures = 0 /\ (\E g \in Generations : Send(g)) => lastSent' > lastSent
  <2> SUFFICES ASSUME ~ reloaded, failures = 0, NEW g \in Generations, Send(g)
               PROVE  lastSent' > lastSent
    OBVIOUS
  <2>1. Loop(g)
    BY DEF Loop
  <2> QED  BY <2>1, StoredLoop
<1> SUFFICES SequenceIsStored'
  BY <1>0
<1>1. CASE UNCHANGED <<current, alive, sequence, sending, unstored, stored, lastSent, reloaded, failures>>
  BY <1>1 DEF SequenceIsStored
<1>2. CASE Engine
  BY <1>1, <1>2 DEF Engine, Add, Fill, Cancel, Remove, RemoveFilled, Publish, notification, clients, history
<1>3. CASE \E g \in Generations : Loop(g)
  BY <1>3, StoredLoop
<1>4. CASE BeginFetch \/ FetchOrderBook
  BY <1>1, <1>4 DEF BeginFetch, FetchOrderBook, notification, history
<1>5. CASE Reload \/ Restart
  BY <1>5, StoredRenew
<1>6. CASE UNCHANGED vars
  BY <1>1, <1>6 DEF vars
<1> QED  BY <1>2, <1>3, <1>4, <1>5, <1>6 DEF Next

\* Every increment carries a greater sequence than the one before, whatever the engine
\* publishes and however often the process stops between two steps, until an engine is
\* reloaded or a call of Redis fails.
THEOREM SequencesOnlyGrow == Spec => SequenceGrows
<1>1. SequenceIsStored /\ [Next]_vars =>
        (~ reloaded /\ failures = 0 /\ (\E g \in Generations : Send(g)) => lastSent' > lastSent)
  BY StoredNext
<1>2. SequenceIsStored /\ [Next]_vars => SequenceIsStored'
  BY StoredNext
<1> QED  BY <1>1, <1>2, StoredInit, PTL DEF Spec, SequenceGrows

-----------------------------------------------------------------------------
(* Totals of levels. *)

\* The total of a level as the engine has it now.
Sum(l) == Total(l, resting, unfilled)

\* The ids of a book are finitely many, and its levels are those of its orders.
LEMMA LevelFacts ==
  /\ IsFiniteSet(Ids)
  /\ \A i \in Ids : Level(i) \in Levels /\ Book[i].quantity \in Nat
BY BookAssumption DEF Levels

\* The orders of a level are finitely many, and their total is a number.
LEMMA TotalIsNat ==
  ASSUME NEW orders, orders \subseteq Ids, NEW left, \A i \in Ids : left[i] \in Nat, NEW l
  PROVE  Total(l, orders, left) \in Nat
<1>1. At(l, orders) \subseteq Ids
  BY DEF At
<1>2. IsFiniteSet(At(l, orders))
  BY <1>1, LevelFacts, FS_Subset
<1> QED  BY <1>1, <1>2, SumIsNat DEF Total

\* A total depends on the orders of the level and what is left of them.
LEMMA SameTotal ==
  ASSUME NEW orders, orders \subseteq Ids, NEW others, NEW left, NEW rest, NEW l,
         At(l, orders) = At(l, others), \A i \in At(l, orders) : left[i] = rest[i]
  PROVE  Total(l, orders, left) = Total(l, others, rest)
<1>1. IsFiniteSet(At(l, orders))
  <2>1. At(l, orders) \subseteq Ids
    BY DEF At
  <2> QED  BY <2>1, LevelFacts, FS_Subset
<1> QED  BY <1>1, SumOfSame DEF Total

\* An order taken from its level takes its volume with it.
LEMMA TotalWithout ==
  ASSUME NEW orders, orders \subseteq Ids, NEW left, \A i \in Ids : left[i] \in Nat, NEW e \in Ids
  PROVE  Total(Level(e), orders \ {e}, left)
           = Total(Level(e), orders, left) - (IF e \in orders THEN left[e] ELSE 0)
<1> DEFINE S == At(Level(e), orders)
<1>1. S \subseteq Ids /\ At(Level(e), orders \ {e}) = S \ {e}
  BY DEF At
<1>2. IsFiniteSet(S)
  BY <1>1, LevelFacts, FS_Subset
<1>3. CASE e \in orders
  <2>1. e \in S
    BY <1>3 DEF At
  <2> HIDE DEF S
  <2>2. SumFunctionOnSet(left, S) = left[e] + SumFunctionOnSet(left, S \ {e})
    BY <1>1, <1>2, <2>1, SumTakesOut
  <2>3. SumFunctionOnSet(left, S \ {e}) \in Nat /\ left[e] \in Nat
    BY <1>1, <1>2, <2>1, SmallerIsFinite, SumIsNat
  <2>4. /\ Total(Level(e), orders, left) = SumFunctionOnSet(left, S)
        /\ Total(Level(e), orders \ {e}, left) = SumFunctionOnSet(left, S \ {e})
    BY <1>1 DEF Total, S
  <2> QED  BY <1>3, <2>2, <2>3, <2>4
<1>4. CASE e \notin orders
  <2>1. orders \ {e} = orders
    BY <1>4
  <2>2. Total(Level(e), orders, left) \in Nat
    BY TotalIsNat
  <2> QED  BY <1>4, <2>1, <2>2
<1> QED  BY <1>3, <1>4

-----------------------------------------------------------------------------
(* Types. *)

\* Every Notification has a cache; TypeOK says what is in it.
CacheIsFunction == cache = [g \in Generations |-> cache[g]]

\* What Depth.Remove leaves to be published is the total without the order.
LEMMA RemovePublishes ==
  ASSUME TypeOK, NEW i \in Ids, Remove(i)
  PROVE  /\ publishing' = [level |-> Level(i), total |-> Sum(Level(i))']
         /\ Sum(Level(i))' \in Nat
<1>1. resting \subseteq Ids /\ resting' = resting \ {i} /\ unfilled' = unfilled
      /\ \A j \in Ids : unfilled[j] \in Nat
  BY DEF TypeOK, Remove
<1>2. Remains(i) = Total(Level(i), resting', unfilled')
  BY <1>1, TotalWithout DEF Remains
<1>3. Total(Level(i), resting', unfilled') \in Nat
  BY <1>1, TotalIsNat
<1> QED  BY <1>2, <1>3 DEF Remove, Sum

LEMMA RemoveTypes ==
  ASSUME TypeOK, NEW i \in Ids, Remove(i), removing' \in Ids \cup {Nothing}, calls' \in Nat
  PROVE  TypeOK'
<1>1. publishing' \in [level: Levels, total: Nat]
  BY RemovePublishes, LevelFacts
<1> QED  BY <1>1 DEF Remove, TypeOK, notification, clients, history

LEMMA AddTypes ==
  ASSUME TypeOK, NEW i \in Ids, NEW quantity \in 1 .. Book[i].quantity, Add(i, quantity)
  PROVE  TypeOK'
<1>1. resting' = resting \cup {i} /\ resting' \subseteq Ids /\ calls' \in Nat
  BY DEF Add, TypeOK
<1>2. quantity \in Nat /\ quantity <= Book[i].quantity
  BY LevelFacts
<1>3. unfilled' \in [Ids -> Nat] /\ \A j \in Ids : unfilled'[j] <= Book[j].quantity
  BY <1>2 DEF Add, TypeOK
<1>4. Total(Level(i), resting', unfilled') \in Nat
  BY <1>1, <1>3, TotalIsNat
<1>5. publishing' \in [level: Levels, total: Nat]
  BY <1>4, LevelFacts DEF Add
<1> QED  BY <1>1, <1>3, <1>5 DEF Add, TypeOK, notification, clients, history

LEMMA FillTypes ==
  ASSUME TypeOK, NEW i \in Ids, NEW quantity \in 1 .. Book[i].quantity, Fill(i, quantity)
  PROVE  TypeOK'
<1>1. quantity \in Nat /\ unfilled[i] \in Nat /\ Book[i].quantity \in Nat /\ quantity <= unfilled[i]
  BY LevelFacts DEF Fill, TypeOK
<1>2. unfilled' \in [Ids -> Nat] /\ \A j \in Ids : unfilled'[j] <= Book[j].quantity
  BY <1>1 DEF Fill, TypeOK
<1>3. stale' \subseteq Levels /\ removing' \in Ids \cup {Nothing}
  BY LevelFacts DEF Fill, TypeOK
<1> QED  BY <1>2, <1>3 DEF Fill, TypeOK, notification, clients, history

LEMMA PublishTypes == ASSUME TypeOK, CacheIsFunction, Publish PROVE TypeOK' /\ CacheIsFunction'
<1>1. publishing.level \in Levels /\ publishing.total \in Nat /\ current \in Generations
  BY DEF Publish, TypeOK
<1> DEFINE new == Put(cache[current], publishing.level, publishing.total)
<1>2. /\ cache' = [g \in Generations |-> IF g = current THEN new ELSE cache[g]]
  BY DEF Publish, CacheIsFunction
<1>3. DOMAIN new \subseteq Levels /\ \A l \in DOMAIN new : new[l] \in Nat
  BY <1>1 DEF Put, TypeOK
<1> HIDE DEF new
<1>4. CacheIsFunction'
  BY <1>2 DEF CacheIsFunction
<1>5. \A g \in Generations : DOMAIN cache'[g] \subseteq Levels /\ \A l \in DOMAIN cache'[g] : cache'[g][l] \in Nat
  BY <1>2, <1>3 DEF TypeOK
<1> QED  BY <1>4, <1>5 DEF Publish, TypeOK, clients, history

LEMMA LoopTypes ==
  ASSUME TypeOK, CacheIsFunction, NEW g \in Generations, Loop(g)
  PROVE  TypeOK' /\ CacheIsFunction'
<1>1. CASE Count(g)
  <2>1. sequence' \in [Generations -> Nat] /\ sending' \subseteq alive' /\ unstored' \subseteq sending'
    <3>1. sequence \in [Generations -> Nat] /\ sequence[g] + 1 \in Nat
      BY DEF TypeOK
    <3> QED  BY <1>1, <3>1 DEF Count, TypeOK
  <2> QED  BY <1>1, <2>1 DEF Count, TypeOK, CacheIsFunction, engine, clients, history
<1>2. CASE Store(g)
  <2>1. stored' \in Nat /\ failures' \in Nat /\ unstored' \subseteq sending'
    BY <1>2 DEF Store, ToStore, TypeOK
  <2> QED  BY <1>2, <2>1 DEF Store, TypeOK, CacheIsFunction, engine, clients
<1>3. CASE Send(g)
  <2>1. cache' = [h \in Generations |-> IF h = g THEN EmptyCache ELSE cache[h]]
    BY <1>3 DEF Send, CacheIsFunction
  <2>2. CacheIsFunction'
    BY <2>1 DEF CacheIsFunction
  <2>3. \A h \in Generations : DOMAIN cache'[h] \subseteq Levels /\ \A l \in DOMAIN cache'[h] : cache'[h][l] \in Nat
    BY <2>1 DEF EmptyCache, TypeOK
  <2>4. /\ client' = Nothing \/ client' \in [sequence: Nat, totals: [Levels -> Nat]]
        /\ client # Nothing => client' # Nothing
    <3>1. CASE IsNewer(g)
      <4>1. client # Nothing /\ \A l \in Levels : client.totals[l] \in Nat
        BY <3>1 DEF TypeOK, IsNewer
      <4>2. \A l \in DOMAIN cache[g] : cache[g][l] \in Nat
        BY DEF TypeOK
      <4>3. sequence[g] \in Nat
        BY DEF TypeOK
      <4>4. client' \in [sequence: Nat, totals: [Levels -> Nat]]
        BY <1>3, <3>1, <4>1, <4>2, <4>3 DEF Send, Applied
      <4> QED  BY <4>4, NothingAssumption
    <3>2. CASE ~ IsNewer(g)
      BY <1>3, <3>2 DEF Send, TypeOK
    <3> QED  BY <3>1, <3>2
  <2>5. lastSent' \in Nat /\ sending' \subseteq alive /\ unstored \subseteq sending'
    BY <1>3 DEF Send, TypeOK
  <2>6. follows' \in BOOLEAN /\ (follows' => client' # Nothing)
    BY <1>3, <2>4 DEF Send, TypeOK
  <2> QED  BY <1>3, <2>2, <2>3, <2>4, <2>5, <2>6 DEF Send, TypeOK, engine, history
<1> QED  BY <1>1, <1>2, <1>3 DEF Loop

LEMMA FetchTypes ==
  ASSUME TypeOK, CacheIsFunction, BeginFetch \/ FetchOrderBook
  PROVE  TypeOK' /\ CacheIsFunction'
<1>1. CASE BeginFetch
  <2>1. fetching' \in Nat /\ fetches' \in Nat
    BY <1>1 DEF BeginFetch, TypeOK
  <2> QED  BY <1>1, <2>1 DEF BeginFetch, TypeOK, CacheIsFunction, engine, notification, history
<1>2. CASE FetchOrderBook
  <2>1. \A l \in Levels : Total(l, resting, unfilled) \in Nat
    BY TotalIsNat DEF TypeOK
  <2>2. fetching \in Nat
    BY <1>2 DEF FetchOrderBook, TypeOK
  <2>3. client' \in [sequence: Nat, totals: [Levels -> Nat]]
    BY <1>2, <2>1, <2>2 DEF FetchOrderBook
  <2>4. stale' \subseteq Levels /\ fetching' = Nothing /\ follows' = TRUE /\ client' # Nothing
    BY <1>2, <2>3, NothingAssumption DEF FetchOrderBook, TypeOK
  <2> QED  BY <1>2, <2>3, <2>4 DEF FetchOrderBook, TypeOK, CacheIsFunction, engine, notification, history
<1> QED  BY <1>1, <1>2

LEMMA RenewTypes ==
  ASSUME TypeOK, CacheIsFunction, Reload \/ Restart
  PROVE  TypeOK' /\ CacheIsFunction'
<1>1. current \in Nat /\ current + 1 \in Generations /\ current' = current + 1
  BY BoundsAssumption DEF Reload, Restart, Renew, Generations
<1>2. alive' \subseteq 1 .. current' /\ sending' \subseteq alive' /\ unstored' \subseteq sending'
  <2>1. alive \subseteq 1 .. current /\ sending \subseteq alive /\ unstored \subseteq sending
    BY DEF TypeOK
  <2>2. \/ alive' = alive \cup {current'} /\ sending' = sending /\ unstored' = unstored
        \/ alive' = {current'} /\ sending' = {} /\ unstored' = {}
    BY DEF Reload, Restart
  <2>3. 1 .. current \subseteq 1 .. current' /\ current' \in 1 .. current'
    BY <1>1
  <2> QED  BY <2>1, <2>2, <2>3
<1>3. sequence' \in [Generations -> Nat] /\ failures' \in Nat
  BY <1>1 DEF Reload, Restart, Renew, TypeOK
<1>4. reloaded' \in BOOLEAN
  BY DEF Reload, Restart, TypeOK
<1> QED  BY <1>1, <1>2, <1>3, <1>4 DEF Reload, Restart, Renew, TypeOK, CacheIsFunction

LEMMA FeedTypesNext == TypeOK /\ CacheIsFunction /\ [Next]_vars => TypeOK' /\ CacheIsFunction'
<1> SUFFICES ASSUME TypeOK, CacheIsFunction, [Next]_vars PROVE TypeOK' /\ CacheIsFunction'
  OBVIOUS
<1>1. ASSUME NEW i \in Ids, NEW quantity \in 1 .. Book[i].quantity, Add(i, quantity) \/ Fill(i, quantity)
      PROVE  TypeOK' /\ CacheIsFunction'
  BY <1>1, AddTypes, FillTypes DEF Add, Fill, notification, CacheIsFunction
<1>2. ASSUME NEW i \in Ids, Cancel(i) PROVE TypeOK' /\ CacheIsFunction'
  <2>1. Remove(i) /\ removing' \in Ids \cup {Nothing} /\ calls' \in Nat
    BY <1>2 DEF Cancel, TypeOK
  <2> QED  BY <2>1, RemoveTypes DEF Remove, notification, CacheIsFunction
<1>3. CASE RemoveFilled
  <2>1. removing \in Ids /\ Remove(removing) /\ removing' \in Ids \cup {Nothing} /\ calls' \in Nat
    BY <1>3 DEF RemoveFilled, TypeOK
  <2> QED  BY <2>1, RemoveTypes DEF Remove, notification, CacheIsFunction
<1>4. CASE UNCHANGED vars
  BY <1>4 DEF vars, TypeOK, CacheIsFunction
<1> QED  BY <1>1, <1>2, <1>3, <1>4, PublishTypes, LoopTypes, FetchTypes, RenewTypes DEF Next, Engine

LEMMA FeedTypesInit == Init => TypeOK /\ CacheIsFunction
<1> SUFFICES ASSUME Init PROVE TypeOK /\ CacheIsFunction
  OBVIOUS
<1>1. 1 \in Generations /\ \A i \in Ids : Book[i].quantity \in Nat
  BY BoundsAssumption, LevelFacts DEF Generations
<1>2. \A g \in Generations : cache[g] = EmptyCache /\ DOMAIN cache[g] = {}
  BY DEF Init, EmptyCache
<1>3. CacheIsFunction
  BY DEF Init, CacheIsFunction
<1>4. \A g \in Generations :
        DOMAIN cache[g] \subseteq Levels /\ \A l \in DOMAIN cache[g] : cache[g][l] \in Nat
  BY <1>2
<1>5. /\ sequence \in [Generations -> Nat] /\ unfilled \in [Ids -> Nat]
      /\ \A i \in Ids : unfilled[i] <= Book[i].quantity
      /\ alive \subseteq 1 .. current
  BY <1>1 DEF Init
<1> QED  BY <1>1, <1>3, <1>4, <1>5 DEF Init, TypeOK

\* Totals, caches and snapshots are numbers for levels of the book, for any book and any
\* calls, fills, reloads and restarts.
THEOREM TypeCorrect == Spec => []TypeOK
BY FeedTypesInit, FeedTypesNext, PTL DEF Spec

-----------------------------------------------------------------------------
(* What the client has and what is on its way to it. *)

\* The level the engine is about to publish.
Pending(l) == publishing # Nothing /\ publishing.level = l

\* depthMutex: a snapshot is not taken while a total waits to be published.
OneAtATime == fetching # Nothing => publishing = Nothing

\* For a level that has not traded since: what is on its way is its total; what the client
\* has is, when it follows the engine and nothing is on its way; and what is being sent is
\* known already to a client whose snapshot is as new as it.
LevelInSync(l) ==
  /\ l \in DOMAIN cache[current] => cache[current][l] = Sum(l)
  /\ follows /\ l \notin DOMAIN cache[current] => client.totals[l] = Sum(l)
  /\ follows /\ current \in sending /\ l \in DOMAIN cache[current] =>
       client.sequence < sequence[current] \/ client.totals[l] = cache[current][l]

LevelsInSync == \A l \in Levels \ stale : ~ Pending(l) => LevelInSync(l)

\* Nothing a client has read of the running engine is ahead of its loop.
NoneAhead ==
  /\ fetching # Nothing => fetching <= sequence[current]
  /\ follows => client.sequence <= sequence[current]

\* What is published is the total, and it is still the total when Publish gets it.
PublishesTotal == publishing # Nothing => publishing.total = Sum(publishing.level)

\* An engine that does not run yet has published nothing.
FutureIsEmpty == \A g \in Generations : g > current => cache[g] = EmptyCache

InSync == OneAtATime /\ NoneAhead /\ PublishesTotal /\ LevelsInSync /\ FutureIsEmpty

\* The limit of the client is no less than the number of levels.
LimitSuffices == Cardinality(Levels) <= Limit

\* A snapshot that is long enough leaves no level out.
LEMMA FetchesAll == ASSUME LimitSuffices PROVE Fetched = Occupied
<1>1. IsFiniteSet(Levels)
  <2> DEFINE f == [i \in Ids |-> Level(i)]
  <2>1. f \in Surjection(Ids, Levels)
    BY DEF Surjection, Levels
  <2> HIDE DEF f
  <2> QED  BY <2>1, LevelFacts, FS_Surjection
<1>2. ASSUME NEW l \in Occupied
      PROVE  Cardinality({k \in Occupied : k[1] = l[1] /\ Farther(k, l)}) < Limit
  <2> DEFINE K == {k \in Occupied : k[1] = l[1] /\ Farther(k, l)}
  <2>1. l \in Levels /\ K \subseteq Levels
    BY DEF Occupied
  <2>2. PICK i \in Ids : l = Level(i)
    BY <2>1 DEF Levels
  <2>3. l[2] \in Nat
    BY <2>2, BookAssumption DEF Level
  <2>4. l \notin K
    BY <2>3 DEF Farther
  <2>5. Cardinality(K) \in Nat /\ Cardinality(Levels) \in Nat /\ Cardinality(K) < Cardinality(Levels)
    <3> HIDE DEF K
    <3>1. IsFiniteSet(K)
      BY <1>1, <2>1, FS_Subset
    <3>2. K # Levels
      BY <2>1, <2>4
    <3> QED  BY <1>1, <2>1, <3>1, <3>2, FS_Subset, FS_CardinalityType
  <2> HIDE DEF K
  <2>6. Cardinality(K) < Limit
    BY <2>5, BoundsAssumption DEF LimitSuffices
  <2> QED  BY <2>6 DEF K
<1> QED  BY <1>2 DEF Fetched

\* The running engine has a Notification; sequences and what clients have read are numbers.
LEMMA FeedNumbers ==
  ASSUME TypeOK
  PROVE  /\ current \in Generations /\ current \in Nat /\ sequence[current] \in Nat
         /\ follows => client # Nothing /\ client.sequence \in Nat
         /\ fetching # Nothing => fetching \in Nat
BY BoundsAssumption DEF TypeOK, Generations

\* A step of the engine that changes one level and leaves it pending or stale.
LEMMA OneLevelChanges ==
  ASSUME TypeOK, InSync, NEW k \in Levels,
         UNCHANGED <<current, cache, client, follows, sequence, sending>>,
         fetching' \in {fetching, Nothing},
         \A l \in Levels \ {k} : Sum(l)' = Sum(l),
         stale \subseteq stale', \/ k \in stale' /\ publishing' = publishing /\ publishing = Nothing
                               \/ /\ publishing = Nothing /\ publishing' # Nothing /\ fetching = Nothing
                                  /\ publishing'.level = k /\ publishing'.total = Sum(k)'
  PROVE  InSync'
<1>1. NoneAhead' /\ FutureIsEmpty'
  BY DEF InSync, NoneAhead, FutureIsEmpty
<1>2. PublishesTotal' /\ OneAtATime'
  BY DEF InSync, OneAtATime, PublishesTotal
<1>3. ASSUME NEW l \in Levels \ stale', ~ Pending(l)' PROVE LevelInSync(l)'
  <2>1. l # k /\ l \in Levels \ stale /\ ~ Pending(l)
    BY <1>3 DEF Pending
  <2>2. LevelInSync(l) /\ Sum(l)' = Sum(l)
    BY <2>1 DEF InSync, LevelsInSync
  <2> QED  BY <2>2 DEF LevelInSync
<1> QED  BY <1>1, <1>2, <1>3 DEF InSync, LevelsInSync

LEMMA SyncRemove ==
  ASSUME TypeOK, InSync, NEW i \in Ids, Remove(i), publishing = Nothing
  PROVE  InSync'
<1>1. publishing' = [level |-> Level(i), total |-> Sum(Level(i))'] /\ Sum(Level(i))' \in Nat
  BY RemovePublishes
<1>2. publishing' \in [level: Levels, total: Nat]
  BY <1>1, LevelFacts
<1>3. resting \subseteq Ids /\ resting' = resting \ {i} /\ unfilled' = unfilled
  BY DEF TypeOK, Remove
<1>4. ASSUME NEW l \in Levels \ {Level(i)} PROVE Sum(l)' = Sum(l)
  <2>1. At(l, resting) = At(l, resting')
    BY <1>3, <1>4 DEF At
  <2> QED  BY <1>3, <2>1, SameTotal DEF Sum
<1>5. /\ UNCHANGED <<current, cache, client, follows, sequence, sending, stale>>
      /\ fetching' = Nothing /\ fetching = Nothing
  BY DEF Remove, notification, clients
<1>6. publishing' # Nothing /\ publishing'.level = Level(i) /\ publishing'.total = Sum(Level(i))'
  BY <1>1, <1>2, NothingAssumption
<1> QED  BY <1>4, <1>5, <1>6, LevelFacts, OneLevelChanges

LEMMA SyncAdd ==
  ASSUME TypeOK, TypeOK', InSync,
         NEW i \in Ids, NEW quantity \in 1 .. Book[i].quantity, Add(i, quantity)
  PROVE  InSync'
<1>1. /\ resting \subseteq Ids /\ resting' = resting \cup {i}
      /\ \A j \in Ids \ {i} : unfilled'[j] = unfilled[j]
      /\ publishing' = [level |-> Level(i), total |-> Sum(Level(i))']
      /\ publishing = Nothing /\ fetching = Nothing /\ fetching' = Nothing
      /\ UNCHANGED <<current, cache, client, follows, sequence, sending, stale>>
  BY DEF TypeOK, Add, Idle, notification, clients, Sum
<1>2. ASSUME NEW l \in Levels \ {Level(i)} PROVE Sum(l)' = Sum(l)
  <2>1. At(l, resting) = At(l, resting') /\ \A j \in At(l, resting) : j \in Ids \ {i}
    BY <1>1, <1>2 DEF At
  <2>2. Total(l, resting, unfilled) = Total(l, resting', unfilled')
    BY <1>1, <2>1, SameTotal, SMTT(30)
  <2> QED  BY <2>2 DEF Sum
<1>3. publishing' # Nothing
  <2>1. Sum(Level(i))' \in Nat
    <3>1. \A j \in Ids : unfilled'[j] \in Nat
      BY DEF TypeOK
    <3>2. resting' \subseteq Ids
      BY <1>1
    <3> QED  BY <3>1, <3>2, TotalIsNat DEF Sum
  <2> QED  BY <1>1, <2>1, LevelFacts, NothingAssumption
<1>4. publishing'.level = Level(i) /\ publishing'.total = Sum(Level(i))'
  BY <1>1
<1> QED  BY <1>1, <1>2, <1>3, <1>4, LevelFacts, OneLevelChanges

LEMMA SyncFill ==
  ASSUME TypeOK, InSync,
         NEW i \in Ids, NEW quantity \in 1 .. Book[i].quantity, Fill(i, quantity)
  PROVE  InSync'
<1>1. /\ resting \subseteq Ids /\ resting' = resting
      /\ \A j \in Ids \ {i} : unfilled'[j] = unfilled[j]
      /\ publishing = Nothing /\ publishing' = Nothing
      /\ stale' = stale \cup {Level(i)}
      /\ UNCHANGED <<current, cache, client, follows, sequence, sending, fetching>>
  BY DEF TypeOK, Fill, Idle, notification, clients
<1>2. ASSUME NEW l \in Levels \ {Level(i)} PROVE Sum(l)' = Sum(l)
  <2>1. At(l, resting) = At(l, resting') /\ \A j \in At(l, resting) : j \in Ids \ {i}
    BY <1>1, <1>2 DEF At
  <2>2. Total(l, resting, unfilled) = Total(l, resting', unfilled')
    BY <1>1, <2>1, SameTotal
  <2> QED  BY <2>2 DEF Sum
<1> QED  BY <1>1, <1>2, LevelFacts, OneLevelChanges

\* The total that waits gets into the cache, which is not being sent.
LEMMA SyncPublish ==
  ASSUME TypeOK, CacheIsFunction, InSync, Publish
  PROVE  InSync'
<1>1. current \in Generations /\ current \in Nat /\ current \notin sending /\ publishing.level \in Levels
  BY FeedNumbers DEF Publish, TypeOK
<1>2. /\ cache'[current] = Put(cache[current], publishing.level, publishing.total)
      /\ \A g \in Generations \ {current} : cache'[g] = cache[g]
  BY <1>1 DEF Publish, CacheIsFunction
<1>3. /\ UNCHANGED <<current, client, follows, sequence, sending, fetching, resting, unfilled>>
      /\ publishing' = Nothing /\ stale' = stale \ {publishing.level}
      /\ publishing # Nothing
  BY DEF Publish, clients
<1>4. NoneAhead' /\ PublishesTotal' /\ OneAtATime' /\ FutureIsEmpty'
  BY <1>1, <1>2, <1>3 DEF InSync, NoneAhead, PublishesTotal, OneAtATime, FutureIsEmpty
<1>5. ASSUME NEW l \in Levels \ stale' PROVE LevelInSync(l)'
  <2>1. CASE l = publishing.level
    <3>1. l \in DOMAIN cache'[current] /\ cache'[current][l] = publishing.total
      BY <1>2, <2>1 DEF Put
    <3>2. publishing.total = Sum(l)'
      BY <1>3, <2>1 DEF InSync, PublishesTotal, Sum
    <3> QED  BY <1>1, <1>3, <3>1, <3>2 DEF LevelInSync
  <2>2. CASE l # publishing.level
    <3>1. LevelInSync(l)
      BY <1>3, <1>5, <2>2 DEF InSync, LevelsInSync, Pending
    <3>2. /\ l \in DOMAIN cache'[current] <=> l \in DOMAIN cache[current]
          /\ l \in DOMAIN cache[current] => cache'[current][l] = cache[current][l]
      BY <1>2, <2>2 DEF Put
    <3>3. Sum(l)' = Sum(l)
      BY <1>3 DEF Sum
    <3> QED  BY <1>1, <1>3, <3>1, <3>2, <3>3 DEF LevelInSync
  <2> QED  BY <2>1, <2>2
<1> QED  BY <1>4, <1>5 DEF InSync, LevelsInSync

\* A loop that counts: the sequence of the running engine gets ahead of the client's, that
\* of another loop is none of its business.
LEMMA SyncCount ==
  ASSUME TypeOK, InSync, NEW g \in Generations, Count(g)
  PROVE  InSync'
<1>1. current \in Generations /\ sequence[current] \in Nat
      /\ (follows => client.sequence \in Nat) /\ (fetching # Nothing => fetching \in Nat)
  BY FeedNumbers
<1>2. /\ sequence'[current] = IF g = current THEN sequence[current] + 1 ELSE sequence[current]
      /\ current \in sending' => g = current \/ current \in sending
  BY <1>1 DEF Count, TypeOK
<1>3. UNCHANGED <<current, client, follows, cache, fetching, resting, unfilled, publishing, stale>>
  BY DEF Count, engine, clients
<1>4. /\ follows => client.sequence <= sequence[current]
      /\ fetching # Nothing => fetching <= sequence[current]
  BY DEF InSync, NoneAhead
<1>5. NoneAhead'
  BY <1>1, <1>2, <1>3, <1>4 DEF NoneAhead
<1>6. PublishesTotal' /\ OneAtATime' /\ FutureIsEmpty'
  BY <1>3 DEF InSync, PublishesTotal, OneAtATime, FutureIsEmpty, Sum
<1>7. ASSUME NEW l \in Levels \ stale', ~ Pending(l)' PROVE LevelInSync(l)'
  <2>1. LevelInSync(l) /\ Sum(l)' = Sum(l)
    BY <1>3, <1>7 DEF InSync, LevelsInSync, Pending, Sum
  <2>2. follows /\ g = current => client.sequence < sequence'[current]
    BY <1>1, <1>2, <1>4
  <2> QED  BY <1>2, <1>3, <2>1, <2>2 DEF LevelInSync
<1> QED  BY <1>3, <1>5, <1>6, <1>7 DEF InSync, LevelsInSync

\* Nothing of what a client is told depends on Redis while the engine runs.
LEMMA SyncStore ==
  ASSUME TypeOK, InSync, NEW g \in Generations, Store(g)
  PROVE  InSync'
<1>1. UNCHANGED <<current, client, follows, cache, sequence, sending, fetching, resting, unfilled, publishing, stale>>
  BY DEF Store, engine, clients
<1>2. NoneAhead' /\ PublishesTotal' /\ OneAtATime' /\ FutureIsEmpty'
  BY <1>1 DEF InSync, NoneAhead, PublishesTotal, OneAtATime, FutureIsEmpty, Sum
<1>3. ASSUME NEW l \in Levels \ stale', ~ Pending(l)' PROVE LevelInSync(l)'
  <2>1. LevelInSync(l) /\ Sum(l)' = Sum(l)
    BY <1>1, <1>3 DEF InSync, LevelsInSync, Pending, Sum
  <2> QED  BY <1>1, <2>1 DEF LevelInSync
<1> QED  BY <1>1, <1>2, <1>3 DEF InSync, LevelsInSync

\* The loop of the running engine brings what is on its way to a client that follows it.
LEMMA SyncSendOfCurrent ==
  ASSUME TypeOK, CacheIsFunction, InSync, Send(current)
  PROVE  NoneAhead' /\ LevelsInSync'
<1>1. current \in Generations /\ sequence[current] \in Nat /\ current \in sending
      /\ (follows => client # Nothing /\ client.sequence \in Nat)
  BY FeedNumbers DEF Send
<1>2. cache'[current] = EmptyCache /\ DOMAIN cache'[current] = {}
  BY <1>1 DEF Send, CacheIsFunction, EmptyCache
<1>3. /\ UNCHANGED <<current, sequence, fetching, resting, unfilled, publishing, stale>>
      /\ sending' = sending \ {current} /\ (follows' => follows)
  BY DEF Send, engine
<1>4. ASSUME NEW l \in Levels \ stale', ~ Pending(l)' PROVE LevelInSync(l) /\ Sum(l)' = Sum(l)
  BY <1>3, <1>4 DEF InSync, LevelsInSync, Pending, Sum
<1>5. CASE IsNewer(current)
  <2>1. client' = [sequence |-> sequence[current], totals |-> Applied(current)]
    BY <1>5 DEF Send
  <2>2. client'.sequence = sequence[current] /\ client'.totals = Applied(current)
    BY <2>1
  <2>3. NoneAhead'
    BY <1>1, <1>3, <2>2 DEF InSync, NoneAhead
  <2>4. ASSUME NEW l \in Levels \ stale', ~ Pending(l)' PROVE LevelInSync(l)'
    <3>1. LevelInSync(l) /\ Sum(l)' = Sum(l)
      BY <1>4, <2>4
    <3>2. follows => Applied(current)[l] = Sum(l)
      BY <3>1 DEF LevelInSync, Applied
    <3> QED  BY <1>2, <1>3, <2>2, <3>1, <3>2 DEF LevelInSync
  <2> QED  BY <1>3, <2>3, <2>4 DEF LevelsInSync
<1>6. CASE ~ IsNewer(current)
  <2>1. client' = client
    BY <1>6 DEF Send
  <2>2. NoneAhead'
    BY <1>3, <2>1 DEF InSync, NoneAhead
  <2>3. follows => ~ (client.sequence < sequence[current])
    BY <1>1, <1>6 DEF IsNewer
  <2>4. ASSUME NEW l \in Levels \ stale', ~ Pending(l)' PROVE LevelInSync(l)'
    <3>1. LevelInSync(l) /\ Sum(l)' = Sum(l)
      BY <1>4, <2>4
    <3>2. follows => client.totals[l] = Sum(l)
      BY <1>1, <2>3, <3>1 DEF LevelInSync
    <3> QED  BY <1>2, <1>3, <2>1, <3>1, <3>2 DEF LevelInSync
  <2> QED  BY <1>3, <2>2, <2>4 DEF LevelsInSync
<1> QED  BY <1>5, <1>6

\* An old loop has a cache of its own; a client that applies what it sends follows no more.
LEMMA SyncSendOfOther ==
  ASSUME TypeOK, CacheIsFunction, InSync, NEW g \in Generations \ {current}, Send(g)
  PROVE  NoneAhead' /\ LevelsInSync'
<1>1. current \in Generations
  BY FeedNumbers
<1>2. cache'[current] = cache[current]
  BY <1>1 DEF Send, CacheIsFunction
<1>3. /\ UNCHANGED <<current, sequence, fetching, resting, unfilled, publishing, stale>>
      /\ current \in sending' <=> current \in sending
      /\ follows' => follows /\ client' = client
  BY DEF Send, engine
<1>4. ASSUME NEW l \in Levels \ stale', ~ Pending(l)' PROVE LevelInSync(l)'
  <2>1. LevelInSync(l) /\ Sum(l)' = Sum(l)
    BY <1>3, <1>4 DEF InSync, LevelsInSync, Pending, Sum
  <2> QED  BY <1>2, <1>3, <2>1 DEF LevelInSync
<1>5. NoneAhead'
  BY <1>3 DEF InSync, NoneAhead
<1> QED  BY <1>3, <1>4, <1>5 DEF LevelsInSync

LEMMA SyncSend ==
  ASSUME TypeOK, CacheIsFunction, InSync, NEW g \in Generations, Send(g)
  PROVE  InSync'
<1>1. NoneAhead' /\ LevelsInSync'
  <2>1. CASE g = current
    BY <2>1, SyncSendOfCurrent
  <2>2. CASE g # current
    BY <2>2, SyncSendOfOther
  <2> QED  BY <2>1, <2>2
<1>2. UNCHANGED <<current, fetching, resting, unfilled, publishing>>
  BY DEF Send, engine
<1>3. \A h \in Generations : cache'[h] = EmptyCache \/ cache'[h] = cache[h]
  BY DEF Send, CacheIsFunction
<1>4. PublishesTotal' /\ OneAtATime' /\ FutureIsEmpty'
  BY <1>2, <1>3 DEF InSync, PublishesTotal, OneAtATime, FutureIsEmpty, Sum
<1> QED  BY <1>1, <1>4 DEF InSync

LEMMA SyncBeginFetch ==
  ASSUME TypeOK, InSync, BeginFetch
  PROVE  InSync'
<1>1. /\ UNCHANGED <<current, client, follows, cache, sequence, sending, resting, unfilled, publishing, stale>>
      /\ publishing = Nothing /\ fetching' = sequence[current] /\ sequence[current] \in Nat
  BY FeedNumbers DEF BeginFetch, engine, notification
<1>2. NoneAhead' /\ PublishesTotal' /\ OneAtATime' /\ FutureIsEmpty'
  BY <1>1 DEF InSync, NoneAhead, PublishesTotal, OneAtATime, FutureIsEmpty
<1>3. ASSUME NEW l \in Levels \ stale', ~ Pending(l)' PROVE LevelInSync(l)'
  <2>1. LevelInSync(l) /\ Sum(l)' = Sum(l)
    BY <1>1, <1>3 DEF InSync, LevelsInSync, Pending, Sum
  <2> QED  BY <1>1, <2>1 DEF LevelInSync
<1> QED  BY <1>1, <1>2, <1>3 DEF InSync, LevelsInSync

\* A snapshot has the totals of all levels, and so has what is on its way.
LEMMA SyncFetch ==
  ASSUME LimitSuffices, TypeOK, InSync, FetchOrderBook
  PROVE  InSync'
<1>1. /\ UNCHANGED <<current, cache, sequence, sending, resting, unfilled, publishing>>
      /\ publishing = Nothing /\ fetching' = Nothing /\ fetching # Nothing
      /\ stale' = stale \cap DOMAIN cache[current]
  BY DEF FetchOrderBook, engine, notification, InSync, OneAtATime
<1> DEFINE totals == [l \in Levels |-> IF l \in Occupied THEN Sum(l) ELSE 0]
<1>2. client' = [sequence |-> fetching, totals |-> totals]
  BY FetchesAll DEF FetchOrderBook, Sum
<1>3. client'.sequence = fetching /\ client'.totals = totals
  BY <1>2
<1>4. ASSUME NEW l \in Levels PROVE totals[l] = Sum(l)
  <2>1. CASE l \notin Occupied
    <3>1. At(l, resting) = {}
      BY <2>1 DEF Occupied
    <3>2. Sum(l) = 0
      BY <3>1, SumOfNone DEF Sum, Total
    <3> QED  BY <2>1, <3>2
  <2> QED  BY <2>1
<1> HIDE DEF totals
<1>5. NoneAhead' /\ PublishesTotal' /\ OneAtATime' /\ FutureIsEmpty'
  BY <1>1, <1>3 DEF InSync, NoneAhead, PublishesTotal, OneAtATime, FutureIsEmpty
<1>6. ASSUME NEW l \in Levels \ stale' PROVE LevelInSync(l)'
  <2>1. Sum(l)' = Sum(l) /\ client'.totals[l] = Sum(l)
    BY <1>1, <1>3, <1>4 DEF Sum
  <2>2. l \in DOMAIN cache[current] => cache[current][l] = Sum(l)
    BY <1>1, <1>6 DEF InSync, LevelsInSync, LevelInSync, Pending
  <2> QED  BY <1>1, <2>1, <2>2 DEF LevelInSync
<1> QED  BY <1>1, <1>5, <1>6 DEF InSync, LevelsInSync

\* A new engine has published nothing, and no client follows it yet.
LEMMA SyncRenew ==
  ASSUME TypeOK, InSync, Reload \/ Restart
  PROVE  InSync'
<1>1. /\ current' = current + 1 /\ current \in Nat /\ current' \in Generations
      /\ follows' = FALSE /\ publishing' = Nothing /\ fetching' = Nothing /\ cache' = cache
  BY BoundsAssumption DEF Reload, Restart, Renew, Generations
<1>2. \A g \in Generations : g \in Nat
  BY BoundsAssumption DEF Generations
<1>3. FutureIsEmpty' /\ cache'[current'] = EmptyCache
  BY <1>1, <1>2 DEF InSync, FutureIsEmpty
<1>4. NoneAhead' /\ PublishesTotal' /\ OneAtATime'
  BY <1>1 DEF NoneAhead, PublishesTotal, OneAtATime
<1>5. DOMAIN cache'[current'] = {}
  BY <1>3 DEF EmptyCache
<1>6. \A l \in Levels : LevelInSync(l)'
  BY <1>1, <1>5 DEF LevelInSync
<1> QED  BY <1>3, <1>4, <1>6 DEF InSync, LevelsInSync

LEMMA InSyncNext ==
  ASSUME LimitSuffices, TypeOK, TypeOK', CacheIsFunction, InSync, [Next]_vars
  PROVE  InSync'
<1>1. ASSUME NEW i \in Ids, Cancel(i) PROVE InSync'
  BY <1>1, SyncRemove DEF Cancel, Idle
<1>2. CASE RemoveFilled
  <2>1. removing \in Ids
    BY <1>2 DEF RemoveFilled, TypeOK
  <2> QED  BY <1>2, <2>1, SyncRemove DEF RemoveFilled
<1>3. CASE UNCHANGED vars
  <2>1. \A l \in Levels : LevelInSync(l)' <=> LevelInSync(l)
    BY <1>3 DEF vars, LevelInSync, Sum
  <2> QED
    BY <1>3, <2>1 DEF vars, InSync, NoneAhead, PublishesTotal, OneAtATime, FutureIsEmpty, LevelsInSync, Pending, Sum
<1> QED
  BY <1>1, <1>2, <1>3, SyncAdd, SyncFill, SyncPublish, SyncCount, SyncStore, SyncSend, SyncBeginFetch, SyncFetch,
     SyncRenew
  DEF Next, Engine, Loop

\* What a client that follows the running engine has and what is on its way to it agree
\* with the book, for any book, fills, cancels and snapshots at any moment, after any
\* reloads and restarts and whatever Redis answers, when the snapshot is long enough.
THEOREM ClientKeepsUp ==
  ASSUME LimitSuffices
  PROVE  Spec => []ClientAgrees
<1>1. Init => InSync
  <2> SUFFICES ASSUME Init PROVE InSync
    OBVIOUS
  <2>1. current \in Generations /\ \A g \in Generations : cache[g] = EmptyCache
    BY BoundsAssumption DEF Init, Generations
  <2>2. DOMAIN cache[current] = {}
    BY <2>1 DEF EmptyCache
  <2>3. \A l \in Levels : LevelInSync(l)
    BY <2>2 DEF Init, LevelInSync
  <2> QED
    BY <2>1, <2>3 DEF Init, InSync, OneAtATime, NoneAhead, PublishesTotal, FutureIsEmpty, LevelsInSync
<1>2. TypeOK /\ CacheIsFunction /\ InSync /\ [Next]_vars => (TypeOK /\ CacheIsFunction /\ InSync)'
  BY FeedTypesNext, InSyncNext
<1>3. TypeOK /\ InSync => ClientAgrees
  BY DEF InSync, LevelsInSync, LevelInSync, Pending, ClientAgrees, Sum
<1> QED  BY <1>1, <1>2, <1>3, FeedTypesInit, PTL DEF Spec
=============================================================================
