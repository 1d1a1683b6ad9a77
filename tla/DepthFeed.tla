----------------------------- MODULE DepthFeed -----------------------------
(***************************************************************************)
(* The public order book of one symbol: the totals of the price levels     *)
(* (matching/depth.go, price_level.go), the increments a Notification      *)
(* collects and sends ten times a second (notification.go), and a client   *)
(* that takes a snapshot (FetchOrderBook) and applies the increments.      *)
(*                                                                         *)
(* Three goroutines meet here: the engine, which changes a level under     *)
(* Depth.depthMutex and then hands its total to Publish; the loop of the   *)
(* Notification, which holds NotifyMutex while it sends; and a gRPC call   *)
(* of FetchOrderBook, which holds depthMutex but reads Sequence without    *)
(* NotifyMutex.  A reloaded engine gets a new Notification; the loop of    *)
(* the old one goes on.                                                    *)
(***************************************************************************)
EXTENDS Integers, FiniteSets, Functions

CONSTANTS
  Ids,         \* orders
  Book,        \* side, price and quantity of every order
  Nothing,     \* no level to publish, no order to remove, no snapshot
  Limit,       \* the limit a client passes to FetchOrderBook
  MaxCalls,    \* bound: calls of Depth.Add and Depth.Remove other than by a fill
  MaxReloads,  \* bound: reloads and restarts of the engine
  MaxFetches,  \* bound: snapshots taken
  MaxFailures  \* bound: calls of Redis that fail

Sides == {"buy", "sell"}

ASSUME BookAssumption ==
  IsFiniteSet(Ids) /\ Book \in [Ids -> [side: Sides, price: Nat, quantity: Nat \ {0}]]
ASSUME BoundsAssumption ==
  Limit \in Nat /\ MaxCalls \in Nat /\ MaxReloads \in Nat /\ MaxFetches \in Nat /\ MaxFailures \in Nat

VARIABLES
  resting,     \* orders in the trees of Depth
  unfilled,    \* what is left of every order
  publishing,  \* the level the engine is about to hand to Publish (depthMutex is held)
  removing,    \* the filled or cancelled order Match is about to remove
  current,     \* the Notification of the engine that runs
  alive,       \* the Notifications whose loop runs
  sequence,    \* Notification.Sequence of each
  cache,       \* Notification.BookCache of each: the totals to send
  sending,     \* the Notifications whose loop holds NotifyMutex
  unstored,    \* those of them that have counted and not yet called Redis.Set
  stored,      \* the sequence in Redis
  lastSent,    \* history: sequence of the last increment sent, 0 at first
  fetching,    \* the sequence FetchOrderBook has read (depthMutex is held)
  client,      \* sequence and totals of the client, Nothing before its snapshot
  follows,     \* history: the client has a snapshot of the engine that runs, and has applied
               \* increments of its Notification only
  stale,       \* history: levels that have traded since they were published last
  reloaded,    \* history: a loop was left running beside the one of the current engine
  failures,    \* history: calls of Redis that have failed
  calls, fetches

engine       == <<resting, unfilled, publishing, removing>>
notification == <<current, alive, sequence, cache, sending, unstored, stored>>
clients      == <<lastSent, fetching, client, follows>>
history      == <<reloaded, failures>>
vars == <<resting, unfilled, publishing, removing, current, alive, sequence, cache, sending,
          unstored, stored, lastSent, fetching, client, follows, stale, reloaded, failures, calls, fetches>>

Level(i) == <<Book[i].side, Book[i].price>>

Levels == {Level(i) : i \in Ids}

\* Nothing is no order, no sequence, no level to publish and no snapshot.
ASSUME NothingAssumption ==
  /\ Nothing \notin Ids \cup Nat
  /\ Nothing \notin [level: Levels, total: Nat]
  /\ Nothing \notin [sequence: Nat, totals: [Levels -> Nat]]

Generations == 1 .. (MaxReloads + 1)

At(level, orders) == {i \in orders : Level(i) = level}

\* PriceLevel.Total.
Total(level, orders, left) == SumFunctionOnSet(left, At(level, orders))

EmptyCache == [l \in {} |-> 0]

-----------------------------------------------------------------------------
(* The engine. *)

Init ==
  /\ resting = {} /\ unfilled = [i \in Ids |-> 0]
  /\ publishing = Nothing /\ removing = Nothing
  /\ current = 1 /\ alive = {1} /\ stored = 0
  /\ sequence = [g \in Generations |-> 0] /\ cache = [g \in Generations |-> EmptyCache]
  /\ sending = {} /\ unstored = {}
  /\ lastSent = 0 /\ fetching = Nothing /\ client = Nothing /\ follows = FALSE
  /\ stale = {} /\ reloaded = FALSE /\ failures = 0
  /\ calls = 0 /\ fetches = 0

\* The engine holds orderMutex from the first step of an operation to the last.
Idle == publishing = Nothing /\ removing = Nothing

\* Depth.Add; an order that is in its level already is not added again, and the
\* level is published all the same.
Add(i, quantity) ==
  /\ Idle /\ fetching = Nothing /\ calls < MaxCalls
  /\ calls' = calls + 1
  /\ resting' = resting \cup {i}
  /\ unfilled' = IF i \in resting THEN unfilled ELSE [unfilled EXCEPT ![i] = quantity]
  /\ publishing' = [level |-> Level(i), total |-> Total(Level(i), resting', unfilled')]
  /\ UNCHANGED <<removing, notification, clients, stale, history, fetches>>

\* Fault: what has been filled of the order is taken away again.
RemainsUnfilled(i) ==
  Total(Level(i), resting, unfilled) - (IF i \in resting THEN Book[i].quantity ELSE 0)

\* PriceLevel.Remove; a key that is not in the level takes nothing away.
Remains(i) ==
  Total(Level(i), resting, unfilled) - (IF i \in resting THEN unfilled[i] ELSE 0)

\* Depth.Remove; nothing is published when there is no such level.
Remove(i) ==
  /\ fetching = Nothing /\ At(Level(i), resting) # {}
  /\ resting' = resting \ {i}
  /\ publishing' = [level |-> Level(i), total |-> Remains(i)]
  /\ UNCHANGED <<unfilled, notification, clients, stale, history, fetches>>

Cancel(i) ==
  /\ Idle /\ calls < MaxCalls
  /\ calls' = calls + 1
  /\ Remove(i)
  /\ UNCHANGED removing

\* A fill of Match: not under depthMutex, and published only when the order goes, which
\* is filled or has been cancelled.
Fill(i, quantity) ==
  /\ Idle /\ i \in resting /\ quantity <= unfilled[i]
  /\ unfilled' = [unfilled EXCEPT ![i] = @ - quantity]
  /\ removing' \in IF unfilled'[i] = 0 THEN {i} ELSE {i, Nothing}
  /\ stale' = stale \cup {Level(i)}
  /\ UNCHANGED <<resting, publishing, notification, clients, history, calls, fetches>>

RemoveFilled ==
  /\ publishing = Nothing /\ removing # Nothing
  /\ Remove(removing)
  /\ removing' = Nothing
  /\ UNCHANGED calls

\* Fault: the first total of a level that is not sent yet is kept.
PutFirst(book, l, total) ==
  [k \in DOMAIN book \cup {l} |-> IF k \in DOMAIN book THEN book[k] ELSE total]

\* Publish replaces the total of a level that is not sent yet.
Put(book, l, total) == [k \in DOMAIN book \cup {l} |-> IF k = l THEN total ELSE book[k]]

Publish ==
  /\ publishing # Nothing /\ current \notin sending
  /\ cache' = [cache EXCEPT ![current] = Put(@, publishing.level, publishing.total)]
  /\ stale' = stale \ {publishing.level}
  /\ publishing' = Nothing
  /\ UNCHANGED <<resting, unfilled, removing, current, alive, sequence, sending, unstored, stored,
                 clients, history, calls, fetches>>

-----------------------------------------------------------------------------
(* StartLoop. *)

\* Fault: the loop waits for an ask.
SomethingToSendOfAsks(g) == \E l \in DOMAIN cache[g] : l[1] = "sell"

SomethingToSend(g) == cache[g] # EmptyCache

\* The loop takes NotifyMutex and counts.
Count(g) ==
  /\ g \in alive /\ g \notin sending /\ SomethingToSend(g)
  /\ sending' = sending \cup {g} /\ unstored' = unstored \cup {g}
  /\ sequence' = [sequence EXCEPT ![g] = @ + 1]
  /\ UNCHANGED <<engine, current, alive, cache, stored, clients, stale, history, calls, fetches>>

\* Fault: the sequence is not stored.
ToStoreNothing(g) == stored

ToStore(g) == sequence[g]

\* Redis.Set, whose error nobody looks at.
Store(g) ==
  /\ g \in unstored
  /\ unstored' = unstored \ {g}
  /\ \/ stored' = ToStore(g) /\ UNCHANGED failures
     \/ failures < MaxFailures /\ failures' = failures + 1 /\ UNCHANGED stored
  /\ UNCHANGED <<engine, current, alive, sequence, cache, sending, clients, stale, reloaded, calls, fetches>>

\* A client applies an increment that is newer than what it has.
IsNewer(g) == client # Nothing /\ sequence[g] > client.sequence

Applied(g) == [l \in Levels |-> IF l \in DOMAIN cache[g] THEN cache[g][l] ELSE client.totals[l]]

\* The increment goes out, and NotifyMutex is released.
Send(g) ==
  /\ g \in sending \ unstored
  /\ lastSent' = sequence[g]
  /\ client' = IF IsNewer(g) THEN [sequence |-> sequence[g], totals |-> Applied(g)] ELSE client
  /\ follows' = (follows /\ (IsNewer(g) => g = current))
  /\ cache' = [cache EXCEPT ![g] = EmptyCache]
  /\ sending' = sending \ {g}
  /\ UNCHANGED <<engine, current, alive, sequence, unstored, stored, fetching, stale, history, calls, fetches>>

-----------------------------------------------------------------------------
(* FetchOrderBook. *)

\* The walk starts at the end of the tree: with the highest ask and the lowest bid.
Farther(l, k) == IF l[1] = "sell" THEN l[2] > k[2] ELSE l[2] < k[2]

Occupied == {l \in Levels : At(l, resting) # {}}

\* The first Limit levels of either side.
Fetched ==
  {l \in Occupied : Cardinality({k \in Occupied : k[1] = l[1] /\ Farther(k, l)}) < Limit}

\* The sequence is read first, and without NotifyMutex: a loop may be counting or
\* sending, now and until the totals are read.
BeginFetch ==
  /\ publishing = Nothing /\ fetching = Nothing /\ fetches < MaxFetches
  /\ fetches' = fetches + 1
  /\ fetching' = sequence[current]
  /\ UNCHANGED <<engine, notification, lastSent, client, follows, stale, history, calls>>

\* The client starts over from the answer.  (The code reads one level after the other, and a
\* fill may come in between.  For each level by itself that is a fill before this step or
\* after it, and the properties speak of one level at a time.)
FetchOrderBook ==
  /\ fetching # Nothing
  /\ client' = [sequence |-> fetching,
                totals   |-> [l \in Levels |-> IF l \in Fetched THEN Total(l, resting, unfilled) ELSE 0]]
  /\ follows' = TRUE
  /\ fetching' = Nothing
  /\ stale' = stale \cap DOMAIN cache[current]
  /\ UNCHANGED <<engine, notification, lastSent, history, calls, fetches>>

-----------------------------------------------------------------------------
(* A new engine for the symbol. *)

\* NewNotification goes on from the stored sequence, and from 0 when Redis.Exist fails: its
\* error is dropped.  (When Redis.Get fails, or its answer is no number, the process ends: that
\* is Restart.)  Nothing tells the clients.
Renew ==
  /\ current \in 1 .. MaxReloads
  /\ current' = current + 1
  /\ \/ sequence' = [sequence EXCEPT ![current + 1] = stored] /\ UNCHANGED failures
     \/ /\ failures < MaxFailures /\ failures' = failures + 1
        /\ sequence' = [sequence EXCEPT ![current + 1] = 0]
  /\ resting' = {} /\ stale' = {}
  /\ publishing' = Nothing /\ removing' = Nothing /\ fetching' = Nothing
  /\ follows' = FALSE
  /\ UNCHANGED <<unfilled, cache, stored, lastSent, client, calls, fetches>>

\* InitializeEngine in the running process: the old loop is not stopped.
Reload ==
  /\ Idle /\ fetching = Nothing
  /\ Renew
  /\ alive' = alive \cup {current'}
  /\ reloaded' = TRUE
  /\ UNCHANGED <<sending, unstored>>

\* The process stops anywhere and starts again.
Restart ==
  /\ Renew
  /\ alive' = {current'}
  /\ sending' = {} /\ unstored' = {}
  /\ UNCHANGED reloaded

-----------------------------------------------------------------------------

Engine ==
  \/ \E i \in Ids : \E quantity \in 1 .. Book[i].quantity : Add(i, quantity) \/ Fill(i, quantity)
  \/ \E i \in Ids : Cancel(i)
  \/ RemoveFilled
  \/ Publish

Loop(g) == Count(g) \/ Store(g) \/ Send(g)

Next ==
  \/ Engine
  \/ \E g \in Generations : Loop(g)
  \/ BeginFetch \/ FetchOrderBook
  \/ Reload
  \/ Restart

Spec == Init /\ [][Next]_vars

\* The loops run, a snapshot that is begun is answered, and the engine goes on with what it
\* has begun; no client has to take a snapshot and no order has to come.
FairSpec ==
  /\ Spec
  /\ \A g \in Generations : WF_vars(Loop(g))
  /\ WF_vars(RemoveFilled \/ Publish)
  /\ WF_vars(FetchOrderBook)

-----------------------------------------------------------------------------
(* Properties. *)

TypeOK ==
  /\ resting \subseteq Ids
  /\ unfilled \in [Ids -> Nat] /\ \A i \in Ids : unfilled[i] <= Book[i].quantity
  /\ publishing = Nothing \/ publishing \in [level: Levels, total: Nat]
  /\ removing \in Ids \cup {Nothing}
  /\ current \in Generations /\ alive \subseteq 1 .. current /\ sending \subseteq alive /\ unstored \subseteq sending
  /\ fetching \in Nat \cup {Nothing}
  /\ sequence \in [Generations -> Nat] /\ stored \in Nat /\ lastSent \in Nat
  /\ \A g \in Generations : DOMAIN cache[g] \subseteq Levels /\ \A l \in DOMAIN cache[g] : cache[g][l] \in Nat
  /\ client = Nothing \/ client \in [sequence: Nat, totals: [Levels -> Nat]]
  /\ follows \in BOOLEAN /\ (follows => client # Nothing)
  /\ stale \subseteq Levels /\ reloaded \in BOOLEAN /\ failures \in Nat
  /\ calls \in Nat /\ fetches \in Nat

\* What a client shows and what is on its way to it add up to the book: for a level
\* that has not traded since it was published, the total in the cache of the running
\* engine, or else the total the client has, is the total of the level.  Whenever the
\* snapshot was taken, also between two steps of a loop that sends, and whichever calls
\* of Redis fail.  Two exceptions.  Levels that are stale: a partial fill is never
\* published, and an older total in the cache overwrites a newer one in a snapshot.
\* And a client that does not follow the engine: nothing tells it of a reload or
\* restart, so it keeps levels the new book lacks, and the increments of an old loop
\* count as newer than those of the new one; the next snapshot ends both.
ClientAgrees ==
  follows /\ publishing = Nothing =>
    \A l \in Levels \ stale :
      Total(l, resting, unfilled) =
        IF l \in DOMAIN cache[current] THEN cache[current][l] ELSE client.totals[l]

\* Every increment carries a greater sequence than the one before, wherever the process
\* stops and starts again: it is stored before it is sent.  (Unless an engine was
\* reloaded, whose old loop lives on and stores its own sequence over that of the new
\* one, or a call of Redis has failed.)
SequenceGrows ==
  [][~ reloaded /\ failures = 0 /\ (\E g \in Generations : Send(g)) => lastSent' > lastSent]_vars

\* The totals a level can have.
Totals(l) == 0 .. Total(l, Ids, [i \in Ids |-> Book[i].quantity])

\* A level that has traded and that the engine is not about to publish.
TradedOnly(l) == Idle /\ l \in stale

\* The client catches up with every change: a level has the total n until the client,
\* which follows the engine, has it as well.  (But for a partial fill, which is not published.)
ChangesReachClient ==
  \A l \in Levels : \A n \in Totals(l) :
    follows /\ Total(l, resting, unfilled) = n
      ~> \/ client # Nothing /\ client.totals[l] = n
         \/ Total(l, resting, unfilled) # n \/ TradedOnly(l) \/ ~ follows
=============================================================================
