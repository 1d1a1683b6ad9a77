------------------------------ MODULE Exchange ------------------------------
(***************************************************************************)
(* The matching engine and the money side together.  OrderBook is the      *)
(* process finex-matching-engine, Settlement the API, the order_processor  *)
(* and the trade_executor; the topics between them are modelled here:      *)
(*   - "matching": submits of the order_processor, orders the executor     *)
(*     hands back, cancels of clients, reloads of an administrator;        *)
(*   - "trade_executor": the trades the engine has published;              *)
(*   - "order_processor": the submits of the API and the cancels of the    *)
(*     engine.                                                             *)
(* A topic keeps its messages; a consumer that restarts joins a new group  *)
(* and reads its topic again from the start, or from the end.  The engine  *)
(* loads the orders that wait before it joins.                             *)
(***************************************************************************)
EXTENDS Integers, Sequences, FiniteSets

CONSTANTS
  Members, Orders, Details, Fake, None, Scale, Funds,  \* see Settlement
  Prices, Volumes,                                     \* of the trades of the instance
  Submits,        \* the submits of the API in the order_processor topic, in their order
  StopPrices,     \* the stop price of every order, 0 for none
  StartPrices,    \* of the last trade before
  NoOrder,        \* see OrderBook
  MaxDeliveries,  \* bound: times one order is given to the engine
  MaxFaults,      \* bound: cancels, reloads and restarts together
  MaxStarts       \* bound: restarts of the engine among them

VARIABLES
  \* OrderBook
  asks, bids, stopAsks, stopBids, pendingOrders, marketPrice, pc, taker, batch, snapshotTaken,
  iter, loading, tradeTopic, processorTopic, received, offered, traded, cancels, reloads,
  \* Settlement
  rows, balance, lockedFunds, revenue, api, requests, startup, producing, announced, restarts,
  raced, external,
  \* the topics
  matchingTopic,  \* the messages of the matching topic
  inbox,          \* what the engine has not read of it
  joined,         \* whether the engine has joined a group since it started
  missed,         \* history: orders whose submits the engine was not there to read
  submitsRead, cancelsRead,  \* submits and cancels the order_processor has read
  executed,       \* trades the trade_executor has read
  faults, rewinds, starts,  \* counters: faults so far, restarts of executor and engine among them
  cancelledAt     \* history: deliveries of an order when the engine last cancelled it

engineVars == <<asks, bids, stopAsks, stopBids, pendingOrders, marketPrice, pc, taker, batch,
                snapshotTaken, iter, loading, tradeTopic, processorTopic, received, offered,
                traded, cancels, reloads>>
moneyVars == <<rows, balance, lockedFunds, revenue, api, requests, startup, producing, announced,
               restarts, raced, external>>
matching == <<matchingTopic, inbox, joined, missed, starts>>
started == <<joined, missed, starts>>
processorRead == <<submitsRead, cancelsRead>>
executorRead == <<executed, rewinds>>
vars == <<engineVars, moneyVars, matching, processorRead, executorRead, faults, cancelledAt>>

-----------------------------------------------------------------------------

\* ToMatchingAttributes: the order in the message.
Form(m) ==
  [id |-> m.id, side |-> Details[m.id].side, type |-> Details[m.id].type,
   price |-> Details[m.id].price, stop |-> StopPrices[m.id], quantity |-> Details[m.id].quantity,
   filled |-> m.filled, cancelled |-> m.cancelled, fake |-> FALSE, at |-> m.id]

AllForms == UNION {{Form([id |-> i, filled |-> f, cancelled |-> c]) :
                      f \in 0 .. Details[i].quantity, c \in BOOLEAN} : i \in Orders}

\* An engine that restarts may read every cancel and reload again.
Readings == MaxFaults * (MaxStarts + 1) + MaxStarts

Engine == INSTANCE OrderBook
  WITH Ids <- Orders, Submissions <- AllForms, LoadSets <- {{}},
       IteratorIsStable <- TRUE, MaxCancels <- Readings, MaxReloads <- Readings

Money == INSTANCE Settlement WITH MaxRestarts <- MaxFaults

\* The rows are as BuildOrder fills them (see WellFormed of OrderBook and LockedInFull of
\* Settlement), and the instance has every price and volume they can trade at.
ASSUME OrdersAssumption == Orders \subseteq Nat /\ Fake \notin Orders /\ None \notin Orders
ASSUME TablesAssumption == IsFiniteSet(Orders) /\ IsFiniteSet(Members)
ASSUME DetailsAssumption ==
  /\ Details \in [Orders -> Money!OrderDetails] /\ StopPrices \in [Orders -> Nat]
  /\ \A i \in Orders :
       /\ Money!LockedInFull(Details[i])
       /\ IF Details[i].type = "limit" THEN Details[i].price > 0
                                       ELSE Details[i].price = 0 /\ StopPrices[i] = 0
ASSUME FundsAssumption == Scale \in Nat \ {0} /\ Funds \in [Money!Accounts -> Nat]
ASSUME TradesAssumption ==
  /\ Prices \subseteq Nat /\ Volumes \subseteq Nat /\ StartPrices \subseteq Nat
  /\ \A i \in Orders :
       /\ Details[i].type = "limit" => Details[i].price \in Prices
       /\ 1 .. Details[i].quantity \subseteq Volumes
ASSUME SubmitsAssumption == Submits \in Seq(Orders)
ASSUME NoOrderAssumption == NoOrder \notin Engine!Order
ASSUME BoundsAssumption == MaxDeliveries \in Nat /\ MaxFaults \in Nat /\ MaxStarts \in Nat

Submission(m) == [action |-> "submit", order |-> m]

\* Fault: orders whose funds are not locked yet are loaded, too.
WaitingOrPending == {i \in Orders : rows[i].state \in {"pending", "wait"}}

Waiting == {i \in Orders : rows[i].state = "wait"}

-----------------------------------------------------------------------------
Init ==
  /\ Engine!Init
  /\ Money!SubmittedInit
  /\ matchingTopic = <<>> /\ inbox = <<>> /\ joined = TRUE /\ missed = {}
  /\ submitsRead = 0 /\ cancelsRead = 0 /\ executed = 0
  /\ faults = 0 /\ rewinds = 0 /\ starts = 0
  /\ cancelledAt = [i \in Orders |-> -1]

Fault ==
  /\ faults < MaxFaults
  /\ faults' = faults + 1

Produce(message) ==
  /\ matchingTopic' = Append(matchingTopic, message)
  /\ inbox' = Append(inbox, message)
  /\ UNCHANGED started

-----------------------------------------------------------------------------
(* Clients and administrators. *)

\* CancelOrderByUUID: a cancel for any order of the client, whatever its state.
RequestCancel(i) ==
  /\ Fault
  /\ Produce([action |-> "cancel", order |-> Money!Message(i, rows[i])])
  /\ UNCHANGED <<engineVars, moneyVars, processorRead, executorRead, cancelledAt>>

RequestReload ==
  /\ Fault
  /\ Produce([action |-> "reload"])
  /\ UNCHANGED <<engineVars, moneyVars, processorRead, executorRead, cancelledAt>>

-----------------------------------------------------------------------------
(* finex-matching-engine: EngineServer.Process. *)

Read(action) ==
  /\ joined /\ inbox # <<>> /\ Head(inbox).action = action
  /\ inbox' = Tail(inbox)
  /\ UNCHANGED <<matchingTopic, joined, starts>>

ReadSubmit ==
  /\ Read("submit")
  /\ Engine!Submit(Form(Head(inbox).order))
  /\ UNCHANGED <<moneyVars, missed, processorRead, executorRead, faults, cancelledAt>>

ReadCancel ==
  /\ Read("cancel")
  /\ Engine!CancelWithKey(Form(Head(inbox).order))
  /\ cancelledAt' = [cancelledAt EXCEPT ![Head(inbox).order.id] = received[Head(inbox).order.id]]
  /\ UNCHANGED <<moneyVars, missed, processorRead, executorRead, faults>>

\* InitializeEngine: the orders that wait by the table, whatever the executor has not
\* read yet.
LoadOrders ==
  /\ Engine!Reload({Form(Money!Message(i, rows[i])) : i \in Waiting})
  /\ Money!LoadOrders
  /\ missed' = {}
  /\ UNCHANGED <<processorRead, executorRead, cancelledAt>>

ReadReload ==
  /\ Read("reload") /\ pc = "idle" /\ loading = {}
  /\ LoadOrders
  /\ UNCHANGED faults

\* The process starts again, whatever it was doing, and loads before it reads.
RestartEngine ==
  /\ Fault
  /\ starts < MaxStarts /\ starts' = starts + 1
  /\ LoadOrders
  /\ joined' = FALSE /\ inbox' = <<>>
  /\ UNCHANGED matchingTopic

OrdersOf(topic) ==
  {topic[k].order.id : k \in {j \in 1 .. Len(topic) : topic[j].action = "submit"}}

\* A new group reads the whole topic again, or what comes from now on: then what was
\* produced while the orders were loaded is never read.
Join ==
  /\ ~ joined /\ pc = "idle" /\ loading = {}
  /\ joined' = TRUE
  /\ \/ inbox' = matchingTopic /\ UNCHANGED missed
     \/ inbox' = <<>> /\ missed' = missed \cup OrdersOf(inbox)
  /\ UNCHANGED <<engineVars, moneyVars, matchingTopic, starts, processorRead, executorRead, faults, cancelledAt>>

Match ==
  /\ Engine!Work
  /\ UNCHANGED <<moneyVars, matching, processorRead, executorRead, faults, cancelledAt>>

-----------------------------------------------------------------------------
(* order_processor. *)

HandleSubmit ==
  /\ submitsRead < Len(Submits)
  /\ Money!HandleSubmit(Submits[submitsRead + 1])
  /\ submitsRead' = submitsRead + 1
  /\ UNCHANGED <<engineVars, matching, cancelsRead, executorRead, faults, cancelledAt>>

\* Fault: a cancel that fails is tried until it works.
CancelOrWait(i) == Money!HandleCancel(i)

\* A cancel of an order that does not wait, or is not covered, is logged and passed.
CancelOrPass(i) ==
  \/ Money!HandleCancel(i)
  \/ ~ Money!Cancellable(i) /\ UNCHANGED moneyVars

HandleCancel ==
  /\ producing = None /\ startup = {} /\ cancelsRead < Len(processorTopic)
  /\ CancelOrPass(processorTopic[cancelsRead + 1])
  /\ cancelsRead' = cancelsRead + 1
  /\ UNCHANGED <<engineVars, matching, submitsRead, executorRead, faults, cancelledAt>>

SubmitAtStart(i) ==
  /\ Money!SubmitAtStart(i)
  /\ UNCHANGED <<engineVars, matching, processorRead, executorRead, faults, cancelledAt>>

ProduceMatching ==
  /\ Money!ProduceMatching
  /\ Produce(Submission(producing))
  /\ UNCHANGED <<engineVars, processorRead, executorRead, faults, cancelledAt>>

RestartProcessor ==
  /\ Fault
  /\ Money!Restart
  /\ \/ requests' = Orders /\ submitsRead' = 0 /\ cancelsRead' = 0
     \/ requests' = {} /\ submitsRead' = Len(Submits) /\ cancelsRead' = Len(processorTopic)
  /\ UNCHANGED <<engineVars, matching, executorRead, cancelledAt>>

-----------------------------------------------------------------------------
(* trade_executor. *)

NextTrade == tradeTopic[executed + 1]

SettleTrade ==
  /\ executed < Len(tradeTopic)
  /\ Money!Settle(NextTrade)
  /\ executed' = executed + 1
  /\ UNCHANGED <<engineVars, matching, processorRead, rewinds, faults, cancelledAt>>

\* The maker is handed back first.
InOrder(t, messages) ==
  LET of(i) == {m \in messages : m.id = i}
      one(S) == IF S = {} THEN <<>> ELSE <<Submission(CHOOSE m \in S : TRUE)>>
  IN one(of(t.maker)) \o one(of(t.taker))

ToHandBack(t) == InOrder(t, Money!HandedBack(t))

RefuseTrade ==
  /\ executed < Len(tradeTopic)
  /\ Money!Refuse(NextTrade)
  /\ inbox' = inbox \o ToHandBack(NextTrade)
  /\ matchingTopic' = matchingTopic \o ToHandBack(NextTrade)
  /\ UNCHANGED started
  /\ executed' = executed + 1
  /\ UNCHANGED <<engineVars, processorRead, rewinds, faults, cancelledAt>>

RestartExecutor ==
  /\ Fault
  /\ rewinds' = rewinds + 1
  /\ executed' \in {0, Len(tradeTopic)}
  /\ UNCHANGED <<engineVars, moneyVars, matching, processorRead, cancelledAt>>

-----------------------------------------------------------------------------

\* What the processes do by themselves.
Work ==
  \/ ReadSubmit
  \/ ReadCancel
  \/ ReadReload
  \/ Join
  \/ Match
  \/ HandleSubmit
  \/ \E i \in Orders : SubmitAtStart(i)
  \/ HandleCancel
  \/ ProduceMatching
  \/ SettleTrade
  \/ RefuseTrade

Next ==
  \/ Work
  \/ \E i \in Orders : RequestCancel(i)
  \/ RequestReload
  \/ RestartEngine
  \/ RestartProcessor
  \/ RestartExecutor

\* The three processes go on reading; clients and restarts are under no obligation.
Spec == Init /\ [][Next]_vars /\ WF_vars(Work)

-----------------------------------------------------------------------------
(* Properties. *)

\* Everything sent has been read and done.
Quiet ==
  /\ pc = "idle" /\ loading = {} /\ joined /\ inbox = <<>>
  /\ submitsRead = Len(Submits) /\ startup = {} /\ producing = None /\ cancelsRead = Len(processorTopic)
  /\ executed = Len(tradeTopic)

Resting(i) == {r \in asks \cup bids : r.id = i}

Plain(i) == Details[i].type = "limit" /\ StopPrices[i] = 0

\* Every step of the whole is, for the rows and the accounts, a step of Settlement:
\* the engine publishes only what Settlement assumes of it, trades of two orders it
\* was given, of opposite sides, at a price both accept.
MoneyStepsAreSettlement == [][Money!Next]_moneyVars

\* A trade of the engine is refused by the executor only for a cause: one of its
\* orders is cancelled meanwhile, was rejected and given to the engine all the same (an
\* order_processor that reads its topic again produces it), or was given to the engine
\* more than once, or the executor itself reads its topic again.  Two orders that wait
\* and were given once never have a trade refused, however the three processes
\* interleave.
RefusedForCause ==
  [][executed' = executed + 1 /\ UNCHANGED <<rewinds, rows>> =>
       \/ rewinds > 0
       \/ \E i \in {NextTrade.maker, NextTrade.taker} :
            rows[i].state \in {"cancel", "reject"} \/ received[i] > 1]_vars

\* Book and table agree when everything is quiet: a limit order that waits and was
\* given to the engine once rests with exactly the volume its row has left.  No fill
\* is lost between the book and the table, none is counted twice, and nobody else's
\* cancel, refusal, reload or restart disturbs the order.  (An order handed back while
\* the engine started may never be read: it has traded, waits and does not rest.)
BookAgrees ==
  Quiet /\ rewinds = 0 =>
    \A i \in Waiting :
      Plain(i) /\ received[i] = 1 /\ cancelledAt[i] = -1 /\ i \notin missed =>
        \E r \in Resting(i) : Engine!UnfilledQuantity(r) = rows[i].volume

\* An order that is over has left the engine when everything is quiet: one that was
\* cancelled rests only when it was given to the engine again after the cancel, one
\* that is done only when it was given to the engine again.  (A stop order is not
\* looked for in the stop trees: cancelled, it can be triggered and rest later.)
OverIsGone ==
  Quiet /\ rewinds = 0 =>
    \A i \in Orders :
      Plain(i) /\ Resting(i) # {} =>
        /\ rows[i].state = "cancel" => received[i] > cancelledAt[i]
        /\ rows[i].state = "done" => received[i] > 1

\* The processes come to rest: limit orders that are refused and handed back are not
\* traded and refused for ever.
ComesToRest == []<>Quiet
=============================================================================
