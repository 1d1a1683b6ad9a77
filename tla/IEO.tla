-------------------------------- MODULE IEO --------------------------------
(***************************************************************************)
(* The sale of a new currency (an IEO, initial exchange offering):         *)
(*   - finex-api checks the stock, the limit and the balance of a buyer    *)
(*     and creates a pending order (controllers/ieo_controllers/ieo.go);   *)
(*   - the ieo_order_processor locks the price of the order and produces   *)
(*     it to the executor, inside the transaction (models/ieo_order.go);   *)
(*   - the ieo_order_executor takes the price and hands out the currency;  *)
(*   - an administrator creates and edits the row of the sale: whether it  *)
(*     is open, its price, stock and limit                                 *)
(*     (controllers/admin_controllers/ieo.go).                             *)
(*                                                                         *)
(* One sale, one currency to pay with.  Every worker is one process; a     *)
(* worker that restarts joins a new consumer group, which reads its topic  *)
(* from the start or from the end.                                         *)
(***************************************************************************)
EXTENDS Integers, FiniteSets, Functions

CONSTANTS
  Members,
  Orders,          \* identifiers of orders; a lower one is older
  Details,         \* buyer and quantity of every order
  Payloads,        \* what an administrator may write into the row of the sale
  Funds,           \* what every member has to pay with at the start
  LockedElsewhere, \* what orders of other kinds have locked of every member
  None,
  MaxRestarts,     \* bound: restarts of the two workers
  MaxUpdates       \* bound: edits of the sale

ASSUME OrdersAssumption == Orders \subseteq Nat /\ IsFiniteSet(Orders)
ASSUME DetailsAssumption == Details \in [Orders -> [member: Members, quantity: Nat \ {0}]]
ASSUME PayloadsAssumption ==
  Payloads \subseteq
    [enabled: BOOLEAN, price: Nat \ {0}, originQuantity: Nat, limitPerUser: Nat]
ASSUME FundsAssumption == Funds \in [Members -> Nat] /\ LockedElsewhere \in [Members -> Nat]
ASSUME NoneAssumption == None \notin Orders /\ None \notin Payloads
ASSUME BoundsAssumption == MaxRestarts \in Nat /\ MaxUpdates \in Nat

VARIABLES
  ieo,         \* the row of the sale
  rows,        \* state of every order
  price,       \* price of every order
  balance, lockedFunds,  \* the accounts the buyers pay from
  tokens,      \* what every member has been given of the currency on sale
  spent,       \* what every member has paid
  api,         \* how far the API is with an order
  asked,       \* the terms of the sale the API has in memory for it
  requests,    \* messages to the processor
  startup,     \* pending orders NewIEOOrderProcessorWorker still has to submit
  submitting,  \* the order the processor has produced and not committed
  produced,    \* history: orders produced to the executor
  strikes,     \* messages to the executor
  striking,    \* what Strike has in memory
  rejecting,   \* the order whose Strike has failed
  editing,     \* the row of the sale an administrator has in memory
  restarts, updates,
  overwritten  \* history: a save has undone a change of the sale's row

accounts  == <<balance, lockedFunds, tokens, spent>>
request   == <<price, api, asked>>
processor == <<requests, startup, submitting, produced>>
executor  == <<striking, rejecting>>
admin     == <<editing, updates>>
vars == <<ieo, rows, price, balance, lockedFunds, tokens, spent, api, asked, requests, startup,
          submitting, produced, strikes, striking, rejecting, editing, restarts, updates,
          overwritten>>

States == {"none", "pending", "wait", "done", "reject"}

Sale == [terms: Payloads, executed: Int]

Buyer(i) == Details[i].member

Quantity(i) == Details[i].quantity

Total(i) == price[i] * Quantity(i)

\* Fault: funds that do not suffice are not told from those that do.
CoveredUnchecked(amount, funds) == amount > 0

\* The test of LockFunds, UnlockFunds and UnlockAndSubFunds.
Covered(amount, funds) == amount > 0 /\ amount <= funds

Bought(m) == SumFunction([i \in {j \in Orders : Buyer(j) = m /\ rows[j] = "done"} |-> Quantity(i)])

-----------------------------------------------------------------------------

\* CreateIEO has written the sale.
Init ==
  /\ ieo \in {[terms |-> p, executed |-> 0] : p \in Payloads}
  /\ rows = [i \in Orders |-> "none"] /\ price = [i \in Orders |-> 0]
  /\ balance = Funds /\ lockedFunds = LockedElsewhere
  /\ tokens = [m \in Members |-> 0] /\ spent = [m \in Members |-> 0]
  /\ api = [i \in Orders |-> "start"] /\ asked = [i \in Orders |-> None]
  /\ requests = {} /\ startup = {} /\ submitting = None /\ produced = {}
  /\ strikes = {} /\ striking = None /\ rejecting = None
  /\ editing = None /\ restarts = 0 /\ updates = 0 /\ overwritten = FALSE

(* CreateIEOOrder: three reads of the database, then the row, then the message. *)

Advance(i, from, to) == api[i] = from /\ api' = [api EXCEPT ![i] = to]

\* The sale: enabled, not completed, and enough of it left.  Its hours and its smallest
\* quantity are left out: they only refuse more.
CheckStock(i) ==
  /\ ieo.terms.enabled /\ ieo.executed # ieo.terms.originQuantity
  /\ ieo.executed + Quantity(i) <= ieo.terms.originQuantity
  /\ Advance(i, "start", "inStock")
  /\ asked' = [asked EXCEPT ![i] = ieo.terms]
  /\ UNCHANGED <<ieo, rows, price, accounts, processor, strikes, executor, admin, restarts, overwritten>>

\* What the buyer has bought: done orders only.
CheckLimit(i) ==
  /\ Advance(i, "inStock", "inLimit")
  /\ Bought(Buyer(i)) + Quantity(i) <= asked[i].limitPerUser
  /\ UNCHANGED <<ieo, rows, price, asked, accounts, processor, strikes, executor, admin, restarts,
                 overwritten>>

\* The order has the price that was read with the sale.
CreateIEOOrder(i) ==
  /\ Advance(i, "inLimit", "created")
  /\ balance[Buyer(i)] >= asked[i].price * Quantity(i)
  /\ rows' = [rows EXCEPT ![i] = "pending"]
  /\ price' = [price EXCEPT ![i] = asked[i].price]
  /\ asked' = [asked EXCEPT ![i] = None]
  /\ UNCHANGED <<ieo, accounts, processor, strikes, executor, admin, restarts, overwritten>>

ProduceRequest(i) ==
  /\ Advance(i, "created", "sent")
  /\ requests' = requests \cup {i}
  /\ UNCHANGED <<ieo, rows, price, asked, accounts, startup, submitting, produced, strikes, executor,
                 admin, restarts, overwritten>>

-----------------------------------------------------------------------------
(* ieo_order_processor: SubmitIEOOrder. *)

CanSubmit(i) == rows[i] = "pending" /\ Covered(Total(i), balance[Buyer(i)])

\* Fault: nothing is produced.
ToExecutorNothing(i) == {}

ToExecutor(i) == {i}

\* The transaction up to the message: the buyer's account is locked from here on.
Submit(i) ==
  /\ CanSubmit(i)
  /\ submitting' = i
  /\ produced' = produced \cup ToExecutor(i) /\ strikes' = strikes \cup ToExecutor(i)
  /\ UNCHANGED <<ieo, rows, accounts, request, executor, admin, restarts, overwritten>>

\* An order that is not pending is left alone; one that is not covered stays pending.
Skip(i) ==
  /\ ~ CanSubmit(i)
  /\ UNCHANGED <<ieo, rows, accounts, request, submitting, produced, strikes, executor, admin,
                 restarts, overwritten>>

HandleRequest(i) ==
  /\ submitting = None /\ startup = {}
  /\ i \in requests /\ requests' = requests \ {i}
  /\ Submit(i) \/ Skip(i)
  /\ UNCHANGED startup

\* The pending orders, in any order, until one fails.
SubmitAtStart(i) ==
  /\ submitting = None
  /\ i \in startup
  /\ Submit(i) \/ Skip(i)
  /\ startup' = IF rows[i] = "pending" /\ ~ CanSubmit(i) THEN {} ELSE startup \ {i}
  /\ UNCHANGED requests

\* Fault: the price is taken from the balance and locked nowhere.
LocksNothing(i) == 0

Locks(i) == Total(i)

CommitSubmit ==
  /\ submitting # None
  /\ LET m == Buyer(submitting)
     IN /\ balance' = [balance EXCEPT ![m] = @ - Total(submitting)]
        /\ lockedFunds' = [lockedFunds EXCEPT ![m] = @ + Locks(submitting)]
  /\ rows' = [rows EXCEPT ![submitting] = "wait"]
  /\ submitting' = None
  /\ UNCHANGED <<ieo, tokens, spent, request, requests, startup, produced, strikes, executor, admin,
                 restarts, overwritten>>

\* The message is gone, the transaction is not committed.
RestartProcessor ==
  /\ restarts < MaxRestarts /\ restarts' = restarts + 1
  /\ submitting' = None
  /\ startup' = {i \in Orders : rows[i] = "pending"}
  /\ requests' \in {{i \in Orders : api[i] = "sent"}, {}}
  /\ UNCHANGED <<ieo, rows, accounts, request, produced, strikes, executor, admin, overwritten>>

-----------------------------------------------------------------------------
(* ieo_order_executor: Strike, whatever the state of the order. *)

\* The sale's row is read before anything is locked.
BeginStrike(i) ==
  /\ striking = None /\ rejecting = None
  /\ i \in strikes /\ strikes' = strikes \ {i}
  /\ striking' = [order |-> i, sale |-> ieo]
  /\ UNCHANGED <<ieo, rows, accounts, request, processor, rejecting, admin, restarts, overwritten>>

\* Fault: the executor does not lock the account.
AccountIsFreeAlways(i) == TRUE

\* The account of the buyer is not locked by the processor.
AccountIsFree(i) == submitting # None => Buyer(submitting) # Buyer(i)

\* Fault: the sale's row is saved as it was read.
SoldNothing(sale, i) == sale

Sold(sale, i) == [sale EXCEPT !.executed = @ + Quantity(i)]

\* Fault: the total is unlocked by the quantity.
PaysQuantity(i) == Quantity(i)

Pays(i) == Total(i)

Strike ==
  /\ striking # None
  /\ LET i == striking.order
         m == Buyer(i)
     IN /\ AccountIsFree(i) /\ Covered(Total(i), lockedFunds[m])
        /\ lockedFunds' = [lockedFunds EXCEPT ![m] = @ - Pays(i)]
        /\ spent' = [spent EXCEPT ![m] = @ + Pays(i)]
        /\ tokens' = [tokens EXCEPT ![m] = @ + Quantity(i)]
        /\ rows' = [rows EXCEPT ![i] = "done"]
        /\ ieo' = Sold(striking.sale, i)
  /\ overwritten' = (overwritten \/ ieo # striking.sale)
  /\ striking' = None
  /\ UNCHANGED <<balance, request, processor, strikes, rejecting, admin, restarts>>

\* The transaction is rolled back.
FailStrike ==
  /\ striking # None
  /\ AccountIsFree(striking.order)
  /\ ~ Covered(Total(striking.order), lockedFunds[Buyer(striking.order)])
  /\ rejecting' = striking.order /\ striking' = None
  /\ UNCHANGED <<ieo, rows, accounts, request, processor, strikes, admin, restarts, overwritten>>

\* A second transaction rejects the order; that the funds cannot be unlocked is ignored.
Reject ==
  /\ rejecting # None /\ AccountIsFree(rejecting)
  /\ LET m      == Buyer(rejecting)
         amount == IF Covered(Total(rejecting), lockedFunds[m]) THEN Total(rejecting) ELSE 0
     IN /\ lockedFunds' = [lockedFunds EXCEPT ![m] = @ - amount]
        /\ balance' = [balance EXCEPT ![m] = @ + amount]
  /\ rows' = [rows EXCEPT ![rejecting] = "reject"]
  /\ rejecting' = None
  /\ UNCHANGED <<ieo, tokens, spent, request, processor, strikes, striking, admin, restarts, overwritten>>

\* Nothing is looked for at the start: waiting orders come from the topic or not at all.
RestartExecutor ==
  /\ restarts < MaxRestarts /\ restarts' = restarts + 1
  /\ striking' = None /\ rejecting' = None
  /\ strikes' \in {produced, {}}
  /\ UNCHANGED <<ieo, rows, accounts, request, processor, admin, overwritten>>

-----------------------------------------------------------------------------
(* UpdateIEO: the row is read, and every column of it is saved. *)

BeginUpdate ==
  /\ editing = None /\ updates < MaxUpdates
  /\ updates' = updates + 1
  /\ editing' = ieo
  /\ UNCHANGED <<ieo, rows, accounts, request, processor, strikes, executor, restarts, overwritten>>

SaveUpdate ==
  /\ editing # None
  /\ \E p \in Payloads : ieo' = [editing EXCEPT !.terms = p]
  /\ overwritten' = (overwritten \/ ieo # editing)
  /\ editing' = None
  /\ UNCHANGED <<rows, accounts, request, processor, strikes, executor, restarts, updates>>

-----------------------------------------------------------------------------

Api == \E i \in Orders : CheckStock(i) \/ CheckLimit(i) \/ CreateIEOOrder(i) \/ ProduceRequest(i)

Processor ==
  \/ \E i \in Orders : HandleRequest(i) \/ SubmitAtStart(i)
  \/ CommitSubmit
  \/ RestartProcessor

\* One message of the executor, from the first step to the last.
Execute == (\E i \in Orders : BeginStrike(i)) \/ Strike \/ FailStrike \/ Reject

Executor == Execute \/ RestartExecutor

Admin == BeginUpdate \/ SaveUpdate

Next == Api \/ Processor \/ Executor \/ Admin

Spec == Init /\ [][Next]_vars

\* The workers go through their topics.
FairSpec == Spec /\ WF_vars(CommitSubmit) /\ SF_vars(Execute)

-----------------------------------------------------------------------------
(* Properties. *)

TypeOK ==
  /\ ieo \in Sale /\ rows \in [Orders -> States] /\ price \in [Orders -> Nat]
  /\ balance \in [Members -> Nat] /\ lockedFunds \in [Members -> Nat]
  /\ tokens \in [Members -> Nat] /\ spent \in [Members -> Nat]
  /\ api \in [Orders -> {"start", "inStock", "inLimit", "created", "sent"}]
  /\ \A i \in Orders : asked[i] \in IF api[i] \in {"inStock", "inLimit"} THEN Payloads ELSE {None}
  /\ DOMAIN asked = Orders
  /\ requests \subseteq Orders /\ startup \subseteq Orders /\ submitting \in Orders \cup {None}
  /\ produced \subseteq Orders /\ strikes \subseteq Orders
  /\ striking \in [order: Orders, sale: Sale] \cup {None}
  /\ rejecting \in Orders \cup {None}
  /\ editing \in Sale \cup {None}
  /\ restarts \in Nat /\ updates \in Nat /\ overwritten \in BOOLEAN

\* No money appears or disappears: what a member has, has locked and has paid adds up,
\* whatever is replayed, refused, rejected or lost in a restart.
Conserved ==
  \A m \in Members : balance[m] + lockedFunds[m] + spent[m] = Funds[m] + LockedElsewhere[m]

Prices == {p.price : p \in Payloads}

\* Every unit handed out has been paid for, at no less than the lowest and no more than
\* the highest price the sale may have had, even when an order is struck again after a
\* restart and the price is edited meanwhile.
PaidInFull ==
  \A m \in Members :
    /\ \A p \in Prices : (\A q \in Prices : p <= q) => p * tokens[m] <= spent[m]
    /\ \A p \in Prices : (\A q \in Prices : q <= p) => spent[m] <= p * tokens[m]

WaitingOf(m) == {i \in Orders : Buyer(i) = m /\ rows[i] = "wait"}

\* As long as no worker restarts, the waiting orders of a member have their price
\* locked, and what other orders have locked is not touched.
LockedBacksWaiting ==
  restarts = 0 =>
    \A m \in Members :
      lockedFunds[m] = LockedElsewhere[m] + SumFunction([i \in WaitingOf(m) |-> Total(i)])

\* As long as no worker restarts and no save has undone another, the sale's row
\* counts what the done orders have bought.
StockBooked ==
  restarts = 0 /\ ~ overwritten =>
    ieo.executed = SumFunction([i \in {j \in Orders : rows[j] = "done"} |-> Quantity(i)])

\* A worker has restarted, and the order is neither in the topic of the executor nor in its hands.
Forgotten(i) ==
  /\ restarts > 0
  /\ i \notin strikes /\ rejecting # i /\ (striking = None \/ striking.order # i)

\* A waiting order is struck, also when a worker restarts and the executor reads its
\* topic again.  It is not when the executor goes on at the end of the topic, or when a
\* message that is replayed has taken what the order had locked.
WaitingIsStruck ==
  \A i \in Orders :
    rows[i] = "wait" ~> (rows[i] = "done" \/ Forgotten(i) \/ (restarts > 0 /\ rows[i] = "reject"))

\* An order that is more than what is left is refused as "market.ieo.out_of_stock"
\* (ieo.go:97): the sale never sells more than it has.  (The stock is checked before
\* the orders created meanwhile are struck, and not again.)
SoldWithinStock == ieo.executed <= ieo.terms.originQuantity
=============================================================================
