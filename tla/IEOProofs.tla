----------------------------- MODULE IEOProofs -----------------------------
(***************************************************************************)
(* Theorems of IEO, for any members, orders, terms and bounds.             *)
(***************************************************************************)
EXTENDS IEO, Sums

\* The order the processor is about to commit is covered until it commits: its buyer's
\* account is locked meanwhile.
SubmittingIsCovered ==
  submitting # None => Total(submitting) <= balance[Buyer(submitting)]

\* The API has written the row of the order, with its price.
Placed == {i \in Orders : api[i] \in {"created", "sent"}}

\* No worker knows of an order before that, so the price a worker sees never changes.
WorkIsPlaced ==
  /\ \A i \in Placed : price[i] \in Prices
  /\ {i \in Orders : rows[i] # "none"} \subseteq Placed
  /\ requests \cup startup \cup produced \cup strikes \subseteq Placed
  /\ submitting # None => submitting \in Placed
  /\ rejecting # None => rejecting \in Placed
  /\ striking # None => striking.order \in Placed

\* The inductive invariant.
IInv == TypeOK /\ WorkIsPlaced /\ Conserved /\ PaidInFull /\ SubmittingIsCovered

\* What the proofs need of an order.
LEMMA OrderFacts ==
  ASSUME TypeOK, NEW i \in Orders
  PROVE  /\ Buyer(i) \in Members /\ Quantity(i) \in Nat /\ Quantity(i) > 0
         /\ price[i] \in Nat /\ Total(i) \in Nat /\ Total(i) = price[i] * Quantity(i)
<1>1. Buyer(i) \in Members /\ Quantity(i) \in Nat \ {0}
  BY DetailsAssumption DEF Buyer, Quantity
<1>2. price[i] \in Nat
  BY DEF TypeOK
<1>3. \A p, q \in Nat : p * q \in Nat
  OBVIOUS
<1> QED
  BY <1>1, <1>2, <1>3 DEF Total

LEMMA PricesAreNat == Prices \subseteq Nat
BY PayloadsAssumption DEF Prices

\* Multiplication keeps the order, and distributes.
LEMMA CostsCompare ==
  ASSUME NEW p \in Nat, NEW r \in Nat, NEW q \in Nat, p <= r
  PROVE  p * q <= r * q
<1>1. PICK d \in Nat : r = p + d
  BY r - p \in Nat, r = p + (r - p)
<1>2. r * q = p * q + d * q /\ d * q \in Nat /\ p * q \in Nat
  BY <1>1
<1> QED
  BY <1>2

LEMMA CostsAddUp ==
  ASSUME NEW p \in Nat, NEW t \in Nat, NEW q \in Nat
  PROVE  p * (t + q) = p * t + p * q /\ p * t \in Nat /\ p * q \in Nat
OBVIOUS

LEMMA PositiveProducts == \A p, q \in Nat \ {0} : p * q \in Nat /\ p * q > 0
<1> SUFFICES ASSUME NEW p \in Nat \ {0}, NEW q \in Nat \ {0} PROVE p * q \in Nat /\ p * q > 0
  OBVIOUS
<1>1. 1 * q <= p * q
  BY CostsCompare
<1>2. 1 * q = q /\ p * q \in Nat
  OBVIOUS
<1> QED  BY <1>1, <1>2

LEMMA InitHolds == Init => IInv
<1> SUFFICES ASSUME Init PROVE IInv
  OBVIOUS
<1>1. TypeOK
  <2>1. ieo \in Sale /\ rows \in [Orders -> States] /\ price \in [Orders -> Nat]
    BY DEF Init, Sale, States
  <2>2. /\ balance \in [Members -> Nat] /\ lockedFunds \in [Members -> Nat]
        /\ tokens \in [Members -> Nat] /\ spent \in [Members -> Nat]
    BY FundsAssumption DEF Init
  <2>3. /\ api \in [Orders -> {"start", "inStock", "inLimit", "created", "sent"}]
        /\ \A i \in Orders : asked[i] \in IF api[i] \in {"inStock", "inLimit"} THEN Payloads ELSE {None}
        /\ DOMAIN asked = Orders
        /\ restarts \in Nat /\ updates \in Nat /\ overwritten \in BOOLEAN
    BY DEF Init
  <2> QED
    BY <2>1, <2>2, <2>3 DEF Init, TypeOK
<1>2. Conserved
  BY FundsAssumption DEF Init, Conserved
<1>3. PaidInFull
  BY PricesAreNat DEF Init, PaidInFull
<1>4. SubmittingIsCovered
  BY DEF Init, SubmittingIsCovered
<1>5. WorkIsPlaced
  BY DEF Init, WorkIsPlaced, Placed
<1> QED
  BY <1>1, <1>2, <1>3, <1>4, <1>5 DEF IInv

\* A step that leaves the accounts alone keeps the balance sheets, and keeps the order
\* being submitted covered when that order is the same, none, or just tested.
LEMMA AccountsUntouched ==
  ASSUME IInv, UNCHANGED accounts, \A i \in Placed : price'[i] = price[i],
         \/ submitting' = submitting
         \/ submitting' = None
         \/ submitting' \in Placed /\ CanSubmit(submitting')
  PROVE  Conserved' /\ PaidInFull' /\ SubmittingIsCovered'
BY DEF IInv, WorkIsPlaced, accounts, Conserved, PaidInFull, SubmittingIsCovered, CanSubmit,
       Covered, Total, Buyer, Quantity

LEMMA ApiKeeps ==
  ASSUME IInv, NEW i \in Orders,
         CheckStock(i) \/ CheckLimit(i) \/ CreateIEOOrder(i) \/ ProduceRequest(i)
  PROVE  IInv'
<1> USE DEF Advance, accounts, processor, executor, admin
<1>1. UNCHANGED accounts /\ submitting' = submitting
  BY DEF CheckStock, CheckLimit, CreateIEOOrder, ProduceRequest
<1>2. /\ api \in [Orders -> {"start", "inStock", "inLimit", "created", "sent"}]
      /\ price \in [Orders -> Nat] /\ rows \in [Orders -> States] /\ ieo.terms \in Payloads
      /\ DOMAIN asked = Orders
      /\ \A j \in Orders : asked[j] \in IF api[j] \in {"inStock", "inLimit"} THEN Payloads ELSE {None}
  BY DEF IInv, TypeOK, Sale
<1>3. CASE CheckStock(i)
  <2>1. TypeOK'
    BY <1>2, <1>3 DEF IInv, TypeOK, CheckStock
  <2>2. Placed' = Placed
    BY <1>2, <1>3 DEF CheckStock, Placed
  <2>3. WorkIsPlaced'
    BY <1>3, <2>2 DEF IInv, WorkIsPlaced, CheckStock
  <2> QED
    BY <1>1, <1>3, <2>1, <2>3, AccountsUntouched DEF IInv, CheckStock
<1>4. CASE CheckLimit(i)
  <2>1. TypeOK'
    BY <1>2, <1>4 DEF IInv, TypeOK, CheckLimit
  <2>2. Placed' = Placed
    BY <1>2, <1>4 DEF CheckLimit, Placed
  <2>3. WorkIsPlaced'
    BY <1>4, <2>2 DEF IInv, WorkIsPlaced, CheckLimit
  <2> QED
    BY <1>1, <1>4, <2>1, <2>3, AccountsUntouched DEF IInv, CheckLimit
<1>5. CASE CreateIEOOrder(i)
  <2>1. asked[i] \in Payloads
    BY <1>2, <1>5 DEF CreateIEOOrder
  <2>2. asked[i].price \in Prices /\ asked[i].price \in Nat
    BY <2>1, PricesAreNat DEF Prices
  <2>3. TypeOK'
    BY <1>2, <1>5, <2>2 DEF IInv, TypeOK, States, CreateIEOOrder
  <2>4. i \notin Placed /\ Placed' = Placed \cup {i}
    BY <1>2, <1>5 DEF CreateIEOOrder, Placed
  <2>5. \A j \in Placed : price'[j] = price[j]
    BY <1>2, <1>5, <2>4 DEF CreateIEOOrder, Placed
  <2>6. \A j \in Placed' : price'[j] \in Prices
    BY <1>2, <1>5, <2>2, <2>4, <2>5 DEF CreateIEOOrder, IInv, WorkIsPlaced
  <2>7. {j \in Orders : rows'[j] # "none"} \subseteq Placed'
    BY <1>2, <1>5, <2>4 DEF CreateIEOOrder, IInv, WorkIsPlaced
  <2>8. WorkIsPlaced'
    BY <1>5, <2>4, <2>6, <2>7 DEF CreateIEOOrder, IInv, WorkIsPlaced
  <2> QED
    BY <1>1, <2>3, <2>5, <2>8, AccountsUntouched DEF IInv
<1>6. CASE ProduceRequest(i)
  <2>1. TypeOK'
    BY <1>2, <1>6 DEF IInv, TypeOK, ProduceRequest
  <2>2. i \in Placed /\ Placed' = Placed
    BY <1>2, <1>6 DEF ProduceRequest, Placed
  <2>3. WorkIsPlaced'
    BY <1>6, <2>2 DEF IInv, WorkIsPlaced, ProduceRequest
  <2> QED
    BY <1>1, <1>6, <2>1, <2>3, AccountsUntouched DEF IInv, ProduceRequest
<1> QED
  BY <1>3, <1>4, <1>5, <1>6

\* A worker that leaves the API alone and takes up placed orders only keeps to them.
LEMMA WorkersKeepPlaced ==
  ASSUME IInv, UNCHANGED request,
         {i \in Orders : rows'[i] # "none"} \subseteq Placed,
         requests' \cup startup' \cup produced' \cup strikes' \subseteq Placed,
         submitting' # None => submitting' \in Placed,
         rejecting' # None => rejecting' \in Placed,
         striking' # None => striking'.order \in Placed
  PROVE  WorkIsPlaced' /\ \A i \in Placed : price'[i] = price[i]
<1>1. Placed' = Placed /\ price' = price
  BY DEF request, Placed
<1> QED
  BY <1>1 DEF IInv, WorkIsPlaced

LEMMA SubmitKeeps ==
  ASSUME IInv, NEW i \in Orders, HandleRequest(i) \/ SubmitAtStart(i)
  PROVE  IInv'
<1>1. UNCHANGED accounts /\ (submitting' = submitting \/ (submitting' = i /\ CanSubmit(i)))
  BY DEF HandleRequest, SubmitAtStart, Submit, Skip, accounts
<1>2. TypeOK'
  <2>1. CASE Submit(i)
    BY <2>1 DEF IInv, TypeOK, HandleRequest, SubmitAtStart, Submit, ToExecutor, accounts, request,
                executor, admin
  <2>2. CASE Skip(i)
    BY <2>2 DEF IInv, TypeOK, HandleRequest, SubmitAtStart, Skip, accounts, request, executor, admin
  <2> QED
    BY <2>1, <2>2 DEF HandleRequest, SubmitAtStart
<1>3. i \in Placed
  BY DEF HandleRequest, SubmitAtStart, IInv, WorkIsPlaced
<1>4. WorkIsPlaced' /\ \A j \in Placed : price'[j] = price[j]
  <2>1. UNCHANGED <<request, rows, executor>>
    BY DEF HandleRequest, SubmitAtStart, Submit, Skip
  <2>2. requests' \subseteq requests /\ startup' \subseteq startup
    BY DEF HandleRequest, SubmitAtStart
  <2>3. produced' \subseteq produced \cup {i} /\ strikes' \subseteq strikes \cup {i}
    BY DEF HandleRequest, SubmitAtStart, Submit, Skip, ToExecutor
  <2> QED
    BY <1>1, <1>3, <2>1, <2>2, <2>3, WorkersKeepPlaced DEF IInv, WorkIsPlaced, executor
<1> QED
  BY <1>1, <1>2, <1>3, <1>4, AccountsUntouched DEF IInv

LEMMA CommitKeeps ==
  ASSUME IInv, CommitSubmit
  PROVE  IInv'
<1> DEFINE i == submitting
           m == Buyer(submitting)
<1>1. i \in Orders /\ m \in Members /\ Total(i) \in Nat /\ Total(i) <= balance[m]
  BY OrderFacts DEF IInv, TypeOK, CommitSubmit, SubmittingIsCovered
<1>2. /\ balance' = [balance EXCEPT ![m] = @ - Total(i)]
      /\ lockedFunds' = [lockedFunds EXCEPT ![m] = @ + Total(i)]
      /\ tokens' = tokens /\ spent' = spent
  BY DEF CommitSubmit, Locks
<1>3. balance \in [Members -> Nat] /\ lockedFunds \in [Members -> Nat] /\ spent \in [Members -> Nat]
  BY DEF IInv, TypeOK
<1> HIDE DEF i, m
<1>4. balance' \in [Members -> Nat] /\ lockedFunds' \in [Members -> Nat]
  BY <1>1, <1>2, <1>3
<1>5. TypeOK'
  <2>1. rows' \in [Orders -> States]
    BY DEF IInv, TypeOK, CommitSubmit, States
  <2> QED
    BY <1>2, <1>4, <2>1 DEF IInv, TypeOK, CommitSubmit, request, executor, admin
<1>6. Conserved'
  <2> SUFFICES ASSUME NEW n \in Members
               PROVE  balance'[n] + lockedFunds'[n] + spent'[n] = Funds[n] + LockedElsewhere[n]
    BY DEF Conserved
  <2>1. balance[n] + lockedFunds[n] + spent[n] = Funds[n] + LockedElsewhere[n]
    BY DEF IInv, Conserved
  <2> QED
    BY <1>1, <1>2, <1>3, <2>1
<1>7. PaidInFull'
  BY <1>2 DEF IInv, PaidInFull
<1>8. SubmittingIsCovered'
  BY DEF CommitSubmit, SubmittingIsCovered
<1>9. WorkIsPlaced'
  <2>1. {j \in Orders : rows'[j] # "none"} \subseteq Placed
    BY DEF IInv, TypeOK, WorkIsPlaced, CommitSubmit
  <2> QED
    BY <2>1, WorkersKeepPlaced DEF IInv, WorkIsPlaced, CommitSubmit, executor
<1> QED
  BY <1>5, <1>6, <1>7, <1>8, <1>9 DEF IInv

LEMMA QuietKeeps ==
  ASSUME IInv, RestartProcessor \/ RestartExecutor \/ FailStrike \/ BeginUpdate \/ SaveUpdate
               \/ \E i \in Orders : BeginStrike(i)
  PROVE  IInv'
<1>1. UNCHANGED accounts /\ (submitting' = submitting \/ submitting' = None)
  BY DEF RestartProcessor, RestartExecutor, FailStrike, BeginUpdate, SaveUpdate, BeginStrike,
         accounts, processor
<1>2. TypeOK'
  <2> USE DEF IInv, TypeOK, accounts, request, processor, executor, admin
  <2>1. CASE RestartProcessor
    BY <2>1 DEF RestartProcessor
  <2>2. CASE RestartExecutor
    BY <2>2 DEF RestartExecutor
  <2>3. CASE FailStrike
    BY <2>3 DEF FailStrike
  <2>4. CASE BeginUpdate
    BY <2>4 DEF BeginUpdate
  <2>5. CASE SaveUpdate
    BY <2>5 DEF SaveUpdate, Sale
  <2>6. CASE \E i \in Orders : BeginStrike(i)
    BY <2>6 DEF BeginStrike
  <2> QED
    BY <2>1, <2>2, <2>3, <2>4, <2>5, <2>6
<1>3. WorkIsPlaced' /\ \A i \in Placed : price'[i] = price[i]
  <2>1. UNCHANGED <<request, rows>>
    BY DEF RestartProcessor, RestartExecutor, FailStrike, BeginUpdate, SaveUpdate, BeginStrike
  <2>2. requests' \cup startup' \cup produced' \cup strikes' \subseteq Placed
    BY DEF RestartProcessor, RestartExecutor, FailStrike, BeginUpdate, SaveUpdate, BeginStrike,
           processor, IInv, WorkIsPlaced, Placed
  <2>3. /\ rejecting' # None => rejecting' \in Placed
        /\ striking' # None => striking'.order \in Placed
    BY DEF RestartProcessor, RestartExecutor, FailStrike, BeginUpdate, SaveUpdate, BeginStrike,
           executor, IInv, WorkIsPlaced
  <2> QED
    BY <1>1, <2>1, <2>2, <2>3, WorkersKeepPlaced DEF IInv, WorkIsPlaced
<1> QED
  BY <1>1, <1>2, <1>3, AccountsUntouched DEF IInv

LEMMA StrikeKeeps ==
  ASSUME IInv, Strike
  PROVE  IInv'
<1> DEFINE i == striking.order
           m == Buyer(striking.order)
<1>1. /\ i \in Orders /\ m \in Members
      /\ Total(i) \in Nat /\ Quantity(i) \in Nat /\ Total(i) = price[i] * Quantity(i)
      /\ price[i] \in Prices /\ price[i] \in Nat /\ Total(i) <= lockedFunds[m]
  BY OrderFacts DEF IInv, TypeOK, WorkIsPlaced, Placed, Strike, Covered
<1>2. /\ lockedFunds' = [lockedFunds EXCEPT ![m] = @ - Total(i)]
      /\ spent' = [spent EXCEPT ![m] = @ + Total(i)]
      /\ tokens' = [tokens EXCEPT ![m] = @ + Quantity(i)]
      /\ balance' = balance /\ submitting' = submitting
  BY DEF Strike, Pays, processor
<1>3. /\ balance \in [Members -> Nat] /\ lockedFunds \in [Members -> Nat]
      /\ spent \in [Members -> Nat] /\ tokens \in [Members -> Nat]
  BY DEF IInv, TypeOK
<1>4. ieo' \in Sale
  BY <1>1 DEF IInv, TypeOK, Strike, Sold, Sale
<1>5. rows' \in [Orders -> States] /\ overwritten' \in BOOLEAN
  BY DEF IInv, TypeOK, Strike, States
<1> HIDE DEF i, m
<1>6. lockedFunds' \in [Members -> Nat] /\ spent' \in [Members -> Nat] /\ tokens' \in [Members -> Nat]
  BY <1>1, <1>2, <1>3
<1>7. TypeOK'
  BY <1>2, <1>4, <1>5, <1>6 DEF IInv, TypeOK, Strike, request, processor, admin
<1>8. Conserved'
  <2> SUFFICES ASSUME NEW n \in Members
               PROVE  balance'[n] + lockedFunds'[n] + spent'[n] = Funds[n] + LockedElsewhere[n]
    BY DEF Conserved
  <2>1. balance[n] + lockedFunds[n] + spent[n] = Funds[n] + LockedElsewhere[n]
    BY DEF IInv, Conserved
  <2> QED
    BY <1>1, <1>2, <1>3, <2>1
<1>9. PaidInFull'
  <2>1. ASSUME NEW n \in Members, n # m
        PROVE  spent'[n] = spent[n] /\ tokens'[n] = tokens[n]
    BY <1>1, <1>2, <1>3, <2>1
  <2>2. spent'[m] = spent[m] + Total(i) /\ tokens'[m] = tokens[m] + Quantity(i)
    BY <1>1, <1>2, <1>3
  <2>3. ASSUME NEW p \in Prices, \A q \in Prices : p <= q
        PROVE  p * tokens'[m] <= spent'[m]
    <3>1. p \in Nat /\ p * tokens[m] <= spent[m] /\ p * Quantity(i) <= Total(i)
      BY <1>1, <2>3, PricesAreNat, CostsCompare DEF IInv, PaidInFull
    <3>2. p * tokens'[m] = p * tokens[m] + p * Quantity(i) /\ p * tokens[m] \in Nat /\ p * Quantity(i) \in Nat
      BY <1>1, <1>3, <2>2, <3>1, CostsAddUp
    <3> QED
      BY <1>1, <1>3, <2>2, <3>1, <3>2
  <2>4. ASSUME NEW p \in Prices, \A q \in Prices : q <= p
        PROVE  spent'[m] <= p * tokens'[m]
    <3>1. p \in Nat /\ spent[m] <= p * tokens[m] /\ Total(i) <= p * Quantity(i)
      BY <1>1, <2>4, PricesAreNat, CostsCompare DEF IInv, PaidInFull
    <3>2. p * tokens'[m] = p * tokens[m] + p * Quantity(i) /\ p * tokens[m] \in Nat /\ p * Quantity(i) \in Nat
      BY <1>1, <1>3, <2>2, <3>1, CostsAddUp
    <3> QED
      BY <1>1, <1>3, <2>2, <3>1, <3>2
  <2> QED
    BY <2>1, <2>3, <2>4 DEF IInv, PaidInFull
<1>10. price' = price
  BY DEF Strike, request
<1>11. SubmittingIsCovered'
  BY <1>2, <1>10 DEF IInv, SubmittingIsCovered, Total
<1>12. WorkIsPlaced'
  <2>1. {j \in Orders : rows'[j] # "none"} \subseteq Placed
    BY DEF IInv, TypeOK, WorkIsPlaced, Strike
  <2> QED
    BY <2>1, WorkersKeepPlaced DEF IInv, WorkIsPlaced, Strike, processor
<1> QED
  BY <1>7, <1>8, <1>9, <1>11, <1>12 DEF IInv

LEMMA RejectKeeps ==
  ASSUME IInv, Reject
  PROVE  IInv'
<1> DEFINE m      == Buyer(rejecting)
           amount == IF Covered(Total(rejecting), lockedFunds[m]) THEN Total(rejecting) ELSE 0
<1>1. lockedFunds \in [Members -> Nat] /\ balance \in [Members -> Nat] /\ spent \in [Members -> Nat]
  BY DEF IInv, TypeOK
<1>2. rejecting \in Orders /\ m \in Members /\ amount \in Nat /\ amount <= lockedFunds[m]
  BY <1>1, OrderFacts DEF IInv, TypeOK, Reject, Covered
<1>3. /\ lockedFunds' = [lockedFunds EXCEPT ![m] = @ - amount]
      /\ balance' = [balance EXCEPT ![m] = @ + amount]
      /\ spent' = spent /\ tokens' = tokens /\ submitting' = submitting
  BY DEF Reject, processor
<1>4. rows' \in [Orders -> States]
  BY DEF IInv, TypeOK, Reject, States
<1> HIDE DEF m, amount
<1>5. lockedFunds' \in [Members -> Nat] /\ balance' \in [Members -> Nat]
  BY <1>1, <1>2, <1>3
<1>6. TypeOK'
  BY <1>3, <1>4, <1>5 DEF IInv, TypeOK, Reject, request, processor, admin
<1>7. Conserved'
  <2> SUFFICES ASSUME NEW n \in Members
               PROVE  balance'[n] + lockedFunds'[n] + spent'[n] = Funds[n] + LockedElsewhere[n]
    BY DEF Conserved
  <2>1. balance[n] + lockedFunds[n] + spent[n] = Funds[n] + LockedElsewhere[n]
    BY DEF IInv, Conserved
  <2> QED
    BY <1>1, <1>2, <1>3, <2>1
<1>8. PaidInFull'
  BY <1>3 DEF IInv, PaidInFull
<1>9. SubmittingIsCovered'
  <2> SUFFICES ASSUME submitting # None
               PROVE  Total(submitting) <= balance'[Buyer(submitting)]
    BY <1>3 DEF SubmittingIsCovered, Reject, request, Total
  <2>1. /\ submitting \in Orders /\ Buyer(submitting) \in Members /\ Total(submitting) \in Nat
        /\ Total(submitting) <= balance[Buyer(submitting)]
    BY OrderFacts DEF IInv, TypeOK, SubmittingIsCovered
  <2>2. balance'[Buyer(submitting)] >= balance[Buyer(submitting)]
    BY <1>1, <1>2, <1>3, <2>1
  <2> QED
    BY <1>1, <1>5, <2>1, <2>2
<1>10. WorkIsPlaced'
  <2>1. {j \in Orders : rows'[j] # "none"} \subseteq Placed
    BY DEF IInv, TypeOK, WorkIsPlaced, Reject
  <2> QED
    BY <2>1, WorkersKeepPlaced DEF IInv, WorkIsPlaced, Reject, processor
<1> QED
  BY <1>6, <1>7, <1>8, <1>9, <1>10 DEF IInv

LEMMA StepHolds == IInv /\ [Next]_vars => IInv'
<1> SUFFICES ASSUME IInv, [Next]_vars PROVE IInv'
  OBVIOUS
<1>1. CASE Api
  BY <1>1, ApiKeeps DEF Api
<1>2. CASE Processor
  BY <1>2, SubmitKeeps, CommitKeeps, QuietKeeps DEF Processor
<1>3. CASE Executor
  BY <1>3, QuietKeeps, StrikeKeeps, RejectKeeps DEF Executor, Execute
<1>4. CASE Admin
  BY <1>4, QuietKeeps DEF Admin
<1>5. CASE UNCHANGED vars
  BY <1>5 DEF vars, IInv, TypeOK, WorkIsPlaced, Placed, Conserved, PaidInFull, SubmittingIsCovered, Total
<1> QED
  BY <1>1, <1>2, <1>3, <1>4, <1>5 DEF Next

LEMMA Invariance == Spec => []IInv
BY InitHolds, StepHolds, PTL DEF Spec

\* Types; that no account is ever overdrawn is part of them (SubmitIEOOrder commits only
\* what it has tested, Strike and its refund take only what is locked).
THEOREM TypeCorrect == Spec => []TypeOK
BY Invariance, PTL DEF IInv

\* No replay, restart or refused step of the sale makes or loses money.
THEOREM MoneyConserved == Spec => []Conserved
BY Invariance, PTL DEF IInv

\* What has been handed out has been paid for, at prices the sale has had.
THEOREM NothingHandedOutFree == Spec => []PaidInFull
BY Invariance, PTL DEF IInv

-----------------------------------------------------------------------------
(* Without a restart every order is struck once, when it waits.             *)

\* The price of the waiting orders of a member, and what the done orders have bought.
Awaited(m) == SumFunction([i \in WaitingOf(m) |-> Total(i)])

DoneOrders == {j \in Orders : rows[j] = "done"}

Done == SumFunction([i \in DoneOrders |-> Quantity(i)])

\* An order known to the executor waits, or is about to: the processor still holds the
\* account of its buyer.
InHand(i) == submitting = i \/ rows[i] = "wait"

\* Once taken up by the executor it is taken up by nobody else.
StrikingInHand == striking # None => InHand(striking.order) /\ striking.order \notin strikes

\* The invariant the two properties need; it is inductive together with IInv.
Unbroken ==
  restarts = 0 =>
    /\ startup = {} /\ rejecting = None
    /\ submitting # None => rows[submitting] = "pending"
    /\ \A i \in strikes : InHand(i)
    /\ StrikingInHand
    /\ \A m \in Members : lockedFunds[m] = LockedElsewhere[m] + Awaited(m)
    /\ ~ overwritten => ieo.executed = Done

LEMMA WaitingIsPlaced ==
  ASSUME IInv, NEW m, NEW i \in WaitingOf(m)
  PROVE  i \in Orders /\ i \in Placed /\ Total(i) \in Nat
<1>1. i \in Orders /\ rows[i] = "wait"
  BY DEF WaitingOf
<1> QED  BY <1>1, OrderFacts DEF IInv, WorkIsPlaced

LEMMA AwaitedIsNat ==
  ASSUME IInv, NEW m
  PROVE  /\ IsFiniteSet(WaitingOf(m)) /\ Awaited(m) \in Nat
         /\ \A i \in WaitingOf(m) : Total(i) <= Awaited(m)
<1> DEFINE f == [i \in WaitingOf(m) |-> Total(i)]
<1>1. IsFiniteSet(WaitingOf(m))
  BY OrdersAssumption, FS_Subset DEF WaitingOf
<1>2. \A i \in WaitingOf(m) : f[i] \in Nat /\ f[i] = Total(i)
  BY WaitingIsPlaced
<1>3. DOMAIN f = WaitingOf(m) /\ Awaited(m) = SumFunction(f)
  BY DEF Awaited
<1> HIDE DEF f
<1>4. Awaited(m) = SumFunctionOnSet(f, WaitingOf(m))
  BY <1>3 DEF SumFunction
<1> QED  BY <1>1, <1>2, <1>4, SumIsNat, SumBoundsTerms

\* The sums depend on the rows, and on the prices of placed orders.
LEMMA AwaitedSame ==
  ASSUME IInv, NEW m, WaitingOf(m)' = WaitingOf(m), \A i \in Placed : price'[i] = price[i]
  PROVE  Awaited(m)' = Awaited(m)
<1>1. \A i \in WaitingOf(m) : Total(i)' = Total(i)
  BY WaitingIsPlaced DEF Total, Quantity
<1> QED  BY <1>1 DEF Awaited

\* The rows that wait or are done are the same.
SameStates == \A i \in Orders : /\ rows'[i] = "wait" <=> rows[i] = "wait"
                                /\ rows'[i] = "done" <=> rows[i] = "done"

LEMMA SumsStay ==
  ASSUME IInv, SameStates, \A i \in Placed : price'[i] = price[i]
  PROVE  Done' = Done /\ \A m : Awaited(m)' = Awaited(m)
<1>1. \A m : WaitingOf(m)' = WaitingOf(m)
  BY DEF SameStates, WaitingOf, Buyer
<1>2. DoneOrders' = DoneOrders
  BY DEF SameStates, DoneOrders
<1> QED  BY <1>1, <1>2, AwaitedSame DEF Done, Quantity

\* One order begins to wait.
LEMMA AwaitsMore ==
  ASSUME IInv, NEW i \in Orders, rows[i] = "pending", rows' = [rows EXCEPT ![i] = "wait"],
         price' = price
  PROVE  /\ Done' = Done
         /\ \A m : Awaited(m)' = Awaited(m) + IF m = Buyer(i) THEN Total(i) ELSE 0
<1>1. rows \in [Orders -> States]
  BY DEF IInv, TypeOK
<1>2. DoneOrders' = DoneOrders
  BY <1>1 DEF DoneOrders
<1>3. ASSUME NEW m, m # Buyer(i) PROVE Awaited(m)' = Awaited(m)
  <2>1. WaitingOf(m)' = WaitingOf(m)
    BY <1>1, <1>3 DEF WaitingOf, Buyer
  <2> QED  BY <2>1, AwaitedSame
<1>4. Awaited(Buyer(i))' = Awaited(Buyer(i)) + Total(i)
  <2> DEFINE S == WaitingOf(Buyer(i))
             f == [j \in S |-> Total(j)]
             g == [j \in S \cup {i} |-> Total(j)]
  <2>1. i \notin S /\ IsFiniteSet(S)
    BY AwaitedIsNat DEF WaitingOf
  <2>2. WaitingOf(Buyer(i))' = S \cup {i}
    BY <1>1 DEF WaitingOf, Buyer
  <2>3. \A j : Total(j)' = Total(j)
    BY DEF Total, Quantity
  <2>4. Awaited(Buyer(i)) = SumFunction(f)
    BY DEF Awaited
  <2>5. Awaited(Buyer(i))' = SumFunction(g)
    <3>1. Awaited(Buyer(i))' = SumFunction([j \in WaitingOf(Buyer(i))' |-> Total(j)'])
      BY DEF Awaited, Buyer
    <3> QED  BY <2>2, <2>3, <3>1
  <2>6. /\ DOMAIN f = S /\ DOMAIN g = S \cup {i} /\ g[i] = Total(i) /\ Total(i) \in Int
        /\ \A j \in S : f[j] \in Int /\ g[j] = f[j]
    BY WaitingIsPlaced, OrderFacts DEF IInv
  <2> HIDE DEF S, f, g
  <2> QED  BY <2>1, <2>4, <2>5, <2>6, SumOfMore
<1>5. ASSUME NEW m PROVE Awaited(m)' = Awaited(m) + IF m = Buyer(i) THEN Total(i) ELSE 0
  <2>1. Awaited(m) \in Nat
    BY AwaitedIsNat
  <2> QED  BY <1>3, <1>4, <2>1
<1> QED  BY <1>2, <1>5 DEF Done, Quantity

\* One order that waits is done.
LEMMA AwaitsLess ==
  ASSUME IInv, NEW i \in Orders, rows[i] = "wait", rows' = [rows EXCEPT ![i] = "done"],
         price' = price
  PROVE  /\ Done' = Done + Quantity(i) /\ Done \in Int
         /\ \A m : Awaited(m) = Awaited(m)' + IF m = Buyer(i) THEN Total(i) ELSE 0
         /\ \A m : Awaited(m)' \in Int
<1>1. rows \in [Orders -> States]
  BY DEF IInv, TypeOK
<1>2. Done' = Done + Quantity(i) /\ Done \in Int
  <2> DEFINE f == [j \in DoneOrders |-> Quantity(j)]
             g == [j \in DoneOrders \cup {i} |-> Quantity(j)]
  <2>1. i \notin DoneOrders /\ IsFiniteSet(DoneOrders)
    BY OrdersAssumption, FS_Subset DEF DoneOrders
  <2>2. DoneOrders' = DoneOrders \cup {i}
    BY <1>1 DEF DoneOrders
  <2>3. Done = SumFunction(f)
    BY DEF Done
  <2>4. Done' = SumFunction(g)
    <3>1. Done' = SumFunction([j \in DoneOrders' |-> Quantity(j)])
      BY DEF Done, Quantity
    <3> QED  BY <2>2, <3>1
  <2>5. /\ DOMAIN f = DoneOrders /\ DOMAIN g = DoneOrders \cup {i} /\ g[i] = Quantity(i)
        /\ Quantity(i) \in Int
        /\ \A j \in DoneOrders : f[j] \in Int /\ g[j] = f[j]
    BY OrderFacts DEF IInv, DoneOrders
  <2> HIDE DEF f, g
  <2> QED  BY <2>1, <2>3, <2>4, <2>5, SumOfMore
<1>3. ASSUME NEW m, m # Buyer(i) PROVE Awaited(m)' = Awaited(m)
  <2>1. WaitingOf(m)' = WaitingOf(m)
    BY <1>1, <1>3 DEF WaitingOf, Buyer
  <2> QED  BY <2>1, AwaitedSame
<1>4. Awaited(Buyer(i)) = Awaited(Buyer(i))' + Total(i) /\ Awaited(Buyer(i))' \in Int
  <2> DEFINE S == WaitingOf(Buyer(i)) \ {i}
             f == [j \in S |-> Total(j)]
             g == [j \in S \cup {i} |-> Total(j)]
  <2>1. i \in WaitingOf(Buyer(i)) /\ IsFiniteSet(WaitingOf(Buyer(i)))
    BY AwaitedIsNat DEF WaitingOf
  <2>2. IsFiniteSet(S) /\ S \cup {i} = WaitingOf(Buyer(i)) /\ i \notin S
    BY <2>1, FS_Subset
  <2>3. WaitingOf(Buyer(i))' = S
    BY <1>1 DEF WaitingOf, Buyer
  <2>4. \A j : Total(j)' = Total(j)
    BY DEF Total, Quantity
  <2>5. Awaited(Buyer(i)) = SumFunction(g)
    BY <2>2 DEF Awaited
  <2>6. Awaited(Buyer(i))' = SumFunction(f)
    <3>1. Awaited(Buyer(i))' = SumFunction([j \in WaitingOf(Buyer(i))' |-> Total(j)'])
      BY DEF Awaited, Buyer
    <3> QED  BY <2>3, <2>4, <3>1
  <2>7. /\ DOMAIN f = S /\ DOMAIN g = S \cup {i} /\ g[i] = Total(i) /\ Total(i) \in Int
        /\ \A j \in S : f[j] \in Int /\ g[j] = f[j]
    BY WaitingIsPlaced, OrderFacts DEF IInv
  <2> HIDE DEF S, f, g
  <2> QED  BY <2>2, <2>5, <2>6, <2>7, SumOfMore
<1>5. ASSUME NEW m
      PROVE  Awaited(m) = Awaited(m)' + (IF m = Buyer(i) THEN Total(i) ELSE 0) /\ Awaited(m)' \in Int
  <2>1. Awaited(m) \in Nat
    BY AwaitedIsNat
  <2> QED  BY <1>3, <1>4, <2>1
<1> QED  BY <1>2, <1>5

\* A step that leaves the waiting and the done orders, the locked funds and what the sale
\* has sold alone.
LEMMA QuietUnbroken ==
  ASSUME IInv, Unbroken, SameStates, \A i \in Placed : price'[i] = price[i],
         restarts' = restarts, restarts = 0, lockedFunds' = lockedFunds, startup' = {},
         rejecting' = None,
         ~ overwritten' => ~ overwritten /\ ieo'.executed = ieo.executed,
         submitting' # None => rows'[submitting'] = "pending",
         \A i \in strikes' : InHand(i)',
         StrikingInHand'
  PROVE  Unbroken'
<1>1. Done' = Done /\ \A m : Awaited(m)' = Awaited(m)
  BY SumsStay
<1>2. /\ \A m \in Members : lockedFunds[m] = LockedElsewhere[m] + Awaited(m)
      /\ ~ overwritten => ieo.executed = Done
  BY DEF Unbroken
<1> QED  BY <1>1, <1>2 DEF Unbroken

LEMMA ApiUnbroken ==
  ASSUME IInv, Unbroken, restarts = 0, NEW i \in Orders,
         CheckStock(i) \/ CheckLimit(i) \/ CreateIEOOrder(i) \/ ProduceRequest(i)
  PROVE  Unbroken'
<1>1. /\ UNCHANGED <<ieo, lockedFunds, startup, submitting, strikes, striking, rejecting, restarts,
                     overwritten>>
  BY DEF CheckStock, CheckLimit, CreateIEOOrder, ProduceRequest, accounts, processor, executor
<1>2. \/ UNCHANGED <<rows, price>>
      \/ /\ i \notin Placed
         /\ rows' = [rows EXCEPT ![i] = "pending"]
         /\ \E p : price' = [price EXCEPT ![i] = p]
  BY DEF CheckStock, CheckLimit, CreateIEOOrder, ProduceRequest, Advance, Placed
<1>3. /\ rows \in [Orders -> States] /\ price \in [Orders -> Nat] /\ Placed \subseteq Orders
      /\ i \notin Placed => rows[i] = "none"
  BY DEF IInv, TypeOK, WorkIsPlaced, Placed
<1>4. /\ \A j \in Placed : price'[j] = price[j] /\ rows'[j] = rows[j]
      /\ SameStates
  BY <1>2, <1>3 DEF SameStates
<1>5. /\ submitting # None => submitting \in Placed /\ rows[submitting] = "pending"
      /\ \A j \in strikes : j \in Placed /\ InHand(j)
      /\ striking # None => /\ striking.order \in Placed /\ InHand(striking.order)
                            /\ striking.order \notin strikes
      /\ startup = {} /\ rejecting = None
  BY DEF IInv, WorkIsPlaced, Unbroken, StrikingInHand
<1>6. \A j \in Placed : InHand(j) => InHand(j)'
  BY <1>1, <1>4 DEF InHand
<1>7. StrikingInHand'
  BY <1>1, <1>4, <1>5 DEF InHand, StrikingInHand
<1>8. /\ submitting' # None => rows'[submitting'] = "pending"
      /\ \A j \in strikes' : InHand(j)'
  BY <1>1, <1>4, <1>5, <1>6
<1> QED  BY <1>1, <1>4, <1>5, <1>7, <1>8, QuietUnbroken

\* An order is submitted once: afterwards it is in the hands of the executor.
LEMMA SubmitUnbroken ==
  ASSUME IInv, Unbroken, restarts = 0, NEW i \in Orders, HandleRequest(i) \/ SubmitAtStart(i)
  PROVE  Unbroken'
<1>1. /\ UNCHANGED <<ieo, lockedFunds, rows, price, striking, rejecting, restarts, overwritten>>
      /\ submitting = None
  BY DEF HandleRequest, SubmitAtStart, Submit, Skip, accounts, request, executor
<1>2. startup' = {}
  BY DEF HandleRequest, SubmitAtStart, Unbroken
<1>3. \/ UNCHANGED <<submitting, strikes>>
      \/ rows[i] = "pending" /\ submitting' = i /\ strikes' = strikes \cup {i}
  BY DEF HandleRequest, SubmitAtStart, Submit, Skip, ToExecutor, CanSubmit
<1>4. /\ \A j \in strikes : rows[j] = "wait"
      /\ striking # None => rows[striking.order] = "wait" /\ striking.order \notin strikes
      /\ rejecting = None
      /\ strikes \subseteq Orders /\ (striking # None => striking.order \in Orders)
  BY <1>1, NoneAssumption DEF Unbroken, InHand, StrikingInHand, IInv, TypeOK, WorkIsPlaced, Placed
<1>5. \A j \in strikes' : InHand(j)'
  BY <1>1, <1>3, <1>4 DEF InHand
<1>6. StrikingInHand'
  BY <1>1, <1>3, <1>4 DEF InHand, StrikingInHand
<1>7. submitting' # None => rows'[submitting'] = "pending"
  BY <1>1, <1>3
<1>8. SameStates /\ \A j \in Placed : price'[j] = price[j]
  BY <1>1 DEF SameStates
<1> QED  BY <1>1, <1>2, <1>4, <1>5, <1>6, <1>7, <1>8, QuietUnbroken

LEMMA CommitUnbroken ==
  ASSUME IInv, Unbroken, restarts = 0, CommitSubmit
  PROVE  Unbroken'
<1>1. PICK i \in Orders : i = submitting
  BY DEF IInv, TypeOK, CommitSubmit
<1>2. /\ UNCHANGED <<ieo, price, startup, strikes, striking, rejecting, restarts, overwritten>>
      /\ submitting' = None /\ rows[i] = "pending" /\ rows' = [rows EXCEPT ![i] = "wait"]
      /\ lockedFunds' = [lockedFunds EXCEPT ![Buyer(i)] = @ + Total(i)]
  BY <1>1 DEF CommitSubmit, Locks, request, executor, Unbroken
<1>3. /\ rows \in [Orders -> States] /\ lockedFunds \in [Members -> Nat] /\ Buyer(i) \in Members
      /\ Total(i) \in Nat
  BY OrderFacts DEF IInv, TypeOK
<1>4. /\ Done' = Done
      /\ \A m : Awaited(m)' = Awaited(m) + IF m = Buyer(i) THEN Total(i) ELSE 0
  BY <1>2, AwaitsMore
<1>5. ASSUME NEW j \in Orders, InHand(j) PROVE InHand(j)'
  BY <1>1, <1>2, <1>3, <1>5 DEF InHand
<1>6. \A m \in Members : lockedFunds'[m] = LockedElsewhere[m] + Awaited(m)'
  <2> SUFFICES ASSUME NEW m \in Members PROVE lockedFunds'[m] = LockedElsewhere[m] + Awaited(m)'
    OBVIOUS
  <2>1. lockedFunds[m] = LockedElsewhere[m] + Awaited(m) /\ Awaited(m) \in Nat /\ LockedElsewhere[m] \in Nat
    BY AwaitedIsNat, FundsAssumption DEF Unbroken
  <2>2. lockedFunds'[m] = lockedFunds[m] + IF m = Buyer(i) THEN Total(i) ELSE 0
    BY <1>2, <1>3
  <2>3. Awaited(m)' = Awaited(m) + IF m = Buyer(i) THEN Total(i) ELSE 0
    BY <1>4
  <2> QED  BY <1>3, <2>1, <2>2, <2>3
<1>7. /\ \A j \in strikes : j \in Orders /\ InHand(j)
      /\ striking # None => /\ striking.order \in Orders /\ InHand(striking.order)
                            /\ striking.order \notin strikes
      /\ startup = {} /\ rejecting = None
      /\ ~ overwritten => ieo.executed = Done
  BY DEF IInv, TypeOK, Unbroken, StrikingInHand
<1>8. \A j \in strikes' : InHand(j)'
  BY <1>2, <1>5, <1>7
<1>9. StrikingInHand'
  BY <1>1, <1>2, <1>3, <1>7 DEF InHand, StrikingInHand
<1> QED  BY <1>2, <1>4, <1>6, <1>7, <1>8, <1>9 DEF Unbroken

\* What the executor strikes waits, and its price is locked.
LEMMA StruckWaits ==
  ASSUME IInv, Unbroken, restarts = 0, striking # None, AccountIsFree(striking.order)
  PROVE  /\ striking.order \in Orders /\ rows[striking.order] = "wait"
         /\ Covered(Total(striking.order), lockedFunds[Buyer(striking.order)])
<1>1. PICK i : i = striking.order
  OBVIOUS
<1>2. i \in Orders /\ i \in Placed /\ InHand(i) /\ Buyer(i) \in Members
  BY <1>1, OrderFacts DEF IInv, TypeOK, WorkIsPlaced, Unbroken, StrikingInHand
<1>3. rows[i] = "wait"
  <2>1. i # None
    BY <1>2, NoneAssumption
  <2>2. submitting # i
    BY <1>1, <2>1 DEF AccountIsFree
  <2> QED  BY <1>2, <2>2 DEF InHand
<1>4. Total(i) <= Awaited(Buyer(i)) /\ Awaited(Buyer(i)) \in Nat
  BY <1>2, <1>3, AwaitedIsNat DEF WaitingOf
<1>5. Total(i) > 0 /\ Total(i) \in Nat
  <2>1. price[i] \in Nat \ {0} /\ Quantity(i) \in Nat \ {0} /\ Total(i) = price[i] * Quantity(i)
    BY <1>2, OrderFacts, PayloadsAssumption DEF IInv, WorkIsPlaced, Prices
  <2>2. \A p, q \in Nat \ {0} : p * q \in Nat /\ p * q > 0
    BY PositiveProducts
  <2> QED  BY <2>1, <2>2
<1>6. lockedFunds[Buyer(i)] = LockedElsewhere[Buyer(i)] + Awaited(Buyer(i))
      /\ LockedElsewhere[Buyer(i)] \in Nat
  BY <1>2, FundsAssumption DEF Unbroken
<1> QED  BY <1>1, <1>2, <1>3, <1>4, <1>5, <1>6 DEF Covered

LEMMA StrikeUnbroken ==
  ASSUME IInv, Unbroken, restarts = 0, Strike
  PROVE  Unbroken'
<1>1. PICK i \in Orders : i = striking.order
  BY DEF IInv, TypeOK, Strike
<1>2. /\ UNCHANGED <<price, startup, submitting, strikes, rejecting, restarts>>
      /\ striking' = None /\ rows' = [rows EXCEPT ![i] = "done"]
      /\ lockedFunds' = [lockedFunds EXCEPT ![Buyer(i)] = @ - Total(i)]
      /\ overwritten' = (overwritten \/ ieo # striking.sale)
      /\ ieo' = [striking.sale EXCEPT !.executed = @ + Quantity(i)]
      /\ AccountIsFree(striking.order) /\ striking # None
  BY <1>1 DEF Strike, Pays, Sold, request, processor
<1>3. rows[i] = "wait" /\ i \notin strikes
  BY <1>1, <1>2, StruckWaits DEF Unbroken, StrikingInHand
<1>4. /\ rows \in [Orders -> States] /\ lockedFunds \in [Members -> Nat] /\ Buyer(i) \in Members
      /\ Total(i) \in Nat /\ Quantity(i) \in Nat /\ ieo \in Sale /\ submitting \in Orders \cup {None}
      /\ overwritten \in BOOLEAN
  BY OrderFacts DEF IInv, TypeOK
<1>5. /\ Done' = Done + Quantity(i) /\ Done \in Int
      /\ \A m : Awaited(m) = Awaited(m)' + IF m = Buyer(i) THEN Total(i) ELSE 0
      /\ \A m : Awaited(m)' \in Int
  BY <1>2, <1>3, AwaitsLess
<1>6. \A m \in Members : lockedFunds'[m] = LockedElsewhere[m] + Awaited(m)'
  <2> SUFFICES ASSUME NEW m \in Members PROVE lockedFunds'[m] = LockedElsewhere[m] + Awaited(m)'
    OBVIOUS
  <2>1. lockedFunds[m] = LockedElsewhere[m] + Awaited(m) /\ LockedElsewhere[m] \in Nat
    BY FundsAssumption DEF Unbroken
  <2>2. lockedFunds'[m] = lockedFunds[m] - IF m = Buyer(i) THEN Total(i) ELSE 0
    BY <1>2, <1>4
  <2>3. Awaited(m) = Awaited(m)' + (IF m = Buyer(i) THEN Total(i) ELSE 0) /\ Awaited(m)' \in Int
    BY <1>5
  <2> QED  BY <1>4, <2>1, <2>2, <2>3
<1>7. ~ overwritten' => ieo'.executed = Done'
  <2> SUFFICES ASSUME ~ overwritten' PROVE ieo'.executed = Done'
    OBVIOUS
  <2>1. ~ overwritten /\ ieo = striking.sale
    BY <1>2
  <2>2. ieo.executed = Done
    BY <2>1 DEF Unbroken
  <2>3. ieo'.executed = ieo.executed + Quantity(i)
    BY <1>2, <1>4, <2>1 DEF Sale
  <2> QED  BY <1>5, <2>2, <2>3
<1>8. /\ \A j \in strikes : j \in Orders /\ InHand(j) /\ j # i
      /\ startup = {} /\ rejecting = None
      /\ submitting # None => rows[submitting] = "pending"
  BY <1>3 DEF IInv, TypeOK, Unbroken
<1>9. \A j \in strikes' : InHand(j)'
  BY <1>2, <1>4, <1>8 DEF InHand
<1>10. submitting' # None => rows'[submitting'] = "pending"
  BY <1>2, <1>3, <1>4, <1>8
<1>11. submitting' # None => rows[submitting]' = "pending"
  BY <1>10
<1>12. StrikingInHand'
  BY <1>2 DEF StrikingInHand
<1> QED  BY <1>2, <1>6, <1>7, <1>8, <1>9, <1>11, <1>12 DEF Unbroken

LEMMA QuietWorkUnbroken ==
  ASSUME IInv, Unbroken, restarts = 0,
         BeginUpdate \/ SaveUpdate \/ \E i \in Orders : BeginStrike(i)
  PROVE  Unbroken'
<1>1. /\ UNCHANGED <<rows, lockedFunds, price, startup, submitting, rejecting, restarts>>
  BY DEF BeginUpdate, SaveUpdate, BeginStrike, accounts, request, processor, executor
<1>2. ~ overwritten' => ~ overwritten /\ ieo'.executed = ieo.executed
  <2>1. CASE SaveUpdate
    <3>1. PICK p \in Payloads : ieo' = [editing EXCEPT !.terms = p]
      BY <2>1 DEF SaveUpdate
    <3>2. ieo \in Sale /\ overwritten' = (overwritten \/ ieo # editing)
      BY <2>1 DEF SaveUpdate, IInv, TypeOK
    <3> QED  BY <3>1, <3>2 DEF Sale
  <2>2. CASE UNCHANGED <<ieo, overwritten>>
    BY <2>2
  <2> QED  BY <2>1, <2>2 DEF BeginUpdate, BeginStrike
<1>3. /\ \A j \in strikes : InHand(j)
      /\ striking # None => InHand(striking.order) /\ striking.order \notin strikes
      /\ submitting # None => rows[submitting] = "pending"
      /\ startup = {} /\ rejecting = None
  BY DEF Unbroken, StrikingInHand
<1>4. \/ UNCHANGED <<strikes, striking>>
      \/ \E i \in strikes : strikes' = strikes \ {i} /\ striking' = [order |-> i, sale |-> ieo]
  BY DEF BeginUpdate, SaveUpdate, BeginStrike, executor
<1>5. \A j : InHand(j)' <=> InHand(j)
  BY <1>1 DEF InHand
<1>6. /\ \A j \in strikes' : InHand(j)
      /\ striking' # None => InHand(striking'.order) /\ striking'.order \notin strikes'
  BY <1>3, <1>4
<1>7. \A j \in strikes' : InHand(j)'
  BY <1>5, <1>6
<1>8. StrikingInHand'
  BY <1>1, <1>6 DEF InHand, StrikingInHand
<1>9. SameStates /\ \A j \in Placed : price'[j] = price[j]
  BY <1>1 DEF SameStates
<1> QED  BY <1>1, <1>2, <1>3, <1>7, <1>8, <1>9, QuietUnbroken

LEMMA UnbrokenNext == IInv /\ Unbroken /\ [Next]_vars => Unbroken'
<1> SUFFICES ASSUME IInv, Unbroken, [Next]_vars PROVE Unbroken'
  OBVIOUS
<1>1. CASE RestartProcessor \/ RestartExecutor \/ restarts # 0
  <2>1. restarts' # 0
    <3>1. restarts \in Nat
      BY DEF IInv, TypeOK
    <3>2. restarts' = restarts \/ restarts' = restarts + 1
      BY DEF Next, Api, Processor, Executor, Execute, Admin, CheckStock, CheckLimit, CreateIEOOrder,
             ProduceRequest, HandleRequest, SubmitAtStart, Submit, Skip, CommitSubmit,
             RestartProcessor, BeginStrike, Strike, FailStrike, Reject, RestartExecutor, BeginUpdate,
             SaveUpdate, vars
    <3>3. RestartProcessor \/ RestartExecutor => restarts' = restarts + 1
      BY DEF RestartProcessor, RestartExecutor
    <3> QED  BY <1>1, <3>1, <3>2, <3>3
  <2> QED  BY <2>1 DEF Unbroken
<1>2. ASSUME restarts = 0, Api PROVE Unbroken'
  BY <1>2, ApiUnbroken DEF Api
<1>3. ASSUME restarts = 0, NEW i \in Orders, HandleRequest(i) \/ SubmitAtStart(i) PROVE Unbroken'
  BY <1>3, SubmitUnbroken
<1>4. ASSUME restarts = 0, CommitSubmit PROVE Unbroken'
  BY <1>4, CommitUnbroken
<1>5. ASSUME restarts = 0, Strike PROVE Unbroken'
  BY <1>5, StrikeUnbroken
<1>6. ASSUME restarts = 0, FailStrike PROVE Unbroken'
  BY <1>6, StruckWaits DEF FailStrike
<1>7. ASSUME restarts = 0, Reject PROVE Unbroken'
  BY <1>7 DEF Reject, Unbroken
<1>8. ASSUME restarts = 0, Admin \/ \E i \in Orders : BeginStrike(i) PROVE Unbroken'
  BY <1>8, QuietWorkUnbroken DEF Admin
<1>9. CASE UNCHANGED vars
  BY <1>9 DEF vars, Unbroken, InHand, StrikingInHand, Awaited, WaitingOf, Total, Quantity, Buyer, Done, DoneOrders
<1> QED
  BY <1>1, <1>2, <1>3, <1>4, <1>5, <1>6, <1>7, <1>8, <1>9 DEF Next, Processor, Executor, Execute

LEMMA UnbrokenInit == Init => Unbroken
<1> SUFFICES ASSUME Init PROVE Unbroken
  OBVIOUS
<1>1. DoneOrders = {} /\ \A m : WaitingOf(m) = {}
  BY DEF Init, DoneOrders, WaitingOf
<1>2. \A f : DOMAIN f = {} => SumFunction(f) = 0
  BY SumOfNone DEF SumFunction
<1>3. Done = 0
  BY <1>1, <1>2 DEF Done
<1>4. \A m : Awaited(m) = 0
  BY <1>1, <1>2 DEF Awaited
<1>5. \A m \in Members : lockedFunds[m] = LockedElsewhere[m] + Awaited(m)
  BY <1>4, FundsAssumption DEF Init
<1>6. ieo.executed = Done
  BY <1>3 DEF Init
<1> QED  BY <1>5, <1>6 DEF Init, Unbroken, StrikingInHand

LEMMA StaysUnbroken == Spec => []Unbroken
BY UnbrokenInit, UnbrokenNext, Invariance, PTL DEF Spec

\* As long as no worker restarts, exactly the waiting orders have their price locked:
\* every order is submitted once, committed before it is struck, and struck once.
THEOREM LocksAreWaiting == Spec => []LockedBacksWaiting
<1>1. Unbroken => LockedBacksWaiting
  BY DEF Unbroken, LockedBacksWaiting, Awaited
<1> QED  BY <1>1, StaysUnbroken, PTL

\* And the row of the sale counts what the done orders have bought, until a save undoes
\* another.
THEOREM SalesAreBooked == Spec => []StockBooked
<1>1. Unbroken => StockBooked
  BY DEF Unbroken, StockBooked, Done, DoneOrders
<1> QED  BY <1>1, StaysUnbroken, PTL

=============================================================================
