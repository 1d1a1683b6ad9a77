---------------------------- MODULE LedgerProofs ----------------------------
(***************************************************************************)
(* What Ledger promises for any members, referrers, rewards, orders, funds *)
(* and trades: no account is overdrawn although rewards write balances     *)
(* read without a lock; and what such a write loses is always of an        *)
(* account the referrer's own orders lock funds of.                        *)
(***************************************************************************)
EXTENDS Ledger, SettlementProofs

-----------------------------------------------------------------------------
(* Types. *)

TxOK ==
  /\ tx \in Transaction \cup {None}
  /\ tx # None =>
       /\ tx \in Transaction
       /\ EnginePublishes(tx.trade)
       /\ Solvent(tx.view)
       /\ tx.todo \subseteq Rewarding(tx.trade)
       /\ tx.read # None => tx.share # None
       /\ tx.todo # {} => tx.untried # {}

HistoryOK == lost \in [Accounts -> Int] /\ excess \in [Currencies -> Int] /\ crashes \in Nat

Safe == TypeOK /\ NonNegative /\ TxOK /\ HistoryOK

\* There is a first order among those left.
LEMMA CurrentIsTodo ==
  ASSUME tx.todo # {}
  PROVE  Current \in tx.todo
<1>1. \E i \in tx.todo : IsBuy(i) => \A j \in tx.todo : IsBuy(j)
  OBVIOUS
<1> QED  BY <1>1 DEF Current

\* The account of a reward exists, and its owner is not the friend.
LEMMA RewardAccounts ==
  ASSUME NEW t \in Payload, NEW i \in Rewarding(t)
  PROVE  /\ i \in Orders /\ i \in Real(t)
         /\ RewardAccount(i) \in Accounts
         /\ RewardAccount(i)[1] # Details[i].member
         /\ RewardAccount(i)[2] = Income(i)[2]
         /\ <<ReferrerOf(i), HoldCurrency>> \in Accounts
<1>1. i \in Orders /\ i \in Real(t) /\ ReferrerOf(i) # None
  BY DEF Rewarding, Real, Payload
<1>2. Details[i].member \in Members
  BY <1>1, DetailTypes
<1>3. ReferrerOf(i) \in Members /\ ReferrerOf(i) # Details[i].member
  BY <1>1, <1>2, ReferrerAssumption DEF ReferrerOf
<1>4. Income(i)[2] \in Currencies
  BY DEF Income, Currencies
<1> QED  BY <1>1, <1>3, <1>4, HoldCurrencyAssumption DEF RewardAccount, Accounts

\* A fee is a natural number, and so is a reward.
LEMMA FeeTypes ==
  ASSUME NEW i \in Orders, NEW t \in Payload
  PROVE  FeeOf(i, t) \in Nat
<1>1. Earns(i, t) \in Nat /\ FeeRate(i, t) \in Nat
  BY Amounts, ScaleAssumption
<1> QED  BY <1>1, Products DEF FeeOf

LEMMA RoundedType ==
  ASSUME NEW n \in Nat, NEW d \in Nat \ {0}
  PROVE  Rounded(n, d) \in Nat
<1> DEFINE x == 2 * n + d
           y == 2 * d
<1>1. x \in Nat /\ y \in Nat /\ y > 0
  OBVIOUS
<1> HIDE DEF x, y
<1>2. x \div y \in Nat
  BY <1>1
<1> QED  BY <1>2 DEF Rounded, x, y

LEMMA AmountType ==
  ASSUME Safe, tx # None, tx.todo # {}, tx.share # None
  PROVE  Amount \in Nat
<1>1. tx.trade \in Payload /\ Current \in Orders
  BY CurrentIsTodo DEF Safe, TxOK, Transaction
<1>2. tx.share \in Nat
  BY RewardsAssumption DEF Safe, TxOK, Transaction
<1>3. FeeOf(Current, tx.trade) \in Nat
  BY <1>1, FeeTypes
<1>4. FeeOf(Current, tx.trade) * tx.share \in Nat
  BY <1>2, <1>3, Products
<1> QED  BY <1>4, RoundedType, RewardsAssumption DEF Amount

\* What is booked for a trade.
LEMMA BookingType ==
  ASSUME Safe, tx # None, NEW c \in Currencies
  PROVE  Booking(c) \in Int
<1>1. tx.trade \in Payload /\ tx.given \in [Orders -> Nat]
  BY DEF Safe, TxOK, Transaction
<1>2. ASSUME NEW i \in {tx.trade.maker, tx.trade.taker} PROVE FeeLeft(i, c) \in Int
  <2>1. CASE i = Fake
    BY <2>1 DEF FeeLeft, Fee
  <2>2. CASE i # Fake
    <3>1. i \in Orders
      BY <1>1, <2>2 DEF Payload
    <3>2. Earns(i, tx.trade) * FeeRate(i, tx.trade) \in Int /\ tx.given[i] \in Nat
      BY <1>1, <3>1, FeeTypes DEF FeeOf
    <3> QED  BY <2>2, <3>2 DEF FeeLeft, Fee
  <2> QED  BY <2>1, <2>2
<1> QED  BY <1>2 DEF Booking

-----------------------------------------------------------------------------
(* The steps keep the types, and no account is overdrawn. *)

LEMMA LedgerSafeInit == LedgerInit => Safe
<1> SUFFICES ASSUME LedgerInit PROVE Safe
  OBVIOUS
<1>1. SubmittedInit
  BY DEF LedgerInit
<1>2. rows \in [Orders -> Row] /\ lockedFunds \in [Accounts -> Int]
  BY <1>1, RowTypes DEF SubmittedInit
<1>3. balance \in [Accounts -> Int] /\ balance \in [Accounts -> Nat]
  BY <1>1, FundsAssumption DEF SubmittedInit
<1>4. raced \in BOOLEAN
  BY <1>1, Zenon DEF SubmittedInit
<1>5. /\ revenue \in [Currencies -> Int] /\ external \in [Currencies -> Int]
      /\ api \in [Orders -> {"start", "created", "refused", "checked", "saved", "sent"}]
      /\ requests = Orders /\ startup = {} /\ announced = {} /\ producing = None /\ restarts = 0
  BY <1>1 DEF SubmittedInit
<1>6. TypeOK
  BY <1>2, <1>3, <1>4, <1>5 DEF TypeOK
<1>7. NonNegative
  BY <1>1, <1>3 DEF NonNegative, SubmittedInit
<1>8. TxOK /\ HistoryOK
  BY DEF LedgerInit, TxOK, HistoryOK
<1> QED  BY <1>6, <1>7, <1>8 DEF Safe

\* What the executor publishes stays publishable: announced only grows.
LEMMA StillPublished ==
  ASSUME NEW t \in Payload, EnginePublishes(t), announced \subseteq announced'
  PROVE  EnginePublishes(t)'
BY DEF EnginePublishes, Announced, Real, Accepts, IsLimit, IsBuy

LEMMA BeginIsSafe ==
  ASSUME Safe, NEW t \in Payload, Begin(t)
  PROVE  Safe'
<1>1. UNCHANGED vars /\ UNCHANGED history /\ tx' = Open(t) /\ EnginePublishes(t) /\ Valid(t) /\ Struck(t).ok
  BY DEF Begin
<1>2. Struck(t) \in Money /\ Solvent(Struck(t))
  BY <1>1, StruckIsSound DEF Safe
<1>3. Rewarding(t) \subseteq Orders
  BY DEF Rewarding, Real, Payload
<1>4. [i \in Orders |-> 0] \in [Orders -> Nat] /\ [a \in Accounts |-> 0] \in [Accounts -> Int]
  OBVIOUS
<1>5. Open(t) \in Transaction /\ Open(t).trade = t /\ Open(t).view = Struck(t)
      /\ Open(t).todo = Rewarding(t) /\ Open(t).read = None /\ Open(t).untried = Rewards
  <2>1. FALSE \in BOOLEAN
    OBVIOUS
  <2> QED  BY <1>2, <1>3, <1>4, <2>1 DEF Open, Transaction
<1>6. EnginePublishes(t)'
  BY <1>1, StillPublished DEF vars
<1>7. TypeOK' /\ NonNegative' /\ HistoryOK'
  BY <1>1 DEF vars, history, Safe, TypeOK, NonNegative, HistoryOK
<1>8. Rewarding(t)' = Rewarding(t)
  BY DEF Rewarding, Real, FeeOf, Earns, FeeRate, ReferrerOf, IsBuy
<1>9. Rewarding(t) # {} => Rewards # {}
  BY DEF Rewarding
<1>10. TxOK'
  BY <1>1, <1>2, <1>5, <1>6, <1>8, <1>9 DEF TxOK, Solvent
<1> QED  BY <1>7, <1>10 DEF Safe

\* A step of the transaction that leaves the tables alone.
LEMMA TxStepIsSafe ==
  ASSUME Safe, tx # None, UNCHANGED <<vars, history>>,
         tx' \in Transaction, tx'.trade = tx.trade, Solvent(tx'.view), tx'.todo \subseteq tx.todo,
         tx'.read # None => tx'.share # None,
         tx'.todo # {} => tx'.untried # {}
  PROVE  Safe'
<1>1. TypeOK' /\ NonNegative' /\ HistoryOK'
  BY DEF vars, history, Safe, TypeOK, NonNegative, HistoryOK
<1>2. /\ tx.trade \in Payload /\ EnginePublishes(tx.trade) /\ tx.todo \subseteq Rewarding(tx.trade)
  BY DEF Safe, TxOK, Transaction
<1> DEFINE t == tx.trade
<1>3. EnginePublishes(t)'
  <2>1. announced \subseteq announced'
    BY DEF vars
  <2>2. ASSUME NEW u \in Payload, EnginePublishes(u) PROVE EnginePublishes(u)'
    BY <2>1, <2>2, StillPublished
  <2> QED  BY <1>2, <2>2
<1> QED  BY <1>1, <1>2, <1>3 DEF Safe, TxOK, Solvent

LEMMA NextRewardType == ASSUME Safe, tx # None, tx.todo # {} PROVE NextReward \in tx.untried /\ NextReward \in Reward
<1>1. tx.untried \in SUBSET Rewards /\ tx.untried # {}
  BY DEF Safe, TxOK, Transaction
<1>2. \E r \in tx.untried : \A s \in tx.untried : s.hold <= r.hold
  BY <1>1, RewardsAssumption
<1>3. NextReward \in tx.untried
  BY <1>2 DEF NextReward, Highest
<1> QED  BY <1>1, <1>3, RewardsAssumption

LEMMA TakeShareIsSafe == ASSUME Safe, TakeShare PROVE Safe'
<1>1. /\ tx # None /\ tx.todo # {} /\ UNCHANGED vars /\ UNCHANGED history
      /\ tx \in Transaction /\ Solvent(tx.view) /\ tx.read = None /\ tx.untried # {}
  BY DEF Safe, TxOK, TakeShare, Working
<1>2. NextReward.share \in 0 .. ShareScale /\ Rewards # {}
  BY <1>1, NextRewardType DEF Reward, Transaction
<1>3. tx' = [tx EXCEPT !.share = NextReward.share, !.untried = Rewards]
  BY DEF TakeShare
<1>4. /\ tx' \in Transaction /\ tx'.trade = tx.trade /\ tx'.view = tx.view
      /\ tx'.todo = tx.todo /\ tx'.read = None /\ tx'.untried # {}
  BY <1>1, <1>2, <1>3 DEF Transaction
<1> QED  BY <1>1, <1>4, TxStepIsSafe DEF Solvent

LEMMA PassShareIsSafe == ASSUME Safe, PassShare PROVE Safe'
<1> DEFINE r == NextReward
           i == Current
<1>1. /\ tx # None /\ tx.todo # {} /\ UNCHANGED vars /\ UNCHANGED history
      /\ tx \in Transaction /\ Solvent(tx.view) /\ tx.read = None /\ tx.untried # {}
  BY DEF Safe, TxOK, PassShare, Working
<1>2. tx' = IF tx.untried = {r} THEN [tx EXCEPT !.todo = @ \ {i}, !.untried = Rewards]
                                ELSE [tx EXCEPT !.untried = @ \ {r}]
  BY DEF PassShare
<1>3. r \in tx.untried
  BY <1>1, NextRewardType
<1> HIDE DEF r, i
<1>4. /\ tx' \in Transaction /\ tx'.trade = tx.trade /\ tx'.view = tx.view
      /\ tx'.todo \subseteq tx.todo /\ tx'.read = None /\ tx'.untried # {}
  BY <1>1, <1>2, <1>3 DEF Transaction
<1> QED  BY <1>1, <1>4, TxStepIsSafe DEF Solvent

LEMMA ReadAccountIsSafe == ASSUME Safe, ReadAccount PROVE Safe'
<1>1. /\ tx # None /\ tx.todo # {} /\ UNCHANGED vars /\ UNCHANGED history
      /\ tx \in Transaction /\ Solvent(tx.view)
      /\ tx' = [tx EXCEPT !.read = balance[RewardAccount(Current)]]
  BY DEF Safe, TxOK, ReadAccount, Working
<1>2. Current \in Rewarding(tx.trade) /\ tx.trade \in Payload
  BY <1>1, CurrentIsTodo DEF Safe, TxOK, Transaction
<1>3. RewardAccount(Current) \in Accounts
  BY <1>2, RewardAccounts
<1>4. balance[RewardAccount(Current)] \in Nat
  BY <1>3 DEF Safe, TypeOK, NonNegative
<1>5. /\ tx' \in Transaction /\ tx'.trade = tx.trade /\ tx'.view = tx.view
      /\ tx'.todo \subseteq tx.todo /\ tx'.share = tx.share /\ tx'.untried = tx.untried
  BY <1>1, <1>4 DEF Transaction
<1> QED  BY <1>1, <1>5, TxStepIsSafe DEF Solvent, ReadAccount, Safe, TxOK

LEMMA AddRewardIsSafe == ASSUME Safe, AddReward PROVE Safe'
<1> DEFINE a      == RewardAccount(Current)
           amount == Amount
           i      == Current
           view   == [tx.view EXCEPT !.balance[a] = tx.read + amount, !.locked = LockedWritten(a)]
           over   == [tx.over EXCEPT ![a] = @ + Seen(a) - tx.read]
<1>1. /\ tx # None /\ tx.todo # {} /\ UNCHANGED vars /\ UNCHANGED history
      /\ tx \in Transaction /\ Solvent(tx.view) /\ tx.read # None
  BY DEF Safe, TxOK, AddReward, Working
<1>2. i \in Rewarding(tx.trade) /\ tx.trade \in Payload /\ i \in Orders
  BY <1>1, CurrentIsTodo DEF Safe, TxOK, Transaction
<1>3. a \in Accounts
  BY <1>2, RewardAccounts
<1>4. tx' = [tx EXCEPT !.view.balance[a] = tx.read + amount, !.view.locked = LockedWritten(a),
                       !.over[a] = @ + Seen(a) - tx.read,
                       !.held = @ \cup {a}, !.given = Given(i, amount),
                       !.todo = @ \ {i}, !.share = None, !.read = None]
  BY DEF AddReward
<1>5. tx.read \in Nat /\ amount \in Nat
  <2>1. amount > 0
    BY DEF AddReward
  <2>2. tx.read \in Nat
    BY <1>1 DEF Transaction
  <2>3. tx.share # None
    BY <1>1 DEF Safe, TxOK
  <2> QED  BY <1>1, <2>2, <2>3, AmountType
<1>6. Given(i, amount) = [tx.given EXCEPT ![i] = amount] /\ LockedWritten(a) = tx.view.locked
  BY DEF Given, LockedWritten
<1>7. Seen(a) \in Int
  BY <1>1, <1>3 DEF Seen, Transaction, Money, Safe, TypeOK
<1> HIDE DEF a, amount, i
<1>8. view \in Money /\ Solvent(view)
  <2>1. tx.view \in Money
    BY <1>1 DEF Transaction
  <2>2. view.ok = tx.view.ok /\ view.rows = tx.view.rows /\ view.locked = tx.view.locked
        /\ view.balance = [tx.view.balance EXCEPT ![a] = tx.read + amount]
    BY <1>6, <2>1 DEF Money
  <2>3. view \in Money
    <3>1. [tx.view.balance EXCEPT ![a] = tx.read + amount] \in [Accounts -> Int]
      BY <1>3, <1>5, <2>1 DEF Money
    <3>2. view = [tx.view EXCEPT !.balance = [tx.view.balance EXCEPT ![a] = tx.read + amount]]
      BY <1>6, <2>1 DEF Money
    <3> QED  BY <2>1, <3>1, <3>2 DEF Money
  <2> HIDE DEF view
  <2>4. Solvent(view)
    BY <1>1, <1>3, <1>5, <2>1, <2>2 DEF Solvent, Money
  <2> QED  BY <2>3, <2>4
<1>9. over \in [Accounts -> Int]
  BY <1>1, <1>3, <1>5, <1>7 DEF Transaction
<1>10. Given(i, amount) \in [Orders -> Nat]
  BY <1>1, <1>2, <1>5, <1>6 DEF Transaction
<1>11. tx' = [tx EXCEPT !.view = view, !.over = over, !.held = @ \cup {a}, !.given = Given(i, amount),
                        !.todo = @ \ {i}, !.share = None, !.read = None]
  BY <1>1, <1>4 DEF Transaction
<1> HIDE DEF view, over
<1>12. /\ tx' \in Transaction /\ tx'.trade = tx.trade /\ tx'.view = view
       /\ tx'.todo \subseteq tx.todo /\ tx'.read = None /\ tx'.untried = tx.untried
  BY <1>1, <1>3, <1>8, <1>9, <1>10, <1>11 DEF Transaction
<1> QED  BY <1>1, <1>8, <1>12, TxStepIsSafe DEF Safe, TxOK

\* The ends of a transaction.
LEMMA NoRewardIsSafe == ASSUME Safe, NoReward PROVE Safe'
<1>1. /\ tx' = None /\ tx # None /\ tx \in Transaction
      /\ UNCHANGED <<rows, balance, lockedFunds, revenue, external, api, requests, startup,
                     producing, restarts, raced, history>>
      /\ announced' = announced \cup
           {Message(i, tx.view.rows[i]) : i \in {j \in Real(tx.trade) : tx.view.rows[j].state = "wait"}}
  BY DEF Safe, TxOK, NoReward, Working, accounts, processor
<1>2. announced' \subseteq Messages
  <2>1. ASSUME NEW j \in Real(tx.trade) PROVE Message(j, tx.view.rows[j]) \in Messages
    <3>1. j \in Orders
      BY <1>1 DEF Real, Payload, Transaction
    <3>2. tx.view.rows[j] \in Row
      BY <1>1, <3>1 DEF Transaction, Money
    <3> QED  BY <3>1, <3>2, RowTypes
  <2> QED  BY <1>1, <2>1 DEF Safe, TypeOK
<1>3. TypeOK' /\ NonNegative' /\ HistoryOK'
  BY <1>1, <1>2 DEF history, Safe, TypeOK, NonNegative, HistoryOK
<1> QED  BY <1>1, <1>3 DEF Safe, TxOK

LEMMA BookRevenuesIsSafe == ASSUME Safe, BookRevenues PROVE Safe'
<1>1. /\ tx # None /\ tx \in Transaction /\ tx' = [tx EXCEPT !.booked = TRUE]
      /\ UNCHANGED <<rows, balance, lockedFunds, external, api, requests, startup, producing,
                     restarts, announced, raced, history>>
      /\ revenue' = [c \in Currencies |-> revenue[c] + Booking(c)]
  BY DEF Safe, TxOK, BookRevenues, processor
<1>2. revenue' \in [Currencies -> Int]
  BY <1>1, BookingType DEF Safe, TypeOK
<1>3. TypeOK' /\ NonNegative' /\ HistoryOK'
  BY <1>1, <1>2 DEF history, Safe, TypeOK, NonNegative, HistoryOK
<1>4. /\ tx' \in Transaction /\ tx'.trade = tx.trade /\ tx'.view = tx.view /\ tx'.todo = tx.todo
      /\ tx'.read = tx.read /\ tx'.share = tx.share /\ tx'.untried = tx.untried
  BY <1>1 DEF Transaction
<1>5. TxOK'
  <2>1. tx.trade \in Payload /\ EnginePublishes(tx.trade) /\ tx.todo \subseteq Rewarding(tx.trade)
    BY <1>1 DEF Safe, TxOK, Transaction
  <2>2. announced \subseteq announced'
    BY <1>1
  <2>3. ASSUME NEW u \in Payload, EnginePublishes(u) PROVE EnginePublishes(u)'
    BY <2>2, <2>3, StillPublished
  <2> QED  BY <1>1, <1>4, <2>1, <2>3 DEF Safe, TxOK, Solvent
<1> QED  BY <1>3, <1>5 DEF Safe

LEMMA CommitIsSafe == ASSUME Safe, Commit PROVE Safe'
<1>1. /\ tx' = None /\ tx \in Transaction /\ Solvent(tx.view) /\ EnginePublishes(tx.trade)
      /\ UNCHANGED <<revenue, api, requests, startup, producing, restarts, announced, raced,
                     crashes, excess>>
  BY DEF Safe, TxOK, Commit, processor
<1>2. tx.view \in Money /\ tx.trade \in Payload /\ tx.over \in [Accounts -> Int]
  BY <1>1 DEF Transaction
<1>3. rows' \in [Orders -> Row]
  BY <1>2 DEF Commit, Money, Safe, TypeOK
<1>4. /\ balance' \in [Accounts -> Int] /\ lockedFunds' \in [Accounts -> Int]
      /\ NonNegative'
  BY <1>1, <1>2 DEF Commit, Money, Safe, TypeOK, NonNegative, Seen, Solvent
<1>5. external' \in [Currencies -> Int]
  BY <1>1, <1>2, BookedTypes DEF Commit, Safe, TypeOK
<1>6. HistoryOK'
  BY <1>1, <1>2 DEF Commit, Safe, HistoryOK
<1>7. TypeOK'
  BY <1>1, <1>3, <1>4, <1>5 DEF Safe, TypeOK
<1> QED  BY <1>1, <1>4, <1>6, <1>7 DEF Safe, TxOK

LEMMA CrashIsSafe == ASSUME Safe, Crash PROVE Safe'
<1>1. \A c \in Currencies : Booking(c) \in Int
  BY BookingType DEF Crash
<1>2. HistoryOK'
  BY <1>1 DEF Crash, Safe, HistoryOK
<1>3. TypeOK' /\ NonNegative'
  BY DEF Crash, vars, Safe, TypeOK, NonNegative
<1> QED  BY <1>2, <1>3 DEF Safe, TxOK, Crash

\* A step of Settlement beside the transaction.
LEMMA BesideIsSafe ==
  ASSUME Safe, UNCHANGED <<tx, history>>, TypeOK', NonNegative', announced \subseteq announced'
  PROVE  Safe'
<1>1. HistoryOK'
  BY DEF Safe, HistoryOK, history
<1>2. ASSUME NEW u \in Payload, EnginePublishes(u) PROVE EnginePublishes(u)'
  BY <1>2, StillPublished
<1>3. ASSUME tx # None PROVE tx.trade \in Payload
  BY <1>3 DEF Safe, TxOK, Transaction
<1> QED  BY <1>1, <1>2, <1>3 DEF Safe, TxOK, Solvent

LEMMA SettlementStepIsSafe ==
  ASSUME Safe, UNCHANGED <<tx, history>>, Next, announced \subseteq announced'
  PROVE  Safe'
BY SafeNext, BesideIsSafe DEF Safe

\* The invariant of the ledger.
LEMMA LedgerSafeNext == Safe /\ [LedgerNext]_ledgerVars => Safe'
<1> SUFFICES ASSUME Safe, [LedgerNext]_ledgerVars PROVE Safe'
  OBVIOUS
<1>1. ASSUME NEW t \in Payload, Begin(t) PROVE Safe'
  BY <1>1, BeginIsSafe
<1>2. ASSUME NEW t \in Payload, Refused(t) PROVE Safe'
  <2>1. announced \subseteq announced' /\ Next
    BY <1>2 DEF Refused, RefuseTrade, Refuse, Next, TradeExecutor
  <2> QED  BY <1>2, <2>1, SettlementStepIsSafe DEF Refused
<1>3. ASSUME NEW i \in Orders, Submit(i) PROVE Safe'
  <2>1. announced' = announced /\ Next
    BY <1>3 DEF Submit, HandleSubmit, SubmitOrder, Next, OrderProcessor
  <2> QED  BY <1>3, <2>1, SettlementStepIsSafe DEF Submit
<1>4. ASSUME NEW i \in Orders, Cancel(i) PROVE Safe'
  <2>1. announced' = announced /\ Next
    BY <1>4 DEF Cancel, HandleCancel, Next, OrderProcessor
  <2> QED  BY <1>4, <2>1, SettlementStepIsSafe DEF Cancel
<1>5. ASSUME Produce PROVE Safe'
  <2>1. announced \subseteq announced' /\ Next
    BY <1>5 DEF Produce, ProduceMatching, Next, OrderProcessor
  <2> QED  BY <1>5, <2>1, SettlementStepIsSafe DEF Produce
<1>6. CASE UNCHANGED ledgerVars
  <2>1. TypeOK' /\ NonNegative' /\ announced \subseteq announced'
    BY <1>6 DEF ledgerVars, vars, Safe, TypeOK, NonNegative
  <2> QED  BY <1>6, <2>1, BesideIsSafe DEF ledgerVars
<1> QED
  BY <1>1, <1>2, <1>3, <1>4, <1>5, <1>6, TakeShareIsSafe, PassShareIsSafe, ReadAccountIsSafe, AddRewardIsSafe,
     NoRewardIsSafe, BookRevenuesIsSafe, CommitIsSafe, CrashIsSafe DEF LedgerNext, Executor

\* No account is overdrawn, although a reward writes a balance that was read without
\* a lock, and whatever the order_processor does before it is written.
THEOREM NeverOverdrawnByRewards == LedgerSpec => []NonNegative
<1>1. Safe => NonNegative
  BY DEF Safe
<1> QED  BY <1>1, LedgerSafeInit, LedgerSafeNext, PTL DEF LedgerSpec

-----------------------------------------------------------------------------
(* What a reward writes over. *)

\* Some order locks funds of the account.
Own(a) == \E i \in Orders : Outcome(i) = a

\* An account no order locks funds of: while a reward of it is undecided, nothing can have
\* changed it, neither the trade nor another reward.
Untouched(a) ==
  /\ lost[a] = 0
  /\ tx # None =>
       /\ tx.over[a] = 0
       /\ (\E i \in tx.todo : RewardAccount(i) = a) => Seen(a) = balance[a]
       /\ tx.read # None =>
            /\ tx.todo # {}
            /\ RewardAccount(Current) = a => tx.read = balance[a]

LossesExplained == \A a \in Accounts : ~ Own(a) => Untouched(a)

\* The two sides of a trade are rewarded in different currencies.
LEMMA RewardsApart ==
  ASSUME NEW t \in Payload, EnginePublishes(t), NEW i \in Rewarding(t), NEW j \in Real(t)
  PROVE  /\ Income(j) # RewardAccount(i)
         /\ j \in Rewarding(t) /\ j # i => RewardAccount(j) # RewardAccount(i)
<1>1. i \in Orders /\ j \in Orders /\ i \in Real(t)
  BY DEF Rewarding, Real, Payload
<1>2. j # i => Income(j)[2] # Income(i)[2]
  <2>1. j # i => IsBuy(i) # IsBuy(j)
    BY <1>1 DEF EnginePublishes
  <2>2. ASSUME NEW k \in Orders
        PROVE  /\ Details[k].side = "buy" => Income(k)[2] = "base"
               /\ Details[k].side # "buy" => Income(k)[2] = "quote"
    BY DEF Income, IsBuy
  <2>3. ASSUME NEW k \in Orders, NEW l \in Orders, Details[k].side = "buy", Details[l].side # "buy"
        PROVE  Income(k)[2] # Income(l)[2]
    BY <2>2, <2>3
  <2>4. j # i => (Details[i].side = "buy") # (Details[j].side = "buy")
    BY <2>1 DEF IsBuy
  <2>5. CASE Details[i].side = "buy"
    BY <1>1, <2>3, <2>4, <2>5
  <2>6. CASE Details[i].side # "buy"
    BY <1>1, <2>3, <2>4, <2>6
  <2> QED  BY <2>5, <2>6
<1>3. Income(i) # RewardAccount(i)
  <2>1. RewardAccount(i)[1] # Details[i].member
    BY RewardAccounts
  <2>2. Income(i)[1] = Details[i].member
    BY DEF Income
  <2> QED  BY <2>1, <2>2
<1>4. RewardAccount(i)[2] = Income(i)[2]
  BY RewardAccounts
<1>5. j \in Rewarding(t) => RewardAccount(j)[2] = Income(j)[2]
  BY RewardAccounts
<1> QED  BY <1>2, <1>3, <1>4, <1>5

\* A strike changes the balances of the two accounts of its order only.
LEMMA StrikeBalance ==
  ASSUME NEW s \in Money, NEW i \in Orders, NEW t \in Payload,
         NEW a \in Accounts, a # Income(i), a # Outcome(i)
  PROVE  Strike(s, i, t).balance[a] = s.balance[a]
<1> DEFINE row    == StruckRow(s.rows[i], i, t)
           funds  == s.locked[Outcome(i)]
           pay    == Scale * Pays(i, t)
           refund == Scale * Refund(row)
           net    == Net(i, t)
           new    == [s.balance EXCEPT ![Income(i)] = @ + net, ![Outcome(i)] = @ + refund]
<1>1. Strike(s, i, t).balance = s.balance \/ Strike(s, i, t).balance = new
  <2> HIDE DEF row, funds, pay, refund, net
  <2>1. Strike(s, i, t) =
          IF ~ (s.ok /\ Covered(pay, funds) /\ net > 0)
          THEN [s EXCEPT !.ok = FALSE]
          ELSE [ok      |-> refund = 0 \/ Covered(refund, funds - pay),
                rows    |-> [s.rows EXCEPT ![i] = row],
                balance |-> new,
                locked  |-> [s.locked EXCEPT ![Outcome(i)] = @ - pay - refund]]
    BY DEF Strike, row, funds, pay, refund, net
  <2>2. [s EXCEPT !.ok = FALSE].balance = s.balance
    BY DEF Money
  <2> HIDE DEF new
  <2> QED  BY <2>1, <2>2
<1>2. new[a] = s.balance[a]
  <2> HIDE DEF net, refund
  <2> QED  BY DEF Money
<1> QED  BY <1>1, <1>2

LEMMA StruckBalance ==
  ASSUME TypeOK, NEW t \in Payload, EnginePublishes(t), Valid(t), NEW a \in Accounts,
         \A j \in Real(t) : a # Income(j) /\ a # Outcome(j)
  PROVE  Struck(t).balance[a] = balance[a]
<1> DEFINE s0 == [ok |-> TRUE, rows |-> rows, balance |-> balance, locked |-> lockedFunds]
           s1 == IF t.maker = Fake THEN s0 ELSE Strike(s0, t.maker, t)
<1>1. s0 \in Money /\ s0.balance = balance /\ s0.rows = rows
  BY DEF TypeOK, Money
<1>2. /\ t.maker # Fake => t.maker \in Orders /\ t.maker \in Real(t) /\ rows[t.maker].volume >= t.quantity
      /\ t.taker # Fake => t.taker \in Orders /\ t.taker \in Real(t)
  BY DEF Payload, Real, Valid, VolumesSuffice
<1>3. Struck(t) = IF t.taker = Fake THEN s1 ELSE Strike(s1, t.taker, t)
  BY DEF Struck
<1> HIDE DEF s0
<1>4. s1 \in Money /\ s1.balance[a] = balance[a]
  <2>1. CASE t.maker = Fake
    BY <1>1, <2>1
  <2>2. CASE t.maker # Fake
    <3>1. Strike(s0, t.maker, t) \in Money
      BY <1>1, <1>2, <2>2, StrikeIsSound
    <3>2. Strike(s0, t.maker, t).balance[a] = s0.balance[a]
      BY <1>1, <1>2, <2>2, StrikeBalance
    <3> QED  BY <1>1, <2>2, <3>1, <3>2
  <2> QED  BY <2>1, <2>2
<1> HIDE DEF s1
<1>5. CASE t.taker = Fake
  BY <1>3, <1>4, <1>5
<1>6. CASE t.taker # Fake
  BY <1>2, <1>3, <1>4, <1>6, StrikeBalance
<1> QED  BY <1>5, <1>6

LEMMA BeginTouchesNothing ==
  ASSUME Safe, NEW a \in Accounts, ~ Own(a), Untouched(a), NEW t \in Payload, Begin(t)
  PROVE  Untouched(a)'
<1>1. /\ UNCHANGED <<balance, lost>> /\ tx' = Open(t) /\ EnginePublishes(t) /\ Valid(t)
  BY DEF Begin, vars, history
<1>2. /\ tx'.todo = Rewarding(t) /\ tx'.read = None /\ tx'.view = Struck(t)
      /\ tx'.over[a] = 0
  BY <1>1 DEF Open
<1>3. ASSUME NEW i \in Rewarding(t), RewardAccount(i) = a
      PROVE  Struck(t).balance[a] = balance[a]
  <2>1. \A j \in Real(t) : a # Income(j) /\ a # Outcome(j)
    BY <1>1, <1>3, RewardsApart DEF Own, Real, Payload
  <2> QED  BY <1>1, <2>1, StruckBalance DEF Safe
<1>4. lost'[a] = 0 /\ balance'[a] = balance[a]
  BY <1>1 DEF Untouched
<1>5. (\E i \in tx'.todo : RewardAccount(i) = a) => Seen(a)' = balance'[a]
  BY <1>2, <1>3, <1>4 DEF Seen
<1> QED  BY <1>2, <1>4, <1>5 DEF Untouched

\* The turns of the loop, up to the reading of the account.
LEMMA LookingTouchesNothing ==
  ASSUME Safe, NEW a \in Accounts, Untouched(a), TakeShare \/ PassShare \/ ReadAccount \/ BookRevenues
  PROVE  Untouched(a)'
<1>1. tx # None /\ tx \in Transaction /\ UNCHANGED <<balance, lost>>
  BY DEF Safe, TxOK, TakeShare, PassShare, ReadAccount, BookRevenues, Working, vars, history
<1>2. /\ tx'.over = tx.over /\ tx'.view = tx.view /\ tx'.held = tx.held /\ tx'.trade = tx.trade
      /\ tx'.todo \subseteq tx.todo
  BY <1>1 DEF TakeShare, PassShare, ReadAccount, BookRevenues, Transaction
<1>3. tx' # None => Seen(a)' = Seen(a)
  BY <1>1, <1>2 DEF Seen, HoldsAccount, Parties, Real
<1>4. tx'.read # None => tx'.todo = tx.todo /\ tx.todo # {} /\ tx'.read = balance[RewardAccount(Current)]
  BY <1>1 DEF Safe, TxOK, TakeShare, PassShare, ReadAccount, BookRevenues, Working, Transaction, Untouched
<1>5. tx'.todo = tx.todo => Current' = Current
  BY DEF Current, IsBuy
<1> QED  BY <1>1, <1>2, <1>3, <1>4, <1>5 DEF Untouched

LEMMA RewardTouchesNothing ==
  ASSUME Safe, NEW a \in Accounts, Untouched(a), AddReward
  PROVE  Untouched(a)'
<1> DEFINE i == Current
           r == RewardAccount(i)
<1>1. /\ tx # None /\ tx.todo # {} /\ tx \in Transaction /\ tx.read # None
      /\ UNCHANGED <<balance, lost>>
  BY DEF Safe, TxOK, AddReward, Working, vars, history
<1>2. /\ i \in Rewarding(tx.trade) /\ tx.trade \in Payload /\ EnginePublishes(tx.trade) /\ i \in tx.todo
      /\ tx.todo \subseteq Rewarding(tx.trade)
  BY <1>1, CurrentIsTodo DEF Safe, TxOK, Transaction
<1>3. r \in Accounts
  BY <1>2, RewardAccounts
<1>4. /\ tx'.over = [tx.over EXCEPT ![r] = @ + Seen(r) - tx.read]
      /\ tx'.view.balance = [tx.view.balance EXCEPT ![r] = tx.read + Amount]
      /\ tx'.held = tx.held \cup {r} /\ tx'.trade = tx.trade
      /\ tx'.todo = tx.todo \ {i} /\ tx'.read = None
  BY <1>1, <1>3 DEF AddReward, Transaction, Money
<1>5. lost'[a] = 0 /\ balance'[a] = balance[a]
  BY <1>1 DEF Untouched
<1>6. CASE r = a
  <2>1. Seen(a) = balance[a] /\ tx.read = balance[a] /\ tx.over[a] = 0
    BY <1>1, <1>2, <1>6 DEF Untouched
  <2>2. tx'.over[a] = 0
    <3>1. balance[a] \in Int /\ tx.over \in [Accounts -> Int]
      BY <1>1 DEF Safe, TypeOK, Transaction
    <3> QED  BY <1>4, <1>6, <2>1, <3>1
  <2>3. ~ \E j \in tx'.todo : RewardAccount(j) = a
    <3>1. ASSUME NEW j \in tx.todo \ {i} PROVE RewardAccount(j) # r
      <4>1. j \in Rewarding(tx.trade) /\ j \in Real(tx.trade) /\ j # i
        BY <1>2 DEF Rewarding
      <4> QED  BY <1>2, <4>1, RewardsApart
    <3> QED  BY <1>4, <1>6, <3>1
  <2> QED  BY <1>4, <1>5, <2>2, <2>3 DEF Untouched, RewardAccount
<1>7. CASE r # a
  <2>1. tx'.over[a] = tx.over[a] /\ tx'.view.balance[a] = tx.view.balance[a]
    BY <1>1, <1>4, <1>7 DEF Transaction, Money
  <2>2. tx' # None => Seen(a)' = Seen(a)
    BY <1>1, <1>4, <1>5, <1>7, <2>1 DEF Seen, HoldsAccount, Parties, Real
  <2> QED  BY <1>1, <1>4, <1>5, <2>1, <2>2 DEF Untouched, RewardAccount
<1> QED  BY <1>6, <1>7

\* The ends of a transaction.
LEMMA EndTouchesNothing ==
  ASSUME Safe, NEW a \in Accounts, Untouched(a), NoReward \/ Commit \/ Crash
  PROVE  Untouched(a)'
<1>1. tx' = None
  BY DEF NoReward, Commit, Crash
<1>2. tx # None
  BY DEF NoReward, Commit, Crash, Working
<1>3. lost'[a] = 0
  <2>1. CASE lost' = lost
    BY <2>1 DEF Untouched
  <2>2. CASE Commit
    BY <1>2, <2>2 DEF Commit, Untouched
  <2> QED  BY <2>1, <2>2 DEF NoReward, Crash, history
<1> QED  BY <1>1, <1>3 DEF Untouched

\* The order_processor moves funds of the account of an order only.
LEMMA BesideTouchesNothing ==
  ASSUME Safe, NEW a \in Accounts, ~ Own(a), Untouched(a), UNCHANGED <<tx, history>>,
         \/ \E t \in Payload : RefuseTrade(t)
         \/ ProduceMatching
         \/ \E i \in Orders : HandleSubmit(i) \/ HandleCancel(i)
         \/ UNCHANGED vars
  PROVE  Untouched(a)'
<1>1. balance'[a] = balance[a]
  <2>1. ASSUME NEW i \in Orders PROVE a # Outcome(i)
    BY DEF Own
  <2>2. CASE balance' = balance
    BY <2>2
  <2>3. ASSUME NEW i \in Orders, HandleSubmit(i) PROVE balance'[a] = balance[a]
    BY <2>1, <2>3 DEF HandleSubmit, SubmitOrder, accounts, Safe, TypeOK
  <2>4. ASSUME NEW i \in Orders, HandleCancel(i) PROVE balance'[a] = balance[a]
    BY <2>1, <2>4 DEF HandleCancel, accounts, Safe, TypeOK
  <2>5. ASSUME NEW t \in Payload, RefuseTrade(t) PROVE balance' = balance
    BY <2>5 DEF RefuseTrade, Refuse, accounts
  <2>6. CASE ProduceMatching
    BY <2>6 DEF ProduceMatching, accounts
  <2>7. CASE UNCHANGED vars
    BY <2>7 DEF vars
  <2> QED  BY <2>3, <2>4, <2>5, <2>6, <2>7
<1>2. lost' = lost /\ tx' = tx
  BY DEF history
<1>3. Seen(a)' = IF HoldsAccount(a) THEN tx.view.balance[a] ELSE balance[a]
  BY <1>1, <1>2 DEF Seen, HoldsAccount, Parties, Real
<1>4. Current' = Current
  BY <1>2 DEF Current, IsBuy
<1> QED  BY <1>1, <1>2, <1>3, <1>4 DEF Untouched, RewardAccount, Seen

LEMMA ExplainedNext ==
  ASSUME Safe, LossesExplained, [LedgerNext]_ledgerVars
  PROVE  LossesExplained'
<1> SUFFICES ASSUME NEW a \in Accounts, ~ Own(a) PROVE Untouched(a)'
  BY DEF LossesExplained, Own
<1>1. Untouched(a)
  BY DEF LossesExplained
<1>2. CASE \E t \in Payload : Begin(t)
  BY <1>1, <1>2, BeginTouchesNothing
<1>3. CASE TakeShare \/ PassShare \/ ReadAccount \/ BookRevenues
  BY <1>1, <1>3, LookingTouchesNothing
<1>4. CASE AddReward
  BY <1>1, <1>4, RewardTouchesNothing
<1>5. CASE NoReward \/ Commit \/ Crash
  BY <1>1, <1>5, EndTouchesNothing
<1>6. CASE \E t \in Payload : Refused(t)
  BY <1>1, <1>6, BesideTouchesNothing DEF Refused
<1>7. CASE Produce
  BY <1>1, <1>7, BesideTouchesNothing DEF Produce
<1>8. CASE \E i \in Orders : Submit(i) \/ Cancel(i)
  BY <1>1, <1>8, BesideTouchesNothing DEF Submit, Cancel
<1>9. CASE UNCHANGED ledgerVars
  BY <1>1, <1>9, BesideTouchesNothing DEF ledgerVars
<1> QED  BY <1>2, <1>3, <1>4, <1>5, <1>6, <1>7, <1>8, <1>9 DEF LedgerNext, Executor

\* A reward writes over another change of an account only where the referrer's own orders
\* lock funds of it: what he earns, by trades or by other rewards, is never lost.
THEOREM LossesAreOwn == LedgerSpec => []LostByOwnOrdersOnly
<1>1. LedgerInit => LossesExplained
  BY DEF LedgerInit, LossesExplained, Untouched
<1>2. Safe /\ LossesExplained => LostByOwnOrdersOnly
  BY DEF LossesExplained, Untouched, Own, LostByOwnOrdersOnly
<1>3. Safe /\ LossesExplained /\ [LedgerNext]_ledgerVars => LossesExplained'
  BY ExplainedNext
<1> QED  BY <1>1, <1>2, <1>3, LedgerSafeInit, LedgerSafeNext, PTL DEF LedgerSpec
-----------------------------------------------------------------------------
(* Where every unit is.  Gap is what the commit of the transaction would    *)
(* add to an account, what it writes over included: summed up it is what    *)
(* the trade takes from a fake order less the fees left to be booked.       *)

\* The accounts of a currency.
Col(f, c) == SumFunction([m \in Members |-> f[<<m, c>>]])

LEMMA ColIsInt ==
  ASSUME NEW f \in [Accounts -> Int], NEW c \in Currencies
  PROVE  Col(f, c) \in Int
<1> DEFINE g == [m \in Members |-> f[<<m, c>>]]
<1>1. \A m \in Members : <<m, c>> \in Accounts
  BY DEF Accounts
<1>2. (\A m \in Members : g[m] \in Int) /\ DOMAIN g = Members
  BY <1>1
<1> HIDE DEF g
<1>3. SumFunctionOnSet(g, Members) \in Int
  BY <1>2, TablesAssumption, SumIsInt
<1> QED  BY <1>2, <1>3 DEF Col, SumFunction, g

Plus(f, g, h) ==
  /\ f \in [Accounts -> Int] /\ g \in [Accounts -> Int] /\ h \in [Accounts -> Int]
  /\ \A a \in Accounts : h[a] = f[a] + g[a]

LEMMA ColAdds ==
  ASSUME NEW f, NEW g, NEW h, Plus(f, g, h), NEW c \in Currencies
  PROVE  Col(h, c) = Col(f, c) + Col(g, c)
<1> DEFINE x == [m \in Members |-> f[<<m, c>>]]
           y == [m \in Members |-> g[<<m, c>>]]
           z == [m \in Members |-> h[<<m, c>>]]
<1>1. \A m \in Members : <<m, c>> \in Accounts
  BY DEF Accounts
<1>2. \A m \in Members : x[m] \in Int /\ y[m] \in Int /\ z[m] = x[m] + y[m]
  BY <1>1 DEF Plus
<1>3. /\ Col(f, c) = SumFunctionOnSet(x, Members) /\ Col(g, c) = SumFunctionOnSet(y, Members)
      /\ Col(h, c) = SumFunctionOnSet(z, Members)
  BY DEF Col, SumFunction
<1> HIDE DEF x, y, z
<1>4. SumFunctionOnSet(z, Members) = SumFunctionOnSet(x, Members) + SumFunctionOnSet(y, Members)
  BY <1>2, TablesAssumption, SumsAdd
<1> QED  BY <1>3, <1>4

LEMMA ColSame ==
  ASSUME NEW f, NEW g, NEW c \in Currencies, \A a \in Accounts : f[a] = g[a]
  PROVE  Col(f, c) = Col(g, c)
<1>1. \A m \in Members : <<m, c>> \in Accounts
  BY DEF Accounts
<1>2. [m \in Members |-> f[<<m, c>>]] = [m \in Members |-> g[<<m, c>>]]
  BY <1>1
<1> QED  BY <1>2 DEF Col

\* One account has d more.
GainsAt(f, g, e, d) ==
  /\ f \in [Accounts -> Int] /\ g \in [Accounts -> Int] /\ e \in Accounts /\ d \in Int
  /\ g[e] = f[e] + d
  /\ \A a \in Accounts \ {e} : g[a] = f[a]

LEMMA ColGains ==
  ASSUME NEW f, NEW g, NEW e, NEW d, GainsAt(f, g, e, d), NEW c \in Currencies
  PROVE  Col(g, c) = Col(f, c) + IF e[2] = c THEN d ELSE 0
<1> DEFINE x == [m \in Members |-> f[<<m, c>>]]
           y == [m \in Members |-> g[<<m, c>>]]
<1>1. \A m \in Members : <<m, c>> \in Accounts
  BY DEF Accounts
<1>2. \A m \in Members : x[m] \in Int /\ y[m] \in Int
  BY <1>1 DEF GainsAt
<1>3. Col(f, c) = SumFunctionOnSet(x, Members) /\ Col(g, c) = SumFunctionOnSet(y, Members)
  BY DEF Col, SumFunction
<1>4. e[1] \in Members /\ e = <<e[1], e[2]>> /\ d \in Int
  BY DEF GainsAt, Accounts
<1>5. CASE e[2] = c
  <2>1. y[e[1]] = x[e[1]] + d /\ \A m \in Members \ {e[1]} : y[m] = x[m]
    BY <1>1, <1>4, <1>5 DEF GainsAt
  <2> HIDE DEF x, y
  <2>2. SumFunctionOnSet(y, Members) = SumFunctionOnSet(x, Members) + y[e[1]] - x[e[1]]
    BY <1>2, <1>4, <2>1, TablesAssumption, SumChangesAt
  <2>3. SumFunctionOnSet(x, Members) \in Int /\ x[e[1]] \in Int
    BY <1>2, <1>4, TablesAssumption, SumIsInt
  <2> QED  BY <1>3, <1>4, <1>5, <2>1, <2>2, <2>3
<1>6. CASE e[2] # c
  <2>1. \A m \in Members : y[m] = x[m]
    BY <1>1, <1>4, <1>6 DEF GainsAt
  <2> HIDE DEF x, y
  <2>2. SumFunctionOnSet(y, Members) = SumFunctionOnSet(x, Members)
    BY <2>1, TablesAssumption, SumOfSame
  <2>3. SumFunctionOnSet(x, Members) \in Int
    BY <1>2, TablesAssumption, SumIsInt
  <2> QED  BY <1>3, <1>6, <2>2, <2>3
<1> QED  BY <1>5, <1>6

\* The locked funds inside the transaction.
SeenLocked(a) == IF a[1] \in Parties THEN tx.view.locked[a] ELSE lockedFunds[a]

Gap(a) == Seen(a) + SeenLocked(a) + tx.over[a] - balance[a] - lockedFunds[a]

Gaps == [a \in Accounts |-> Gap(a)]

Stock == [a \in Accounts |-> balance[a] + lockedFunds[a] + lost[a]]

\* Revenues that are booked for a transaction that has not committed yet.
BookedAhead(c) == IF tx # None /\ tx.booked THEN Booking(c) ELSE 0

StockAdds ==
  \A c \in Currencies :
    Col(Stock, c) + revenue[c] - excess[c] + external[c] - BookedAhead(c) = Col(Funds, c)

GapsAdd ==
  tx # None =>
    /\ \A c \in Currencies : Col(Gaps, c) = - FakeReceives(c, tx.trade) - Booking(c)
    /\ \A i \in tx.todo : tx.given[i] = 0
    /\ tx.booked => tx.todo = {}

Adds == StockAdds /\ GapsAdd

LEMMA GapTypes ==
  ASSUME Safe, tx # None
  PROVE  /\ Gaps \in [Accounts -> Int]
         /\ \A a \in Accounts : Seen(a) \in Int /\ SeenLocked(a) \in Int /\ tx.over[a] \in Int
<1>1. ASSUME NEW a \in Accounts
      PROVE  Seen(a) \in Int /\ SeenLocked(a) \in Int /\ tx.over[a] \in Int
             /\ balance[a] \in Int /\ lockedFunds[a] \in Int
  BY DEF Safe, TypeOK, TxOK, Transaction, Money, Seen, SeenLocked
<1>2. \A a \in Accounts : Gap(a) \in Int
  BY <1>1 DEF Gap
<1> QED  BY <1>1, <1>2 DEF Gaps

LEMMA StockType == ASSUME Safe PROVE Stock \in [Accounts -> Int]
BY DEF Safe, TypeOK, HistoryOK, Stock

\* A strike changes the locked funds of its order's account only.
LEMMA StrikeLocked ==
  ASSUME NEW s \in Money, NEW i \in Orders, NEW t \in Payload,
         NEW a \in Accounts, a # Outcome(i)
  PROVE  Strike(s, i, t).locked[a] = s.locked[a]
<1> DEFINE pay    == Scale * Pays(i, t)
           refund == Scale * Refund(StruckRow(s.rows[i], i, t))
           new    == [s.locked EXCEPT ![Outcome(i)] = @ - pay - refund]
<1>1. Strike(s, i, t).locked \in {s.locked, new}
  BY DEF Strike, Money
<1> HIDE DEF pay, refund
<1>2. new[a] = s.locked[a]
  BY DEF Money
<1> HIDE DEF new
<1> QED  BY <1>1, <1>2

\* The strikes of a trade leave the accounts of the others alone.
LEMMA StruckElsewhere ==
  ASSUME TypeOK, NEW t \in Payload, EnginePublishes(t), Valid(t), NEW a \in Accounts,
         \A j \in Real(t) : Details[j].member # a[1]
  PROVE  Struck(t).balance[a] = balance[a] /\ Struck(t).locked[a] = lockedFunds[a]
<1> DEFINE s0 == [ok |-> TRUE, rows |-> rows, balance |-> balance, locked |-> lockedFunds]
           s1 == IF t.maker = Fake THEN s0 ELSE Strike(s0, t.maker, t)
<1>0. \A j \in Real(t) : a # Income(j) /\ a # Outcome(j)
  BY DEF Income, Outcome
<1>1. s0 \in Money /\ s0.locked = lockedFunds /\ s0.rows = rows
  BY DEF TypeOK, Money
<1>2. /\ t.maker # Fake => t.maker \in Orders /\ t.maker \in Real(t) /\ rows[t.maker].volume >= t.quantity
      /\ t.taker # Fake => t.taker \in Orders /\ t.taker \in Real(t)
  BY DEF Payload, Real, Valid, VolumesSuffice
<1>3. Struck(t) = IF t.taker = Fake THEN s1 ELSE Strike(s1, t.taker, t)
  BY DEF Struck
<1>4. s1 = IF t.maker = Fake THEN s0 ELSE Strike(s0, t.maker, t)
  OBVIOUS
<1> HIDE DEF s0, s1
<1>5. s1 \in Money /\ s1.locked[a] = lockedFunds[a]
  <2>1. CASE t.maker = Fake
    BY <1>1, <1>4, <2>1
  <2>2. CASE t.maker # Fake
    <3>1. Strike(s0, t.maker, t) \in Money
      BY <1>1, <1>2, <2>2, StrikeIsSound
    <3>2. Strike(s0, t.maker, t).locked[a] = s0.locked[a]
      BY <1>0, <1>1, <1>2, <2>2, StrikeLocked
    <3> QED  BY <1>1, <1>4, <2>2, <3>1, <3>2
  <2> QED  BY <2>1, <2>2
<1>6. Struck(t).locked[a] = lockedFunds[a]
  <2>1. CASE t.taker = Fake
    BY <1>3, <1>5, <2>1
  <2>2. CASE t.taker # Fake
    BY <1>0, <1>2, <1>3, <1>5, <2>2, StrikeLocked
  <2> QED  BY <2>1, <2>2
<1>7. Struck(t).balance[a] = balance[a]
  BY <1>0, StruckBalance
<1> QED  BY <1>6, <1>7

LEMMA BeginAdds ==
  ASSUME Safe, Adds, NEW t \in Payload, Begin(t)
  PROVE  Adds'
<1>1. /\ UNCHANGED <<balance, lockedFunds, revenue, external, excess, lost>> /\ tx' = Open(t) /\ tx = None
      /\ EnginePublishes(t) /\ Valid(t) /\ Struck(t).ok
  BY DEF Begin, vars, history
<1>2. /\ tx'.trade = t /\ tx'.view = Struck(t) /\ tx'.held = {} /\ ~ tx'.booked
      /\ tx'.given = [i \in Orders |-> 0] /\ tx'.over = [a \in Accounts |-> 0]
      /\ tx'.todo \subseteq Orders
  BY <1>1 DEF Open, Rewarding, Real, Payload
<1>3. StockAdds'
  <2>1. Stock' = Stock
    BY <1>1 DEF Stock
  <2>2. \A c \in Currencies : BookedAhead(c) = 0 /\ BookedAhead(c)' = 0
    BY <1>1, <1>2 DEF BookedAhead
  <2>3. StockAdds
    BY DEF Adds
  <2> QED  BY <1>1, <2>1, <2>2, <2>3 DEF StockAdds
<1> DEFINE held == [a \in Accounts |-> balance[a] + lockedFunds[a]]
           struck == [a \in Accounts |-> Struck(t).balance[a] + Struck(t).locked[a]]
<1>4. Struck(t) \in Money /\ balance \in [Accounts -> Int] /\ lockedFunds \in [Accounts -> Int]
  BY <1>1, StruckIsSound DEF Safe, TypeOK
<1>5. SUFFICES ASSUME tx' # None PROVE GapsAdd'
  BY <1>3 DEF Adds, GapsAdd
<1>6. ASSUME NEW a \in Accounts
      PROVE  Gap(a)' = (Struck(t).balance[a] + Struck(t).locked[a]) - (balance[a] + lockedFunds[a])
  <2>1. Parties' = {Details[i].member : i \in Real(t)}
    BY <1>2 DEF Parties, Real
  <2>2. Seen(a)' = Struck(t).balance[a] /\ SeenLocked(a)' = Struck(t).locked[a]
    <3>1. CASE a[1] \in Parties'
      BY <1>2, <1>5, <3>1 DEF Seen, HoldsAccount, SeenLocked
    <3>2. CASE a[1] \notin Parties'
      <4>1. Struck(t).balance[a] = balance[a] /\ Struck(t).locked[a] = lockedFunds[a]
        BY <1>1, <2>1, <3>2, StruckElsewhere DEF Safe
      <4>2. ~ HoldsAccount(a)'
        BY <1>2, <3>2 DEF HoldsAccount
      <4> QED  BY <1>1, <3>2, <4>1, <4>2 DEF Seen, SeenLocked
    <3> QED  BY <3>1, <3>2
  <2>3. tx'.over[a] = 0
    BY <1>2
  <2>4. /\ Struck(t).balance[a] \in Int /\ Struck(t).locked[a] \in Int /\ balance[a] \in Int
        /\ lockedFunds[a] \in Int
    BY <1>4 DEF Money
  <2> QED  BY <1>1, <2>2, <2>3, <2>4 DEF Gap
<1>7. ASSUME NEW c \in Currencies
      PROVE  Col(Gaps', c) = - FakeReceives(c, t) - FeesIn(c, t)
  <2>1. Plus(held, Gaps', struck)
    <3>1. held \in [Accounts -> Int] /\ struck \in [Accounts -> Int]
      BY <1>4 DEF Money
    <3>2. \A a \in Accounts : Gaps'[a] = struck[a] - held[a]
      BY <1>6 DEF Gaps
    <3>3. Gaps' \in [Accounts -> Int]
      <4>1. \A a \in Accounts : Gaps'[a] \in Int
        BY <3>1, <3>2
      <4> QED  BY <4>1 DEF Gaps
    <3> HIDE DEF held, struck
    <3> QED  BY <3>1, <3>2, <3>3 DEF Plus
  <2>2. Col(struck, c) = Col(held, c) + Col(Gaps', c)
    BY <2>1, ColAdds
  <2>3. Col(held, c) = Held(balance, lockedFunds, c) /\ Col(struck, c) = Held(Struck(t).balance, Struck(t).locked, c)
    <3>1. \A m \in Members : <<m, c>> \in Accounts
      BY DEF Accounts
    <3>2. /\ [m \in Members |-> held[<<m, c>>]] = [m \in Members |-> balance[<<m, c>>] + lockedFunds[<<m, c>>]]
          /\ [m \in Members |-> struck[<<m, c>>]]
               = [m \in Members |-> Struck(t).balance[<<m, c>>] + Struck(t).locked[<<m, c>>]]
      BY <3>1
    <3> QED  BY <3>2 DEF Col, Held
  <2>4. Held(Struck(t).balance, Struck(t).locked, c)
          = Held(balance, lockedFunds, c) + Brings(t.maker, c, t) + Brings(t.taker, c, t)
    BY <1>1, StruckHolds DEF Safe
  <2>5. /\ Takes(t.maker, c, t) + Takes(t.taker, c, t) + FakeReceives(c, t) = 0
        /\ Takes(t.maker, c, t) \in Int /\ Takes(t.taker, c, t) \in Int
        /\ Fee(t.maker, c, t) \in Int /\ Fee(t.taker, c, t) \in Int
        /\ FakeReceives(c, t) \in Int
    BY <1>1, TradeBalances, BookedTypes
  <2>6. Col(held, c) \in Int /\ Col(Gaps', c) \in Int
    BY <2>1, ColIsInt DEF Plus
  <2> DEFINE tm == Takes(t.maker, c, t)
             tt == Takes(t.taker, c, t)
             fm == Fee(t.maker, c, t)
             ft == Fee(t.taker, c, t)
             fr == FakeReceives(c, t)
             g == Col(Gaps', c)
             h == Col(held, c)
  <2>7. h + g = h + (tm - fm) + (tt - ft)
    BY <2>2, <2>3, <2>4 DEF Brings
  <2>8. FeesIn(c, t) = fm + ft
    BY DEF FeesIn
  <2>9. /\ tm + tt + fr = 0 /\ tm \in Int /\ tt \in Int /\ fm \in Int /\ ft \in Int /\ fr \in Int
        /\ g \in Int /\ h \in Int
    BY <2>5, <2>6
  <2> HIDE DEF tm, tt, fm, ft, fr, g, h, held, struck
  <2>10. g = - fr - (fm + ft)
    BY <2>7, <2>9
  <2> QED  BY <2>8, <2>10 DEF g, fr
<1>8. \A c \in Currencies : Booking(c)' = FeesIn(c, t)
  <2> SUFFICES ASSUME NEW c \in Currencies PROVE Booking(c)' = FeesIn(c, t)
    OBVIOUS
  <2>1. ASSUME NEW i \in {t.maker, t.taker}
        PROVE  Fee(i, c, t) - (IF i # Fake /\ Income(i)[2] = c THEN tx'.given[i] ELSE 0) = Fee(i, c, t)
    <3>1. Fee(i, c, t) \in Int
      BY <1>1, TradeBalances
    <3>2. i # Fake => tx'.given[i] = 0
      BY <1>2 DEF Payload
    <3> QED  BY <3>1, <3>2
  <2>2. /\ FeeLeft(t.maker, c)' = Fee(t.maker, c, t) /\ FeeLeft(t.taker, c)' = Fee(t.taker, c, t)
    <3>1. \A i : FeeLeft(i, c)' = Fee(i, c, tx'.trade)
                                  - (IF i # Fake /\ Income(i)[2] = c THEN tx'.given[i] ELSE 0)
      BY DEF FeeLeft, Fee, Income, IsBuy, Earns, FeeRate
    <3> QED  BY <1>2, <2>1, <3>1
  <2> QED  BY <1>2, <2>2 DEF Booking, FeesIn
<1>9. GapsAdd'
  <2>1. ASSUME NEW c \in Currencies PROVE Col(Gaps, c)' = - FakeReceives(c, tx.trade)' - Booking(c)'
    <3>1. Col(Gaps, c)' = Col(Gaps', c)
      BY DEF Col
    <3>2. FakeReceives(c, tx.trade)' = FakeReceives(c, t)
      BY <1>2 DEF FakeReceives, Takes, Income, IsBuy, Earns, Pays
    <3> QED  BY <1>7, <1>8, <3>1, <3>2
  <2>2. \A i \in tx'.todo : tx'.given[i] = 0
    BY <1>2
  <2> QED  BY <1>2, <2>1, <2>2 DEF GapsAdd
<1> QED  BY <1>9

\* The same transaction before and after, as far as the sums go.
SameSums(tx1, tx2) ==
  /\ tx1.trade = tx2.trade /\ tx1.view = tx2.view /\ tx1.held = tx2.held /\ tx1.over = tx2.over
  /\ tx1.given = tx2.given

LEMMA SameBooking ==
  ASSUME tx' # None, tx # None, tx'.trade = tx.trade, tx'.given = tx.given, NEW c
  PROVE  Booking(c)' = Booking(c) /\ FakeReceives(c, tx.trade)' = FakeReceives(c, tx.trade)
<1>1. \A j : FeeLeft(j, c)' = FeeLeft(j, c)
  BY DEF FeeLeft, Fee, Income, IsBuy, Earns, FeeRate
<1>2. Booking(c)' = Booking(c)
  BY <1>1 DEF Booking
<1>3. FakeReceives(c, tx.trade)' = FakeReceives(c, tx.trade)
  BY DEF FakeReceives, Takes, Income, IsBuy, Earns, Pays
<1> QED  BY <1>2, <1>3

LEMMA LookingAdds ==
  ASSUME Safe, Adds, TakeShare \/ PassShare \/ ReadAccount
  PROVE  Adds'
<1>1. /\ tx # None /\ tx \in Transaction /\ tx.todo # {}
      /\ UNCHANGED <<balance, lockedFunds, revenue, external, excess, lost>>
  BY DEF Safe, TxOK, TakeShare, PassShare, ReadAccount, Working, vars, history
<1>2. /\ SameSums(tx', tx) /\ tx'.booked = tx.booked /\ tx'.todo \subseteq tx.todo
  BY <1>1 DEF TakeShare, PassShare, ReadAccount, Transaction, SameSums
<1>3. ~ tx.booked
  BY <1>1 DEF Adds, GapsAdd
<1>4. Stock' = Stock
  BY <1>1 DEF Stock
<1>5. StockAdds'
  <2>1. \A c \in Currencies : BookedAhead(c) = 0 /\ BookedAhead(c)' = 0
    BY <1>2, <1>3 DEF BookedAhead
  <2> QED  BY <1>1, <1>4, <2>1 DEF Adds, StockAdds
<1>6. SUFFICES ASSUME tx' # None PROVE GapsAdd'
  BY <1>5 DEF Adds, GapsAdd
<1>7. Gaps' = Gaps
  BY <1>1, <1>2, <1>6 DEF Gaps, Gap, Seen, HoldsAccount, Parties, Real, SeenLocked, SameSums
<1>8. \A c \in Currencies : Booking(c)' = Booking(c) /\ FakeReceives(c, tx.trade)' = FakeReceives(c, tx.trade)
  BY <1>1, <1>2, <1>6, SameBooking DEF SameSums
<1>9. \A c : Col(Gaps, c)' = Col(Gaps', c)
  BY DEF Col
<1>10. /\ \A c \in Currencies : Col(Gaps, c) = - FakeReceives(c, tx.trade) - Booking(c)
       /\ \A i \in tx.todo : tx.given[i] = 0
  BY <1>1 DEF Adds, GapsAdd
<1>11. \A c \in Currencies : Col(Gaps, c)' = - FakeReceives(c, tx.trade)' - Booking(c)'
  <2> SUFFICES ASSUME NEW c \in Currencies
               PROVE  Col(Gaps, c)' = - FakeReceives(c, tx.trade)' - Booking(c)'
    OBVIOUS
  <2>1. Col(Gaps, c)' = Col(Gaps, c)
    BY <1>7, <1>9
  <2> QED  BY <1>8, <1>10, <2>1
<1> QED  BY <1>2, <1>3, <1>10, <1>11 DEF GapsAdd, SameSums

\* A reward of x units for order i to account r.
PaysReward(i, r, x) ==
  /\ tx # None /\ tx \in Transaction /\ tx' # None
  /\ i \in tx.todo /\ i \in Orders /\ i \in {tx.trade.maker, tx.trade.taker}
  /\ tx.trade.maker # tx.trade.taker /\ i # Fake
  /\ r \in Accounts /\ r[2] = Income(i)[2] /\ x \in Int /\ tx.read \in Int
  /\ tx'.over = [tx.over EXCEPT ![r] = @ + Seen(r) - tx.read]
  /\ tx'.view.balance = [tx.view.balance EXCEPT ![r] = tx.read + x]
  /\ tx'.view.locked = tx.view.locked
  /\ tx'.held = tx.held \cup {r} /\ tx'.trade = tx.trade
  /\ tx'.todo = tx.todo \ {i} /\ tx'.booked = tx.booked
  /\ tx'.given = [tx.given EXCEPT ![i] = x]
  /\ UNCHANGED <<balance, lockedFunds, revenue, external, excess, lost>>

LEMMA RewardPays ==
  ASSUME Safe, AddReward, tx' # None
  PROVE  \E i \in Orders, r \in Accounts, x \in Int : PaysReward(i, r, x)
<1>1. /\ tx # None /\ tx.todo # {} /\ tx \in Transaction /\ tx.read # None
      /\ UNCHANGED <<balance, lockedFunds, revenue, external, excess, lost>>
  BY DEF Safe, TxOK, AddReward, Working, vars, history
<1>2. /\ Current \in Rewarding(tx.trade) /\ tx.trade \in Payload /\ EnginePublishes(tx.trade)
      /\ Current \in tx.todo
  BY <1>1, CurrentIsTodo DEF Safe, TxOK, Transaction
<1>3. PICK i : i = Current
  OBVIOUS
<1>4. /\ i \in Orders /\ i \in Real(tx.trade) /\ RewardAccount(i) \in Accounts
      /\ RewardAccount(i)[2] = Income(i)[2]
  BY <1>2, <1>3, RewardAccounts
<1>5. PICK r \in Accounts : r = RewardAccount(i)
  BY <1>4
<1>6. PICK x \in Int : x = Amount /\ tx.read \in Int
  <2>1. tx.share # None
    BY <1>1 DEF Safe, TxOK
  <2> QED  BY <1>1, <2>1, AmountType DEF Transaction
<1>7. /\ tx'.over = [tx.over EXCEPT ![r] = @ + Seen(r) - tx.read]
      /\ tx'.view.balance = [tx.view.balance EXCEPT ![r] = tx.read + x]
      /\ tx'.view.locked = tx.view.locked
      /\ tx'.held = tx.held \cup {r} /\ tx'.trade = tx.trade
      /\ tx'.todo = tx.todo \ {i} /\ tx'.booked = tx.booked
      /\ tx'.given = [tx.given EXCEPT ![i] = x]
  BY <1>1, <1>3, <1>5, <1>6 DEF AddReward, Transaction, Money, LockedWritten, Given
<1>8. i # Fake /\ i \in {tx.trade.maker, tx.trade.taker} /\ tx.trade.maker # tx.trade.taker
  BY <1>2, <1>4, FakeAssumption DEF Real, EnginePublishes
<1>9. PaysReward(i, r, x)
  BY <1>1, <1>2, <1>3, <1>4, <1>5, <1>6, <1>7, <1>8 DEF PaysReward
<1> QED  BY <1>4, <1>5, <1>6, <1>9

\* Inside the transaction the account of the reward alone gains, and only the reward: what
\* was written over is counted.
LEMMA RewardGains ==
  ASSUME Safe, NEW i, NEW r, NEW x, PaysReward(i, r, x)
  PROVE  GainsAt(Gaps, Gaps', r, x)
<1>1. /\ tx # None /\ tx \in Transaction /\ tx' # None
      /\ r \in Accounts /\ x \in Int /\ tx.read \in Int
      /\ UNCHANGED <<balance, lockedFunds>>
  BY DEF PaysReward
<1>2. tx.view.balance \in [Accounts -> Int] /\ tx.over \in [Accounts -> Int]
  BY <1>1 DEF Transaction, Money
<1>3. /\ Gaps \in [Accounts -> Int]
      /\ \A a \in Accounts : Seen(a) \in Int /\ SeenLocked(a) \in Int /\ tx.over[a] \in Int
                             /\ balance[a] \in Int /\ lockedFunds[a] \in Int
  BY <1>1, GapTypes DEF Safe, TypeOK
<1>4. Parties' = Parties
  BY DEF PaysReward, Parties, Real
<1>5. \A a \in Accounts : SeenLocked(a)' = SeenLocked(a)
  BY <1>1, <1>4 DEF PaysReward, SeenLocked
<1>6. Seen(r)' = tx.read + x
  <2>1. HoldsAccount(r)'
    BY DEF PaysReward, HoldsAccount
  <2>2. tx'.view.balance[r] = tx.read + x
    BY <1>1, <1>2 DEF PaysReward
  <2> QED  BY <2>1, <2>2 DEF Seen
<1>7. ASSUME NEW a \in Accounts, a # r PROVE Seen(a)' = Seen(a) /\ tx'.over[a] = tx.over[a]
  <2>1. HoldsAccount(a)' <=> HoldsAccount(a)
    BY <1>1, <1>4, <1>7 DEF PaysReward, HoldsAccount
  <2>2. tx'.view.balance[a] = tx.view.balance[a] /\ tx'.over[a] = tx.over[a]
    BY <1>2, <1>7 DEF PaysReward
  <2> QED  BY <1>1, <2>1, <2>2 DEF Seen
<1>8. tx'.over[r] = tx.over[r] + Seen(r) - tx.read
  BY <1>1, <1>2 DEF PaysReward
<1>9. Gap(r)' = Gap(r) + x
  <2>1. Gap(r)' = tx.read + x + SeenLocked(r) + (tx.over[r] + Seen(r) - tx.read) - balance[r] - lockedFunds[r]
    BY <1>1, <1>5, <1>6, <1>8 DEF Gap
  <2>2. Gap(r) = Seen(r) + SeenLocked(r) + tx.over[r] - balance[r] - lockedFunds[r]
    BY DEF Gap
  <2> QED  BY <1>1, <1>3, <2>1, <2>2
<1>10. \A a \in Accounts : a # r => Gap(a)' = Gap(a)
  BY <1>1, <1>5, <1>7 DEF Gap
<1>11. \A a \in Accounts : Gaps[a] = Gap(a) /\ Gaps'[a] = Gap(a)'
  BY DEF Gaps
<1>12. \A a \in Accounts : Gaps'[a] \in Int
  <2> SUFFICES ASSUME NEW a \in Accounts PROVE Gaps'[a] \in Int
    OBVIOUS
  <2>1. Gaps[a] \in Int
    BY <1>3
  <2> QED  BY <1>1, <1>9, <1>10, <1>11, <2>1
<1>13. Gaps' \in [Accounts -> Int]
  BY <1>12 DEF Gaps
<1> QED  BY <1>1, <1>3, <1>9, <1>10, <1>11, <1>13 DEF GainsAt

\* And the fees left are less by the reward.
LEMMA RewardIsFee ==
  ASSUME Safe, Adds, NEW i, NEW r, NEW x, PaysReward(i, r, x), NEW c \in Currencies
  PROVE  /\ Booking(c)' = Booking(c) - IF r[2] = c THEN x ELSE 0
         /\ FakeReceives(c, tx.trade)' = FakeReceives(c, tx.trade)
         /\ Booking(c) \in Int /\ FakeReceives(c, tx.trade) \in Int
<1>1. PICK t : t = tx.trade
  OBVIOUS
<1>2. /\ tx # None /\ tx \in Transaction /\ tx' # None /\ t \in Payload /\ EnginePublishes(t)
      /\ i \in tx.todo /\ i \in Orders /\ i \in {t.maker, t.taker} /\ t.maker # t.taker /\ i # Fake
      /\ r[2] = Income(i)[2] /\ x \in Int /\ tx'.trade = t
  BY <1>1 DEF PaysReward, Safe, TxOK, Transaction
<1>3. tx.given[i] = 0 /\ tx.given \in [Orders -> Nat]
  BY <1>2 DEF Adds, GapsAdd, Transaction
<1>4. FakeReceives(c, tx.trade)' = FakeReceives(c, tx.trade)
  BY <1>1, <1>2 DEF FakeReceives, Takes, Income, IsBuy, Earns, Pays
<1>5. Booking(c) \in Int /\ FakeReceives(c, tx.trade) \in Int
  BY <1>1, <1>2, BookingType, BookedTypes
<1>6. \A j : FeeLeft(j, c) = Fee(j, c, t) - IF j # Fake /\ Income(j)[2] = c THEN tx.given[j] ELSE 0
  BY <1>1 DEF FeeLeft
<1>7. \A j : FeeLeft(j, c)' = Fee(j, c, t) - IF j # Fake /\ Income(j)[2] = c THEN tx'.given[j] ELSE 0
  BY <1>2 DEF FeeLeft, Fee, Income, IsBuy, Earns, FeeRate
<1>8. \A j \in {t.maker, t.taker} : Fee(j, c, t) \in Int /\ (j # Fake => j \in Orders)
  BY <1>2, TradeBalances DEF Payload
<1>9. FeeLeft(i, c)' = FeeLeft(i, c) - IF r[2] = c THEN x ELSE 0
  <2>1. tx'.given[i] = x
    BY <1>2, <1>3 DEF PaysReward
  <2>2. FeeLeft(i, c)' = Fee(i, c, t) - IF r[2] = c THEN x ELSE 0
    BY <1>2, <1>7, <2>1
  <2>3. FeeLeft(i, c) = Fee(i, c, t) - IF r[2] = c THEN 0 ELSE 0
    BY <1>2, <1>3, <1>6
  <2>4. Fee(i, c, t) \in Int
    BY <1>2, <1>8
  <2> QED  BY <1>2, <2>2, <2>3, <2>4
<1>10. ASSUME NEW j \in {t.maker, t.taker}, j # i PROVE FeeLeft(j, c)' = FeeLeft(j, c)
  <2>1. j # Fake => tx'.given[j] = tx.given[j]
    BY <1>3, <1>8, <1>10 DEF PaysReward
  <2> QED  BY <1>6, <1>7, <2>1
<1>11. \A j \in {t.maker, t.taker} : FeeLeft(j, c) \in Int
  <2> SUFFICES ASSUME NEW j \in {t.maker, t.taker} PROVE FeeLeft(j, c) \in Int
    OBVIOUS
  <2>1. j # Fake => tx.given[j] \in Int
    BY <1>3, <1>8
  <2> QED  BY <1>6, <1>8, <2>1
<1>12. Booking(c) = FeeLeft(t.maker, c) + FeeLeft(t.taker, c)
  BY <1>1 DEF Booking
<1>13. Booking(c)' = FeeLeft(t.maker, c)' + FeeLeft(t.taker, c)'
  BY <1>2 DEF Booking, FeeLeft, Fee, Income, IsBuy, Earns, FeeRate
<1>14. Booking(c)' = Booking(c) - IF r[2] = c THEN x ELSE 0
  <2>1. CASE i = t.maker
    BY <1>2, <1>9, <1>10, <1>11, <1>12, <1>13, <2>1
  <2>2. CASE i = t.taker
    BY <1>2, <1>9, <1>10, <1>11, <1>12, <1>13, <2>2
  <2> QED  BY <1>2, <2>1, <2>2
<1> QED  BY <1>4, <1>5, <1>14

\* The reward moves from the fees left to the account of the referrer; what is written
\* over goes to over.
LEMMA RewardAdds ==
  ASSUME Safe, Adds, AddReward
  PROVE  Adds'
<1>1. /\ tx # None /\ tx.todo # {} /\ tx \in Transaction
      /\ UNCHANGED <<balance, lockedFunds, revenue, external, excess, lost>>
  BY DEF Safe, TxOK, AddReward, Working, vars, history
<1>2. ~ tx.booked /\ tx.given \in [Orders -> Nat]
  BY <1>1 DEF Adds, GapsAdd, Transaction
<1>3. tx'.booked = tx.booked
  BY <1>1 DEF AddReward, Transaction
<1>4. StockAdds'
  <2>1. \A c \in Currencies : BookedAhead(c) = 0 /\ BookedAhead(c)' = 0
    BY <1>2, <1>3 DEF BookedAhead
  <2>2. Stock' = Stock
    BY <1>1 DEF Stock
  <2> QED  BY <1>1, <2>1, <2>2 DEF Adds, StockAdds
<1>5. SUFFICES ASSUME tx' # None PROVE GapsAdd'
  BY <1>4 DEF Adds, GapsAdd
<1>6. PICK i \in Orders, r \in Accounts, x \in Int : PaysReward(i, r, x)
  BY <1>5, RewardPays
<1>7. ASSUME NEW c \in Currencies
      PROVE  Col(Gaps, c)' = - FakeReceives(c, tx.trade)' - Booking(c)'
  <2>1. Col(Gaps, c)' = Col(Gaps', c)
    BY DEF Col
  <2>2. Col(Gaps', c) = Col(Gaps, c) + IF r[2] = c THEN x ELSE 0
    BY <1>6, RewardGains, ColGains
  <2>3. Col(Gaps, c) = - FakeReceives(c, tx.trade) - Booking(c)
    BY <1>1 DEF Adds, GapsAdd
  <2>4. /\ Booking(c)' = Booking(c) - IF r[2] = c THEN x ELSE 0
        /\ FakeReceives(c, tx.trade)' = FakeReceives(c, tx.trade)
        /\ Booking(c) \in Int /\ FakeReceives(c, tx.trade) \in Int
    BY <1>6, RewardIsFee
  <2> QED  BY <2>1, <2>2, <2>3, <2>4
<1>8. \A j \in tx'.todo : tx'.given[j] = 0
  <2>1. \A j \in tx.todo : tx.given[j] = 0 /\ j \in Orders
    BY <1>1 DEF Adds, GapsAdd, Transaction
  <2>2. tx'.todo = tx.todo \ {i} /\ tx'.given = [tx.given EXCEPT ![i] = x]
    BY <1>6 DEF PaysReward
  <2> QED  BY <1>2, <2>1, <2>2
<1> QED  BY <1>2, <1>3, <1>7, <1>8 DEF GapsAdd

\* Rolled back because a reward comes to nothing: nothing has been booked yet.
LEMMA NoRewardAdds ==
  ASSUME Safe, Adds, NoReward
  PROVE  Adds'
<1>1. /\ tx # None /\ tx.todo # {} /\ tx' = None
      /\ UNCHANGED <<balance, lockedFunds, revenue, external, excess, lost>>
  BY DEF NoReward, Working, accounts, history
<1>2. \A c \in Currencies : BookedAhead(c) = 0 /\ BookedAhead(c)' = 0
  BY <1>1 DEF Adds, GapsAdd, BookedAhead
<1>3. Stock' = Stock
  BY <1>1 DEF Stock
<1> QED  BY <1>1, <1>2, <1>3 DEF Adds, StockAdds, GapsAdd

\* The revenues are ahead of the transaction from here on.
LEMMA BookRevenuesAdds ==
  ASSUME Safe, Adds, BookRevenues
  PROVE  Adds'
<1>1. /\ tx # None /\ tx \in Transaction /\ tx.todo = {} /\ ~ tx.booked
      /\ UNCHANGED <<balance, lockedFunds, external, excess, lost>>
      /\ revenue' = [c \in Currencies |-> revenue[c] + Booking(c)]
  BY DEF Safe, TxOK, BookRevenues, history
<1>2. /\ SameSums(tx', tx) /\ tx'.booked /\ tx'.todo = {}
  BY <1>1 DEF BookRevenues, Transaction, SameSums
<1>3. Stock' = Stock
  BY <1>1 DEF Stock
<1>4. tx' # None => \A c \in Currencies : Booking(c)' = Booking(c) /\ FakeReceives(c, tx.trade)' = FakeReceives(c, tx.trade)
  BY <1>1, <1>2, SameBooking DEF SameSums
<1>5. tx' # None
  <2>1. tx' \in Transaction
    BY <1>1 DEF BookRevenues, Transaction
  <2> QED  BY <2>1, NoneIsNoTransaction
<1>6. StockAdds'
  <2> SUFFICES ASSUME NEW c \in Currencies
               PROVE  Col(Stock, c)' + revenue'[c] - excess'[c] + external'[c] - BookedAhead(c)' = Col(Funds, c)
    BY DEF StockAdds, Col
  <2>1. BookedAhead(c) = 0 /\ BookedAhead(c)' = Booking(c)
    BY <1>1, <1>2, <1>4, <1>5 DEF BookedAhead
  <2>2. Col(Stock, c) + revenue[c] - excess[c] + external[c] - BookedAhead(c) = Col(Funds, c)
    BY DEF Adds, StockAdds
  <2>3. revenue'[c] = revenue[c] + Booking(c) /\ excess'[c] = excess[c] /\ external'[c] = external[c]
    BY <1>1
  <2>4. Col(Stock, c)' = Col(Stock, c)
    BY <1>3 DEF Col
  <2>5. /\ Col(Stock, c) \in Int /\ revenue[c] \in Int /\ excess[c] \in Int /\ external[c] \in Int
        /\ Booking(c) \in Int
    BY <1>1, StockType, ColIsInt, BookingType DEF Safe, TypeOK, HistoryOK
  <2> QED  BY <2>1, <2>2, <2>3, <2>4, <2>5
<1>7. Gaps' = Gaps
  BY <1>1, <1>2, <1>5 DEF Gaps, Gap, Seen, HoldsAccount, Parties, Real, SeenLocked, SameSums
<1>8. ASSUME NEW c \in Currencies PROVE Col(Gaps, c)' = - FakeReceives(c, tx.trade)' - Booking(c)'
  <2>1. Col(Gaps, c)' = Col(Gaps', c)
    BY DEF Col
  <2>2. Col(Gaps, c) = - FakeReceives(c, tx.trade) - Booking(c)
    BY <1>1 DEF Adds, GapsAdd
  <2> QED  BY <1>4, <1>5, <1>7, <2>1, <2>2
<1> QED  BY <1>2, <1>6, <1>8 DEF Adds, GapsAdd

\* The commit: what the transaction adds and what it has written over, together.
LEMMA CommitAdds ==
  ASSUME Safe, Adds, Commit
  PROVE  Adds'
<1>1. /\ tx # None /\ tx \in Transaction /\ tx.booked /\ tx' = None /\ tx.trade \in Payload
      /\ EnginePublishes(tx.trade)
      /\ balance' = [a \in Accounts |-> Seen(a)]
      /\ lockedFunds' = [a \in Accounts |-> SeenLocked(a)]
      /\ external' = [c \in Currencies |-> external[c] + FakeReceives(c, tx.trade)]
      /\ lost' = [a \in Accounts |-> lost[a] + tx.over[a]]
      /\ UNCHANGED <<revenue, excess>>
  BY DEF Safe, TxOK, Transaction, Commit, SeenLocked
<1>2. /\ Gaps \in [Accounts -> Int]
      /\ \A a \in Accounts : Seen(a) \in Int /\ SeenLocked(a) \in Int /\ tx.over[a] \in Int
  BY <1>1, GapTypes
<1>3. Plus(Stock, Gaps, Stock')
  <2>1. Stock \in [Accounts -> Int]
    BY StockType
  <2>2. ASSUME NEW a \in Accounts
        PROVE  Stock'[a] = Stock[a] + Gaps[a] /\ Stock'[a] \in Int
    <3>1. /\ Stock'[a] = Seen(a) + SeenLocked(a) + (lost[a] + tx.over[a])
          /\ Stock[a] = balance[a] + lockedFunds[a] + lost[a]
          /\ Gaps[a] = Seen(a) + SeenLocked(a) + tx.over[a] - balance[a] - lockedFunds[a]
      BY <1>1 DEF Stock, Gaps, Gap
    <3>2. balance[a] \in Int /\ lockedFunds[a] \in Int /\ lost[a] \in Int
      BY DEF Safe, TypeOK, HistoryOK
    <3> QED  BY <1>2, <3>1, <3>2
  <2>3. Stock' \in [Accounts -> Int]
    BY <2>2 DEF Stock
  <2> QED  BY <1>2, <2>1, <2>2, <2>3 DEF Plus
<1>4. StockAdds'
  <2> SUFFICES ASSUME NEW c \in Currencies
               PROVE  Col(Stock, c)' + revenue'[c] - excess'[c] + external'[c] - BookedAhead(c)' = Col(Funds, c)
    BY DEF StockAdds, Col
  <2>1. Col(Stock, c)' = Col(Stock, c) + Col(Gaps, c)
    <3>1. Col(Stock, c)' = Col(Stock', c)
      BY DEF Col
    <3> QED  BY <1>3, <3>1, ColAdds
  <2>2. Col(Gaps, c) = - FakeReceives(c, tx.trade) - Booking(c)
    BY <1>1 DEF Adds, GapsAdd
  <2>3. Col(Stock, c) + revenue[c] - excess[c] + external[c] - BookedAhead(c) = Col(Funds, c)
    BY DEF Adds, StockAdds
  <2>4. BookedAhead(c) = Booking(c) /\ BookedAhead(c)' = 0
    BY <1>1 DEF BookedAhead
  <2>5. /\ Col(Stock, c) \in Int /\ revenue[c] \in Int /\ excess[c] \in Int /\ external[c] \in Int
        /\ Booking(c) \in Int /\ FakeReceives(c, tx.trade) \in Int
    BY <1>1, StockType, ColIsInt, BookingType, BookedTypes DEF Safe, TypeOK, HistoryOK
  <2>6. /\ revenue'[c] = revenue[c] /\ excess'[c] = excess[c]
        /\ external'[c] = external[c] + FakeReceives(c, tx.trade)
    BY <1>1
  <2> QED  BY <2>1, <2>2, <2>3, <2>4, <2>5, <2>6
<1> QED  BY <1>1, <1>4 DEF Adds, GapsAdd

\* A crash leaves what has been booked ahead.
LEMMA CrashAdds ==
  ASSUME Safe, Adds, Crash
  PROVE  Adds'
<1>1. /\ tx # None /\ tx' = None
      /\ excess' = [c \in Currencies |-> excess[c] + IF tx.booked THEN Booking(c) ELSE 0]
      /\ UNCHANGED <<balance, lockedFunds, revenue, external, lost>>
  BY DEF Crash, vars
<1>2. StockAdds'
  <2> SUFFICES ASSUME NEW c \in Currencies
               PROVE  Col(Stock, c)' + revenue'[c] - excess'[c] + external'[c] - BookedAhead(c)' = Col(Funds, c)
    BY DEF StockAdds, Col
  <2>1. Stock' = Stock
    BY <1>1 DEF Stock
  <2>2. Col(Stock, c)' = Col(Stock, c)
    BY <2>1 DEF Col
  <2>3. Col(Stock, c) + revenue[c] - excess[c] + external[c] - BookedAhead(c) = Col(Funds, c)
    BY DEF Adds, StockAdds
  <2>4. BookedAhead(c)' = 0 /\ excess'[c] = excess[c] + BookedAhead(c)
    BY <1>1 DEF BookedAhead
  <2>5. /\ Col(Stock, c) \in Int /\ revenue[c] \in Int /\ excess[c] \in Int /\ external[c] \in Int
        /\ BookedAhead(c) \in Int
    BY <1>1, StockType, ColIsInt, BookingType DEF Safe, TypeOK, HistoryOK, BookedAhead
  <2> QED  BY <1>1, <2>2, <2>3, <2>4, <2>5
<1> QED  BY <1>1, <1>2 DEF Adds, GapsAdd

\* The order_processor moves funds within accounts that the transaction does not hold.
LEMMA BesideAdds ==
  ASSUME Safe, Safe', Adds, UNCHANGED <<tx, history, revenue, external>>,
         \A a \in Accounts : /\ balance'[a] + lockedFunds'[a] = balance[a] + lockedFunds[a]
                             /\ HoldsAccount(a) => balance'[a] = balance[a] /\ lockedFunds'[a] = lockedFunds[a]
  PROVE  Adds'
<1>1. /\ tx' = tx /\ lost' = lost /\ excess' = excess
      /\ balance \in [Accounts -> Int] /\ lockedFunds \in [Accounts -> Int] /\ lost \in [Accounts -> Int]
      /\ balance' \in [Accounts -> Int] /\ lockedFunds' \in [Accounts -> Int]
  BY DEF history, Safe, TypeOK, HistoryOK
<1>2. \A c \in Currencies : /\ Booking(c)' = Booking(c) /\ BookedAhead(c)' = BookedAhead(c)
                            /\ FakeReceives(c, tx.trade)' = FakeReceives(c, tx.trade)
  <2>1. \A c, j : FeeLeft(j, c)' = FeeLeft(j, c)
    BY <1>1 DEF FeeLeft, Fee, Income, IsBuy, Earns, FeeRate
  <2>2. \A c : Booking(c)' = Booking(c)
    BY <1>1, <2>1 DEF Booking
  <2>3. \A c : FakeReceives(c, tx.trade)' = FakeReceives(c, tx.trade)
    BY <1>1 DEF FakeReceives, Takes, Income, IsBuy, Earns, Pays
  <2> QED  BY <1>1, <2>2, <2>3 DEF BookedAhead
<1>3. \A a \in Accounts : Stock'[a] = Stock[a]
  <2> SUFFICES ASSUME NEW a \in Accounts PROVE Stock'[a] = Stock[a]
    OBVIOUS
  <2>1. /\ Stock'[a] = balance'[a] + lockedFunds'[a] + lost[a]
        /\ Stock[a] = balance[a] + lockedFunds[a] + lost[a]
    BY <1>1 DEF Stock
  <2> QED  BY <1>1, <2>1
<1>4. StockAdds'
  <2> SUFFICES ASSUME NEW c \in Currencies
               PROVE  Col(Stock, c)' + revenue'[c] - excess'[c] + external'[c] - BookedAhead(c)' = Col(Funds, c)
    BY DEF StockAdds, Col
  <2>1. Col(Stock', c) = Col(Stock, c)
    BY <1>3, ColSame
  <2>2. Col(Stock, c)' = Col(Stock', c)
    BY DEF Col
  <2>3. Col(Stock, c) + revenue[c] - excess[c] + external[c] - BookedAhead(c) = Col(Funds, c)
    BY DEF Adds, StockAdds
  <2> QED  BY <1>1, <1>2, <2>1, <2>2, <2>3
<1>5. ASSUME tx # None PROVE \A a \in Accounts : Gaps'[a] = Gaps[a]
  <2> SUFFICES ASSUME NEW a \in Accounts PROVE Gap(a)' = Gap(a)
    BY DEF Gaps
  <2>1. Parties' = Parties /\ (HoldsAccount(a)' <=> HoldsAccount(a))
    BY <1>1 DEF Parties, Real, HoldsAccount
  <2>2. CASE HoldsAccount(a)
    BY <1>1, <2>1, <2>2 DEF Gap, Seen, SeenLocked
  <2>3. CASE ~ HoldsAccount(a)
    <3>1. /\ Seen(a) = balance[a] /\ Seen(a)' = balance'[a]
          /\ SeenLocked(a) = lockedFunds[a] /\ SeenLocked(a)' = lockedFunds'[a]
      BY <1>5, <2>1, <2>3 DEF Seen, SeenLocked, HoldsAccount
    <3>2. tx.over[a] \in Int
      BY <1>5, GapTypes
    <3>3. Gap(a) = balance[a] + lockedFunds[a] + tx.over[a] - balance[a] - lockedFunds[a]
      BY <3>1 DEF Gap
    <3>4. Gap(a)' = balance'[a] + lockedFunds'[a] + tx.over[a] - balance'[a] - lockedFunds'[a]
      BY <1>1, <3>1 DEF Gap
    <3> QED  BY <1>1, <3>2, <3>3, <3>4
  <2> QED  BY <2>2, <2>3
<1>6. ASSUME tx # None, NEW c \in Currencies
      PROVE  Col(Gaps, c)' = - FakeReceives(c, tx.trade)' - Booking(c)'
  <2>1. Col(Gaps', c) = Col(Gaps, c)
    BY <1>5, <1>6, ColSame
  <2>2. Col(Gaps, c)' = Col(Gaps', c)
    BY DEF Col
  <2>3. Col(Gaps, c) = - FakeReceives(c, tx.trade) - Booking(c)
    BY <1>6 DEF Adds, GapsAdd
  <2> QED  BY <1>2, <2>1, <2>2, <2>3
<1> QED  BY <1>1, <1>4, <1>6 DEF Adds, GapsAdd

LEMMA SubmitAdds ==
  ASSUME Safe, Safe', Adds, NEW i \in Orders, Submit(i)
  PROVE  Adds'
<1>1. SubmitOrder(i) /\ TypeOK /\ UNCHANGED <<tx, history>> /\ (IsPending(i) => ~ HoldsAccount(Outcome(i)))
  BY DEF Submit, HandleSubmit, Safe
<1>2. /\ \A a \in Accounts : balance'[a] + lockedFunds'[a] = balance[a] + lockedFunds[a]
      /\ UNCHANGED <<revenue, external>>
  BY <1>1, SubmitMoves
<1>3. \A a \in Accounts : HoldsAccount(a) => balance'[a] = balance[a] /\ lockedFunds'[a] = lockedFunds[a]
  BY <1>1 DEF SubmitOrder, TypeOK
<1> QED  BY <1>1, <1>2, <1>3, BesideAdds

LEMMA CancelAdds ==
  ASSUME Safe, Safe', Adds, NEW i \in Orders, Cancel(i)
  PROVE  Adds'
<1>1. HandleCancel(i) /\ TypeOK /\ UNCHANGED <<tx, history>> /\ ~ HoldsAccount(Outcome(i))
  BY DEF Cancel, Safe
<1>2. /\ \A a \in Accounts : balance'[a] + lockedFunds'[a] = balance[a] + lockedFunds[a]
      /\ UNCHANGED <<revenue, external>>
  BY <1>1, CancelMoves
<1>3. \A a \in Accounts : HoldsAccount(a) => balance'[a] = balance[a] /\ lockedFunds'[a] = lockedFunds[a]
  BY <1>1 DEF HandleCancel, TypeOK
<1> QED  BY <1>1, <1>2, <1>3, BesideAdds

LEMMA AddsNext ==
  ASSUME Safe, Safe', Adds, [LedgerNext]_ledgerVars
  PROVE  Adds'
<1>1. CASE \E t \in Payload : Begin(t)
  BY <1>1, BeginAdds
<1>2. CASE TakeShare \/ PassShare \/ ReadAccount
  BY <1>2, LookingAdds
<1>3. CASE AddReward
  BY <1>3, RewardAdds
<1>4. CASE NoReward
  BY <1>4, NoRewardAdds
<1>5. CASE BookRevenues
  BY <1>5, BookRevenuesAdds
<1>6. CASE Commit
  BY <1>6, CommitAdds
<1>7. CASE Crash
  BY <1>7, CrashAdds
<1>8. CASE UNCHANGED <<tx, history, balance, lockedFunds, revenue, external>>
  BY <1>8, BesideAdds
<1>9. ASSUME NEW i \in Orders, Submit(i) \/ Cancel(i) PROVE Adds'
  BY <1>9, SubmitAdds, CancelAdds
<1>10. (\E t \in Payload : Refused(t)) \/ Produce \/ UNCHANGED ledgerVars =>
         UNCHANGED <<tx, history, balance, lockedFunds, revenue, external>>
  BY DEF Refused, RefuseTrade, Refuse, Produce, ProduceMatching, accounts, ledgerVars, vars
<1> QED  BY <1>1, <1>2, <1>3, <1>4, <1>5, <1>6, <1>7, <1>8, <1>9, <1>10 DEF LedgerNext, Executor

LEMMA AddsInit ==
  ASSUME LedgerInit
  PROVE  Adds
<1>1. /\ balance = Funds /\ lockedFunds = [a \in Accounts |-> 0]
      /\ revenue = [c \in Currencies |-> 0] /\ external = [c \in Currencies |-> 0]
      /\ tx = None /\ excess = [c \in Currencies |-> 0] /\ lost = [a \in Accounts |-> 0]
  BY DEF LedgerInit, SubmittedInit
<1>2. \A a \in Accounts : Stock[a] = Funds[a]
  BY <1>1, FundsAssumption DEF Stock
<1>3. ASSUME NEW c \in Currencies
      PROVE  Col(Stock, c) + revenue[c] - excess[c] + external[c] - BookedAhead(c) = Col(Funds, c)
  <2>1. Col(Stock, c) = Col(Funds, c)
    BY <1>2, ColSame
  <2>2. Col(Funds, c) \in Int
    BY FundsAssumption, ColIsInt
  <2>3. BookedAhead(c) = 0
    BY <1>1 DEF BookedAhead
  <2> QED  BY <1>1, <2>1, <2>2, <2>3
<1> QED  BY <1>1, <1>3 DEF Adds, StockAdds, GapsAdd

\* Between two trades every unit is accounted for, referral rewards, crashes and work of
\* the order_processor in the middle of a trade included.
THEOREM EveryUnitIsAccounted == LedgerSpec => []Accounted
<1>1. ASSUME Safe, Adds, tx = None, NEW c \in Currencies
      PROVE  SumFunction([m \in Members |-> balance[<<m, c>>] + lockedFunds[<<m, c>>] + lost[<<m, c>>]])
               + revenue[c] - excess[c] + external[c]
             = SumFunction([m \in Members |-> Funds[<<m, c>>]])
  <2>1. \A m \in Members : <<m, c>> \in Accounts
    BY DEF Accounts
  <2>2. [m \in Members |-> Stock[<<m, c>>]]
          = [m \in Members |-> balance[<<m, c>>] + lockedFunds[<<m, c>>] + lost[<<m, c>>]]
    BY <2>1 DEF Stock
  <2>3. BookedAhead(c) = 0
    BY <1>1 DEF BookedAhead
  <2>4. Col(Stock, c) + revenue[c] - excess[c] + external[c] - BookedAhead(c) = Col(Funds, c)
    BY <1>1 DEF Adds, StockAdds
  <2>5. /\ Col(Stock, c) \in Int /\ revenue[c] \in Int /\ excess[c] \in Int /\ external[c] \in Int
    BY <1>1, StockType, ColIsInt DEF Safe, TypeOK, HistoryOK
  <2>6. Col(Stock, c) + revenue[c] - excess[c] + external[c] = Col(Funds, c)
    BY <2>3, <2>4, <2>5
  <2> QED  BY <2>2, <2>6 DEF Col
<1>2. Safe /\ Adds => Accounted
  BY <1>1 DEF Accounted
<1>3. Safe /\ Safe' /\ Adds /\ [LedgerNext]_ledgerVars => Adds'
  BY AddsNext
<1>4. LedgerInit => Adds
  BY AddsInit
<1> QED  BY <1>2, <1>3, <1>4, LedgerSafeInit, LedgerSafeNext, PTL DEF LedgerSpec
-----------------------------------------------------------------------------
(* Locked funds.  While a transaction is open its members' orders and      *)
(* accounts stand still, so the locked funds it has in memory are what     *)
(* these orders will claim once it has committed.                          *)

\* The rows as the transaction would leave them.
RowsAhead == [i \in Orders |-> IF HoldsOrder(i) THEN tx.view.rows[i] ELSE rows[i]]

ViewBacks ==
  tx # None => \A a \in Accounts : a[1] \in Parties => tx.view.locked[a] = Scale * Claims(RowsAhead, a)

LocksMatch == Backed /\ ViewBacks

\* A strike leaves the other rows alone.
LEMMA StruckRowElsewhere ==
  ASSUME TypeOK, NEW t \in Payload, EnginePublishes(t), Valid(t), Struck(t).ok, NEW j \in Orders \ Real(t)
  PROVE  Struck(t).rows[j] = rows[j]
<1> DEFINE s0 == [ok |-> TRUE, rows |-> rows, balance |-> balance, locked |-> lockedFunds]
           s1 == IF t.maker = Fake THEN s0 ELSE Strike(s0, t.maker, t)
<1>1. /\ s1 \in Money
      /\ Struck(t) = IF t.taker = Fake THEN s1 ELSE Strike(s1, t.taker, t)
      /\ t.taker # Fake => t.taker \in Orders /\ s1.rows[t.taker].volume >= t.quantity
      /\ \A k \in Orders : k # t.maker => s1.rows[k] = rows[k]
  BY StruckTwice
<1> HIDE DEF s0, s1
<1>2. j # t.maker /\ j # t.taker
  BY FakeAssumption DEF Real
<1>3. s1.rows[j] = rows[j]
  BY <1>1, <1>2
<1>4. CASE t.taker = Fake
  BY <1>1, <1>3, <1>4
<1>5. CASE t.taker # Fake
  <2>1. Strike(s1, t.taker, t).rows[j] = s1.rows[j]
    BY <1>1, <1>2, <1>5, StrikeKeepsOthers
  <2> QED  BY <1>1, <1>3, <1>5, <2>1
<1> QED  BY <1>4, <1>5

\* Rows that claim alike, one by one, claim alike on the whole.
LEMMA ClaimsAlike ==
  ASSUME NEW rs, NEW rs2, NEW a, \A i \in Orders : Claim(i, rs2[i], a) = Claim(i, rs[i], a)
  PROVE  Claims(rs2, a) = Claims(rs, a)
<1>1. [i \in Orders |-> Claim(i, rs2[i], a)] = [i \in Orders |-> Claim(i, rs[i], a)]
  OBVIOUS
<1> QED  BY <1>1 DEF Claims

LEMMA BeginLocks ==
  ASSUME Safe, LocksMatch, NEW t \in Payload, Begin(t)
  PROVE  LocksMatch'
<1>1. UNCHANGED vars /\ tx' = Open(t) /\ EnginePublishes(t) /\ Valid(t) /\ Struck(t).ok
  BY DEF Begin
<1>2. Backed'
  BY <1>1 DEF LocksMatch, Backed, Backs, Claims, Claim, Outcome, IsBuy, vars
<1>3. tx'.view = Struck(t) /\ tx'.trade = t
  BY <1>1 DEF Open
<1>4. \A a \in Accounts : Struck(t).locked[a] = Scale * Claims(Struck(t).rows, a)
  BY <1>1, StruckBacks DEF Safe, LocksMatch, Backs
<1>5. ASSUME tx' # None, NEW i \in Orders PROVE RowsAhead'[i] = Struck(t).rows[i]
  <2>1. RowsAhead'[i] = IF HoldsOrder(i)' THEN tx'.view.rows[i] ELSE rows'[i]
    BY DEF RowsAhead
  <2>2. HoldsOrder(i)' <=> i \in Real(t)
    BY <1>3, <1>5 DEF HoldsOrder, Real
  <2>3. CASE i \in Real(t)
    BY <1>3, <2>1, <2>2, <2>3
  <2>4. CASE i \notin Real(t)
    <3>1. Struck(t).rows[i] = rows[i]
      BY <1>1, <2>4, StruckRowElsewhere DEF Safe
    <3> QED  BY <1>1, <2>1, <2>2, <2>4, <3>1 DEF vars
  <2> QED  BY <2>3, <2>4
<1>6. ASSUME tx' # None, NEW a \in Accounts PROVE Claims(RowsAhead, a)' = Claims(Struck(t).rows, a)
  BY <1>5, <1>6 DEF Claims, Claim, Outcome, IsBuy
<1>7. ViewBacks'
  BY <1>3, <1>4, <1>6 DEF ViewBacks
<1> QED  BY <1>2, <1>7 DEF LocksMatch

\* A step of the transaction that leaves the tables and the strikes alone.
LEMMA SameLocks ==
  ASSUME LocksMatch, UNCHANGED <<rows, lockedFunds>>,
         tx' # None => tx # None /\ tx'.trade = tx.trade /\ tx'.view.rows = tx.view.rows
                       /\ tx'.view.locked = tx.view.locked
  PROVE  LocksMatch'
<1>1. Backed'
  BY DEF LocksMatch, Backed, Backs, Claims, Claim, Outcome, IsBuy
<1>2. ViewBacks'
  <2> SUFFICES ASSUME tx' # None, NEW a \in Accounts, a[1] \in Parties'
               PROVE  tx'.view.locked[a] = Scale * Claims(RowsAhead, a)'
    BY DEF ViewBacks
  <2>1. Parties' = Parties /\ RowsAhead' = RowsAhead
    BY DEF Parties, RowsAhead, HoldsOrder, Real
  <2>2. Claims(RowsAhead, a)' = Claims(RowsAhead, a)
    BY <2>1 DEF Claims, Claim, Outcome, IsBuy
  <2> QED  BY <2>1, <2>2 DEF LocksMatch, ViewBacks
<1> QED  BY <1>1, <1>2 DEF LocksMatch

LEMMA InsideLocks ==
  ASSUME Safe, LocksMatch,
         TakeShare \/ PassShare \/ ReadAccount \/ AddReward \/ BookRevenues \/ NoReward \/ Crash
  PROVE  LocksMatch'
<1>1. UNCHANGED <<rows, lockedFunds>> /\ tx # None /\ tx \in Transaction
  BY DEF Safe, TxOK, TakeShare, PassShare, ReadAccount, AddReward, BookRevenues, NoReward, Crash, Working,
         vars, accounts
<1>2. CASE TakeShare \/ PassShare \/ ReadAccount \/ BookRevenues
  <2>1. tx'.trade = tx.trade /\ tx'.view = tx.view
    BY <1>1, <1>2 DEF TakeShare, PassShare, ReadAccount, BookRevenues, Transaction
  <2> QED  BY <1>1, <2>1, SameLocks
<1>3. CASE AddReward
  <2>1. tx'.trade = tx.trade /\ tx'.view.rows = tx.view.rows /\ tx'.view.locked = tx.view.locked
    BY <1>1, <1>3 DEF AddReward, LockedWritten, Transaction, Money
  <2> QED  BY <1>1, <2>1, SameLocks
<1>4. CASE NoReward \/ Crash
  <2>1. tx' = None
    BY <1>4 DEF NoReward, Crash
  <2> QED  BY <1>1, <2>1, SameLocks
<1> QED  BY <1>2, <1>3, <1>4

\* An order of another member claims nothing of the parties' accounts, and the other way
\* round.
LEMMA CommitLocks ==
  ASSUME Safe, LocksMatch, Commit
  PROVE  LocksMatch'
<1>1. /\ tx # None /\ tx' = None /\ rows' = RowsAhead
      /\ lockedFunds' = [a \in Accounts |-> IF a[1] \in Parties THEN tx.view.locked[a] ELSE lockedFunds[a]]
  BY DEF Commit, RowsAhead
<1>2. ASSUME NEW a \in Accounts, a[1] \notin Parties PROVE Claims(RowsAhead, a) = Claims(rows, a)
  <2>1. ASSUME NEW i \in Orders PROVE Claim(i, RowsAhead[i], a) = Claim(i, rows[i], a)
    <3>1. HoldsOrder(i) => Outcome(i) # a
      BY <1>2 DEF HoldsOrder, Parties, Outcome
    <3> QED  BY <3>1 DEF Claim, RowsAhead
  <2> QED  BY <2>1, ClaimsAlike
<1>3. ASSUME NEW a \in Accounts PROVE lockedFunds'[a] = Scale * Claims(RowsAhead, a)
  <2>1. CASE a[1] \in Parties
    BY <1>1, <2>1 DEF LocksMatch, ViewBacks
  <2>2. CASE a[1] \notin Parties
    BY <1>1, <1>2, <2>2 DEF LocksMatch, Backed, Backs
  <2> QED  BY <2>1, <2>2
<1>4. Backed'
  BY <1>1, <1>3 DEF Backed, Backs, Claims, Claim, Outcome, IsBuy
<1> QED  BY <1>1, <1>4 DEF LocksMatch, ViewBacks

\* What the order_processor does to a row while a transaction is open does not change
\* what is claimed of an account the transaction has locked.
LEMMA BesideLocks ==
  ASSUME Safe, LocksMatch, NEW i \in Orders, Submit(i) \/ Cancel(i)
  PROVE  LocksMatch'
<1>1. Backed' /\ tx' = tx
  BY SubmitBacks, CancelBacks DEF Submit, Cancel, HandleSubmit, Safe, LocksMatch
<1>2. rows \in [Orders -> Row]
  BY DEF Safe, TypeOK
<1>3. /\ \A j \in Orders \ {i} : rows'[j] = rows[j]
      /\ rows' # rows => ~ HoldsAccount(Outcome(i))
  BY <1>2 DEF Submit, Cancel, HandleSubmit, HandleCancel, SubmitOrder
<1>4. ViewBacks'
  <2> SUFFICES ASSUME tx # None, NEW a \in Accounts, a[1] \in Parties
               PROVE  tx.view.locked[a] = Scale * Claims(RowsAhead, a)'
    BY <1>1 DEF ViewBacks, Parties, Real
  <2>1. ASSUME NEW j \in Orders PROVE Claim(j, RowsAhead'[j], a) = Claim(j, RowsAhead[j], a)
    <3>1. /\ RowsAhead'[j] = IF HoldsOrder(j) THEN tx.view.rows[j] ELSE rows'[j]
          /\ RowsAhead[j] = IF HoldsOrder(j) THEN tx.view.rows[j] ELSE rows[j]
      BY <1>1 DEF RowsAhead, HoldsOrder, Real
    <3>2. CASE rows'[j] = rows[j]
      BY <3>1, <3>2
    <3>3. CASE rows'[j] # rows[j]
      <4>1. Outcome(j) # a
        BY <1>3, <3>3 DEF HoldsAccount
      <4> QED  BY <4>1 DEF Claim
    <3> QED  BY <3>2, <3>3
  <2>2. Claims(RowsAhead', a) = Claims(RowsAhead, a)
    BY <2>1, ClaimsAlike
  <2>3. Claims(RowsAhead, a)' = Claims(RowsAhead', a)
    BY DEF Claims, Claim, Outcome, IsBuy
  <2> QED  BY <2>2, <2>3 DEF LocksMatch, ViewBacks
<1> QED  BY <1>1, <1>4 DEF LocksMatch

LEMMA LocksMatchNext ==
  ASSUME Safe, LocksMatch, [LedgerNext]_ledgerVars
  PROVE  LocksMatch'
<1>1. ASSUME NEW t \in Payload, Begin(t) PROVE LocksMatch'
  BY <1>1, BeginLocks
<1>2. ASSUME NEW i \in Orders, Submit(i) \/ Cancel(i) PROVE LocksMatch'
  BY <1>2, BesideLocks
<1>3. CASE (\E t \in Payload : Refused(t)) \/ Produce \/ UNCHANGED ledgerVars
  <2>1. UNCHANGED <<rows, lockedFunds, tx>>
    BY <1>3 DEF Refused, RefuseTrade, Refuse, Produce, ProduceMatching, accounts, ledgerVars, vars
  <2> QED  BY <2>1, SameLocks
<1> QED  BY <1>1, <1>2, <1>3, InsideLocks, CommitLocks DEF LedgerNext, Executor

LEMMA LocksMatchAlways == LedgerSpec => [](TypeOK /\ BackedUnlessRaced)
<1>1. LedgerInit => LocksMatch
  <2> SUFFICES ASSUME LedgerInit PROVE LocksMatch
    OBVIOUS
  <2>1. /\ tx = None /\ lockedFunds = [a \in Accounts |-> 0]
        /\ \A i \in Orders : rows[i].state # "wait"
    BY DEF LedgerInit, SubmittedInit, FreshRow
  <2> QED  BY <2>1, NothingClaimed DEF LocksMatch, ViewBacks
<1>2. Safe /\ LocksMatch => TypeOK /\ BackedUnlessRaced
  BY DEF Safe, LocksMatch, BackedUnlessRaced
<1>3. Safe /\ LocksMatch /\ [LedgerNext]_ledgerVars => LocksMatch'
  BY LocksMatchNext
<1> QED  BY <1>1, <1>2, <1>3, LedgerSafeInit, LedgerSafeNext, PTL DEF LedgerSpec

\* The locked funds of an account are what its waiting orders have locked, at every point
\* of a transaction, although it commits rows and locked funds it has read long before.
THEOREM LocksAreClaimsInSteps == LedgerSpec => []LockedBacksWaiting
<1> QED  BY LocksMatchAlways, BackedIsWaiting, PTL

\* So a waiting order can be cancelled at every point of a transaction, once it gets the
\* row locks.
THEOREM WaitingCancelsInSteps == LedgerSpec => []WaitingCanBeCancelled
<1> QED  BY LocksMatchAlways, BackedCanCancel, PTL
=============================================================================
