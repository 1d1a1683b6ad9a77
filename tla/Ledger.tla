------------------------------- MODULE Ledger -------------------------------
(***************************************************************************)
(* The transaction of a trade, step by step, with referral rewards         *)
(* (models/trade.go, RecordCompleteOperations).  Settlement commits a trade*)
(* in one step; here the trade_executor strikes the orders inside a        *)
(* transaction that holds the locks of the two orders and of the accounts  *)
(* of their members, reads the account of a referrer outside of it, without*)
(* a lock, adds the reward inside of it, books the rest of the fees outside*)
(* of it, and commits; or the reward cannot be added and it rolls back, or *)
(* the process stops.  The order_processor works on in between, unless it  *)
(* waits for one of these locks.                                           *)
(*                                                                         *)
(* Liability rows are left out: the program writes them and reads none.    *)
(***************************************************************************)
EXTENDS Settlement

CONSTANTS
  Referrer,      \* who has brought a member, None for nobody
  Rewards,       \* config.Referral.Rewards, none when referrals are not enabled
  ShareScale,    \* denominator of the shares
  HoldCurrency,  \* config.Referral.Currency
  MaxCrashes     \* bound: stops of the executor

\* hold: what the referrer must have of HoldCurrency; share: his part of the fee.
Reward == [hold: Nat, share: 0 .. ShareScale]

ASSUME ReferrerAssumption ==
  /\ Referrer \in [Members -> Members \cup {None}] /\ None \notin Members
  /\ \A m \in Members : Referrer[m] # m
ASSUME RewardsAssumption ==
  /\ ShareScale \in Nat \ {0}
  /\ Rewards \subseteq Reward
  /\ \A r, s \in Rewards : r.hold = s.hold => r = s
  /\ \A S \in SUBSET Rewards : S # {} => \E r \in S : \A s \in S : s.hold <= r.hold
ASSUME HoldCurrencyAssumption == HoldCurrency \in Currencies
ASSUME CrashesAssumption == MaxCrashes \in Nat

VARIABLES
  tx,        \* the transaction of the executor, None when there is none
  crashes,   \* counter of the bound
  excess,    \* history: revenues booked by transactions that did not commit
  lost       \* history: what rewards have written over, per account

history == <<crashes, excess, lost>>
ledgerVars == <<vars, tx, history>>

-----------------------------------------------------------------------------
(* Rewards. *)

\* Decimals are rounded to 1/Scale, halves away from zero.
Rounded(numerator, denominator) == (2 * numerator + denominator) \div (2 * denominator)

FeeOf(i, t) == Earns(i, t) * FeeRate(i, t)

ReferrerOf(i) == Referrer[Details[i].member]

\* The rewards are tried from the highest hold amount.
Highest(rewards) == CHOOSE r \in rewards : \A s \in rewards : s.hold <= r.hold

\* Fault: the reward is paid in what the friend spends.
RewardAccountOfOutcome(i) == <<ReferrerOf(i), Outcome(i)[2]>>

\* The reward is paid in what the friend earns.
RewardAccount(i) == <<ReferrerOf(i), Income(i)[2]>>

\* The orders of a trade whose members have a referrer and pay a fee.
Rewarding(t) ==
  IF Rewards = {} THEN {} ELSE {i \in Real(t) : FeeOf(i, t) > 0 /\ ReferrerOf(i) # None}

-----------------------------------------------------------------------------
(* The transaction of the executor. *)

LedgerInit ==
  /\ SubmittedInit
  /\ tx = None /\ crashes = 0
  /\ excess = [c \in Currencies |-> 0] /\ lost = [a \in Accounts |-> 0]

\* The transaction in the making, and what stands for none.
Transaction ==
  [trade: Payload, view: Money, held: SUBSET Accounts, todo: SUBSET Orders,
   untried: SUBSET Rewards, share: (0 .. ShareScale) \cup {None}, read: Nat \cup {None},
   given: [Orders -> Nat], over: [Accounts -> Int], booked: BOOLEAN]

ASSUME NoneIsNoTransaction == None \notin Transaction

\* view: rows and accounts as the transaction sees what it has locked; held: accounts
\* of referrers it has written; todo: orders whose reward is not decided; untried,
\* share, read: how far the decision of the current one is.
Open(t) ==
  [trade |-> t, view |-> Struck(t), held |-> {}, todo |-> Rewarding(t),
   untried |-> Rewards, share |-> None, read |-> None, given |-> [i \in Orders |-> 0],
   over |-> [a \in Accounts |-> 0], booked |-> FALSE]

Parties == {Details[i].member : i \in Real(tx.trade)}

\* The row locks of the transaction.
HoldsOrder(i) == tx # None /\ i \in Real(tx.trade)

HoldsAccount(a) == tx # None /\ (a[1] \in Parties \/ a \in tx.held)

\* A balance inside the transaction.
Seen(a) == IF HoldsAccount(a) THEN tx.view.balance[a] ELSE balance[a]

Begin(t) ==
  /\ tx = None
  /\ EnginePublishes(t) /\ Valid(t) /\ Struck(t).ok
  /\ tx' = Open(t)
  /\ UNCHANGED <<vars, history>>

Refused(t) ==
  /\ tx = None
  /\ RefuseTrade(t)
  /\ UNCHANGED <<tx, history>>

Working == tx # None /\ tx.todo # {}

\* The seller comes first.
Current == CHOOSE i \in tx.todo : IsBuy(i) => \A j \in tx.todo : IsBuy(j)

NextReward == Highest(tx.untried)

\* One turn of the loop of RecordReferrals: it looks, outside the transaction, whether
\* the referrer holds enough for the next reward.
IsHeld == NextReward.hold <= balance[<<ReferrerOf(Current), HoldCurrency>>]

TakeShare ==
  /\ Working /\ tx.share = None
  /\ IsHeld
  /\ tx' = [tx EXCEPT !.share = NextReward.share, !.untried = Rewards]
  /\ UNCHANGED <<vars, history>>

PassShare ==
  /\ Working /\ tx.share = None
  /\ ~ IsHeld
  /\ tx' = IF tx.untried = {NextReward}
           THEN [tx EXCEPT !.todo = @ \ {Current}, !.untried = Rewards]
           ELSE [tx EXCEPT !.untried = @ \ {NextReward}]
  /\ UNCHANGED <<vars, history>>

\* Then it reads the account of the reward, outside the transaction again.
ReadAccount ==
  /\ Working /\ tx.share # None /\ tx.read = None
  /\ tx' = [tx EXCEPT !.read = balance[RewardAccount(Current)]]
  /\ UNCHANGED <<vars, history>>

Amount == Rounded(FeeOf(Current, tx.trade) * tx.share, ShareScale)

\* Fault: the fee is booked in full although a part of it is the reward.
GivenNothing(i, amount) == [tx.given EXCEPT ![i] = 0]

Given(i, amount) == [tx.given EXCEPT ![i] = amount]

\* Fault: the whole row is written, as it was read: the locked funds, too.
LockedWrittenAsRead(a) == [tx.view.locked EXCEPT ![a] = lockedFunds[a]]

\* PlusFunds writes the column of the balance only.
LockedWritten(a) == tx.view.locked

\* PlusFunds: the sum of what was read and the reward, inside the transaction.
AddReward ==
  /\ Working /\ tx.read # None /\ Amount > 0
  /\ LET a == RewardAccount(Current)
     IN tx' = [tx EXCEPT !.view.balance[a] = tx.read + Amount, !.view.locked = LockedWritten(a),
                         !.over[a] = @ + Seen(a) - tx.read,
                         !.held = @ \cup {a}, !.given = Given(Current, Amount),
                         !.todo = @ \ {Current}, !.share = None, !.read = None]
  /\ UNCHANGED <<vars, history>>

\* A reward that is rounded to nothing is an error of PlusFunds: the trade is rolled
\* back, and what still waits by the rows in memory is handed back.
NoReward ==
  /\ Working /\ tx.read # None /\ Amount = 0
  /\ announced' = announced \cup
       {Message(i, tx.view.rows[i]) : i \in {j \in Real(tx.trade) : tx.view.rows[j].state = "wait"}}
  /\ tx' = None
  /\ UNCHANGED <<rows, accounts, api, requests, processor, raced, history>>

\* What is left of the fee of order i, when it is paid in currency c.
FeeLeft(i, c) == Fee(i, c, tx.trade) - IF i # Fake /\ Income(i)[2] = c THEN tx.given[i] ELSE 0

Booking(c) == FeeLeft(tx.trade.maker, c) + FeeLeft(tx.trade.taker, c)

\* RecordRevenues, outside the transaction.
BookRevenues ==
  /\ tx # None /\ tx.todo = {} /\ ~ tx.booked
  /\ revenue' = [c \in Currencies |-> revenue[c] + Booking(c)]
  /\ tx' = [tx EXCEPT !.booked = TRUE]
  /\ UNCHANGED <<rows, balance, lockedFunds, external, api, requests, processor, announced, raced,
                 history>>

Commit ==
  /\ tx # None /\ tx.booked
  /\ rows' = [i \in Orders |-> IF HoldsOrder(i) THEN tx.view.rows[i] ELSE rows[i]]
  /\ balance' = [a \in Accounts |-> Seen(a)]
  /\ lockedFunds' = [a \in Accounts |-> IF a[1] \in Parties THEN tx.view.locked[a] ELSE lockedFunds[a]]
  /\ external' = [c \in Currencies |-> external[c] + FakeReceives(c, tx.trade)]
  /\ lost' = [a \in Accounts |-> lost[a] + tx.over[a]]
  /\ tx' = None
  /\ UNCHANGED <<revenue, api, requests, processor, announced, raced, crashes, excess>>

\* The process stops: the database rolls the transaction back, what was written
\* outside of it stays.
Crash ==
  /\ tx # None /\ crashes < MaxCrashes
  /\ crashes' = crashes + 1
  /\ excess' = [c \in Currencies |-> excess[c] + IF tx.booked THEN Booking(c) ELSE 0]
  /\ tx' = None
  /\ UNCHANGED <<vars, lost>>

-----------------------------------------------------------------------------
(* The order_processor, when it need not wait for a lock. *)

Submit(i) ==
  /\ ~ HoldsOrder(i) /\ (IsPending(i) => ~ HoldsAccount(Outcome(i)))
  /\ HandleSubmit(i)
  /\ UNCHANGED <<tx, history>>

Cancel(i) ==
  /\ ~ HoldsOrder(i) /\ ~ HoldsAccount(Outcome(i))
  /\ HandleCancel(i)
  /\ UNCHANGED <<tx, history>>

Produce == ProduceMatching /\ UNCHANGED <<tx, history>>

-----------------------------------------------------------------------------

Executor ==
  \/ \E t \in Payload : Begin(t) \/ Refused(t)
  \/ TakeShare
  \/ PassShare
  \/ ReadAccount
  \/ AddReward
  \/ NoReward
  \/ BookRevenues
  \/ Commit
  \/ Crash

LedgerNext == Executor \/ Produce \/ \E i \in Orders : Submit(i) \/ Cancel(i)

LedgerSpec == LedgerInit /\ [][LedgerNext]_ledgerVars

-----------------------------------------------------------------------------
(* Properties. *)

\* Between two trades every unit is accounted for: the accounts, the revenues and what
\* the market maker has received differ from the funds at the start by what rewards
\* have written over, and by revenues booked for trades that did not commit; by nothing
\* else, whatever the order_processor does while a trade is settled.
Accounted ==
  tx = None =>
    \A c \in Currencies :
      SumFunction([m \in Members |-> balance[<<m, c>>] + lockedFunds[<<m, c>>] + lost[<<m, c>>]])
        + revenue[c] - excess[c] + external[c]
      = SumFunction([m \in Members |-> Funds[<<m, c>>]])

\* A reward writes over another change of the account only where the referrer has an
\* order of his own that locks funds of it; what he earns by trades is never lost, not
\* even in a trade with his own friend.
LostByOwnOrdersOnly == \A a \in Accounts : lost[a] # 0 => \E i \in Orders : Outcome(i) = a
=============================================================================
