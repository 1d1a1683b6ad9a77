-------------------------- MODULE SettlementProofs --------------------------
(***************************************************************************)
(* What Settlement promises for any members, orders, funds and trades: the *)
(* rows and accounts keep their types, no account is ever overdrawn, and   *)
(* every limit order is executed within its limit and stays backed.        *)
(***************************************************************************)
EXTENDS Settlement, Sums, TLAPS

-----------------------------------------------------------------------------
(* Amounts of one order in one trade. *)

LEMMA Products == \A a, b \in Nat : a * b \in Nat
  OBVIOUS

LEMMA SumsOfProducts ==
  /\ \A a, b, c \in Nat : a * (b + c) = a * b + a * c
  /\ \A a, b, c \in Nat : a <= b => a * c <= b * c
<1>1. \A a, b, c \in Nat : a * (b + c) = a * b + a * c
  OBVIOUS
<1>2. ASSUME NEW a \in Nat, NEW b \in Nat, NEW c \in Nat, a <= b PROVE a * c <= b * c
  <2> DEFINE d == b - a
  <2>1. d \in Nat /\ b = a + d  BY <1>2
  <2>2. b * c = a * c + d * c  BY <2>1
  <2>3. d * c >= 0  BY <2>1
  <2>4. a * c \in Int /\ d * c \in Int  BY <2>1
  <2> QED  BY <2>2, <2>3, <2>4
<1> QED  BY <1>1, <1>2

\* The row of an order as BuildOrder fills it.
LEMMA DetailTypes ==
  ASSUME NEW i \in Orders
  PROVE  /\ Details[i].member \in Members
         /\ Details[i].price \in Nat /\ Details[i].quantity \in Nat /\ Details[i].locked \in Nat
         /\ Details[i].makerFee \in 0 .. Scale /\ Details[i].takerFee \in 0 .. Scale
  BY DetailsAssumption DEF OrderDetails

\* An order pays from one account and earns on another one.
LEMMA AccountsOfAnOrder ==
  ASSUME NEW i \in Orders
  PROVE  Outcome(i) \in Accounts /\ Income(i) \in Accounts /\ Outcome(i) # Income(i)
  BY DetailTypes DEF Outcome, Income, Accounts, Currencies

LEMMA PayloadTypes ==
  ASSUME NEW t \in Payload
  PROVE  t.price \in Nat /\ t.quantity \in Nat
  BY TradesAssumption DEF Payload

LEMMA Amounts ==
  ASSUME NEW i \in Orders, NEW t \in Payload
  PROVE  /\ Pays(i, t) \in Nat /\ Earns(i, t) \in Nat
         /\ FeeRate(i, t) \in 0 .. Scale
         /\ Net(i, t) \in Int
<1>1. t.price * t.quantity \in Nat  BY PayloadTypes, Products
<1>2. Pays(i, t) \in Nat /\ Earns(i, t) \in Nat
  BY <1>1, PayloadTypes DEF Pays, Earns
<1>3. FeeRate(i, t) \in 0 .. Scale  BY DetailTypes DEF FeeRate
<1>4. Net(i, t) \in Int
  <2> DEFINE keep == Scale - FeeRate(i, t)
  <2>1. keep \in Int  BY <1>3, ScaleAssumption
  <2>2. Earns(i, t) * keep \in Int
    <3> HIDE DEF keep
    <3> QED  BY <1>2, <2>1
  <2> QED  BY <2>2 DEF Net
<1> QED  BY <1>2, <1>3, <1>4

-----------------------------------------------------------------------------
(* One strike, then the two of a trade. *)

Solvent(s) == \A a \in Accounts : s.balance[a] >= 0 /\ s.locked[a] >= 0

LEMMA StruckRowType ==
  ASSUME NEW row \in Row, NEW i \in Orders, NEW t \in Payload, row.volume >= t.quantity
  PROVE  /\ StruckRow(row, i, t) \in Row
         /\ StruckRow(row, i, t).volume = row.volume - t.quantity
         /\ StruckRow(row, i, t).locked = row.locked - Pays(i, t)
         /\ StruckRow(row, i, t).received = row.received + Earns(i, t)
         /\ StruckRow(row, i, t).state \in {row.state, "done", "cancel"}
         /\ IsLimit(i) => StruckRow(row, i, t).state \in {row.state, "done"}
         /\ StruckRow(row, i, t).volume = 0 => StruckRow(row, i, t).state = "done"
<1> DEFINE r == [row EXCEPT !.volume = @ - t.quantity, !.locked = @ - Pays(i, t),
                            !.received = @ + Earns(i, t)]
<1>1. row.volume \in Nat /\ row.locked \in Int /\ row.received \in Nat /\ row.state \in States
  BY DEF Row
<1>2. /\ r.volume = row.volume - t.quantity /\ r.locked = row.locked - Pays(i, t)
      /\ r.received = row.received + Earns(i, t) /\ r.state = row.state
  BY DEF Row
<1>3. r \in Row
  <2>1. row.volume - t.quantity \in Nat  BY <1>1, PayloadTypes
  <2>2. row.locked - Pays(i, t) \in Int  BY <1>1, Amounts
  <2>3. row.received + Earns(i, t) \in Nat  BY <1>1, Amounts
  <2> QED  BY <2>1, <2>2, <2>3 DEF Row
<1>4. [r EXCEPT !.state = "done"] \in Row /\ [r EXCEPT !.state = "cancel"] \in Row
  BY <1>3 DEF Row, States
<1>5. StruckRow(row, i, t) = IF r.volume = 0 THEN [r EXCEPT !.state = "done"]
                             ELSE IF ~ IsLimit(i) /\ r.locked = 0 THEN [r EXCEPT !.state = "cancel"]
                             ELSE r
  BY DEF StruckRow
<1>6. \A x \in {"done", "cancel"} :
        LET q == [r EXCEPT !.state = x]
        IN q.volume = r.volume /\ q.locked = r.locked /\ q.received = r.received /\ q.state = x
  BY <1>3 DEF Row
<1> HIDE DEF r
<1>7. CASE r.volume = 0  BY <1>2, <1>4, <1>5, <1>6, <1>7
<1>8. CASE r.volume # 0 /\ ~ IsLimit(i) /\ r.locked = 0  BY <1>2, <1>4, <1>5, <1>6, <1>8
<1>9. CASE r.volume # 0 /\ ~ (~ IsLimit(i) /\ r.locked = 0)  BY <1>2, <1>3, <1>5, <1>9
<1> QED  BY <1>7, <1>8, <1>9

LEMMA StrikeIsSound ==
  ASSUME NEW s \in Money, NEW i \in Orders, NEW t \in Payload, s.rows[i].volume >= t.quantity
  PROVE  /\ Strike(s, i, t) \in Money
         /\ Strike(s, i, t).ok => s.ok
         /\ Solvent(s) /\ Strike(s, i, t).ok => Solvent(Strike(s, i, t))
         /\ Strike(s, i, t).ok =>
              Strike(s, i, t).rows = [s.rows EXCEPT ![i] = StruckRow(s.rows[i], i, t)]
         /\ \A j \in Orders : j # i => Strike(s, i, t).rows[j] = s.rows[j]
<1> DEFINE row    == StruckRow(s.rows[i], i, t)
           funds  == s.locked[Outcome(i)]
           pay    == Scale * Pays(i, t)
           refund == Scale * Refund(row)
           net    == Net(i, t)
           after  == [ok      |-> refund = 0 \/ Covered(refund, funds - pay),
                      rows    |-> [s.rows EXCEPT ![i] = row],
                      balance |-> [s.balance EXCEPT ![Income(i)] = @ + net,
                                                    ![Outcome(i)] = @ + refund],
                      locked  |-> [s.locked EXCEPT ![Outcome(i)] = @ - pay - refund]]
           failed == [s EXCEPT !.ok = FALSE]
<1>1. /\ s.ok \in BOOLEAN /\ s.rows \in [Orders -> Row]
      /\ s.balance \in [Accounts -> Int] /\ s.locked \in [Accounts -> Int]
  BY DEF Money
<1>2. row \in Row  BY <1>1, StruckRowType
<1>3. funds \in Int /\ pay \in Int /\ refund \in Int /\ net \in Int
  <2>1. funds \in Int /\ net \in Int  BY <1>1, AccountsOfAnOrder, Amounts
  <2>2. pay \in Int  BY Amounts, ScaleAssumption
  <2>3. Refund(row) \in Int  BY <1>2 DEF Refund, Row
  <2>4. refund \in Int
    <3> HIDE DEF row
    <3> QED  BY <2>3, ScaleAssumption
  <2> QED  BY <2>1, <2>2, <2>4
<1>4. Strike(s, i, t) = IF ~ (s.ok /\ Covered(pay, funds) /\ net > 0) THEN failed ELSE after
  BY DEF Strike
<1>5. failed \in Money /\ ~ failed.ok /\ failed.rows = s.rows  BY DEF Money
<1> HIDE DEF row, funds, pay, refund, net
<1>6. after \in Money
  <2>1. [s.rows EXCEPT ![i] = row] \in [Orders -> Row]  BY <1>1, <1>2
  <2>2. [s.balance EXCEPT ![Income(i)] = @ + net, ![Outcome(i)] = @ + refund] \in [Accounts -> Int]
    BY <1>1, <1>3, AccountsOfAnOrder
  <2>3. [s.locked EXCEPT ![Outcome(i)] = @ - pay - refund] \in [Accounts -> Int]
    BY <1>1, <1>3, AccountsOfAnOrder
  <2>4. (refund = 0 \/ Covered(refund, funds - pay)) \in BOOLEAN  BY DEF Covered
  <2> QED  BY <2>1, <2>2, <2>3, <2>4 DEF Money
<1>7. after.rows = [s.rows EXCEPT ![i] = row]
  OBVIOUS
<1>8. ASSUME Solvent(s), after.ok, Covered(pay, funds), net > 0  PROVE Solvent(after)
  <2> SUFFICES ASSUME NEW a \in Accounts PROVE after.balance[a] >= 0 /\ after.locked[a] >= 0
    BY DEF Solvent
  <2>0. after.ok <=> refund = 0 \/ Covered(refund, funds - pay)
    BY Zenon
  <2>1. refund >= 0 /\ refund <= funds - pay
    <3>1. refund = 0 \/ Covered(refund, funds - pay)  BY <1>8, <2>0
    <3>2. pay <= funds  BY <1>8 DEF Covered
    <3> HIDE DEF after
    <3> QED  BY <1>3, <3>1, <3>2 DEF Covered
  <2>2. s.balance[a] >= 0 /\ s.locked[a] >= 0 /\ s.balance[a] \in Int /\ s.locked[a] \in Int
    BY <1>1, <1>8 DEF Solvent
  <2>3. after.balance[a] = IF a = Outcome(i) THEN s.balance[a] + refund
                           ELSE IF a = Income(i) THEN s.balance[a] + net ELSE s.balance[a]
    BY <1>1, AccountsOfAnOrder
  <2>4. after.locked[a] = IF a = Outcome(i) THEN funds - pay - refund ELSE s.locked[a]
    BY <1>1, AccountsOfAnOrder DEF funds
  <2> QED  BY <1>3, <1>8, <2>1, <2>2, <2>3, <2>4
<1>9. \A j \in Orders : j # i => after.rows[j] = s.rows[j]  BY <1>1
<1>10. row = StruckRow(s.rows[i], i, t)  BY DEF row
<1> HIDE DEF after, failed
<1>11. CASE ~ (s.ok /\ Covered(pay, funds) /\ net > 0)
  BY <1>4, <1>5, <1>11
<1>12. CASE s.ok /\ Covered(pay, funds) /\ net > 0
  BY <1>4, <1>6, <1>7, <1>8, <1>9, <1>10, <1>12
<1> QED  BY <1>11, <1>12

\* The accounts and rows after a valid trade.
LEMMA StruckIsSound ==
  ASSUME TypeOK, NEW t \in Payload, EnginePublishes(t), Valid(t)
  PROVE  /\ Struck(t) \in Money
         /\ NonNegative /\ Struck(t).ok => Solvent(Struck(t))
         /\ Struck(t).ok =>
              \A j \in Orders :
                Struck(t).rows[j] = IF j \in Real(t) THEN StruckRow(rows[j], j, t) ELSE rows[j]
<1> DEFINE s0 == [ok |-> TRUE, rows |-> rows, balance |-> balance, locked |-> lockedFunds]
           s1 == IF t.maker = Fake THEN s0 ELSE Strike(s0, t.maker, t)
           s2 == IF t.taker = Fake THEN s1 ELSE Strike(s1, t.taker, t)
<1>1. Struck(t) = s2  BY DEF Struck
<1>2. s0 \in Money  BY DEF TypeOK, Money
<1>3. NonNegative => Solvent(s0)  BY DEF NonNegative, Solvent
<1>4. /\ t.maker # Fake => t.maker \in Orders
      /\ t.taker # Fake => t.taker \in Orders
      /\ t.maker = t.taker => t.maker = Fake
  BY DEF Payload, EnginePublishes
<1>5. /\ t.maker # Fake => rows[t.maker].volume >= t.quantity
      /\ t.taker # Fake => rows[t.taker].volume >= t.quantity
  BY DEF Valid, VolumesSuffice, Real
<1>6. s0.rows = rows /\ rows \in [Orders -> Row]  BY DEF TypeOK
<1> HIDE DEF s0
<1>7. /\ s1 \in Money
      /\ NonNegative /\ s1.ok => Solvent(s1)
      /\ s1.ok => \A j \in Orders : s1.rows[j] = IF j = t.maker /\ j # Fake THEN StruckRow(rows[j], j, t)
                                                             ELSE rows[j]
      /\ \A j \in Orders : j # t.maker => s1.rows[j] = rows[j]
  <2>1. CASE t.maker = Fake  BY <1>2, <1>3, <1>6, <2>1
  <2>2. CASE t.maker # Fake
    <3>1. t.maker \in Orders /\ s0.rows[t.maker].volume >= t.quantity
      BY <1>4, <1>5, <1>6, <2>2
    <3>2. s1 = Strike(s0, t.maker, t)  BY <2>2
    <3> HIDE DEF s1
    <3>3. s1 \in Money /\ (NonNegative /\ s1.ok => Solvent(s1))
      BY <1>2, <1>3, <3>1, <3>2, StrikeIsSound
    <3>4. s1.ok => s1.rows = [rows EXCEPT ![t.maker] = StruckRow(rows[t.maker], t.maker, t)]
      <4>1. s1.ok => s1.rows = [s0.rows EXCEPT ![t.maker] = StruckRow(s0.rows[t.maker], t.maker, t)]
        BY <1>2, <3>1, <3>2, StrikeIsSound
      <4> QED  BY <1>6, <4>1, Zenon
    <3>5. \A j \in Orders : j # t.maker => s1.rows[j] = rows[j]
      <4>1. \A j \in Orders : j # t.maker => Strike(s0, t.maker, t).rows[j] = s0.rows[j]
        BY <1>2, <3>1, StrikeIsSound, ZenonT(60)
      <4> QED  BY <1>6, <3>2, <4>1, Zenon
    <3> QED  BY <1>6, <2>2, <3>1, <3>3, <3>4, <3>5, ZenonT(60)
  <2> QED  BY <2>1, <2>2
<1> HIDE DEF s1
<1>8. CASE t.taker = Fake
  <2>1. s2 = s1  BY <1>8
  <2>2. \A j \in Orders : j \in Real(t) <=> j = t.maker /\ j # Fake  BY <1>8, FakeAssumption DEF Real
  <2> QED  BY <1>1, <1>7, <2>1, <2>2
<1>9. CASE t.taker # Fake
  <2>1. t.taker \in Orders /\ s1.rows[t.taker] = rows[t.taker]  BY <1>4, <1>7, <1>9
  <2>2. s1.rows[t.taker].volume >= t.quantity  BY <1>5, <1>9, <2>1
  <2>3. s2 = Strike(s1, t.taker, t)  BY <1>9
  <2> HIDE DEF s2
  <2>4. s2 \in Money /\ (s2.ok => s1.ok) /\ (NonNegative /\ s2.ok => Solvent(s2))
    BY <1>7, <2>1, <2>2, <2>3, StrikeIsSound
  <2>5. s2.ok => s2.rows = [s1.rows EXCEPT ![t.taker] = StruckRow(rows[t.taker], t.taker, t)]
    BY <1>7, <2>1, <2>2, <2>3, StrikeIsSound
  <2>6. \A j \in Orders : j \in Real(t) <=> j = t.taker \/ (j = t.maker /\ j # Fake)
    BY <1>9, FakeAssumption DEF Real
  <2>7. s1.rows \in [Orders -> Row]  BY <1>7 DEF Money
  <2> QED  BY <1>1, <1>4, <1>7, <1>9, <2>1, <2>4, <2>5, <2>6, <2>7
<1> QED  BY <1>8, <1>9

-----------------------------------------------------------------------------
(* Types, and accounts that are never overdrawn. *)

\* The message to the engine has its type, and so has a fresh row.
LEMMA RowTypes ==
  ASSUME NEW i \in Orders
  PROVE  /\ FreshRow(i) \in Row
         /\ \A row \in Row : Message(i, row) \in Messages
  BY DetailTypes DEF FreshRow, Row, States, Message, Messages

\* One submission, from the topic or at the start.
LEMMA SubmitOrderIsSound ==
  ASSUME TypeOK, NonNegative, NEW i \in Orders, SubmitOrder(i)
  PROVE  /\ rows' \in [Orders -> Row]
         /\ balance' \in [Accounts -> Int] /\ lockedFunds' \in [Accounts -> Int]
         /\ NonNegative'
         /\ producing' \in Messages \cup {None}
<1> DEFINE amount == Scale * rows[i].locked
           a      == Outcome(i)
<1>1. rows[i] \in Row /\ a \in Accounts  BY AccountsOfAnOrder DEF TypeOK
<1>2. amount \in Int  BY <1>1, ScaleAssumption DEF Row
<1>3. ToEngine(i) \in Messages  BY <1>1, RowTypes DEF ToEngine
<1>4. balance \in [Accounts -> Int] /\ lockedFunds \in [Accounts -> Int] /\ rows \in [Orders -> Row]
  BY DEF TypeOK
<1>5. /\ [rows EXCEPT ![i].state = "wait"] \in [Orders -> Row]
      /\ [rows EXCEPT ![i].state = "reject"] \in [Orders -> Row]
  BY <1>4 DEF Row, States
<1> HIDE DEF amount, a
<1>6. CASE /\ Covered(amount, balance[a])
           /\ balance' = [balance EXCEPT ![a] = @ - amount]
           /\ lockedFunds' = [lockedFunds EXCEPT ![a] = @ + amount]
           /\ rows' = [rows EXCEPT ![i].state = "wait"]
           /\ producing' = ToEngine(i)
  <2>1. balance' \in [Accounts -> Int] /\ lockedFunds' \in [Accounts -> Int]
    BY <1>1, <1>2, <1>4, <1>6
  <2>2. NonNegative'
    BY <1>1, <1>2, <1>4, <1>6 DEF NonNegative, Covered
  <2> QED  BY <1>3, <1>5, <1>6, <2>1, <2>2
<1>7. CASE /\ rows' = [rows EXCEPT ![i].state = "reject"]
           /\ UNCHANGED <<balance, lockedFunds, producing>>
  BY <1>4, <1>5, <1>7 DEF TypeOK, NonNegative
<1>8. CASE producing' = ToEngine(i) /\ UNCHANGED <<rows, balance, lockedFunds>>
  BY <1>3, <1>4, <1>8 DEF NonNegative
<1> QED  BY <1>6, <1>7, <1>8 DEF SubmitOrder, amount, a

\* The cancel of a waiting order gives back what it has locked.
LEMMA HandleCancelIsSound ==
  ASSUME TypeOK, NonNegative, NEW i \in Orders, HandleCancel(i)
  PROVE  /\ rows' \in [Orders -> Row]
         /\ balance' \in [Accounts -> Int] /\ lockedFunds' \in [Accounts -> Int]
         /\ NonNegative'
<1> DEFINE amount == Scale * rows[i].locked
           a      == Outcome(i)
<1>1. rows[i] \in Row /\ a \in Accounts  BY AccountsOfAnOrder DEF TypeOK
<1>2. amount \in Int  BY <1>1, ScaleAssumption DEF Row
<1>3. balance \in [Accounts -> Int] /\ lockedFunds \in [Accounts -> Int] /\ rows \in [Orders -> Row]
  BY DEF TypeOK
<1>4. [rows EXCEPT ![i].state = "cancel"] \in [Orders -> Row]  BY <1>3 DEF Row, States
<1> HIDE DEF amount, a
<1>5. /\ Covered(amount, lockedFunds[a])
      /\ lockedFunds' = [lockedFunds EXCEPT ![a] = @ - amount]
      /\ balance' = [balance EXCEPT ![a] = @ + amount]
      /\ rows' = [rows EXCEPT ![i].state = "cancel"]
  BY DEF HandleCancel, Cancellable, amount, a
<1>6. balance' \in [Accounts -> Int] /\ lockedFunds' \in [Accounts -> Int]
  BY <1>1, <1>2, <1>3, <1>5
<1>7. NonNegative'
  BY <1>1, <1>2, <1>3, <1>5 DEF NonNegative, Covered
<1> QED  BY <1>4, <1>5, <1>6, <1>7

\* The amounts booked beside the accounts.
LEMMA BookedTypes ==
  ASSUME NEW t \in Payload, EnginePublishes(t), NEW c \in Currencies
  PROVE  FeesIn(c, t) \in Int /\ FakeReceives(c, t) \in Int
<1>1. \A i \in {t.maker, t.taker} : Fee(i, c, t) \in Int /\ Takes(i, c, t) \in Int
  <2> SUFFICES ASSUME NEW i \in {t.maker, t.taker} PROVE Fee(i, c, t) \in Int /\ Takes(i, c, t) \in Int
    OBVIOUS
  <2>1. CASE i = Fake  BY <2>1 DEF Fee, Takes
  <2>2. CASE i # Fake
    <3>1. i \in Orders  BY <2>2 DEF Payload
    <3>2. Earns(i, t) * FeeRate(i, t) \in Int
      <4>1. Earns(i, t) \in Int /\ FeeRate(i, t) \in Int  BY <3>1, Amounts, ScaleAssumption
      <4> QED  BY <4>1
    <3>3. Scale * Earns(i, t) \in Int /\ - Scale * Pays(i, t) \in Int
      <4>1. Earns(i, t) \in Int /\ Pays(i, t) \in Int  BY <3>1, Amounts
      <4> QED  BY <4>1, ScaleAssumption
    <3> QED  BY <2>2, <3>2, <3>3 DEF Fee, Takes
  <2> QED  BY <2>1, <2>2
<1> QED  BY <1>1 DEF FeesIn, FakeReceives

\* A trade the executor settles.
LEMMA SettleTradeIsSound ==
  ASSUME TypeOK, NonNegative, NEW t \in Payload, SettleTrade(t)
  PROVE  TypeOK' /\ NonNegative'
<1> DEFINE s == Struck(t)
<1>1. s \in Money /\ Solvent(s)
  BY StruckIsSound DEF SettleTrade, Settle
<1>2. rows' = s.rows /\ balance' = s.balance /\ lockedFunds' = s.locked
  BY DEF SettleTrade, Settle
<1>3. /\ revenue' \in [Currencies -> Int] /\ external' \in [Currencies -> Int]
  BY BookedTypes DEF SettleTrade, Settle, TypeOK
<1>4. UNCHANGED <<api, requests, startup, producing, restarts, announced, raced>>
  BY DEF SettleTrade, Settle, processor
<1> HIDE DEF s
<1>5. NonNegative'  BY <1>1, <1>2 DEF Solvent, NonNegative
<1>6. TypeOK'  BY <1>1, <1>2, <1>3, <1>4 DEF TypeOK, Money
<1> QED  BY <1>5, <1>6

\* The rows the executor has in memory after a trade it has rolled back.
LEMMA RowsInMemoryType ==
  ASSUME TypeOK, NEW t \in Payload, EnginePublishes(t)
  PROVE  RowsInMemory(t) \in [Orders -> Row]
<1>1. CASE Valid(t)
  <2>1. Struck(t) \in Money  BY <1>1, StruckIsSound
  <2> QED  BY <1>1, <2>1 DEF RowsInMemory, Money
<1>2. CASE ~ Valid(t)  BY <1>2 DEF RowsInMemory, TypeOK
<1> QED  BY <1>1, <1>2

LEMMA SafeInit == Init => TypeOK /\ NonNegative
<1> SUFFICES ASSUME Init PROVE TypeOK /\ NonNegative
  OBVIOUS
<1>1. [state |-> "none", volume |-> 0, locked |-> 0, received |-> 0] \in Row
  BY DEF Row, States
<1>2. TypeOK
  <2>1. balance \in [Accounts -> Int]  BY FundsAssumption DEF Init
  <2>2. lockedFunds \in [Accounts -> Int] /\ revenue \in [Currencies -> Int]
        /\ external \in [Currencies -> Int]
    BY DEF Init
  <2>3. rows \in [Orders -> Row]  BY <1>1 DEF Init
  <2>4. api \in [Orders -> {"start", "created", "refused", "checked", "saved", "sent"}]
    BY DEF Init
  <2>5. raced \in BOOLEAN  BY Zenon DEF Init
  <2> QED  BY <2>1, <2>2, <2>3, <2>4, <2>5 DEF Init, TypeOK
<1>3. NonNegative
  BY FundsAssumption DEF Init, NonNegative
<1> QED  BY <1>2, <1>3

LEMMA SafeNext == TypeOK /\ NonNegative /\ [Next]_vars => TypeOK' /\ NonNegative'
<1> SUFFICES ASSUME TypeOK, NonNegative, [Next]_vars PROVE TypeOK' /\ NonNegative'
  OBVIOUS
<1> USE DEF accounts, processor
<1>1. ASSUME NEW i \in Orders, Create(i) PROVE TypeOK' /\ NonNegative'
  BY <1>1, RowTypes DEF Create, TypeOK, NonNegative
<1>2. ASSUME NEW i \in Orders, CheckBalance(i) PROVE TypeOK' /\ NonNegative'
  BY <1>2 DEF CheckBalance, TypeOK, NonNegative
<1>3. ASSUME NEW i \in Orders, Save(i) PROVE TypeOK' /\ NonNegative'
  <2>1. raced' \in BOOLEAN  BY <1>3 DEF Save, TypeOK
  <2>2. rows' \in [Orders -> Row]  BY <1>3, RowTypes DEF Save, TypeOK
  <2> QED  BY <1>3, <2>1, <2>2 DEF Save, TypeOK, NonNegative
<1>4. ASSUME NEW i \in Orders, ProduceSubmit(i) PROVE TypeOK' /\ NonNegative'
  BY <1>4 DEF ProduceSubmit, TypeOK, NonNegative
<1>5. ASSUME NEW i \in Orders, HandleSubmit(i) PROVE TypeOK' /\ NonNegative'
  <2>1. SubmitOrder(i) /\ startup' = startup  BY <1>5 DEF HandleSubmit
  <2>2. UNCHANGED <<revenue, external, api, requests, announced, restarts, raced>>
    BY <2>1 DEF SubmitOrder
  <2> QED  BY <2>1, <2>2, SubmitOrderIsSound DEF TypeOK
<1>6. ASSUME NEW i \in Orders, SubmitAtStart(i) PROVE TypeOK' /\ NonNegative'
  <2>1. SubmitOrder(i) /\ startup' = startup \ {i}  BY <1>6 DEF SubmitAtStart
  <2>2. UNCHANGED <<revenue, external, api, requests, announced, restarts, raced>>
    BY <2>1 DEF SubmitOrder
  <2> QED  BY <2>1, <2>2, SubmitOrderIsSound DEF TypeOK
<1>7. ASSUME NEW i \in Orders, HandleCancel(i) PROVE TypeOK' /\ NonNegative'
  <2>1. UNCHANGED <<revenue, external, api, requests, startup, producing, restarts, announced, raced>>
    BY <1>7 DEF HandleCancel, Cancellable
  <2> QED  BY <1>7, <2>1, HandleCancelIsSound DEF TypeOK
<1>8. ASSUME ProduceMatching PROVE TypeOK' /\ NonNegative'
  BY <1>8 DEF ProduceMatching, TypeOK, NonNegative
<1>9. ASSUME Restart PROVE TypeOK' /\ NonNegative'
  BY <1>9 DEF Restart, ToSubmitAtStart, TypeOK, NonNegative
<1>10. ASSUME NEW t \in Payload, SettleTrade(t) PROVE TypeOK' /\ NonNegative'
  BY <1>10, SettleTradeIsSound
<1>11. ASSUME NEW t \in Payload, RefuseTrade(t) PROVE TypeOK' /\ NonNegative'
  <2>1. EnginePublishes(t)  BY <1>11 DEF RefuseTrade, Refuse, HandedBack
  <2> DEFINE memory == RowsInMemory(t)
  <2>2. memory \in [Orders -> Row]  BY <2>1, RowsInMemoryType
  <2>3. Real(t) \subseteq Orders  BY DEF Real, Payload
  <2>4. announced' = announced \cup
          {Message(i, memory[i]) : i \in {j \in Real(t) : memory[j].state = "wait"}}
    BY <1>11 DEF RefuseTrade, Refuse, HandedBack
  <2> HIDE DEF memory
  <2>5. \A i \in Real(t) : Message(i, memory[i]) \in Messages
    BY <2>2, <2>3, RowTypes
  <2>6. announced' \subseteq Messages  BY <2>4, <2>5 DEF TypeOK
  <2>7. UNCHANGED <<rows, balance, lockedFunds, revenue, external, api, requests, startup,
                    producing, restarts, raced>>
    BY <1>11 DEF RefuseTrade, Refuse, HandedBack
  <2> QED  BY <2>6, <2>7 DEF TypeOK, NonNegative
<1>12. CASE UNCHANGED vars
  BY <1>12 DEF vars, TypeOK, NonNegative
<1>13. CASE LoadOrders
  <2>1. \A i \in Orders : Message(i, rows[i]) \in Messages
    BY RowTypes DEF TypeOK
  <2>2. announced' \subseteq Messages  BY <1>13, <2>1 DEF LoadOrders, TypeOK
  <2> QED  BY <1>13, <2>2 DEF LoadOrders, accounts, processor, TypeOK, NonNegative
<1> QED
  BY <1>1, <1>2, <1>3, <1>4, <1>5, <1>6, <1>7, <1>8, <1>9, <1>10, <1>11, <1>12, <1>13
  DEF Next, Api, OrderProcessor, TradeExecutor

\* The variables keep their types: among other things no order is ever executed
\* beyond its volume, because a row's volume stays a natural number.
THEOREM TypeCorrect == Spec => []TypeOK
<1> QED  BY SafeInit, SafeNext, PTL DEF Spec

\* No balance and no locked amount is ever negative, for any orders and funds, any
\* trades of the engine and any number of restarts and repeated messages.
THEOREM NeverOverdrawn == Spec => []NonNegative
<1> QED  BY SafeInit, SafeNext, PTL DEF Spec

-----------------------------------------------------------------------------
(* Limits.  ExecutedWithinLimit is about one row at a time; it is inductive *)
(* once a pending row is known to be as the API has built it, and a waiting *)
(* row to have volume left.                                                 *)

Traded(row, i) == Details[i].quantity - row.volume

Spent(row, i) == Details[i].locked - row.locked

Within(row, i) ==
  IF IsBuy(i) THEN /\ Spent(row, i) <= Details[i].price * Traded(row, i)
                   /\ row.received = Traded(row, i)
              ELSE /\ row.received >= Details[i].price * Traded(row, i)
                   /\ Spent(row, i) = Traded(row, i)

Sound(row, i) ==
  /\ row.volume <= Details[i].quantity
  /\ row.state = "pending" => row = FreshRow(i)
  /\ row.state \in {"wait", "done", "cancel"} /\ IsLimit(i) => Within(row, i)
  /\ row.state = "wait" /\ IsLimit(i) => row.volume > 0

RowsSound == \A i \in Orders : Sound(rows[i], i)

IInv == TypeOK /\ NonNegative /\ RowsSound

LEMMA FreshRowIsSound ==
  ASSUME NEW i \in Orders
  PROVE  /\ Sound(FreshRow(i), i)
         /\ Within(FreshRow(i), i)
         /\ FreshRow(i).volume = Details[i].quantity /\ FreshRow(i).locked = Details[i].locked
         /\ FreshRow(i).state = "pending"
<1>1. /\ FreshRow(i).volume = Details[i].quantity /\ FreshRow(i).locked = Details[i].locked
      /\ FreshRow(i).received = 0 /\ FreshRow(i).state = "pending"
  BY DEF FreshRow
<1>2. Traded(FreshRow(i), i) = 0 /\ Spent(FreshRow(i), i) = 0
  BY <1>1, DetailTypes DEF Traded, Spent
<1>3. Within(FreshRow(i), i)  BY <1>1, <1>2, DetailTypes DEF Within
<1>4. Sound(FreshRow(i), i)  BY <1>1, DetailTypes DEF Sound
<1> QED  BY <1>1, <1>3, <1>4

\* A limit order that has its lock has volume.
LEMMA LockedHasVolume ==
  ASSUME NEW i \in Orders, IsLimit(i), Details[i].locked # 0
  PROVE  Details[i].quantity > 0
<1>1. Details[i].locked = IF IsBuy(i) THEN Details[i].price * Details[i].quantity
                                      ELSE Details[i].quantity
  BY DetailsAssumption DEF LockedInFull, IsLimit, IsBuy
<1>2. Details[i].quantity \in Nat /\ Details[i].price \in Nat  BY DetailTypes
<1>3. CASE Details[i].quantity = 0  BY <1>1, <1>2, <1>3
<1> QED  BY <1>2, <1>3

\* A trade at a price the order accepts keeps it within its limit.
LEMMA StruckRowIsSound ==
  ASSUME NEW i \in Orders, NEW t \in Payload, NEW row \in Row, Sound(row, i),
         row.state = "wait", row.volume >= t.quantity, Accepts(i, t.price)
  PROVE  Sound(StruckRow(row, i, t), i)
<1> DEFINE new == StruckRow(row, i, t)
           p   == Details[i].price
           q   == t.quantity
           old == Traded(row, i)
<1>1. /\ new \in Row
      /\ new.volume = row.volume - q /\ new.locked = row.locked - Pays(i, t)
      /\ new.received = row.received + Earns(i, t)
      /\ new.state \in {"wait", "done", "cancel"}
      /\ new.volume = 0 => new.state = "done"
  BY StruckRowType
<1>2. /\ p \in Nat /\ q \in Nat /\ t.price \in Nat /\ Details[i].quantity \in Nat
      /\ Details[i].locked \in Nat
      /\ row.volume \in Nat /\ row.locked \in Int /\ row.received \in Nat
      /\ row.volume <= Details[i].quantity
      /\ Pays(i, t) \in Nat /\ Earns(i, t) \in Nat
  BY DetailTypes, PayloadTypes, Amounts DEF Row, Sound
<1>3. old \in Nat /\ Traded(new, i) = old + q
  BY <1>1, <1>2 DEF Traded
<1>4. Spent(row, i) \in Int /\ Spent(new, i) = Spent(row, i) + Pays(i, t)
  BY <1>1, <1>2 DEF Spent
<1>5. p * (old + q) = p * old + p * q /\ p * old \in Nat /\ p * q \in Nat /\ t.price * q \in Nat
  BY <1>2, <1>3, SumsOfProducts, Products
<1>6. ASSUME IsLimit(i) PROVE Within(new, i)
  <2>1. Within(row, i)  BY <1>6 DEF Sound
  <2>2. CASE IsBuy(i)
    <3>1. Pays(i, t) = t.price * q /\ Earns(i, t) = q  BY <2>2 DEF Pays, Earns
    <3>2. t.price * q <= p * q
      <4>1. t.price <= p  BY <1>6, <2>2 DEF Accepts
      <4> QED  BY <1>2, <4>1, SumsOfProducts
    <3>3. Spent(row, i) <= p * old /\ row.received = old  BY <2>1, <2>2 DEF Within
    <3>4. Spent(new, i) <= p * (old + q)
      BY <1>4, <1>5, <3>1, <3>2, <3>3
    <3>5. new.received = old + q  BY <1>1, <3>1, <3>3
    <3> QED  BY <1>3, <2>2, <3>4, <3>5 DEF Within
  <2>3. CASE ~ IsBuy(i)
    <3>1. Pays(i, t) = q /\ Earns(i, t) = t.price * q  BY <2>3 DEF Pays, Earns
    <3>2. p * q <= t.price * q
      <4>1. p <= t.price  BY <1>2, <1>6, <2>3 DEF Accepts
      <4> QED  BY <1>2, <4>1, SumsOfProducts
    <3>3. row.received >= p * old /\ Spent(row, i) = old  BY <2>1, <2>3 DEF Within
    <3>4. new.received >= p * (old + q)
      BY <1>1, <1>2, <1>5, <3>1, <3>2, <3>3
    <3>5. Spent(new, i) = old + q  BY <1>4, <3>1, <3>3
    <3> QED  BY <1>3, <2>3, <3>4, <3>5 DEF Within
  <2> QED  BY <2>2, <2>3
<1>7. new.volume <= Details[i].quantity  BY <1>1, <1>2
<1>8. new.state = "wait" => new.volume > 0
  <2>1. new.volume \in Nat  BY <1>1 DEF Row
  <2> QED  BY <1>1, <2>1
<1> HIDE DEF new
<1> QED  BY <1>1, <1>6, <1>7, <1>8 DEF Sound, new

\* A state that changes to "wait", "reject" or "cancel" with the rest of the row kept.
LEMMA RestateIsSound ==
  ASSUME NEW i \in Orders, NEW row \in Row, Sound(row, i),
         NEW x \in {"wait", "reject", "cancel"},
         x = "wait" => row.state = "pending" /\ row.locked # 0,
         x = "cancel" => row.state = "wait"
  PROVE  Sound([row EXCEPT !.state = x], i)
<1> DEFINE new == [row EXCEPT !.state = x]
<1>1. /\ new.state = x /\ new.volume = row.volume /\ new.locked = row.locked
      /\ new.received = row.received
  BY DEF Row
<1>2. Within(new, i) <=> Within(row, i)
  BY <1>1 DEF Within, Traded, Spent
<1> HIDE DEF new
<1>3. CASE x = "wait"
  <2>1. row = FreshRow(i)  BY <1>3 DEF Sound
  <2>2. Within(new, i) /\ new.volume = Details[i].quantity /\ Details[i].locked # 0
    BY <1>1, <1>2, <1>3, <2>1, FreshRowIsSound
  <2>3. IsLimit(i) => new.volume > 0  BY <2>2, LockedHasVolume
  <2>4. new.volume <= Details[i].quantity  BY <1>1 DEF Sound
  <2> QED  BY <1>1, <1>3, <2>2, <2>3, <2>4 DEF Sound, new
<1>4. CASE x = "cancel"  BY <1>1, <1>2, <1>4 DEF Sound, new
<1>5. CASE x = "reject"  BY <1>1, <1>5 DEF Sound, new
<1> QED  BY <1>3, <1>4, <1>5

LEMMA SubmitKeepsRowsSound ==
  ASSUME IInv, NEW i \in Orders, SubmitOrder(i)
  PROVE  RowsSound'
<1>1. rows \in [Orders -> Row] /\ Sound(rows[i], i)  BY DEF IInv, TypeOK, RowsSound
<1>2. CASE /\ IsPending(i) /\ Covered(Scale * rows[i].locked, balance[Outcome(i)])
           /\ rows' = [rows EXCEPT ![i].state = "wait"]
  <2>1. rows[i].locked # 0
    <3>1. Scale * rows[i].locked > 0  BY <1>2 DEF Covered
    <3>2. Scale * 0 = 0  BY ScaleAssumption
    <3> QED  BY <3>1, <3>2
  <2>2. Sound([rows[i] EXCEPT !.state = "wait"], i)
    BY <1>1, <1>2, <2>1, RestateIsSound DEF IsPending
  <2> QED  BY <1>1, <1>2, <2>2 DEF IInv, RowsSound
<1>3. CASE rows' = [rows EXCEPT ![i].state = "reject"]
  <2>1. Sound([rows[i] EXCEPT !.state = "reject"], i)  BY <1>1, RestateIsSound
  <2> QED  BY <1>1, <1>3, <2>1 DEF IInv, RowsSound
<1>4. CASE UNCHANGED rows  BY <1>4 DEF IInv, RowsSound
<1> QED  BY <1>2, <1>3, <1>4 DEF SubmitOrder

LEMMA LimitsInit == Init => IInv
<1> SUFFICES ASSUME Init PROVE RowsSound
  BY SafeInit DEF IInv
<1>1. ASSUME NEW i \in Orders PROVE Sound(rows[i], i)
  <2>1. rows[i].state = "none" /\ rows[i].volume = 0  BY DEF Init
  <2> QED  BY <2>1, DetailTypes DEF Sound
<1> QED  BY <1>1 DEF RowsSound

LEMMA LimitsNext == IInv /\ [Next]_vars => IInv'
<1> SUFFICES ASSUME IInv, [Next]_vars PROVE RowsSound'
  BY SafeNext DEF IInv
<1>0. rows \in [Orders -> Row] /\ \A i \in Orders : Sound(rows[i], i)
  BY DEF IInv, TypeOK, RowsSound
<1>1. ASSUME NEW i \in Orders, Create(i) \/ Save(i) PROVE RowsSound'
  <2>1. rows' = [rows EXCEPT ![i] = FreshRow(i)]  BY <1>1 DEF Create, Save
  <2> QED  BY <1>0, <2>1, FreshRowIsSound DEF RowsSound
<1>2. ASSUME NEW i \in Orders, HandleSubmit(i) \/ SubmitAtStart(i) PROVE RowsSound'
  BY <1>2, SubmitKeepsRowsSound DEF HandleSubmit, SubmitAtStart
<1>3. ASSUME NEW i \in Orders, HandleCancel(i) PROVE RowsSound'
  <2>1. rows[i].state = "wait" /\ rows' = [rows EXCEPT ![i].state = "cancel"]
    BY <1>3 DEF HandleCancel, Cancellable
  <2>2. Sound([rows[i] EXCEPT !.state = "cancel"], i)  BY <1>0, <2>1, RestateIsSound
  <2> QED  BY <1>0, <2>1, <2>2 DEF RowsSound
<1>4. ASSUME NEW t \in Payload, SettleTrade(t) PROVE RowsSound'
  <2>1. EnginePublishes(t) /\ Valid(t) /\ Struck(t).ok /\ rows' = Struck(t).rows
    BY <1>4 DEF SettleTrade, Settle
  <2>2. \A j \in Orders :
          rows'[j] = IF j \in Real(t) THEN StruckRow(rows[j], j, t) ELSE rows[j]
    BY <2>1, StruckIsSound DEF IInv
  <2>3. ASSUME NEW j \in Orders PROVE Sound(rows'[j], j)
    <3>1. CASE j \in Real(t)
      <4>1. rows[j].state = "wait" /\ rows[j].volume >= t.quantity /\ Accepts(j, t.price)
        BY <2>1, <3>1 DEF EnginePublishes, Valid, StatesWait, VolumesSuffice
      <4> QED  BY <1>0, <2>2, <3>1, <4>1, StruckRowIsSound
    <3>2. CASE j \notin Real(t)  BY <1>0, <2>2, <3>2
    <3> QED  BY <3>1, <3>2
  <2> QED  BY <2>3 DEF RowsSound
<1>5. CASE UNCHANGED rows  BY <1>0, <1>5 DEF RowsSound
<1>6. ASSUME NEW i \in Orders, CheckBalance(i) \/ ProduceSubmit(i) PROVE UNCHANGED rows
  BY <1>6 DEF CheckBalance, ProduceSubmit
<1>7. ProduceMatching \/ Restart => UNCHANGED rows  BY DEF ProduceMatching, Restart
<1>8. ASSUME NEW t \in Payload, RefuseTrade(t) PROVE UNCHANGED rows  BY <1>8 DEF RefuseTrade, Refuse, HandedBack
<1>9. LoadOrders \/ UNCHANGED vars => UNCHANGED rows  BY DEF LoadOrders, vars
<1> QED  BY <1>1, <1>2, <1>3, <1>4, <1>5, <1>6, <1>7, <1>8, <1>9
         DEF Next, Api, OrderProcessor, TradeExecutor

\* What is within its limit still holds what the rest of it can cost.
LEMMA WithinIsCovered ==
  ASSUME NEW i \in Orders, NEW row \in Row, IsLimit(i), Within(row, i),
         row.volume <= Details[i].quantity
  PROVE  IF IsBuy(i) THEN row.locked >= Details[i].price * row.volume
                     ELSE row.locked = row.volume
<1> DEFINE p   == Details[i].price
           old == Traded(row, i)
<1>1. /\ p \in Nat /\ Details[i].quantity \in Nat /\ Details[i].locked \in Nat
      /\ row.volume \in Nat /\ row.locked \in Int
  BY DetailTypes DEF Row
<1>2. old \in Nat /\ Details[i].quantity = old + row.volume  BY <1>1 DEF Traded
<1>3. Details[i].locked = IF IsBuy(i) THEN p * Details[i].quantity ELSE Details[i].quantity
  BY DetailsAssumption DEF LockedInFull, IsLimit, IsBuy
<1>4. p * (old + row.volume) = p * old + p * row.volume /\ p * old \in Nat /\ p * row.volume \in Nat
  BY <1>1, <1>2, SumsOfProducts, Products
<1>5. CASE IsBuy(i)
  <2>1. Details[i].locked - row.locked <= p * old  BY <1>5 DEF Within, Spent
  <2> HIDE DEF p, old
  <2>2. Details[i].locked = p * old + p * row.volume  BY <1>2, <1>3, <1>4, <1>5
  <2>3. row.locked >= p * row.volume  BY <1>1, <1>4, <2>1, <2>2
  <2> QED  BY <1>5, <2>3 DEF p
<1>6. CASE ~ IsBuy(i)
  <2>1. Details[i].locked - row.locked = old  BY <1>6 DEF Within, Spent
  <2> QED  BY <1>1, <1>2, <1>3, <1>6, <2>1
<1> QED  BY <1>5, <1>6

\* Every limit order is executed within its limit, over all of its trades and
\* whatever is repeated, refused or restarted.
THEOREM LimitsHonoured == Spec => []ExecutedWithinLimit
<1>1. IInv => ExecutedWithinLimit
  BY DEF IInv, RowsSound, Sound, Within, Traded, Spent, ExecutedWithinLimit
<1> QED  BY LimitsInit, LimitsNext, <1>1, PTL DEF Spec

\* A waiting limit order holds what the rest of it can cost.
THEOREM WaitingIsCovered == Spec => []LimitLockCovers
<1>1. IInv => LimitLockCovers
  <2> SUFFICES ASSUME IInv, NEW i \in Orders, rows[i].state = "wait", IsLimit(i)
               PROVE  /\ rows[i].volume > 0
                      /\ IF IsBuy(i) THEN rows[i].locked >= Details[i].price * rows[i].volume
                                     ELSE rows[i].locked = rows[i].volume
    BY DEF LimitLockCovers
  <2>1. rows[i] \in Row /\ Sound(rows[i], i)  BY DEF IInv, TypeOK, RowsSound
  <2>2. Within(rows[i], i) /\ rows[i].volume > 0 /\ rows[i].volume <= Details[i].quantity
    BY <2>1 DEF Sound
  <2> QED  BY <2>1, <2>2, WithinIsCovered
<1> QED  BY LimitsInit, LimitsNext, <1>1, PTL DEF Spec

-----------------------------------------------------------------------------
(* The life of an order. *)

\* An order the API has not created has no row.
NotCreatedYet == \A i \in Orders : api[i] = "start" => rows[i].state = "none"

\* What one step may do to the state of a row.
LifeGoesOn ==
  \A i \in Orders :
    rows'[i].state # rows[i].state /\ ~ raced' =>
      <<rows[i].state, rows'[i].state>> \in
        {<<"none", "pending">>, <<"pending", "wait">>, <<"pending", "reject">>,
         <<"wait", "done">>, <<"wait", "cancel">>}

LEMMA SubmitMovesOn ==
  ASSUME TypeOK, NEW i \in Orders, SubmitOrder(i)
  PROVE  /\ LifeGoesOn
         /\ \A j \in Orders : rows[j].state = "none" => rows'[j].state = "none"
<1>1. rows \in [Orders -> Row] /\ rows[i].state # "none"  BY DEF TypeOK, SubmitOrder
<1>2. \/ UNCHANGED rows
      \/ /\ rows[i].state = "pending"
         /\ \E x \in {"wait", "reject"} : rows' = [rows EXCEPT ![i].state = x]
  BY DEF SubmitOrder, IsPending
<1>3. \A j \in Orders :
        \/ rows'[j] = rows[j]
        \/ j = i /\ rows[j].state = "pending" /\ rows'[j].state \in {"wait", "reject"}
  BY <1>1, <1>2 DEF Row
<1> QED  BY <1>3 DEF LifeGoesOn

LEMMA SettleMovesOn ==
  ASSUME TypeOK, NEW t \in Payload, SettleTrade(t)
  PROVE  /\ LifeGoesOn
         /\ \A j \in Orders : rows[j].state = "none" => rows'[j].state = "none"
<1>1. EnginePublishes(t) /\ Valid(t) /\ Struck(t).ok /\ rows' = Struck(t).rows
  BY DEF SettleTrade, Settle
<1>2. \A j \in Orders : rows'[j] = IF j \in Real(t) THEN StruckRow(rows[j], j, t) ELSE rows[j]
  BY <1>1, StruckIsSound
<1>3. ASSUME NEW j \in Orders, j \in Real(t)
      PROVE  rows[j].state = "wait" /\ rows'[j].state \in {"wait", "done", "cancel"}
  <2>1. rows[j] \in Row /\ rows[j].state = "wait" /\ rows[j].volume >= t.quantity
    BY <1>1, <1>3 DEF TypeOK, Valid, StatesWait, VolumesSuffice
  <2>2. StruckRow(rows[j], j, t).state \in {"wait", "done", "cancel"}  BY <2>1, StruckRowType
  <2> QED  BY <1>2, <1>3, <2>1, <2>2
<1> QED  BY <1>2, <1>3 DEF LifeGoesOn

LEMMA LifeStep ==
  ASSUME TypeOK, NotCreatedYet, [Next]_vars
  PROVE  LifeGoesOn /\ NotCreatedYet'
<1>0. rows \in [Orders -> Row] /\ api \in [Orders -> {"start", "created", "refused", "checked", "saved", "sent"}]
  BY DEF TypeOK
<1>1. ASSUME NEW i \in Orders, Create(i) \/ Save(i) PROVE LifeGoesOn /\ NotCreatedYet'
  <2>1. rows' = [rows EXCEPT ![i] = FreshRow(i)] /\ FreshRow(i).state = "pending"
    BY <1>1 DEF Create, Save, FreshRow
  <2>2. (rows[i].state = "none" \/ rows[i].state = "pending" \/ raced') /\ api'[i] # "start"
        /\ \A j \in Orders : j # i => api'[j] = api[j]
    BY <1>0, <1>1 DEF Create, Save, NotCreatedYet
  <2> QED  BY <1>0, <2>1, <2>2 DEF LifeGoesOn, NotCreatedYet
<1>2. ASSUME NEW i \in Orders, CheckBalance(i) \/ ProduceSubmit(i) PROVE LifeGoesOn /\ NotCreatedYet'
  BY <1>0, <1>2 DEF CheckBalance, ProduceSubmit, LifeGoesOn, NotCreatedYet
<1>3. ASSUME NEW i \in Orders, HandleSubmit(i) \/ SubmitAtStart(i) PROVE LifeGoesOn /\ NotCreatedYet'
  <2>1. SubmitOrder(i) /\ UNCHANGED api  BY <1>3 DEF HandleSubmit, SubmitAtStart, SubmitOrder
  <2> QED  BY <2>1, SubmitMovesOn DEF NotCreatedYet
<1>4. ASSUME NEW i \in Orders, HandleCancel(i) PROVE LifeGoesOn /\ NotCreatedYet'
  <2>1. rows[i].state = "wait" /\ rows' = [rows EXCEPT ![i].state = "cancel"] /\ UNCHANGED api
    BY <1>4 DEF HandleCancel, Cancellable
  <2> QED  BY <1>0, <2>1 DEF Row, LifeGoesOn, NotCreatedYet
<1>5. ASSUME NEW t \in Payload, SettleTrade(t) PROVE LifeGoesOn /\ NotCreatedYet'
  BY <1>5, SettleMovesOn DEF SettleTrade, Settle, NotCreatedYet
<1>6. CASE UNCHANGED <<rows, api>>  BY <1>6 DEF LifeGoesOn, NotCreatedYet
<1>7. ASSUME NEW t \in Payload, RefuseTrade(t) PROVE UNCHANGED <<rows, api>>
  BY <1>7 DEF RefuseTrade, Refuse
<1>8. ProduceMatching \/ Restart \/ LoadOrders \/ UNCHANGED vars => UNCHANGED <<rows, api>>
  BY DEF ProduceMatching, Restart, LoadOrders, vars
<1> QED  BY <1>1, <1>2, <1>3, <1>4, <1>5, <1>6, <1>7, <1>8 DEF Next, Api, OrderProcessor, TradeExecutor

\* An order never goes back: no replay, restart, cancel or trade of the engine brings a
\* row out of "done", "cancel" or "reject", or from "wait" to "pending" (up to the save of
\* the API that overwrites a row).
THEOREM OrdersNeverComeBack == Spec => Lifecycle
<1>1. Init => NotCreatedYet  BY DEF Init, NotCreatedYet
<1>2. TypeOK /\ NotCreatedYet /\ [Next]_vars => NotCreatedYet' /\ LifeGoesOn  BY LifeStep
<1> QED  BY <1>1, <1>2, TypeCorrect, PTL DEF Spec, Lifecycle, LifeGoesOn

-----------------------------------------------------------------------------
(* When the orders have been submitted already, and what goes to the engine. *)

LEMMA SubmittedIsSound == SubmittedInit => IInv
<1> SUFFICES ASSUME SubmittedInit PROVE IInv
  OBVIOUS
<1>1. rows \in [Orders -> Row] /\ lockedFunds \in [Accounts -> Int]
  BY RowTypes DEF SubmittedInit
<1>2. balance \in [Accounts -> Int] /\ balance \in [Accounts -> Nat]
  BY FundsAssumption DEF SubmittedInit
<1>3. raced \in BOOLEAN  BY Zenon DEF SubmittedInit
<1>4. /\ revenue \in [Currencies -> Int] /\ external \in [Currencies -> Int]
      /\ api \in [Orders -> {"start", "created", "refused", "checked", "saved", "sent"}]
      /\ requests = Orders /\ startup = {} /\ announced = {} /\ producing = None /\ restarts = 0
  BY DEF SubmittedInit
<1>5. TypeOK  BY <1>1, <1>2, <1>3, <1>4 DEF TypeOK
<1>6. NonNegative  BY <1>2 DEF NonNegative, SubmittedInit
<1>7. RowsSound  BY FreshRowIsSound DEF RowsSound, SubmittedInit
<1> QED  BY <1>5, <1>6, <1>7 DEF IInv

\* A message whose fills fit its order.
Bounded == {m \in Messages : m.filled \in 0 .. Details[m.id].quantity}

LEMMA MessageIsBounded ==
  ASSUME NEW i \in Orders, NEW row \in Row, row.volume <= Details[i].quantity
  PROVE  Message(i, row) \in Bounded /\ Message(i, row).id = i
<1>1. Message(i, row).filled = Details[i].quantity - row.volume /\ Message(i, row).id = i
  BY DEF Message
<1>2. row.volume \in Nat /\ Details[i].quantity \in Nat  BY DetailTypes DEF Row
<1> QED  BY <1>1, <1>2, RowTypes DEF Bounded

\* A strike, successful or not, leaves every row with at most the volume it had.
LEMMA StrikeLowersVolumes ==
  ASSUME NEW s \in Money, NEW i \in Orders, NEW t \in Payload, s.rows[i].volume >= t.quantity,
         NEW j \in Orders
  PROVE  Strike(s, i, t).rows[j].volume <= s.rows[j].volume
<1>1. s.rows \in [Orders -> Row]  BY DEF Money
<1>2. \/ Strike(s, i, t).rows = s.rows
      \/ Strike(s, i, t).rows = [s.rows EXCEPT ![i] = StruckRow(s.rows[i], i, t)]
  BY DEF Strike, Money
<1>3. StruckRow(s.rows[i], i, t).volume <= s.rows[i].volume
  <2>1. StruckRow(s.rows[i], i, t).volume = s.rows[i].volume - t.quantity
    BY <1>1, StruckRowType
  <2>2. s.rows[i].volume \in Nat  BY <1>1 DEF Row
  <2> QED  BY <2>1, <2>2, PayloadTypes
<1>4. s.rows[j].volume \in Nat  BY <1>1 DEF Row
<1> QED  BY <1>1, <1>2, <1>3, <1>4

LEMMA MemoryLowersVolumes ==
  ASSUME TypeOK, NEW t \in Payload, EnginePublishes(t), NEW j \in Orders
  PROVE  RowsInMemory(t)[j].volume <= rows[j].volume
<1>0. rows \in [Orders -> Row] /\ rows[j].volume \in Nat  BY DEF TypeOK, Row
<1>1. CASE ~ Valid(t)  BY <1>0, <1>1 DEF RowsInMemory
<1>2. CASE Valid(t)
  <2> DEFINE s0 == [ok |-> TRUE, rows |-> rows, balance |-> balance, locked |-> lockedFunds]
             s1 == IF t.maker = Fake THEN s0 ELSE Strike(s0, t.maker, t)
  <2>1. s0 \in Money /\ s0.rows = rows  BY DEF TypeOK, Money
  <2>2. /\ t.maker # Fake => t.maker \in Orders /\ rows[t.maker].volume >= t.quantity
        /\ t.taker # Fake => t.taker \in Orders /\ rows[t.taker].volume >= t.quantity
        /\ t.maker = t.taker => t.maker = Fake
    BY <1>2 DEF Payload, EnginePublishes, Valid, VolumesSuffice, Real
  <2>3. RowsInMemory(t) = (IF t.taker = Fake THEN s1 ELSE Strike(s1, t.taker, t)).rows
    BY <1>2 DEF RowsInMemory, Struck
  <2> HIDE DEF s0
  <2>4. /\ s1 \in Money /\ s1.rows[j].volume <= rows[j].volume
        /\ t.taker # Fake => s1.rows[t.taker] = rows[t.taker]
    <3>1. CASE t.maker = Fake  BY <1>0, <2>1, <3>1
    <3>2. CASE t.maker # Fake
      <4>1. s1 = Strike(s0, t.maker, t) /\ t.maker \in Orders /\ s0.rows[t.maker].volume >= t.quantity
        BY <2>1, <2>2, <3>2
      <4> HIDE DEF s1
      <4>2. /\ s1 \in Money
            /\ \A k \in Orders : k # t.maker => s1.rows[k] = s0.rows[k]
        <5>1. s1 \in Money  BY <2>1, <4>1, StrikeIsSound
        <5>2. \A k \in Orders : k # t.maker => Strike(s0, t.maker, t).rows[k] = s0.rows[k]
          BY <2>1, <4>1, StrikeIsSound, ZenonT(60)
        <5> QED  BY <4>1, <5>1, <5>2, Zenon
      <4>3. s1.rows[j].volume <= s0.rows[j].volume  BY <2>1, <4>1, StrikeLowersVolumes
      <4> QED  BY <2>1, <2>2, <3>2, <4>2, <4>3
    <3> QED  BY <3>1, <3>2
  <2> HIDE DEF s1
  <2>5. CASE t.taker = Fake  BY <2>3, <2>4, <2>5
  <2>6. CASE t.taker # Fake
    <3>1. t.taker \in Orders /\ s1.rows[t.taker].volume >= t.quantity  BY <2>2, <2>4, <2>6
    <3>2. Strike(s1, t.taker, t).rows[j].volume <= s1.rows[j].volume
      BY <2>4, <3>1, StrikeLowersVolumes
    <3>3. Strike(s1, t.taker, t) \in Money  BY <2>4, <3>1, StrikeIsSound
    <3>4. Strike(s1, t.taker, t).rows[j].volume \in Nat /\ s1.rows[j].volume \in Nat
      BY <2>4, <3>3 DEF Money, Row
    <3>5. RowsInMemory(t)[j].volume = Strike(s1, t.taker, t).rows[j].volume  BY <2>3, <2>6
    <3> QED  BY <1>0, <2>4, <3>2, <3>4, <3>5
  <2> QED  BY <2>5, <2>6
<1> QED  BY <1>1, <1>2

LEMMA HandedBackIsBounded ==
  ASSUME IInv, NEW t \in Payload, EnginePublishes(t)
  PROVE  HandedBack(t) \subseteq Bounded
<1> DEFINE memory == RowsInMemory(t)
<1>1. memory \in [Orders -> Row]  BY RowsInMemoryType DEF IInv
<1>2. ASSUME NEW j \in Orders PROVE memory[j].volume <= Details[j].quantity
  <2>1. memory[j].volume <= rows[j].volume  BY MemoryLowersVolumes DEF IInv
  <2>2. rows[j].volume <= Details[j].quantity  BY DEF IInv, RowsSound, Sound
  <2>3. memory[j].volume \in Nat /\ rows[j].volume \in Nat /\ Details[j].quantity \in Nat
    BY <1>1, DetailTypes DEF IInv, TypeOK, Row
  <2> QED  BY <2>1, <2>2, <2>3
<1>3. HandedBack(t) = {Message(i, memory[i]) : i \in {j \in Real(t) : memory[j].state = "wait"}}
  BY DEF HandedBack
<1>4. Real(t) \subseteq Orders  BY DEF Real, Payload
<1> HIDE DEF memory
<1> QED  BY <1>1, <1>2, <1>3, <1>4, MessageIsBounded

-----------------------------------------------------------------------------
(* Money.  Held adds up a currency over the members; a strike changes it by *)
(* what its order takes from the other side, less the fee.                  *)

Held(b, l, c) == SumFunction([m \in Members |-> b[<<m, c>>] + l[<<m, c>>]])

LEMMA HeldIsInt ==
  ASSUME NEW b \in [Accounts -> Int], NEW l \in [Accounts -> Int], NEW c \in Currencies
  PROVE  Held(b, l, c) \in Int
<1> DEFINE f == [m \in Members |-> b[<<m, c>>] + l[<<m, c>>]]
<1>1. \A m \in Members : <<m, c>> \in Accounts
  BY DEF Accounts
<1>2. \A m \in Members : f[m] \in Int
  BY <1>1
<1>3. DOMAIN f = Members
  OBVIOUS
<1> HIDE DEF f
<1>4. SumFunctionOnSet(f, Members) \in Int
  BY <1>2, TablesAssumption, SumIsInt
<1> QED  BY <1>3, <1>4 DEF Held, SumFunction, f

\* Moving an amount between the two columns of one account changes nothing.
LEMMA HeldMoves ==
  ASSUME NEW b \in [Accounts -> Int], NEW l \in [Accounts -> Int],
         NEW x \in [Accounts -> Int], NEW y \in [Accounts -> Int],
         \A a \in Accounts : x[a] + y[a] = b[a] + l[a],
         NEW c \in Currencies
  PROVE  Held(x, y, c) = Held(b, l, c)
<1>1. \A m \in Members : <<m, c>> \in Accounts
  BY DEF Accounts
<1>2. [m \in Members |-> x[<<m, c>>] + y[<<m, c>>]] = [m \in Members |-> b[<<m, c>>] + l[<<m, c>>]]
  BY <1>1
<1> QED  BY <1>2 DEF Held

\* The account of member n in currency c has d more than before, the others of c the same.
Gains(b, l, x, y, c, n, d) ==
  /\ b \in [Accounts -> Int] /\ l \in [Accounts -> Int]
  /\ x \in [Accounts -> Int] /\ y \in [Accounts -> Int]
  /\ c \in Currencies /\ n \in Members /\ d \in Int
  /\ x[<<n, c>>] + y[<<n, c>>] = b[<<n, c>>] + l[<<n, c>>] + d
  /\ \A m \in Members : m # n => x[<<m, c>>] + y[<<m, c>>] = b[<<m, c>>] + l[<<m, c>>]

LEMMA HeldGains ==
  ASSUME NEW b, NEW l, NEW x, NEW y, NEW c, NEW n, NEW d, Gains(b, l, x, y, c, n, d)
  PROVE  Held(x, y, c) = Held(b, l, c) + d
<1> USE DEF Gains
<1> DEFINE f == [m \in Members |-> b[<<m, c>>] + l[<<m, c>>]]
           g == [m \in Members |-> x[<<m, c>>] + y[<<m, c>>]]
<1>1. \A m \in Members : <<m, c>> \in Accounts
  BY DEF Accounts
<1>2. \A m \in Members : f[m] \in Int /\ g[m] \in Int
  BY <1>1
<1>3. g[n] = f[n] + d /\ \A m \in Members \ {n} : g[m] = f[m]
  OBVIOUS
<1>4. Held(b, l, c) = SumFunctionOnSet(f, Members) /\ Held(x, y, c) = SumFunctionOnSet(g, Members)
  BY DEF Held, SumFunction
<1> HIDE DEF f, g
<1>5. SumFunctionOnSet(g, Members) = SumFunctionOnSet(f, Members) + g[n] - f[n]
  BY <1>2, <1>3, TablesAssumption, SumChangesAt
<1>6. SumFunctionOnSet(f, Members) \in Int
  BY <1>2, TablesAssumption, SumIsInt
<1>7. f[n] \in Int
  BY <1>2
<1> QED  BY <1>3, <1>4, <1>5, <1>6, <1>7

\* What a strike of order i brings into currency c.
Brings(i, c, t) == Takes(i, c, t) - Fee(i, c, t)

LEMMA BringsIs ==
  ASSUME NEW i \in Orders, NEW t \in Payload
  PROVE  /\ Brings(i, Income(i)[2], t) = Net(i, t)
         /\ Brings(i, Outcome(i)[2], t) = - Scale * Pays(i, t)
         /\ \A c \in Currencies : Brings(i, c, t) \in Int
         /\ Income(i)[2] # Outcome(i)[2] /\ {Income(i)[2], Outcome(i)[2]} = Currencies
         /\ Income(i)[1] = Outcome(i)[1]
<1>1. i # Fake
  BY FakeAssumption
<1>2. Earns(i, t) \in Int /\ Pays(i, t) \in Int /\ FeeRate(i, t) \in Int /\ Scale \in Int
  BY Amounts, ScaleAssumption
<1>3. /\ Income(i)[2] # Outcome(i)[2] /\ {Income(i)[2], Outcome(i)[2]} = Currencies
      /\ Income(i)[1] = Outcome(i)[1]
  BY DEF Income, Outcome, Currencies
<1>4. Brings(i, Outcome(i)[2], t) = - Scale * Pays(i, t) /\ - Scale * Pays(i, t) \in Int
  BY <1>1, <1>2, <1>3 DEF Brings, Takes, Fee
<1>5. Brings(i, Income(i)[2], t) = Net(i, t)
  <2> DEFINE e == Earns(i, t)
             r == FeeRate(i, t)
  <2>1. Brings(i, Income(i)[2], t) = Scale * e - e * r
    BY <1>1 DEF Brings, Takes, Fee
  <2>2. Net(i, t) = e * (Scale - r)
    BY DEF Net
  <2> HIDE DEF e, r
  <2>3. e \in Int /\ r \in Int
    BY <1>2 DEF e, r
  <2>4. e * (Scale - r) = Scale * e - e * r
    BY <1>2, <2>3
  <2> QED  BY <2>1, <2>2, <2>4
<1>6. Net(i, t) \in Int
  BY Amounts
<1> QED  BY <1>3, <1>4, <1>5, <1>6

LEMMA StrikeHolds ==
  ASSUME NEW s \in Money, NEW i \in Orders, NEW t \in Payload, s.rows[i].volume >= t.quantity,
         Strike(s, i, t).ok, NEW c \in Currencies
  PROVE  Held(Strike(s, i, t).balance, Strike(s, i, t).locked, c)
           = Held(s.balance, s.locked, c) + Brings(i, c, t)
<1> DEFINE row    == StruckRow(s.rows[i], i, t)
           pay    == Scale * Pays(i, t)
           refund == Scale * Refund(row)
           net    == Net(i, t)
           b      == [s.balance EXCEPT ![Income(i)] = @ + net, ![Outcome(i)] = @ + refund]
           l      == [s.locked EXCEPT ![Outcome(i)] = @ - pay - refund]
           n      == Income(i)[1]
<1>1. /\ s.rows \in [Orders -> Row]
      /\ s.balance \in [Accounts -> Int] /\ s.locked \in [Accounts -> Int]
  BY DEF Money
<1>2. Strike(s, i, t).balance = b /\ Strike(s, i, t).locked = l
  <2> DEFINE failed == [s EXCEPT !.ok = FALSE]
             goes   == s.ok /\ Covered(pay, s.locked[Outcome(i)]) /\ net > 0
             x      == refund = 0 \/ Covered(refund, s.locked[Outcome(i)] - pay)
             y      == [s.rows EXCEPT ![i] = row]
  <2>1. Strike(s, i, t) = IF ~ goes THEN failed ELSE [ok |-> x, rows |-> y, balance |-> b, locked |-> l]
    BY DEF Strike
  <2>2. ~ failed.ok
    BY DEF Money
  <2> HIDE DEF failed, goes, x, y, b, l
  <2> QED  BY <2>1, <2>2
<1>3. pay \in Int /\ refund \in Int /\ net \in Int
  <2>1. pay \in Int /\ net \in Int  BY Amounts, ScaleAssumption
  <2>2. row \in Row  BY <1>1, StruckRowType
  <2>3. Refund(row) \in Int  BY <2>2 DEF Refund, Row
  <2> HIDE DEF row
  <2>4. refund \in Int  BY <2>3, ScaleAssumption
  <2> QED  BY <2>1, <2>4
<1>4. /\ Income(i) \in Accounts /\ Outcome(i) \in Accounts /\ Income(i) # Outcome(i)
      /\ n \in Members /\ Income(i) = <<n, Income(i)[2]>> /\ Outcome(i) = <<n, Outcome(i)[2]>>
  BY AccountsOfAnOrder DEF Accounts, Income, Outcome
<1>5. /\ Brings(i, Income(i)[2], t) = net /\ Brings(i, Outcome(i)[2], t) = - pay
      /\ c \in {Income(i)[2], Outcome(i)[2]} /\ Income(i)[2] # Outcome(i)[2]
  <2>1. - Scale * Pays(i, t) = - pay
    <3>1. Pays(i, t) \in Int /\ Scale \in Int  BY Amounts, ScaleAssumption
    <3> QED  BY <3>1
  <2> QED  BY <2>1, BringsIs
<1> HIDE DEF row, pay, refund, net, n
<1>6. b \in [Accounts -> Int] /\ l \in [Accounts -> Int]
  BY <1>1, <1>3, <1>4
<1>7. \A a \in Accounts :
        b[a] + l[a] = s.balance[a] + s.locked[a] + (IF a = Income(i) THEN net
                                                    ELSE IF a = Outcome(i) THEN - pay ELSE 0)
  <2> SUFFICES ASSUME NEW a \in Accounts
               PROVE  b[a] + l[a] = s.balance[a] + s.locked[a] + (IF a = Income(i) THEN net
                                                    ELSE IF a = Outcome(i) THEN - pay ELSE 0)
    OBVIOUS
  <2>1. s.balance[a] \in Int /\ s.locked[a] \in Int  BY <1>1
  <2>2. CASE a = Income(i)  BY <1>1, <1>3, <1>4, <2>1, <2>2
  <2>3. CASE a = Outcome(i)  BY <1>1, <1>3, <1>4, <2>1, <2>3
  <2>4. CASE a # Income(i) /\ a # Outcome(i)  BY <1>1, <1>3, <1>4, <2>1, <2>4
  <2> QED  BY <2>2, <2>3, <2>4
<1> HIDE DEF b, l
<1> DEFINE d == Brings(i, c, t)
<1>8. d \in Int  BY BringsIs
<1>9. \A m \in Members : <<m, c>> \in Accounts  BY DEF Accounts
<1>10. /\ b[<<n, c>>] + l[<<n, c>>] = s.balance[<<n, c>>] + s.locked[<<n, c>>] + d
       /\ \A m \in Members : m # n => b[<<m, c>>] + l[<<m, c>>] = s.balance[<<m, c>>] + s.locked[<<m, c>>]
  <2>1. /\ c = Income(i)[2] => <<n, c>> = Income(i) /\ d = net
        /\ c = Outcome(i)[2] => <<n, c>> = Outcome(i) /\ d = - pay
    BY <1>4, <1>5
  <2>2. \A m \in Members : m # n => <<m, c>> # Income(i) /\ <<m, c>> # Outcome(i)
    BY <1>4
  <2> HIDE DEF d
  <2>3. b[<<n, c>>] + l[<<n, c>>] = s.balance[<<n, c>>] + s.locked[<<n, c>>] + d
    BY <1>4, <1>5, <1>7, <1>9, <2>1
  <2>4. \A m \in Members : m # n => b[<<m, c>>] + l[<<m, c>>] = s.balance[<<m, c>>] + s.locked[<<m, c>>]
    <3> SUFFICES ASSUME NEW m \in Members, m # n
                 PROVE  b[<<m, c>>] + l[<<m, c>>] = s.balance[<<m, c>>] + s.locked[<<m, c>>]
      OBVIOUS
    <3>1. s.balance[<<m, c>>] \in Int /\ s.locked[<<m, c>>] \in Int  BY <1>1, <1>9
    <3> QED  BY <1>7, <1>9, <2>2, <3>1
  <2> QED  BY <2>3, <2>4
<1> HIDE DEF d
<1>11. Held(b, l, c) = Held(s.balance, s.locked, c) + d
  <2>1. n \in Members
    BY <1>4
  <2>2. Gains(s.balance, s.locked, b, l, c, n, d)
    BY <1>1, <1>6, <1>8, <1>10, <2>1 DEF Gains
  <2> QED  BY <2>2, HeldGains
<1> QED  BY <1>2, <1>11 DEF d
\* The two strikes of a valid trade, the maker's first.
LEMMA StruckTwice ==
  ASSUME TypeOK, NEW t \in Payload, EnginePublishes(t), Valid(t), Struck(t).ok
  PROVE  LET s0 == [ok |-> TRUE, rows |-> rows, balance |-> balance, locked |-> lockedFunds]
             s1 == IF t.maker = Fake THEN s0 ELSE Strike(s0, t.maker, t)
         IN /\ s0 \in Money /\ s1 \in Money
            /\ Struck(t) = IF t.taker = Fake THEN s1 ELSE Strike(s1, t.taker, t)
            /\ t.maker # Fake =>
                 t.maker \in Orders /\ s0.rows[t.maker].volume >= t.quantity /\ s1.ok
            /\ t.taker # Fake =>
                 t.taker \in Orders /\ s1.rows[t.taker].volume >= t.quantity /\ Struck(t).ok
            /\ t.maker # Fake /\ t.taker # Fake => t.maker # t.taker
            /\ \A j \in Orders : j # t.maker => s1.rows[j] = rows[j]
<1> DEFINE s0 == [ok |-> TRUE, rows |-> rows, balance |-> balance, locked |-> lockedFunds]
           s1 == IF t.maker = Fake THEN s0 ELSE Strike(s0, t.maker, t)
<1>1. /\ t.maker # Fake => t.maker \in Orders /\ rows[t.maker].volume >= t.quantity
      /\ t.taker # Fake => t.taker \in Orders /\ rows[t.taker].volume >= t.quantity
      /\ t.maker = t.taker => t.maker = Fake
  BY DEF Payload, EnginePublishes, Valid, VolumesSuffice, Real
<1>2. s0 \in Money /\ s0.rows = rows /\ s0.ok
  BY DEF TypeOK, Money
<1>3. Struck(t) = IF t.taker = Fake THEN s1 ELSE Strike(s1, t.taker, t)
  BY DEF Struck
<1>4. s1 = IF t.maker = Fake THEN s0 ELSE Strike(s0, t.maker, t)
  OBVIOUS
<1> HIDE DEF s0, s1
<1>5. s1 \in Money /\ \A j \in Orders : j # t.maker => s1.rows[j] = rows[j]
  <2>1. CASE t.maker = Fake
    BY <1>2, <1>4, <2>1
  <2>2. CASE t.maker # Fake
    <3>1. t.maker \in Orders /\ s0.rows[t.maker].volume >= t.quantity /\ s1 = Strike(s0, t.maker, t)
      BY <1>1, <1>2, <1>4, <2>2
    <3>2. s1 \in Money
      BY <1>2, <3>1, StrikeIsSound
    <3>3. \A j \in Orders : j # t.maker => Strike(s0, t.maker, t).rows[j] = s0.rows[j]
      BY <1>2, <3>1, StrikeIsSound
    <3> QED  BY <1>2, <3>1, <3>2, <3>3, Zenon
  <2> QED  BY <2>1, <2>2
<1>6. t.taker # Fake => s1.rows[t.taker].volume >= t.quantity
  BY <1>1, <1>5
<1>7. s1.ok
  <2>1. CASE t.taker = Fake
    BY <1>3, <2>1
  <2>2. CASE t.taker # Fake
    <3>1. t.taker \in Orders /\ s1 \in Money /\ s1.rows[t.taker].volume >= t.quantity
      BY <1>1, <1>5, <1>6, <2>2
    <3>2. Strike(s1, t.taker, t).ok => s1.ok
      BY <3>1, StrikeIsSound
    <3>3. Struck(t) = Strike(s1, t.taker, t)
      BY <1>3, <2>2
    <3> QED  BY <3>2, <3>3
  <2> QED  BY <2>1, <2>2
<1>8. t.maker # Fake => s0.rows[t.maker].volume >= t.quantity
  BY <1>1, <1>2
<1> QED  BY <1>1, <1>2, <1>3, <1>5, <1>6, <1>7, <1>8 DEF s0, s1

LEMMA BringsOfFake == \A c, t : Brings(Fake, c, t) = 0
  BY DEF Brings, Takes, Fee

LEMMA StruckHolds ==
  ASSUME TypeOK, NEW t \in Payload, EnginePublishes(t), Valid(t), Struck(t).ok,
         NEW c \in Currencies
  PROVE  Held(Struck(t).balance, Struck(t).locked, c)
           = Held(balance, lockedFunds, c) + Brings(t.maker, c, t) + Brings(t.taker, c, t)
<1> DEFINE s0 == [ok |-> TRUE, rows |-> rows, balance |-> balance, locked |-> lockedFunds]
           s1 == IF t.maker = Fake THEN s0 ELSE Strike(s0, t.maker, t)
           s2 == Struck(t)
           h(s) == Held(s.balance, s.locked, c)
<1>1. /\ s0 \in Money /\ s1 \in Money
      /\ s2 = IF t.taker = Fake THEN s1 ELSE Strike(s1, t.taker, t)
      /\ t.maker # Fake => t.maker \in Orders /\ s0.rows[t.maker].volume >= t.quantity /\ s1.ok
      /\ t.taker # Fake => t.taker \in Orders /\ s1.rows[t.taker].volume >= t.quantity /\ s2.ok
  BY StruckTwice
<1>2. s1 = IF t.maker = Fake THEN s0 ELSE Strike(s0, t.maker, t)
  OBVIOUS
<1>3. h(s0) = Held(balance, lockedFunds, c)
  OBVIOUS
<1> HIDE DEF s0, s1, s2
<1>4. h(s0) \in Int /\ h(s1) \in Int
  BY <1>1, HeldIsInt DEF Money
<1>5. h(s1) = h(s0) + Brings(t.maker, c, t)
  <2>1. CASE t.maker = Fake
    BY <1>2, <1>4, <2>1, BringsOfFake
  <2>2. CASE t.maker # Fake
    BY <1>1, <1>2, <2>2, StrikeHolds
  <2> QED  BY <2>1, <2>2
<1>6. h(s2) = h(s1) + Brings(t.taker, c, t)
  <2>1. CASE t.taker = Fake
    BY <1>1, <1>4, <2>1, BringsOfFake
  <2>2. CASE t.taker # Fake
    BY <1>1, <2>2, StrikeHolds
  <2> QED  BY <2>1, <2>2
<1> QED  BY <1>3, <1>5, <1>6 DEF s2

\* What one side takes the other one gives, or the fake order is booked to have given it.
LEMMA TradeBalances ==
  ASSUME NEW t \in Payload, EnginePublishes(t), NEW c \in Currencies
  PROVE  /\ Takes(t.maker, c, t) + Takes(t.taker, c, t) + FakeReceives(c, t) = 0
         /\ \A i \in {t.maker, t.taker} : Takes(i, c, t) \in Int /\ Fee(i, c, t) \in Int
<1>1. \A i \in {t.maker, t.taker} : Fee(i, c, t) \in Int /\ Takes(i, c, t) \in Int
  <2> SUFFICES ASSUME NEW i \in {t.maker, t.taker} PROVE Fee(i, c, t) \in Int /\ Takes(i, c, t) \in Int
    OBVIOUS
  <2>1. CASE i = Fake  BY <2>1 DEF Fee, Takes
  <2>2. CASE i # Fake
    <3>1. i \in Orders  BY <2>2 DEF Payload
    <3>2. Earns(i, t) \in Int /\ Pays(i, t) \in Int /\ FeeRate(i, t) \in Int /\ Scale \in Int
      BY <3>1, Amounts, ScaleAssumption
    <3>3. Earns(i, t) * FeeRate(i, t) \in Int
      BY <3>2
    <3>4. Scale * Earns(i, t) \in Int /\ - Scale * Pays(i, t) \in Int
      BY <3>2
    <3> QED  BY <2>2, <3>3, <3>4 DEF Fee, Takes
  <2> QED  BY <2>1, <2>2
<1>2. CASE Fake \in {t.maker, t.taker}
  <2>1. FakeReceives(c, t) = - (Takes(t.maker, c, t) + Takes(t.taker, c, t))
    BY <1>2 DEF FakeReceives
  <2> QED  BY <1>1, <2>1
<1>3. CASE Fake \notin {t.maker, t.taker}
  <2>1. /\ t.maker \in Orders /\ t.taker \in Orders /\ t.maker # t.taker
        /\ IsBuy(t.maker) # IsBuy(t.taker)
    BY <1>3 DEF Payload, EnginePublishes, Real
  <2>2. FakeReceives(c, t) = 0
    BY <1>3 DEF FakeReceives
  <2>3. /\ Income(t.maker)[2] = c <=> Income(t.taker)[2] # c
        /\ Income(t.maker)[2] = c => Earns(t.maker, t) = Pays(t.taker, t)
        /\ Income(t.taker)[2] = c => Earns(t.taker, t) = Pays(t.maker, t)
    BY <2>1 DEF Income, Earns, Pays, Currencies, IsBuy
  <2>4. CASE Income(t.maker)[2] = c
    <3>1. /\ Takes(t.maker, c, t) = Scale * Pays(t.taker, t)
          /\ Takes(t.taker, c, t) = - Scale * Pays(t.taker, t)
      BY <1>3, <2>3, <2>4 DEF Takes
    <3>2. Pays(t.taker, t) \in Int
      BY <2>1, Amounts
    <3> QED  BY <1>1, <2>2, <3>1, <3>2, ScaleAssumption
  <2>5. CASE Income(t.maker)[2] # c
    <3>1. /\ Takes(t.taker, c, t) = Scale * Pays(t.maker, t)
          /\ Takes(t.maker, c, t) = - Scale * Pays(t.maker, t)
      BY <1>3, <2>3, <2>5 DEF Takes
    <3>2. Pays(t.maker, t) \in Int
      BY <2>1, Amounts
    <3> QED  BY <1>1, <2>2, <3>1, <3>2, ScaleAssumption
  <2> QED  BY <2>4, <2>5
<1> QED  BY <1>1, <1>2, <1>3

\* The sum of Conserved.
Total(c) == Held(balance, lockedFunds, c) + revenue[c] + external[c]

LEMMA SettleConserves ==
  ASSUME TypeOK, NEW t \in Payload, SettleTrade(t), NEW c \in Currencies
  PROVE  Total(c)' = Total(c)
<1> DEFINE h == Held(balance, lockedFunds, c)
           k == Held(Struck(t).balance, Struck(t).locked, c)
           tm == Takes(t.maker, c, t)
           tt == Takes(t.taker, c, t)
           fm == Fee(t.maker, c, t)
           ft == Fee(t.taker, c, t)
           fr == FakeReceives(c, t)
<1>1. /\ EnginePublishes(t) /\ Valid(t) /\ Struck(t).ok
      /\ balance' = Struck(t).balance /\ lockedFunds' = Struck(t).locked
      /\ revenue'[c] = revenue[c] + FeesIn(c, t) /\ external'[c] = external[c] + FakeReceives(c, t)
  BY DEF SettleTrade, Settle
<1>2. k = h + Brings(t.maker, c, t) + Brings(t.taker, c, t)
  BY <1>1, StruckHolds
<1>3. /\ tm + tt + fr = 0 /\ tm \in Int /\ tt \in Int /\ fm \in Int /\ ft \in Int
      /\ fr \in Int
  BY <1>1, TradeBalances, BookedTypes
<1>4. h \in Int /\ revenue[c] \in Int /\ external[c] \in Int
  BY HeldIsInt DEF TypeOK
<1>5. Total(c)' = k + (revenue[c] + (fm + ft)) + (external[c] + fr)
  BY <1>1 DEF Total, FeesIn
<1>6. k = h + (tm - fm) + (tt - ft)
  BY <1>2 DEF Brings
<1>7. Total(c) = h + revenue[c] + external[c]
  BY DEF Total
<1> HIDE DEF h, k, tm, tt, fm, ft, fr
<1> QED  BY <1>3, <1>4, <1>5, <1>6, <1>7

\* A step that only moves funds within accounts.
LEMMA MovesConserve ==
  ASSUME TypeOK, TypeOK', UNCHANGED <<revenue, external>>, NEW c \in Currencies,
         \A a \in Accounts : balance'[a] + lockedFunds'[a] = balance[a] + lockedFunds[a]
  PROVE  Total(c)' = Total(c)
<1>1. Held(balance', lockedFunds', c) = Held(balance, lockedFunds, c)
  BY HeldMoves DEF TypeOK
<1> QED  BY <1>1 DEF Total

LEMMA SubmitMoves ==
  ASSUME TypeOK, NEW i \in Orders, SubmitOrder(i)
  PROVE  /\ \A a \in Accounts : balance'[a] + lockedFunds'[a] = balance[a] + lockedFunds[a]
         /\ UNCHANGED <<revenue, external>>
<1> DEFINE amount == Scale * rows[i].locked
<1>1. amount \in Int
  BY ScaleAssumption DEF TypeOK, Row
<1>2. balance \in [Accounts -> Int] /\ lockedFunds \in [Accounts -> Int]
  BY DEF TypeOK
<1>3. \/ /\ balance' = [balance EXCEPT ![Outcome(i)] = @ - amount]
         /\ lockedFunds' = [lockedFunds EXCEPT ![Outcome(i)] = @ + amount]
      \/ UNCHANGED <<balance, lockedFunds>>
  BY DEF SubmitOrder
<1>4. UNCHANGED <<revenue, external>>
  BY DEF SubmitOrder
<1> HIDE DEF amount
<1> QED  BY <1>1, <1>2, <1>3, <1>4

LEMMA CancelMoves ==
  ASSUME TypeOK, NEW i \in Orders, HandleCancel(i)
  PROVE  /\ \A a \in Accounts : balance'[a] + lockedFunds'[a] = balance[a] + lockedFunds[a]
         /\ UNCHANGED <<revenue, external>>
<1> DEFINE amount == Scale * rows[i].locked
<1>1. amount \in Int
  BY ScaleAssumption DEF TypeOK, Row
<1>2. balance \in [Accounts -> Int] /\ lockedFunds \in [Accounts -> Int]
  BY DEF TypeOK
<1>3. /\ balance' = [balance EXCEPT ![Outcome(i)] = @ + amount]
      /\ lockedFunds' = [lockedFunds EXCEPT ![Outcome(i)] = @ - amount]
      /\ UNCHANGED <<revenue, external>>
  BY DEF HandleCancel
<1> HIDE DEF amount
<1> QED  BY <1>1, <1>2, <1>3

LEMMA TotalStays ==
  ASSUME TypeOK, TypeOK', [Next]_vars, NEW c \in Currencies
  PROVE  Total(c)' = Total(c)
<1>1. ASSUME NEW i \in Orders, HandleSubmit(i) \/ SubmitAtStart(i) PROVE Total(c)' = Total(c)
  BY <1>1, SubmitMoves, MovesConserve DEF HandleSubmit, SubmitAtStart
<1>2. ASSUME NEW i \in Orders, HandleCancel(i) PROVE Total(c)' = Total(c)
  BY <1>2, CancelMoves, MovesConserve
<1>3. ASSUME NEW t \in Payload, SettleTrade(t) PROVE Total(c)' = Total(c)
  BY <1>3, SettleConserves
<1>4. CASE UNCHANGED <<balance, lockedFunds, revenue, external>>
  BY <1>4 DEF Total
<1>5. ASSUME NEW i \in Orders, Create(i) \/ CheckBalance(i) \/ Save(i) \/ ProduceSubmit(i)
      PROVE  UNCHANGED <<balance, lockedFunds, revenue, external>>
  BY <1>5 DEF Create, CheckBalance, Save, ProduceSubmit, accounts
<1>6. ASSUME NEW t \in Payload, RefuseTrade(t)
      PROVE  UNCHANGED <<balance, lockedFunds, revenue, external>>
  BY <1>6 DEF RefuseTrade, Refuse, accounts
<1>7. ProduceMatching \/ Restart \/ LoadOrders \/ UNCHANGED vars =>
        UNCHANGED <<balance, lockedFunds, revenue, external>>
  BY DEF ProduceMatching, Restart, LoadOrders, vars, accounts
<1> QED  BY <1>1, <1>2, <1>3, <1>4, <1>5, <1>6, <1>7 DEF Next, Api, OrderProcessor, TradeExecutor

LEMMA ConservedInit ==
  ASSUME balance = Funds, lockedFunds = [a \in Accounts |-> 0],
         revenue = [c \in Currencies |-> 0], external = [c \in Currencies |-> 0]
  PROVE  Conserved
<1> SUFFICES ASSUME NEW c \in Currencies
             PROVE  Total(c) = SumFunction([m \in Members |-> Funds[<<m, c>>]])
  BY DEF Conserved, Total, Held
<1>1. \A m \in Members : <<m, c>> \in Accounts
  BY DEF Accounts
<1>2. [m \in Members |-> balance[<<m, c>>] + lockedFunds[<<m, c>>]] = [m \in Members |-> Funds[<<m, c>>]]
  BY <1>1, FundsAssumption
<1>3. Held(balance, lockedFunds, c) \in Int
  BY FundsAssumption, HeldIsInt
<1>4. Total(c) = Held(balance, lockedFunds, c)
  <2>1. revenue[c] = 0 /\ external[c] = 0
    OBVIOUS
  <2> QED  BY <1>3, <2>1 DEF Total
<1>5. Held(balance, lockedFunds, c) = SumFunction([m \in Members |-> Funds[<<m, c>>]])
  BY <1>2, Zenon DEF Held
<1> QED  BY <1>4, <1>5

LEMMA ConservedNext == TypeOK /\ TypeOK' /\ Conserved /\ [Next]_vars => Conserved'
<1> SUFFICES ASSUME TypeOK, TypeOK', Conserved, [Next]_vars PROVE Conserved'
  OBVIOUS
<1>1. \A c \in Currencies : Total(c)' = Total(c)
  BY TotalStays
<1>2. \A c \in Currencies : Total(c) = SumFunction([m \in Members |-> Funds[<<m, c>>]])
  BY DEF Conserved, Total, Held
<1>3. \A c \in Currencies : Total(c)' = SumFunction([m \in Members |-> Funds[<<m, c>>]])
  BY <1>1, <1>2
<1> QED  BY <1>3 DEF Conserved, Total, Held

\* No money appears or disappears: for any members, orders and fees, whatever the engine
\* publishes and however often it is handled, the accounts, the fees booked and what the
\* fake orders have received add up to the funds at the start.
THEOREM MoneyConserved == Spec => []Conserved
<1>1. Init => Conserved
  BY ConservedInit DEF Init
<1> QED  BY <1>1, ConservedNext, TypeCorrect, PTL DEF Spec

-----------------------------------------------------------------------------
(* Locked funds.  Claims adds up what the waiting orders have locked in an  *)
(* account, and every step moves the two together.                          *)

\* What a row of order i claims of account a.
Claim(i, row, a) == IF row.state = "wait" /\ Outcome(i) = a THEN row.locked ELSE 0

Claims(rs, a) == SumFunction([i \in Orders |-> Claim(i, rs[i], a)])

Backs(l, rs) == \A a \in Accounts : l[a] = Scale * Claims(rs, a)

Backed == Backs(lockedFunds, rows)

LEMMA ClaimIsInt ==
  ASSUME NEW i \in Orders, NEW row \in Row, NEW a
  PROVE  Claim(i, row, a) \in Int
BY DEF Claim, Row

LEMMA ClaimsIsInt ==
  ASSUME NEW rs \in [Orders -> Row], NEW a
  PROVE  Claims(rs, a) \in Int
<1> DEFINE f == [i \in Orders |-> Claim(i, rs[i], a)]
<1>1. \A i \in Orders : f[i] \in Int
  BY ClaimIsInt
<1>2. DOMAIN f = Orders
  OBVIOUS
<1> HIDE DEF f
<1>3. SumFunctionOnSet(f, Orders) \in Int
  BY <1>1, TablesAssumption, SumIsInt
<1> QED  BY <1>2, <1>3 DEF Claims, SumFunction, f

\* One row changes, and with it what it claims.
LEMMA ClaimsChange ==
  ASSUME NEW rs \in [Orders -> Row], NEW i \in Orders, NEW row \in Row, NEW a
  PROVE  Claims([rs EXCEPT ![i] = row], a) = Claims(rs, a) + (Claim(i, row, a) - Claim(i, rs[i], a))
<1> DEFINE new == [rs EXCEPT ![i] = row]
           f == [j \in Orders |-> Claim(j, rs[j], a)]
           g == [j \in Orders |-> Claim(j, new[j], a)]
<1>1. new \in [Orders -> Row] /\ new[i] = row /\ \A j \in Orders \ {i} : new[j] = rs[j]
  OBVIOUS
<1>2. \A j \in Orders : f[j] \in Int /\ g[j] \in Int
  BY <1>1, ClaimIsInt
<1>3. f[i] = Claim(i, rs[i], a) /\ g[i] = Claim(i, row, a) /\ \A j \in Orders \ {i} : g[j] = f[j]
  BY <1>1
<1>4. Claims(rs, a) = SumFunctionOnSet(f, Orders) /\ Claims(new, a) = SumFunctionOnSet(g, Orders)
  BY DEF Claims, SumFunction
<1> HIDE DEF f, g, new
<1>5. SumFunctionOnSet(g, Orders) = SumFunctionOnSet(f, Orders) + g[i] - f[i]
  BY <1>2, <1>3, TablesAssumption, SumChangesAt
<1>6. SumFunctionOnSet(f, Orders) \in Int
  BY <1>2, TablesAssumption, SumIsInt
<1>7. f[i] \in Int /\ g[i] \in Int
  BY <1>2
<1>8. Claims(new, a) = Claims(rs, a) + (Claim(i, row, a) - Claim(i, rs[i], a))
  BY <1>3, <1>4, <1>5, <1>6, <1>7
<1> QED  BY <1>8 DEF new

\* A row and the locked funds of its account change alike.
ChangeAlike(rs, l, i, row, d, amount) ==
  /\ rs \in [Orders -> Row] /\ l \in [Accounts -> Int] /\ i \in Orders /\ row \in Row
  /\ d \in Int /\ amount \in Int /\ amount = Scale * d
  /\ Claim(i, row, Outcome(i)) = Claim(i, rs[i], Outcome(i)) + d

LEMMA BackedStays ==
  ASSUME NEW rs, NEW l, NEW i, NEW row, NEW d, NEW amount, ChangeAlike(rs, l, i, row, d, amount),
         Backs(l, rs), NEW rs2, NEW l2,
         rs2 = [rs EXCEPT ![i] = row], l2 = [l EXCEPT ![Outcome(i)] = @ + amount]
  PROVE  Backs(l2, rs2)
<1> SUFFICES ASSUME NEW a \in Accounts PROVE l2[a] = Scale * Claims(rs2, a)
  BY DEF Backs
<1> DEFINE c == Claims(rs, a)
           k == Claims(rs2, a)
<1>0. /\ rs \in [Orders -> Row] /\ l \in [Accounts -> Int] /\ i \in Orders /\ row \in Row
      /\ d \in Int /\ amount \in Int /\ amount = Scale * d
      /\ Claim(i, row, Outcome(i)) = Claim(i, rs[i], Outcome(i)) + d
  BY DEF ChangeAlike
<1>1. c \in Int /\ rs[i] \in Row
  BY <1>0, ClaimsIsInt
<1>2. k = c + (Claim(i, row, a) - Claim(i, rs[i], a))
  BY <1>0, ClaimsChange
<1>3. Claim(i, row, a) \in Int /\ Claim(i, rs[i], a) \in Int
  BY <1>0, <1>1, ClaimIsInt
<1>4. l[a] = Scale * c /\ l[a] \in Int
  BY <1>0 DEF Backs
<1>5. CASE a = Outcome(i)
  <2>1. k = c + d
    BY <1>0, <1>1, <1>2, <1>3, <1>5
  <2>2. l2[a] = l[a] + amount
    BY <1>0, <1>5
  <2> HIDE DEF c, k
  <2>3. Scale * (c + d) = Scale * c + Scale * d
    BY <1>0, <1>1, ScaleAssumption
  <2> QED  BY <1>0, <1>4, <2>1, <2>2, <2>3 DEF k
<1>6. CASE a # Outcome(i)
  <2>1. Claim(i, row, a) = 0 /\ Claim(i, rs[i], a) = 0
    BY <1>6 DEF Claim
  <2>2. k = c
    BY <1>1, <1>2, <2>1
  <2>3. l2[a] = l[a]
    BY <1>0, <1>6
  <2> QED  BY <1>4, <2>2, <2>3
<1> QED  BY <1>5, <1>6

\* A strike takes out of the locked funds what its order then claims less.
LEMMA StrikeBacks ==
  ASSUME NEW s \in Money, NEW i \in Orders, NEW t \in Payload, s.rows[i].volume >= t.quantity,
         s.rows[i].state = "wait", Strike(s, i, t).ok,
         Backs(s.locked, s.rows)
  PROVE  Backs(Strike(s, i, t).locked, Strike(s, i, t).rows)
<1> DEFINE old    == s.rows[i]
           row    == StruckRow(old, i, t)
           p      == Pays(i, t)
           r      == Refund(row)
           amount == - (Scale * p) - Scale * r
           l      == [s.locked EXCEPT ![Outcome(i)] = @ - Scale * p - Scale * r]
<1>1. /\ s.rows \in [Orders -> Row] /\ s.locked \in [Accounts -> Int]
      /\ old \in Row
  BY DEF Money
<1>2. Strike(s, i, t).locked = l /\ Strike(s, i, t).rows = [s.rows EXCEPT ![i] = row]
  <2> DEFINE failed == [s EXCEPT !.ok = FALSE]
             goes   == s.ok /\ Covered(Scale * p, s.locked[Outcome(i)]) /\ Net(i, t) > 0
             x      == Scale * r = 0 \/ Covered(Scale * r, s.locked[Outcome(i)] - Scale * p)
             y      == [s.rows EXCEPT ![i] = row]
             b      == [s.balance EXCEPT ![Income(i)] = @ + Net(i, t), ![Outcome(i)] = @ + Scale * r]
  <2>1. Strike(s, i, t) = IF ~ goes THEN failed ELSE [ok |-> x, rows |-> y, balance |-> b, locked |-> l]
    BY DEF Strike
  <2>2. ~ failed.ok
    BY DEF Money
  <2> HIDE DEF failed, goes, x, y, b, l
  <2>3. Strike(s, i, t).locked = l /\ Strike(s, i, t).rows = y
    BY <2>1, <2>2
  <2> QED  BY <2>3 DEF y
<1>3. /\ row \in Row /\ row.locked = old.locked - p
      /\ row.state \in {"wait", "done", "cancel"}
      /\ row.state = "cancel" => row.locked = 0
  <2>1. /\ row \in Row /\ row.locked = old.locked - p
        /\ row.state \in {"wait", "done", "cancel"}
    BY <1>1, StruckRowType
  <2> DEFINE q == [old EXCEPT !.volume = @ - t.quantity, !.locked = @ - p,
                              !.received = @ + Earns(i, t)]
  <2>2. q.state = "wait" /\ q.locked = old.locked - p
    BY <1>1 DEF Row
  <2>3. [q EXCEPT !.state = "done"].state = "done"
    BY <1>1 DEF Row
  <2>4. row = IF q.volume = 0 THEN [q EXCEPT !.state = "done"]
              ELSE IF ~ IsLimit(i) /\ q.locked = 0 THEN [q EXCEPT !.state = "cancel"] ELSE q
    BY DEF StruckRow
  <2> HIDE DEF q, row
  <2>5. row.state = "cancel" => q.locked = 0
    BY <2>2, <2>3, <2>4
  <2> QED  BY <2>1, <2>2, <2>5
<1>4. p \in Int /\ old.locked \in Int /\ row.locked \in Int /\ r \in Int
  <2>1. p \in Int
    BY Amounts
  <2>2. old.locked \in Int /\ row.locked \in Int
    BY <1>1, <1>3 DEF Row
  <2> HIDE DEF row
  <2> QED  BY <2>1, <2>2 DEF Refund
<1>5. Claim(i, row, Outcome(i)) = Claim(i, old, Outcome(i)) + (- p - r)
  <2>1. Claim(i, old, Outcome(i)) = old.locked
    BY DEF Claim
  <2>2. Claim(i, row, Outcome(i)) = IF row.state = "wait" THEN row.locked ELSE 0
    BY DEF Claim
  <2>3. r = IF row.state = "done" THEN row.locked ELSE 0
    BY DEF Refund
  <2> HIDE DEF row, p, r, old
  <2> QED  BY <1>3, <1>4, <2>1, <2>2, <2>3
<1>6. amount \in Int /\ amount = Scale * (- p - r) /\ Scale * p \in Int /\ Scale * r \in Int
  <2> HIDE DEF p, r
  <2> QED  BY <1>4, ScaleAssumption
<1>7. l = [s.locked EXCEPT ![Outcome(i)] = @ + amount]
  <2>1. Outcome(i) \in Accounts
    BY AccountsOfAnOrder
  <2> DEFINE v == Scale * p
             w == Scale * r
  <2> HIDE DEF v, w
  <2>2. s.locked[Outcome(i)] - v - w = s.locked[Outcome(i)] + (- v - w)
    BY <1>1, <1>6, <2>1 DEF v, w
  <2> QED  BY <2>2 DEF v, w
<1>8. (- p - r) \in Int
  BY <1>4
<1> DEFINE d == - p - r
<1> HIDE DEF old, row, p, r, amount, l, d
<1>9. d \in Int /\ Claim(i, row, Outcome(i)) = Claim(i, old, Outcome(i)) + d /\ amount = Scale * d
  BY <1>5, <1>6, <1>8 DEF d
<1>10. ChangeAlike(s.rows, s.locked, i, row, d, amount)
  BY <1>1, <1>3, <1>6, <1>9 DEF ChangeAlike, old
<1> QED  BY <1>2, <1>7, <1>10, BackedStays

\* A row that claims as much as before, with the locked funds as they were.
LEMMA SameClaim ==
  ASSUME NEW rs \in [Orders -> Row], NEW i \in Orders, NEW row \in Row,
         Claim(i, row, Outcome(i)) = Claim(i, rs[i], Outcome(i)), NEW a \in Accounts
  PROVE  Claims([rs EXCEPT ![i] = row], a) = Claims(rs, a)
<1>1. Claim(i, row, a) = Claim(i, rs[i], a)
  BY DEF Claim
<1>2. Claims([rs EXCEPT ![i] = row], a) = Claims(rs, a) + (Claim(i, row, a) - Claim(i, rs[i], a))
  BY ClaimsChange
<1>3. Claim(i, row, a) \in Int /\ Claim(i, rs[i], a) \in Int /\ Claims(rs, a) \in Int
  BY ClaimIsInt, ClaimsIsInt
<1> QED  BY <1>1, <1>2, <1>3

LEMMA SubmitBacks ==
  ASSUME TypeOK, Backed, NEW i \in Orders, SubmitOrder(i)
  PROVE  Backed'
<1> DEFINE amount == Scale * rows[i].locked
           wait   == [rows[i] EXCEPT !.state = "wait"]
           reject == [rows[i] EXCEPT !.state = "reject"]
<1>1. /\ rows \in [Orders -> Row] /\ lockedFunds \in [Accounts -> Int]
      /\ rows[i] \in Row /\ rows[i].locked \in Int
      /\ wait \in Row /\ reject \in Row
      /\ wait.state = "wait" /\ wait.locked = rows[i].locked /\ reject.state = "reject"
  BY DEF TypeOK, Row, States
<1>2. amount \in Int
  BY <1>1, ScaleAssumption
<1>3. CASE /\ IsPending(i) /\ lockedFunds' = [lockedFunds EXCEPT ![Outcome(i)] = @ + amount]
           /\ rows' = [rows EXCEPT ![i].state = "wait"]
  <2>1. Claim(i, rows[i], Outcome(i)) = 0 /\ Claim(i, wait, Outcome(i)) = rows[i].locked
    BY <1>1, <1>3 DEF Claim, IsPending
  <2>2. Claim(i, wait, Outcome(i)) = Claim(i, rows[i], Outcome(i)) + rows[i].locked
    BY <1>1, <2>1
  <2> DEFINE d == rows[i].locked
  <2>3. amount = Scale * d /\ d \in Int /\ Claim(i, wait, Outcome(i)) = Claim(i, rows[i], Outcome(i)) + d
    BY <1>1, <2>2
  <2>4. rows' = [rows EXCEPT ![i] = wait]
    BY <1>1, <1>3
  <2> HIDE DEF wait, amount, d
  <2>5. ChangeAlike(rows, lockedFunds, i, wait, d, amount)
    BY <1>1, <1>2, <2>3 DEF ChangeAlike
  <2>6. lockedFunds' = [lockedFunds EXCEPT ![Outcome(i)] = @ + amount] /\ Backs(lockedFunds, rows)
    BY <1>3 DEF Backed
  <2>7. Backs(lockedFunds', rows')
    BY <2>4, <2>5, <2>6, BackedStays
  <2> QED  BY <2>7 DEF Backed
<1>4. CASE /\ IsPending(i) /\ rows' = [rows EXCEPT ![i].state = "reject"] /\ UNCHANGED lockedFunds
  <2>1. Claim(i, rows[i], Outcome(i)) = 0 /\ Claim(i, reject, Outcome(i)) = 0
    BY <1>1, <1>4 DEF Claim, IsPending
  <2>2. rows' = [rows EXCEPT ![i] = reject]
    BY <1>1, <1>4
  <2> HIDE DEF reject
  <2>3. \A a \in Accounts : Claims(rows', a) = Claims(rows, a)
    BY <1>1, <2>1, <2>2, SameClaim, ZenonT(60)
  <2> QED  BY <1>4, <2>3 DEF Backed, Backs
<1>5. CASE UNCHANGED <<rows, lockedFunds>>
  BY <1>5 DEF Backed, Backs
<1> QED  BY <1>3, <1>4, <1>5 DEF SubmitOrder

LEMMA CancelBacks ==
  ASSUME TypeOK, Backed, NEW i \in Orders, HandleCancel(i)
  PROVE  Backed'
<1> DEFINE amount == Scale * rows[i].locked
           over   == [rows[i] EXCEPT !.state = "cancel"]
           d      == - rows[i].locked
<1>1. /\ rows \in [Orders -> Row] /\ lockedFunds \in [Accounts -> Int]
      /\ rows[i] \in Row /\ rows[i].locked \in Int
      /\ over \in Row /\ over.state = "cancel" /\ Outcome(i) \in Accounts
  BY AccountsOfAnOrder DEF TypeOK, Row, States
<1>2. amount \in Int /\ - amount \in Int /\ d \in Int /\ - amount = Scale * d
  BY <1>1, ScaleAssumption
<1>3. /\ rows[i].state = "wait" /\ lockedFunds' = [lockedFunds EXCEPT ![Outcome(i)] = @ - amount]
      /\ rows' = [rows EXCEPT ![i].state = "cancel"]
  BY DEF HandleCancel, Cancellable
<1>4. Claim(i, over, Outcome(i)) = 0 /\ Claim(i, rows[i], Outcome(i)) = rows[i].locked
  BY <1>1, <1>3 DEF Claim
<1>5. Claim(i, over, Outcome(i)) = Claim(i, rows[i], Outcome(i)) + d
  BY <1>1, <1>4
<1>6. rows' = [rows EXCEPT ![i] = over]
  BY <1>1, <1>3
<1> HIDE DEF amount, over, d
<1> DEFINE less == - amount
<1>7. lockedFunds' = [lockedFunds EXCEPT ![Outcome(i)] = @ + less]
  <2>1. lockedFunds[Outcome(i)] - amount = lockedFunds[Outcome(i)] + less
    BY <1>1, <1>2
  <2> QED  BY <1>3, <2>1
<1> HIDE DEF less
<1>8. less \in Int /\ less = Scale * d
  BY <1>2 DEF less
<1>9. ChangeAlike(rows, lockedFunds, i, over, d, less)
  BY <1>1, <1>2, <1>5, <1>8 DEF ChangeAlike
<1> QED  BY <1>6, <1>7, <1>9, BackedStays DEF Backed

\* What a transaction has in memory when both sides are struck is as sound as what it read.
LEMMA StruckBacks ==
  ASSUME TypeOK, Backed, NEW t \in Payload, EnginePublishes(t), Valid(t), Struck(t).ok
  PROVE  Backs(Struck(t).locked, Struck(t).rows)
<1> DEFINE s0 == [ok |-> TRUE, rows |-> rows, balance |-> balance, locked |-> lockedFunds]
           s1 == IF t.maker = Fake THEN s0 ELSE Strike(s0, t.maker, t)
           s2 == Struck(t)
           B(s) == Backs(s.locked, s.rows)
<1>1. EnginePublishes(t) /\ Valid(t) /\ s2.ok
  OBVIOUS
<1>2. /\ s0 \in Money /\ s1 \in Money
      /\ s2 = IF t.taker = Fake THEN s1 ELSE Strike(s1, t.taker, t)
      /\ t.maker # Fake => t.maker \in Orders /\ s0.rows[t.maker].volume >= t.quantity /\ s1.ok
      /\ t.taker # Fake => t.taker \in Orders /\ s1.rows[t.taker].volume >= t.quantity /\ s2.ok
      /\ t.maker # Fake /\ t.taker # Fake => t.maker # t.taker
      /\ \A j \in Orders : j # t.maker => s1.rows[j] = rows[j]
  BY <1>1, StruckTwice
<1>3. /\ t.maker # Fake => s0.rows[t.maker].state = "wait"
      /\ t.taker # Fake => rows[t.taker].state = "wait"
  BY <1>1 DEF Valid, StatesWait, Real
<1>4. B(s0)
  BY DEF Backed
<1>5. s1 = IF t.maker = Fake THEN s0 ELSE Strike(s0, t.maker, t)
  OBVIOUS
<1>6. t.taker # Fake => s1.rows[t.taker].state = "wait"
  <2>1. ASSUME t.taker # Fake PROVE s1.rows[t.taker] = rows[t.taker]
    <3>1. CASE t.maker = Fake
      BY <1>5, <3>1
    <3>2. CASE t.maker # Fake
      BY <1>2, <2>1, <3>2, Zenon
    <3> QED  BY <3>1, <3>2
  <2> QED  BY <1>3, <2>1
<1> HIDE DEF s0, s1, s2
<1>7. B(s1)
  <2>1. CASE t.maker = Fake
    BY <1>4, <1>5, <2>1
  <2>2. CASE t.maker # Fake
    BY <1>2, <1>3, <1>4, <1>5, <2>2, StrikeBacks
  <2> QED  BY <2>1, <2>2
<1>8. B(s2)
  <2>1. CASE t.taker = Fake
    BY <1>2, <1>7, <2>1
  <2>2. CASE t.taker # Fake
    BY <1>2, <1>6, <1>7, <2>2, StrikeBacks
  <2> QED  BY <2>1, <2>2
<1> QED  BY <1>8 DEF s2

LEMMA SettleBacks ==
  ASSUME TypeOK, Backed, NEW t \in Payload, SettleTrade(t)
  PROVE  Backed'
<1>1. /\ EnginePublishes(t) /\ Valid(t) /\ Struck(t).ok
      /\ rows' = Struck(t).rows /\ lockedFunds' = Struck(t).locked
  BY DEF SettleTrade, Settle
<1> QED  BY <1>1, StruckBacks DEF Backed

BackedUnlessRaced == ~ raced => Backed

LEMMA BackedNext ==
  ASSUME TypeOK, NotCreatedYet, BackedUnlessRaced, [Next]_vars
  PROVE  BackedUnlessRaced'
<1> SUFFICES ASSUME ~ raced' PROVE Backed'
  BY DEF BackedUnlessRaced
<1>0. rows \in [Orders -> Row]
  BY DEF TypeOK
<1>1. ASSUME NEW i \in Orders, Create(i) \/ Save(i) PROVE Backed'
  <2>1. /\ rows' = [rows EXCEPT ![i] = FreshRow(i)] /\ UNCHANGED lockedFunds
        /\ ~ raced /\ rows[i].state \in {"none", "pending"}
    <3>1. CASE Create(i)
      BY <3>1 DEF Create, NotCreatedYet, accounts
    <3>2. CASE Save(i)
      <4>1. raced' = (raced \/ rows[i].state # "pending")
        BY <3>2 DEF Save
      <4>2. ~ raced /\ rows[i].state = "pending"
        BY <4>1, Zenon
      <4> QED  BY <3>2, <4>2 DEF Save, accounts
    <3> QED  BY <1>1, <3>1, <3>2
  <2>2. FreshRow(i) \in Row /\ FreshRow(i).state = "pending"
    BY RowTypes DEF FreshRow
  <2>3. Claim(i, FreshRow(i), Outcome(i)) = Claim(i, rows[i], Outcome(i))
    BY <2>1, <2>2 DEF Claim
  <2>4. \A a \in Accounts : Claims(rows', a) = Claims(rows, a)
    BY <1>0, <2>1, <2>2, <2>3, SameClaim
  <2> QED  BY <2>1, <2>4 DEF Backed, Backs, BackedUnlessRaced
<1>2. ASSUME NEW i \in Orders, HandleSubmit(i) \/ SubmitAtStart(i) PROVE Backed'
  <2>1. SubmitOrder(i)
    BY <1>2 DEF HandleSubmit, SubmitAtStart
  <2>2. Backed
    BY <2>1 DEF SubmitOrder, BackedUnlessRaced
  <2> QED  BY <2>1, <2>2, SubmitBacks
<1>3. ASSUME NEW i \in Orders, HandleCancel(i) PROVE Backed'
  BY <1>3, CancelBacks DEF HandleCancel, BackedUnlessRaced
<1>4. ASSUME NEW t \in Payload, SettleTrade(t) PROVE Backed'
  <2>1. Backed
    BY <1>4 DEF SettleTrade, Settle, BackedUnlessRaced
  <2> QED  BY <1>4, <2>1, SettleBacks
<1>5. CASE UNCHANGED <<rows, lockedFunds, raced>>
  BY <1>5 DEF Backed, BackedUnlessRaced
<1>6. ASSUME NEW i \in Orders, CheckBalance(i) \/ ProduceSubmit(i)
      PROVE  UNCHANGED <<rows, lockedFunds, raced>>
  BY <1>6 DEF CheckBalance, ProduceSubmit, accounts
<1>7. ASSUME NEW t \in Payload, RefuseTrade(t) PROVE UNCHANGED <<rows, lockedFunds, raced>>
  BY <1>7 DEF RefuseTrade, Refuse, accounts
<1>8. ProduceMatching \/ Restart \/ LoadOrders \/ UNCHANGED vars =>
        UNCHANGED <<rows, lockedFunds, raced>>
  BY DEF ProduceMatching, Restart, LoadOrders, vars, accounts
<1> QED  BY <1>1, <1>2, <1>3, <1>4, <1>5, <1>6, <1>7, <1>8 DEF Next, Api, OrderProcessor, TradeExecutor

LEMMA NothingClaimed ==
  ASSUME lockedFunds = [a \in Accounts |-> 0], \A i \in Orders : rows[i].state # "wait"
  PROVE  Backed
<1> SUFFICES ASSUME NEW a \in Accounts PROVE Claims(rows, a) = 0
  BY ScaleAssumption DEF Backed, Backs
<1> DEFINE f == [i \in Orders |-> Claim(i, rows[i], a)]
<1>1. (\A i \in Orders : f[i] = 0) /\ DOMAIN f = Orders
  BY DEF Claim
<1> HIDE DEF f
<1>2. SumFunctionOnSet(f, Orders) = 0
  BY <1>1, TablesAssumption, SumOfZeros
<1> QED  BY <1>1, <1>2 DEF Claims, SumFunction, f

\* The claims on an account are the sum over its waiting orders.
LEMMA ClaimsOfWaiting ==
  ASSUME TypeOK, NEW a \in Accounts
  PROVE  Claims(rows, a) = SumFunction([i \in WaitingOn(a) |-> rows[i].locked])
<1> DEFINE f == [i \in WaitingOn(a) |-> rows[i].locked]
           g == [i \in Orders |-> Claim(i, rows[i], a)]
<1>1. WaitingOn(a) \in SUBSET Orders /\ DOMAIN f = WaitingOn(a) /\ DOMAIN g = Orders
  BY DEF WaitingOn
<1>2. \A i \in WaitingOn(a) : f[i] \in Int /\ g[i] = f[i]
  BY DEF WaitingOn, Claim, TypeOK, Row
<1>3. \A i \in Orders \ WaitingOn(a) : g[i] = 0
  BY DEF WaitingOn, Claim
<1>4. Claims(rows, a) = SumFunctionOnSet(g, Orders)
  BY <1>1 DEF Claims, SumFunction
<1>5. SumFunction(f) = SumFunctionOnSet(f, WaitingOn(a))
  BY <1>1 DEF SumFunction
<1> HIDE DEF f, g
<1>6. SumFunctionOnSet(f, WaitingOn(a)) = SumFunctionOnSet(g, Orders)
  BY <1>1, <1>2, <1>3, TablesAssumption, SumOfPart
<1> QED  BY <1>4, <1>5, <1>6 DEF f

LEMMA BackedAlways == Spec => [](TypeOK /\ BackedUnlessRaced)
<1> DEFINE Inv == TypeOK /\ NonNegative /\ NotCreatedYet /\ BackedUnlessRaced
<1>1. Init => Inv
  <2> SUFFICES ASSUME Init PROVE Inv
    OBVIOUS
  <2>1. TypeOK /\ NonNegative
    BY SafeInit
  <2>2. NotCreatedYet
    BY DEF Init, NotCreatedYet
  <2>3. Backed
    BY NothingClaimed DEF Init
  <2> QED  BY <2>1, <2>2, <2>3 DEF BackedUnlessRaced
<1>2. Inv /\ [Next]_vars => Inv'
  BY SafeNext, LifeStep, BackedNext
<1>3. Inv => TypeOK /\ BackedUnlessRaced
  OBVIOUS
<1> QED  BY <1>1, <1>2, <1>3, PTL DEF Spec

LEMMA BackedIsWaiting == TypeOK /\ BackedUnlessRaced => LockedBacksWaiting
<1> SUFFICES ASSUME TypeOK, BackedUnlessRaced, ~ raced, NEW a \in Accounts
             PROVE  lockedFunds[a] = Scale * SumFunction([i \in WaitingOn(a) |-> rows[i].locked])
  BY DEF LockedBacksWaiting
<1>1. Claims(rows, a) = SumFunction([i \in WaitingOn(a) |-> rows[i].locked])
  BY ClaimsOfWaiting
<1>2. lockedFunds[a] = Scale * Claims(rows, a)
  BY DEF BackedUnlessRaced, Backed, Backs
<1> QED  BY <1>1, <1>2

\* The locked funds of an account are what its waiting orders have locked, whatever is
\* replayed, cancelled, refused or restarted (as long as no API save overwrites a row).
THEOREM LocksAreClaims == Spec => []LockedBacksWaiting
<1> QED  BY BackedIsWaiting, BackedAlways, PTL

\* What one waiting order claims is in the account when no claim on it is negative.
LEMMA ClaimIsHeld ==
  ASSUME NEW rs \in [Orders -> Row], NEW l, Backs(l, rs), NEW i \in Orders, rs[i].state = "wait",
         \A j \in Orders : Claim(j, rs[j], Outcome(i)) >= 0
  PROVE  Scale * rs[i].locked <= l[Outcome(i)]
<1> DEFINE a == Outcome(i)
           f == [j \in Orders |-> Claim(j, rs[j], a)]
           total == Claims(rs, a)
<1>1. \A j \in Orders : f[j] \in Nat
  BY ClaimIsInt
<1>2. f[i] = rs[i].locked /\ rs[i].locked \in Int
  BY DEF Claim, Row
<1>3. total = SumFunctionOnSet(f, Orders)
  BY DEF Claims, SumFunction
<1>4. f[i] \in Nat
  BY <1>1
<1>5. l[a] = Scale * total /\ total \in Int
  BY AccountsOfAnOrder, ClaimsIsInt DEF Backs
<1> HIDE DEF f
<1>6. f[i] <= SumFunctionOnSet(f, Orders)
  BY <1>1, TablesAssumption, SumBoundsTerms
<1> HIDE DEF a, total
<1>7. rs[i].locked <= total /\ rs[i].locked \in Nat /\ total \in Nat
  BY <1>2, <1>3, <1>4, <1>5, <1>6
<1>8. Scale * rs[i].locked <= Scale * total
  <2>1. Scale \in Nat
    BY ScaleAssumption
  <2>2. rs[i].locked * Scale <= total * Scale
    BY <1>7, <2>1, SumsOfProducts
  <2>3. Scale * rs[i].locked = rs[i].locked * Scale /\ Scale * total = total * Scale
    BY <1>7, <2>1
  <2> QED  BY <2>2, <2>3
<1> QED  BY <1>5, <1>8 DEF a

LEMMA BackedCanCancel == TypeOK /\ BackedUnlessRaced => WaitingCanBeCancelled
<1> SUFFICES ASSUME TypeOK, BackedUnlessRaced, ~ raced, NEW i \in Orders,
                    rows[i].state = "wait", rows[i].locked > 0, ~ Overdrawn(Outcome(i))
             PROVE  Covered(Scale * rows[i].locked, lockedFunds[Outcome(i)])
  BY DEF WaitingCanBeCancelled
<1>1. ASSUME NEW j \in Orders PROVE Claim(j, rows[j], Outcome(i)) >= 0
  <2>1. rows[j].locked \in Int
    BY DEF TypeOK, Row
  <2>2. rows[j].state = "wait" /\ Outcome(j) = Outcome(i) => rows[j].locked >= 0
    BY <2>1 DEF Overdrawn, WaitingOn
  <2> QED  BY <2>1, <2>2 DEF Claim
<1>2. Scale * rows[i].locked <= lockedFunds[Outcome(i)]
  BY <1>1, ClaimIsHeld DEF TypeOK, BackedUnlessRaced, Backed
<1>3. Scale * rows[i].locked > 0
  BY ScaleAssumption DEF TypeOK, Row
<1> QED  BY <1>2, <1>3 DEF Covered

\* Where no waiting order of the account is overdrawn, each of them claims at most what
\* the account has locked.
THEOREM WaitingCancels == Spec => []WaitingCanBeCancelled
<1> QED  BY BackedCanCancel, BackedAlways, PTL

-----------------------------------------------------------------------------
(* What goes back to the engine.  With limit orders only, a trade that has  *)
(* been validated goes through, unless the fee of an order eats its income; *)
(* so the rows in memory of a trade that failed are the stored ones.        *)

AllLimit == \A i \in Orders : IsLimit(i)

\* Rows and accounts of limit orders, all of them sound and backed.
SoundMoney(s) ==
  /\ s \in Money /\ s.ok /\ Backs(s.locked, s.rows)
  /\ \A i \in Orders : Sound(s.rows[i], i)

LEMMA LimitHolds ==
  ASSUME NEW i \in Orders, IsLimit(i), NEW row \in Row, Sound(row, i),
         row.state \in {"wait", "done"}
  PROVE  row.locked \in Int /\ row.locked >= 0
<1>1. IF IsBuy(i) THEN row.locked >= Details[i].price * row.volume ELSE row.locked = row.volume
  BY WithinIsCovered DEF Sound
<1>2. row.volume \in Nat /\ Details[i].price \in Nat /\ row.locked \in Int
  BY DetailTypes DEF Row
<1>3. Details[i].price * row.volume \in Nat
  BY <1>2, Products
<1> QED  BY <1>1, <1>2, <1>3

LEMMA LimitStrikes ==
  ASSUME AllLimit, NEW s, SoundMoney(s), NEW i \in Orders, NEW t \in Payload,
         s.rows[i].state = "wait", s.rows[i].volume >= t.quantity, Accepts(i, t.price),
         t.price * t.quantity > 0
  PROVE  IF Net(i, t) > 0 THEN SoundMoney(Strike(s, i, t))
                          ELSE Strike(s, i, t).rows = s.rows /\ ~ Strike(s, i, t).ok
<1> DEFINE old    == s.rows[i]
           row    == StruckRow(old, i, t)
           p      == Pays(i, t)
           r      == Refund(row)
           funds  == s.locked[Outcome(i)]
           new    == Strike(s, i, t)
<1>1. /\ s \in Money /\ s.ok /\ s.rows \in [Orders -> Row] /\ s.locked \in [Accounts -> Int]
      /\ old \in Row /\ Sound(old, i) /\ IsLimit(i)
      /\ Outcome(i) \in Accounts
  BY AccountsOfAnOrder DEF SoundMoney, Money, AllLimit
<1>2. row \in Row /\ Sound(row, i) /\ row.locked = old.locked - p /\ row.state \in {"wait", "done"}
  <2>1. Sound(row, i)
    BY <1>1, StruckRowIsSound
  <2>2. row \in Row /\ row.locked = old.locked - p /\ row.state \in {"wait", "done"}
    BY <1>1, StruckRowType
  <2> QED  BY <2>1, <2>2
<1>3. /\ old.locked \in Int /\ row.locked \in Int /\ row.locked >= 0 /\ funds \in Int
      /\ p \in Int /\ Scale \in Int /\ Scale > 0 /\ Net(i, t) \in Int
  BY <1>1, <1>2, LimitHolds, Amounts, ScaleAssumption
<1>4. p > 0
  <2>1. t.quantity > 0
    <3>1. t.quantity \in Nat /\ t.price \in Nat
      BY PayloadTypes
    <3>2. t.quantity # 0
      BY <3>1
    <3> QED  BY <3>1, <3>2
  <2> QED  BY <2>1 DEF Pays
<1>5. Scale * old.locked <= funds
  <2>1. ASSUME NEW j \in Orders PROVE Claim(j, s.rows[j], Outcome(i)) >= 0
    <3>1. IsLimit(j) /\ Sound(s.rows[j], j) /\ s.rows[j] \in Row
      BY <1>1 DEF SoundMoney, AllLimit
    <3>2. s.rows[j].state = "wait" => s.rows[j].locked >= 0
      BY <3>1, LimitHolds
    <3> QED  BY <3>2 DEF Claim
  <2> QED  BY <1>1, <2>1, ClaimIsHeld DEF SoundMoney
<1>6. r = 0 \/ r = row.locked
  BY DEF Refund
<1> HIDE DEF p, r, funds
<1>7. /\ Scale * p > 0 /\ Scale * p <= funds
      /\ Scale * r = 0 \/ (Scale * r > 0 /\ Scale * r <= funds - Scale * p)
  <2> DEFINE v == row.locked
             w == old.locked
  <2>1. v \in Int /\ w \in Int /\ v >= 0 /\ v = w - p
    BY <1>2, <1>3
  <2>2. r = 0 \/ r = v
    BY <1>6
  <2> HIDE DEF v, w, row, old
  <2>3. Scale * p > 0 /\ Scale * v >= 0 /\ Scale * w = Scale * p + Scale * v
    <3>1. w = p + v
      BY <1>3, <2>1
    <3>2. Scale * p > 0
      BY <1>3, <1>4
    <3>3. Scale * v >= 0
      BY <1>3, <2>1
    <3> QED  BY <1>3, <2>1, <3>1, <3>2, <3>3
  <2>4. Scale * w <= funds
    BY <1>5 DEF w
  <2>5. Scale * p \in Int /\ Scale * v \in Int /\ Scale * 0 = 0
    BY <1>3, <2>1
  <2> DEFINE sp == Scale * p
             sv == Scale * v
             sr == Scale * r
  <2>6. sr = 0 \/ sr = sv
    BY <2>2, <2>5
  <2> HIDE DEF sp, sv, sr
  <2>7. sp > 0 /\ sp + sv <= funds /\ sv >= 0 /\ sp \in Int /\ sv \in Int
    BY <2>3, <2>4, <2>5 DEF sp, sv
  <2>8. sp > 0 /\ sp <= funds /\ (sr = 0 \/ (sr > 0 /\ sr <= funds - sp))
    BY <1>3, <2>6, <2>7
  <2> QED  BY <2>8 DEF sp, sr
<1>8. Covered(Scale * p, funds) /\ (Scale * r = 0 \/ Covered(Scale * r, funds - Scale * p))
  BY <1>7 DEF Covered
<1> DEFINE failed == [s EXCEPT !.ok = FALSE]
           b == [s.balance EXCEPT ![Income(i)] = @ + Net(i, t), ![Outcome(i)] = @ + Scale * r]
           l == [s.locked EXCEPT ![Outcome(i)] = @ - Scale * p - Scale * r]
           y == [s.rows EXCEPT ![i] = row]
           x == Scale * r = 0 \/ Covered(Scale * r, funds - Scale * p)
           goes == s.ok /\ Covered(Scale * p, funds) /\ Net(i, t) > 0
<1>9. new = IF ~ goes THEN failed ELSE [ok |-> x, rows |-> y, balance |-> b, locked |-> l]
  BY DEF Strike, p, r, funds
<1>10. failed.rows = s.rows /\ ~ failed.ok
  BY <1>1 DEF Money
<1>11. CASE Net(i, t) > 0
  <2>1. goes /\ x
    BY <1>1, <1>8, <1>11
  <2> HIDE DEF failed, b, l, y, x, goes
  <2>2. new.ok /\ new.rows = y
    BY <1>9, <2>1
  <2>3. new \in Money
    BY <1>1, StrikeIsSound
  <2>4. Backs(new.locked, new.rows)
    BY <1>1, <2>2, StrikeBacks DEF SoundMoney
  <2>5. \A j \in Orders : Sound(new.rows[j], j)
    <3>1. \A j \in Orders : Sound(s.rows[j], j)
      BY DEF SoundMoney
    <3> HIDE DEF new, row
    <3> QED  BY <1>1, <1>2, <2>2, <3>1 DEF y
  <2> QED  BY <1>11, <2>2, <2>3, <2>4, <2>5 DEF SoundMoney
<1>12. CASE ~ (Net(i, t) > 0)
  <2>1. ~ goes
    BY <1>12
  <2> HIDE DEF failed, b, l, y, x, goes
  <2> QED  BY <1>9, <1>10, <1>12, <2>1
<1> QED  BY <1>11, <1>12
\* The fee of no taker eats all it earns.
TakersEarn == \A i \in Orders : Details[i].takerFee < Scale

LEMMA SideNets ==
  ASSUME NEW t \in Payload, NEW i \in Orders, FeeRate(i, t) < Scale, t.price * t.quantity > 0
  PROVE  Net(i, t) > 0
<1> DEFINE e == Earns(i, t)
           k == Scale - FeeRate(i, t)
<1>1. e \in Nat /\ k \in Int /\ FeeRate(i, t) \in Int
  BY Amounts, ScaleAssumption, DetailTypes DEF FeeRate
<1>2. e > 0
  <2>1. t.quantity \in Nat /\ t.price \in Nat
    BY PayloadTypes
  <2>2. t.quantity # 0
    BY <2>1
  <2> QED  BY <2>1, <2>2 DEF Earns
<1>3. k > 0
  BY <1>1, ScaleAssumption
<1> HIDE DEF e, k
<1>4. e * k > 0
  BY <1>1, <1>2, <1>3
<1> QED  BY <1>4 DEF Net, e, k

LEMMA TakerNets ==
  ASSUME TakersEarn, NEW t \in Payload, t.taker \in Orders, t.maker # t.taker,
         t.price * t.quantity > 0
  PROVE  Net(t.taker, t) > 0
<1>1. FeeRate(t.taker, t) < Scale
  BY DEF FeeRate, TakersEarn
<1> QED  BY <1>1, SideNets

LEMMA StrikeKeepsOthers ==
  ASSUME NEW s \in Money, NEW i \in Orders, NEW t \in Payload, s.rows[i].volume >= t.quantity,
         NEW j \in Orders \ {i}
  PROVE  Strike(s, i, t).rows[j] = s.rows[j]
<1> DEFINE row == StruckRow(s.rows[i], i, t)
<1>1. s.rows \in [Orders -> Row]
  BY DEF Money
<1>2. Strike(s, i, t).rows \in {s.rows, [s.rows EXCEPT ![i] = row]}
  BY DEF Strike, Money
<1> HIDE DEF row
<1> QED  BY <1>1, <1>2

LEMMA MemoryIsStored ==
  ASSUME IInv, Backed, AllLimit, TakersEarn, NEW t \in Payload, EnginePublishes(t),
         ~ (Valid(t) /\ Struck(t).ok)
  PROVE  RowsInMemory(t) = rows
<1>1. CASE ~ Valid(t)
  BY <1>1 DEF RowsInMemory
<1>2. CASE Valid(t)
  <2> DEFINE s0 == [ok |-> TRUE, rows |-> rows, balance |-> balance, locked |-> lockedFunds]
             s1 == IF t.maker = Fake THEN s0 ELSE Strike(s0, t.maker, t)
             s2 == Struck(t)
  <2>1. ~ s2.ok /\ RowsInMemory(t) = s2.rows
    BY <1>2 DEF RowsInMemory
  <2>2. \A i \in Real(t) : /\ i \in Orders /\ rows[i].volume >= t.quantity /\ rows[i].state = "wait"
                           /\ Accepts(i, t.price)
    BY <1>2 DEF Payload, EnginePublishes, Valid, StatesWait, VolumesSuffice, Real
  <2>3. t.price * t.quantity > 0
    BY <1>2 DEF Valid
  <2>4. /\ t.maker # Fake => t.maker \in Real(t)
        /\ t.taker # Fake => t.taker \in Real(t) /\ t.taker # t.maker
    BY DEF Real, EnginePublishes
  <2>5. s0 \in Money /\ s0.ok /\ s0.rows = rows /\ s0.locked = lockedFunds
    BY DEF IInv, TypeOK, Money
  <2>6. s2 = IF t.taker = Fake THEN s1 ELSE Strike(s1, t.taker, t)
    BY DEF Struck
  <2>7. s1 = IF t.maker = Fake THEN s0 ELSE Strike(s0, t.maker, t)
    OBVIOUS
  <2> HIDE DEF s0, s1, s2
  <2>8. SoundMoney(s0)
    BY <2>5 DEF SoundMoney, Backed, IInv, RowsSound
  <2>9. \/ SoundMoney(s1) /\ \A j \in Orders : j # t.maker => s1.rows[j] = rows[j]
        \/ s1 \in Money /\ s1.rows = rows /\ ~ s1.ok
    <3>1. CASE t.maker = Fake
      BY <2>5, <2>7, <2>8, <3>1
    <3>2. CASE t.maker # Fake
      <4>1. /\ t.maker \in Orders /\ s0.rows[t.maker].volume >= t.quantity
            /\ s0.rows[t.maker].state = "wait" /\ Accepts(t.maker, t.price)
            /\ s1 = Strike(s0, t.maker, t)
        BY <2>2, <2>4, <2>5, <2>7, <3>2
      <4>2. IF Net(t.maker, t) > 0 THEN SoundMoney(s1) ELSE s1.rows = rows /\ ~ s1.ok
        BY <2>3, <2>5, <2>8, <4>1, LimitStrikes
      <4>3. s1 \in Money
        BY <2>5, <4>1, StrikeIsSound
      <4>4. \A j \in Orders : j # t.maker => s1.rows[j] = rows[j]
        <5> SUFFICES ASSUME NEW j \in Orders \ {t.maker} PROVE s1.rows[j] = s0.rows[j]
          BY <2>5
        <5>1. Strike(s0, t.maker, t).rows[j] = s0.rows[j]
          BY <2>5, <4>1, StrikeKeepsOthers
        <5> QED  BY <4>1, <5>1
      <4> QED  BY <4>2, <4>3, <4>4
    <3> QED  BY <3>1, <3>2
  <2>10. CASE s1 \in Money /\ s1.rows = rows /\ ~ s1.ok
    <3>1. CASE t.taker = Fake
      BY <2>1, <2>6, <2>10, <3>1
    <3>2. CASE t.taker # Fake
      <4>1. Strike(s1, t.taker, t) = [s1 EXCEPT !.ok = FALSE]
        BY <2>10 DEF Strike
      <4>2. [s1 EXCEPT !.ok = FALSE].rows = s1.rows
        BY <2>10 DEF Money
      <4> QED  BY <2>1, <2>6, <2>10, <3>2, <4>1, <4>2
    <3> QED  BY <3>1, <3>2
  <2>11. CASE SoundMoney(s1) /\ \A j \in Orders : j # t.maker => s1.rows[j] = rows[j]
    <3>1. CASE t.taker = Fake
      BY <2>1, <2>6, <2>11, <3>1 DEF SoundMoney
    <3>2. CASE t.taker # Fake
      <4> DEFINE k == t.taker
      <4>1. /\ k \in Orders /\ k # t.maker /\ rows[k].volume >= t.quantity /\ rows[k].state = "wait"
            /\ Accepts(k, t.price) /\ s2 = Strike(s1, k, t)
        BY <2>2, <2>4, <2>6, <3>2
      <4>2. Net(k, t) > 0
        BY <2>3, <4>1, TakerNets
      <4> HIDE DEF k
      <4>3. s1.rows[k] = rows[k]
        BY <2>11, <4>1
      <4>4. SoundMoney(s2)
        BY <2>3, <2>11, <4>1, <4>2, <4>3, LimitStrikes
      <4> QED  BY <2>1, <4>4 DEF SoundMoney
    <3> QED  BY <3>1, <3>2
  <2> QED  BY <2>9, <2>10, <2>11
<1> QED  BY <1>1, <1>2

\* What one step may add to the matching topic when all orders are limit orders.
StoredGoBack ==
  \A m \in announced' \ announced :
    (\A i \in Orders : IsLimit(i)) /\ ~ raced =>
      \/ m = producing
      \/ rows[m.id].state = "wait" /\ m = Message(m.id, rows[m.id])

LEMMA StoredGoBackStep ==
  ASSUME TakersEarn, IInv, BackedUnlessRaced, [Next]_vars
  PROVE  StoredGoBack
<1> SUFFICES ASSUME NEW m \in announced' \ announced, AllLimit, ~ raced
             PROVE  m = producing \/ (rows[m.id].state = "wait" /\ m = Message(m.id, rows[m.id]))
  BY DEF StoredGoBack, AllLimit
<1>1. \A i : Message(i, rows[i]).id = i
  BY DEF Message
<1>2. CASE ProduceMatching
  BY <1>2 DEF ProduceMatching
<1>3. CASE LoadOrders
  <2>1. PICK i \in Orders : rows[i].state = "wait" /\ m = Message(i, rows[i])
    BY <1>3 DEF LoadOrders
  <2>2. m.id = i
    BY <1>1, <2>1
  <2> QED  BY <2>1, <2>2
<1>4. ASSUME NEW t \in Payload, RefuseTrade(t)
      PROVE  rows[m.id].state = "wait" /\ m = Message(m.id, rows[m.id])
  <2>1. EnginePublishes(t) /\ ~ (Valid(t) /\ Struck(t).ok) /\ m \in HandedBack(t)
    BY <1>4 DEF RefuseTrade, Refuse
  <2>2. RowsInMemory(t) = rows
    BY <2>1, MemoryIsStored DEF BackedUnlessRaced
  <2>3. PICK i \in Real(t) : rows[i].state = "wait" /\ m = Message(i, rows[i])
    BY <2>1, <2>2 DEF HandedBack
  <2>4. m.id = i
    BY <1>1, <2>3
  <2> QED  BY <2>3, <2>4
<1>5. CASE UNCHANGED announced
  BY <1>5
<1>6. ASSUME NEW i \in Orders, Create(i) \/ CheckBalance(i) \/ Save(i) \/ ProduceSubmit(i)
      PROVE  UNCHANGED announced
  BY <1>6 DEF Create, CheckBalance, Save, ProduceSubmit
<1>7. ASSUME NEW i \in Orders, HandleSubmit(i) \/ SubmitAtStart(i) \/ HandleCancel(i)
      PROVE  UNCHANGED announced
  <2>1. CASE HandleSubmit(i) \/ SubmitAtStart(i)
    <3>1. SubmitOrder(i)
      BY <2>1 DEF HandleSubmit, SubmitAtStart
    <3> QED  BY <3>1 DEF SubmitOrder
  <2>2. CASE HandleCancel(i)
    BY <2>2 DEF HandleCancel
  <2> QED  BY <1>7, <2>1, <2>2
<1>8. ASSUME NEW t \in Payload, SettleTrade(t) PROVE UNCHANGED announced
  BY <1>8 DEF SettleTrade, Settle
<1>9. Restart \/ UNCHANGED vars => UNCHANGED announced
  BY DEF Restart, vars
<1> QED  BY <1>2, <1>3, <1>4, <1>5, <1>6, <1>7, <1>8, <1>9 DEF Next, Api, OrderProcessor, TradeExecutor

\* Where no fee eats the whole income of a taker, the executor hands a limit order back to
\* the engine as it is stored: a trade that passes the validation does not fail half way.
THEOREM HandsBackStored ==
  ASSUME TakersEarn
  PROVE  Spec => HandedBackAsStored
<1> DEFINE Inv == IInv /\ NotCreatedYet /\ BackedUnlessRaced
<1>1. Init => Inv
  <2>1. ASSUME Init PROVE NotCreatedYet /\ Backed
    BY <2>1, NothingClaimed DEF Init, NotCreatedYet
  <2> QED  BY <2>1, LimitsInit DEF BackedUnlessRaced
<1>2. Inv /\ [Next]_vars => Inv'
  BY LimitsNext, LifeStep, BackedNext DEF IInv
<1>3. Inv /\ [Next]_vars => StoredGoBack
  BY StoredGoBackStep
<1> QED  BY <1>1, <1>2, <1>3, PTL DEF Spec, HandedBackAsStored, StoredGoBack

-----------------------------------------------------------------------------
(* What the composition with the engine needs to know of the rows. *)

\* An order goes to the engine once it has been through SubmitOrder.
SentIsSubmitted ==
  \A i \in Orders :
    Announced(i) \/ (producing # None /\ producing.id = i) => rows[i].state \notin {"none", "pending"}

DoneIsEmpty == \A i \in Orders : rows[i].state = "done" => rows[i].volume = 0

\* A step that settles nothing leaves the volume, and makes no order done.
Stands(i) ==
  rows'[i].volume = rows[i].volume /\ (rows'[i].state = "done" => rows[i].state = "done")

LEMMA SettleRows ==
  ASSUME TypeOK, NEW t \in Payload, SettleTrade(t), NEW j \in Orders
  PROVE  IF j \in Real(t)
         THEN /\ rows[j].state = "wait" /\ rows'[j].volume = rows[j].volume - t.quantity
              /\ IsLimit(j) => rows'[j].state \in {"wait", "done"}
              /\ rows'[j].state = "done" => rows'[j].volume = 0
         ELSE rows'[j] = rows[j]
<1>1. EnginePublishes(t) /\ Valid(t) /\ Struck(t).ok /\ rows' = Struck(t).rows
  BY DEF SettleTrade, Settle
<1>2. rows'[j] = IF j \in Real(t) THEN StruckRow(rows[j], j, t) ELSE rows[j]
  BY <1>1, StruckIsSound
<1>3. CASE j \in Real(t)
  <2>1. rows[j] \in Row /\ rows[j].state = "wait" /\ rows[j].volume >= t.quantity
    BY <1>1, <1>3 DEF TypeOK, Valid, StatesWait, VolumesSuffice
  <2> DEFINE r == [rows[j] EXCEPT !.volume = @ - t.quantity, !.locked = @ - Pays(j, t),
                                  !.received = @ + Earns(j, t)]
  <2>2. r.state = "wait" /\ [r EXCEPT !.state = "cancel"].state = "cancel"
        /\ [r EXCEPT !.state = "done"].volume = r.volume
    BY <2>1 DEF Row
  <2>3. StruckRow(rows[j], j, t) = IF r.volume = 0 THEN [r EXCEPT !.state = "done"]
                                   ELSE IF ~ IsLimit(j) /\ r.locked = 0 THEN [r EXCEPT !.state = "cancel"]
                                   ELSE r
    BY DEF StruckRow
  <2> HIDE DEF r
  <2>4. StruckRow(rows[j], j, t).state = "done" => StruckRow(rows[j], j, t).volume = 0
    BY <2>2, <2>3
  <2>5. /\ StruckRow(rows[j], j, t).volume = rows[j].volume - t.quantity
        /\ IsLimit(j) => StruckRow(rows[j], j, t).state \in {"wait", "done"}
    BY <2>1, StruckRowType
  <2> QED  BY <1>2, <1>3, <2>1, <2>4, <2>5
<1> QED  BY <1>2, <1>3

LEMMA SubmitStands ==
  ASSUME TypeOK, NEW i \in Orders, SubmitOrder(i), NEW j \in Orders
  PROVE  /\ Stands(j)
         /\ rows'[j] # rows[j] => j = i /\ rows[j].state = "pending" /\ rows'[j].state \in {"wait", "reject"}
         /\ producing' = producing \/ producing' = Message(i, rows[i])
         /\ producing' # producing => rows'[i].state \notin {"none", "pending"}
<1>1. rows \in [Orders -> Row] /\ rows[i].state # "none"
  BY DEF TypeOK, SubmitOrder
<1>2. \/ UNCHANGED rows
      \/ /\ rows[i].state = "pending"
         /\ \E x \in {"wait", "reject"} : rows' = [rows EXCEPT ![i].state = x]
  BY DEF SubmitOrder, IsPending
<1>3. \/ rows'[j] = rows[j]
      \/ /\ j = i /\ rows[j].state = "pending" /\ rows'[j].state \in {"wait", "reject"}
         /\ rows'[j].volume = rows[j].volume
  BY <1>1, <1>2 DEF Row
<1>4. producing' = producing \/ producing' = Message(i, rows[i])
  BY DEF SubmitOrder, ToEngine
<1>5. producing' # producing => rows'[i].state \notin {"none", "pending"}
  BY <1>1 DEF SubmitOrder, IsPending, Row
<1> QED  BY <1>3, <1>4, <1>5 DEF Stands

LEMMA CancelStands ==
  ASSUME TypeOK, NEW i \in Orders, HandleCancel(i), NEW j \in Orders
  PROVE  /\ Stands(j) /\ rows[i].state = "wait" /\ rows'[i].state = "cancel"
         /\ j # i => rows'[j] = rows[j]
<1>1. rows \in [Orders -> Row] /\ rows' = [rows EXCEPT ![i].state = "cancel"] /\ rows[i].state = "wait"
  BY DEF TypeOK, HandleCancel, Cancellable
<1> QED  BY <1>1 DEF Stands, Row

LEMMA DoneStep == ASSUME TypeOK, DoneIsEmpty, [Next]_vars PROVE DoneIsEmpty'
<1> SUFFICES ASSUME NEW j \in Orders, rows'[j].state = "done" PROVE rows'[j].volume = 0
  BY DEF DoneIsEmpty
<1>0. rows \in [Orders -> Row] /\ rows[j].volume \in Nat
  BY DEF TypeOK, Row
<1>1. ASSUME NEW i \in Orders, Create(i) \/ Save(i) PROVE rows'[j].volume = 0
  <2>1. rows' = [rows EXCEPT ![i] = FreshRow(i)] /\ FreshRow(i).state = "pending"
    BY <1>1 DEF Create, Save, FreshRow
  <2> QED  BY <1>0, <2>1 DEF DoneIsEmpty
<1>2. ASSUME NEW i \in Orders, HandleSubmit(i) \/ SubmitAtStart(i) \/ HandleCancel(i)
      PROVE  rows'[j].volume = 0
  <2>1. SubmitOrder(i) \/ HandleCancel(i)
    BY <1>2 DEF HandleSubmit, SubmitAtStart
  <2>2. Stands(j)
    BY <2>1, SubmitStands, CancelStands
  <2> QED  BY <2>2 DEF Stands, DoneIsEmpty
<1>3. ASSUME NEW t \in Payload, SettleTrade(t) PROVE rows'[j].volume = 0
  BY <1>3, SettleRows DEF DoneIsEmpty
<1>4. CASE UNCHANGED rows
  BY <1>4 DEF DoneIsEmpty
<1>5. ASSUME NEW i \in Orders, CheckBalance(i) \/ ProduceSubmit(i) PROVE UNCHANGED rows
  BY <1>5 DEF CheckBalance, ProduceSubmit
<1>6. ASSUME NEW t \in Payload, RefuseTrade(t) PROVE UNCHANGED rows
  BY <1>6 DEF RefuseTrade, Refuse
<1>7. ProduceMatching \/ Restart \/ LoadOrders \/ UNCHANGED vars => UNCHANGED rows
  BY DEF ProduceMatching, Restart, LoadOrders, vars
<1> QED  BY <1>1, <1>2, <1>3, <1>4, <1>5, <1>6, <1>7 DEF Next, Api, OrderProcessor, TradeExecutor

LEMMA SentStep ==
  ASSUME TypeOK, NotCreatedYet, SentIsSubmitted, [Next]_vars, ~ raced'
  PROVE  SentIsSubmitted'
<1>0. rows \in [Orders -> Row]
  BY DEF TypeOK
<1>1. ASSUME NEW j \in Orders, rows[j].state \notin {"none", "pending"}
      PROVE  rows'[j].state \notin {"none", "pending"}
  BY <1>1, LifeStep DEF LifeGoesOn
<1>2. CASE UNCHANGED <<announced, producing>>
  BY <1>1, <1>2 DEF SentIsSubmitted, Announced
<1>3. ASSUME NEW i \in Orders, SubmitOrder(i) PROVE SentIsSubmitted'
  <2>1. UNCHANGED announced /\ (producing' = producing \/ producing' = Message(i, rows[i]))
        /\ (producing' # producing => rows'[i].state \notin {"none", "pending"})
    BY <1>3, SubmitStands DEF SubmitOrder
  <2>2. Message(i, rows[i]).id = i
    BY DEF Message
  <2> QED  BY <1>1, <2>1, <2>2 DEF SentIsSubmitted, Announced
<1>4. CASE ProduceMatching
  BY <1>4 DEF ProduceMatching, SentIsSubmitted, Announced
<1>5. CASE Restart
  BY <1>5 DEF Restart, SentIsSubmitted, Announced
<1>6. CASE LoadOrders
  <2>1. \A m \in announced' : m \in announced \/ rows[m.id].state = "wait"
    BY <1>6 DEF LoadOrders, Message
  <2>2. UNCHANGED <<rows, producing>>
    BY <1>6 DEF LoadOrders, processor
  <2> QED  BY <2>1, <2>2 DEF SentIsSubmitted, Announced
<1>7. ASSUME NEW t \in Payload, RefuseTrade(t) PROVE SentIsSubmitted'
  <2>1. /\ EnginePublishes(t) /\ announced' = announced \cup HandedBack(t) /\ UNCHANGED <<rows, producing>>
    BY <1>7 DEF RefuseTrade, Refuse, processor
  <2>2. \A m \in HandedBack(t) : m.id \in Real(t)
    BY DEF HandedBack, Message
  <2>3. \A m \in HandedBack(t) : Announced(m.id)
    BY <2>1, <2>2 DEF EnginePublishes
  <2>4. \A i : Announced(i)' => Announced(i)
    BY <2>1, <2>3 DEF Announced
  <2> QED  BY <2>1, <2>4 DEF SentIsSubmitted
<1>8. ASSUME NEW i \in Orders, Create(i) \/ CheckBalance(i) \/ Save(i) \/ ProduceSubmit(i) \/ HandleCancel(i)
      PROVE  UNCHANGED <<announced, producing>>
  BY <1>8 DEF Create, CheckBalance, Save, ProduceSubmit, HandleCancel, processor
<1>9. ASSUME NEW t \in Payload, SettleTrade(t) PROVE UNCHANGED <<announced, producing>>
  BY <1>9 DEF SettleTrade, Settle, processor
<1>10. ASSUME NEW i \in Orders, HandleSubmit(i) \/ SubmitAtStart(i) PROVE SubmitOrder(i)
  BY <1>10 DEF HandleSubmit, SubmitAtStart
<1>11. UNCHANGED vars => UNCHANGED <<announced, producing>>
  BY DEF vars
<1> QED  BY <1>2, <1>3, <1>4, <1>5, <1>6, <1>7, <1>8, <1>9, <1>10, <1>11
         DEF Next, Api, OrderProcessor, TradeExecutor

\* The fee of no order eats all it earns.
EveryoneEarns == \A i \in Orders : Details[i].makerFee < Scale /\ Details[i].takerFee < Scale

\* Then a trade of limit orders that has been validated goes through.
LEMMA ValidGoesThrough ==
  ASSUME IInv, Backed, AllLimit, EveryoneEarns, NEW t \in Payload, EnginePublishes(t), Valid(t)
  PROVE  Struck(t).ok
<1> DEFINE s0 == [ok |-> TRUE, rows |-> rows, balance |-> balance, locked |-> lockedFunds]
           s1 == IF t.maker = Fake THEN s0 ELSE Strike(s0, t.maker, t)
           s2 == Struck(t)
<1>1. \A i \in Real(t) : /\ i \in Orders /\ rows[i].volume >= t.quantity /\ rows[i].state = "wait"
                         /\ Accepts(i, t.price)
  BY DEF Payload, EnginePublishes, Valid, StatesWait, VolumesSuffice, Real
<1>2. t.price * t.quantity > 0
  BY DEF Valid
<1>3. \A i \in Orders : Net(i, t) > 0
  <2>1. \A i \in Orders : FeeRate(i, t) < Scale
    BY DEF FeeRate, EveryoneEarns
  <2> QED  BY <1>2, <2>1, SideNets
<1>4. s0 \in Money /\ s0.ok /\ s0.rows = rows /\ s0.locked = lockedFunds
  BY DEF IInv, TypeOK, Money
<1>5. s2 = IF t.taker = Fake THEN s1 ELSE Strike(s1, t.taker, t)
  BY DEF Struck
<1>6. s1 = IF t.maker = Fake THEN s0 ELSE Strike(s0, t.maker, t)
  OBVIOUS
<1>7. /\ t.maker # Fake => t.maker \in Real(t)
      /\ t.taker # Fake => t.taker \in Real(t) /\ t.taker # t.maker
  BY DEF Real, EnginePublishes
<1> HIDE DEF s0, s1, s2
<1>8. SoundMoney(s0)
  BY <1>4 DEF SoundMoney, Backed, IInv, RowsSound
<1>9. SoundMoney(s1) /\ (t.taker # Fake => s1.rows[t.taker] = rows[t.taker])
  <2>1. CASE t.maker = Fake
    BY <1>4, <1>6, <1>8, <2>1
  <2>2. CASE t.maker # Fake
    <3>1. /\ t.maker \in Orders /\ s0.rows[t.maker].volume >= t.quantity
          /\ s0.rows[t.maker].state = "wait" /\ Accepts(t.maker, t.price)
          /\ s1 = Strike(s0, t.maker, t)
      BY <1>1, <1>4, <1>6, <1>7, <2>2
    <3>2. SoundMoney(s1)
      BY <1>2, <1>3, <1>8, <3>1, LimitStrikes
    <3>3. ASSUME t.taker # Fake PROVE s1.rows[t.taker] = rows[t.taker]
      <4>1. t.taker \in Orders \ {t.maker}
        BY <1>1, <1>7, <3>3
      <4>2. Strike(s0, t.maker, t).rows[t.taker] = s0.rows[t.taker]
        BY <1>4, <3>1, <4>1, StrikeKeepsOthers
      <4> QED  BY <1>4, <3>1, <4>2
    <3> QED  BY <3>2, <3>3
  <2> QED  BY <2>1, <2>2
<1>10. SoundMoney(s2)
  <2>1. CASE t.taker = Fake
    BY <1>5, <1>9, <2>1
  <2>2. CASE t.taker # Fake
    <3> DEFINE k == t.taker
    <3>1. /\ k \in Orders /\ rows[k].volume >= t.quantity /\ rows[k].state = "wait"
          /\ Accepts(k, t.price) /\ s2 = Strike(s1, k, t) /\ s1.rows[k] = rows[k]
      BY <1>1, <1>5, <1>7, <1>9, <2>2
    <3> HIDE DEF k
    <3> QED  BY <1>2, <1>3, <1>9, <3>1, LimitStrikes
  <2> QED  BY <2>1, <2>2
<1> QED  BY <1>10 DEF SoundMoney, s2

=============================================================================
