------------------------ MODULE PaperBrokerProofs ------------------------
(***************************************************************************)
(* Proofs about the paper broker, for every set of orders, every price and *)
(* every risk configuration.                                               *)
(***************************************************************************)
EXTENDS PaperBroker, FiniteSetTheorems, TLAPS

-----------------------------------------------------------------------------
(***************************************************************************)
(* Arithmetic.                                                             *)
(***************************************************************************)
\* The product distributes over the sum.
LEMMA Distributes ==
  ASSUME NEW a \in Int, NEW b \in Int, NEW c \in Int
  PROVE  (a + b) * c = a * c + b * c
BY SMT

\* The product of naturals is a natural, of integers an integer.
LEMMA ProductType ==
  /\ \A a, b \in Nat : a * b \in Nat
  /\ \A a, b \in Int : a * b \in Int
BY SMT

\* Multiplying by a natural keeps the order.
LEMMA Monotone ==
  ASSUME NEW a \in Int, NEW b \in Int, NEW c \in Nat, a <= b
  PROVE  a * c <= b * c
BY SMT

\* Rounding down never goes above.
LEMMA RoundsDown ==
  ASSUME NEW a \in Nat, NEW b \in Nat \ {0}
  PROVE  a \div b \in Nat /\ (a \div b) * b <= a
BY SMT

-----------------------------------------------------------------------------
(***************************************************************************)
(* Orders and positions.                                                   *)
(***************************************************************************)
\* The quantity of a well-formed order is a natural, and at its stop, at the
\* order's own rate, it loses no more than the risk.
LEMMA Sizing ==
  ASSUME NEW r \in Requests, WellFormed(r)
  PROVE  /\ Qty(r) \in Nat
         /\ Qty(r) * (r.usdtbrl * StopDistance(r)) <= RiskBrl
<1> DEFINE d == r.usdtbrl * StopDistance(r)
           lots == Lots(r)
<1>1. /\ r.usdtbrl \in Nat \ {0} /\ StopDistance(r) \in Nat \ {0}
      /\ r.stepSize \in Nat /\ RiskBrl \in Nat
  BY PaperBrokerAssumption DEF Request, WellFormed, StopDistance, Abs
<1>2. d \in Nat \ {0}
  BY <1>1
<1>3. lots \in Nat /\ lots * d <= RiskBrl
  <2>1. lots = RiskBrl \div d
    BY DEF Lots
  <2> HIDE DEF lots, d
  <2> QED BY <1>1, <1>2, <2>1, RoundsDown
<1> HIDE DEF lots, d
<1>6. Qty(r) \in Nat /\ Qty(r) <= lots
  <2>1. CASE r.stepSize = 0
    <3>1. Qty(r) = lots
      BY <2>1 DEF Qty, lots
    <3> QED BY <1>3, <3>1
  <2>2. CASE r.stepSize # 0
    <3>1. Qty(r) = (lots \div r.stepSize) * r.stepSize
      BY <2>2 DEF Qty, lots
    <3>2. r.stepSize \in Nat \ {0}
      BY <1>1, <2>2
    <3>3. lots \div r.stepSize \in Nat /\ (lots \div r.stepSize) * r.stepSize <= lots
      BY <1>3, <3>2, RoundsDown
    <3> QED BY <1>3, <3>1, <3>2, <3>3, ProductType
  <2> QED BY <2>1, <2>2
<1>7. Qty(r) * d <= lots * d
  BY <1>2, <1>3, <1>6
<1>8. Qty(r) * d \in Nat /\ lots * d \in Nat
  BY <1>2, <1>3, <1>6, ProductType
<1>9. Qty(r) * d <= RiskBrl
  BY <1>1, <1>3, <1>7, <1>8
<1> QED BY <1>6, <1>9 DEF d

\* What an approved order opens is a position.
LEMMA OpensPosition ==
  ASSUME NEW r \in Requests, WellFormed(r), NEW id \in Nat
  PROVE  PositionOf(r, id) \in Position
<1>1. Qty(r) \in Nat
  BY Sizing
<1>2. /\ r.entry \in Nat /\ r.stop \in Nat /\ r.target \in Nat
      /\ r.feeRate \in Nat /\ r.side \in {"Long", "Short"}
  BY PaperBrokerAssumption DEF Request, WellFormed
<1>3. Notional(r) * r.feeRate \in Nat
  BY <1>1, <1>2, ProductType DEF Notional
<1> QED BY <1>1, <1>2, <1>3 DEF PositionOf, Position

\* The result of a position is an integer.
LEMMA PnlType ==
  ASSUME NEW p \in Position, NEW m \in Mark
  PROVE  Pnl(p, m) \in Int
<1>1. p.qty \in Nat /\ p.openFee \in Nat /\ p.entry \in Nat /\ m.price \in Nat
      /\ m.feeRate \in Nat /\ Scale \in Nat
  BY PaperBrokerAssumption DEF Position, Mark
<1>2. p.qty * m.price * m.feeRate \in Int
  BY <1>1, ProductType
<1>3. /\ (m.price - p.entry) * p.qty * Scale \in Int
      /\ (p.entry - m.price) * p.qty * Scale \in Int
  <2>1. m.price - p.entry \in Int /\ p.entry - m.price \in Int
    BY <1>1
  <2>2. (m.price - p.entry) * p.qty \in Int /\ (p.entry - m.price) * p.qty \in Int
    BY <1>1, <2>1, ProductType
  <2> QED BY <1>1, <2>2, ProductType
<1> QED BY <1>1, <1>2, <1>3 DEF Pnl

\* It does not depend on the number of the order.
LEMMA PnlIgnoresId ==
  ASSUME NEW r, NEW id, NEW m
  PROVE  Pnl(PositionOf(r, id), m) = Pnl(PositionOf(r, 0), m)
BY DEF Pnl, PositionOf

-----------------------------------------------------------------------------
(***************************************************************************)
(* The inductive invariant.                                                *)
(***************************************************************************)
\* Every position was sized by the broker.
Sized ==
  \A p \in open \cup closing :
    \E r \in Requests, id \in Nat : WellFormed(r) /\ p = PositionOf(r, id)

\* Positions being closed still occupy their slots.
Taken == Cardinality(open) + Cardinality(closing)
SlotsInv == Taken <= MaxPositions

\* The switch is set as soon as the loss reaches the limit.
SwitchInv ==
  /\ ~killSwitch => -realized * UsdtBrl < MaxDailyLossBrl * Scale
  /\ KillSwitchRemembers

\* Each position may still lose w, and never more than that was lost past the
\* limit: while positions are closed the left side does not grow, and a new one
\* is opened only below the limit.
CappedAt(w) ==
  -realized * UsdtBrl + Taken * w < MaxDailyLossBrl * Scale + MaxPositions * w
CapInv == \A w \in Nat : CostsAtMost(w) => CappedAt(w)

IInv ==
  /\ TypeOK
  /\ mark \in Marks
  /\ Sized
  /\ SlotsInv
  /\ SwitchInv
  /\ LedgerAccounts
  /\ CapInv

-----------------------------------------------------------------------------
(***************************************************************************)
(* The initial states.                                                     *)
(***************************************************************************)
\* The initial states satisfy the inductive invariant.
LEMMA InitIInv == Init => IInv
<1> SUFFICES ASSUME Init PROVE IInv
  OBVIOUS
<1> USE PaperBrokerAssumption
<1>1. IsFiniteSet({}) /\ Cardinality({}) = 0
  BY FS_EmptySet
<1>2. TypeOK
  <2>1. StartBrl * Scale \in Int
    BY ProductType
  <2>2. equity \in Int /\ mark \in Mark
    BY <2>1 DEF Init
  <2>3. killSwitch \in BOOLEAN
    BY DEF Init
  <2> QED BY <1>1, <2>2, <2>3 DEF Init, TypeOK
<1>3. mark \in Marks /\ Sized
  BY DEF Init, Sized
<1>4. Taken = 0
  BY <1>1 DEF Init, Taken
<1>5. SlotsInv
  BY <1>4 DEF SlotsInv
<1>6. -realized * UsdtBrl = 0 /\ -worst * UsdtBrl = 0
  BY DEF Init
<1>7. MaxDailyLossBrl * Scale > 0
  BY SMT
<1>8. SwitchInv
  BY <1>6, <1>7 DEF Init, SwitchInv, KillSwitchRemembers
<1>9. LedgerAccounts
  <2>1. realized * UsdtBrl = 0 /\ StartBrl * Scale \in Int
    BY ProductType DEF Init
  <2> QED BY <1>1, <2>1 DEF Init, LedgerAccounts
<1>10. CapInv
  <2> SUFFICES ASSUME NEW w \in Nat PROVE CappedAt(w)
    BY DEF CapInv
  <2>1. MaxPositions * w \in Nat /\ MaxDailyLossBrl * Scale \in Nat
    BY ProductType
  <2>2. Taken * w = 0
    BY <1>4
  <2> QED BY <1>6, <1>7, <2>1, <2>2 DEF CappedAt
<1> QED BY <1>2, <1>3, <1>5, <1>8, <1>9, <1>10 DEF IInv

-----------------------------------------------------------------------------
(***************************************************************************)
(* Orders.                                                                 *)
(***************************************************************************)
\* An order keeps the inductive invariant.
LEMMA SubmitKeeps ==
  ASSUME IInv, NEW r \in Requests, Submit(r)
  PROVE  IInv'
<1> USE PaperBrokerAssumption
<1> DEFINE p == PositionOf(r, submitted + 1)
<1>1. /\ closing = {} /\ closing' = {} /\ submitted' = submitted + 1
      /\ UNCHANGED <<mark, equity, realized, tradesClosed, killSwitch, worst>>
  BY DEF Submit, ledger
<1>2. TypeOK /\ SlotsInv /\ SwitchInv /\ LedgerAccounts /\ CapInv /\ Sized
      /\ mark \in Marks
  BY DEF IInv
<1>3. /\ IsFiniteSet(open) /\ Cardinality(open) \in Nat
      /\ IsFiniteSet({}) /\ Cardinality({}) = 0
  BY <1>2, FS_CardinalityType, FS_EmptySet DEF TypeOK
<1>4. CASE ~Approved(r)
  <2>1. open' = open /\ rejectedOrders' = rejectedOrders + 1
    BY <1>4 DEF Submit
  <2>2. TypeOK'
    <3>1. \A a \in open' \cup closing' : a.id <= submitted'
      <4>1. submitted \in Nat /\ \A a \in open : a.id \in Nat /\ a.id <= submitted
        BY <1>2 DEF TypeOK, Position
      <4> QED BY <1>1, <2>1, <4>1
    <3>2. submitted' \in Nat /\ rejectedOrders' \in Nat
      BY <1>1, <1>2, <2>1 DEF TypeOK
    <3> QED BY <1>1, <1>2, <1>3, <2>1, <3>1, <3>2 DEF TypeOK
  <2>3. Taken' = Taken
    BY <1>1, <2>1 DEF Taken
  <2>4. Sized' /\ SlotsInv' /\ SwitchInv' /\ CapInv' /\ mark' \in Marks
    BY <1>1, <1>2, <2>1, <2>3
       DEF Sized, SlotsInv, SwitchInv, KillSwitchRemembers, CapInv, CappedAt
  <2>5. LedgerAccounts'
    BY <1>1, <1>2, <1>3, <2>1 DEF LedgerAccounts, TypeOK
  <2> QED BY <2>2, <2>4, <2>5 DEF IInv
<1>5. CASE Approved(r)
  <2>1. /\ open' = open \cup {p} /\ rejectedOrders' = rejectedOrders
        /\ WellFormed(r) /\ ~killSwitch /\ Cardinality(open) < MaxPositions
    BY <1>5 DEF Submit, Approved
  <2>2. submitted \in Nat /\ submitted + 1 \in Nat
    BY <1>2 DEF TypeOK
  <2>3. p \in Position /\ p.id = submitted + 1
    BY <2>1, <2>2, OpensPosition DEF PositionOf
  <2>4. p \notin open
    BY <1>2, <2>2, <2>3 DEF TypeOK
  <2>5. IsFiniteSet(open') /\ Cardinality(open') = Cardinality(open) + 1
    BY <1>3, <2>1, <2>4, FS_AddElement
  <2>6. TypeOK'
    <3>1. open' \subseteq Position /\ closing' \subseteq Position
          /\ IsFiniteSet(closing')
      BY <1>1, <1>2, <1>3, <2>1, <2>3 DEF TypeOK
    <3>2. \A a, b \in open' \cup closing' : a.id = b.id => a = b
      <4>1. \A a \in open : a.id \in Nat /\ a.id <= submitted
        BY <1>2 DEF TypeOK, Position
      <4> QED BY <1>1, <1>2, <2>1, <2>2, <2>3, <4>1 DEF TypeOK
    <3>3. \A a \in open' \cup closing' : a.id <= submitted'
      <4>1. \A a \in open : a.id \in Nat /\ a.id <= submitted
        BY <1>2 DEF TypeOK, Position
      <4> QED BY <1>1, <2>1, <2>2, <2>3, <4>1
    <3> QED BY <1>1, <1>2, <2>1, <2>2, <2>5, <3>1, <3>2, <3>3 DEF TypeOK
  <2>7. Sized'
    BY <1>1, <1>2, <2>1, <2>2 DEF Sized
  <2>8. Taken = Cardinality(open) /\ Taken' = Cardinality(open) + 1
    BY <1>1, <1>3, <2>5 DEF Taken
  <2>9. SlotsInv'
    BY <1>3, <2>1, <2>8 DEF SlotsInv
  <2>10. SwitchInv'
    BY <1>1, <1>2, <2>1 DEF SwitchInv, KillSwitchRemembers
  <2>11. LedgerAccounts'
    BY <1>1, <1>2, <1>3, <2>1, <2>5 DEF LedgerAccounts, TypeOK
  <2>12. CapInv'
    <3> SUFFICES ASSUME NEW w \in Nat PROVE CappedAt(w)'
      BY DEF CapInv
    <3>1. Taken' \in Nat /\ Taken' <= MaxPositions
      BY <1>3, <2>1, <2>8
    <3>2. Taken' * w <= MaxPositions * w
      <4>1. \A a \in Nat : a <= MaxPositions => a * w <= MaxPositions * w
        BY Monotone
      <4> QED BY ONLY <3>1, <4>1, Zenon
    <3>3. -realized' * UsdtBrl < MaxDailyLossBrl * Scale
      <4>1. -realized * UsdtBrl < MaxDailyLossBrl * Scale
        BY ONLY <1>2, <2>1, Zenon DEF SwitchInv
      <4> QED BY ONLY <1>1, <4>1, Zenon
    <3>4. /\ Taken' * w \in Int /\ MaxPositions * w \in Int
          /\ MaxDailyLossBrl * Scale \in Int /\ -realized' * UsdtBrl \in Int
      <4>1. realized' \in Int /\ realized' * UsdtBrl \in Int
        BY <1>1, <1>2, ProductType DEF TypeOK
      <4>2. Taken' * w \in Nat /\ MaxPositions * w \in Nat
        BY <3>1, ProductType
      <4>3. MaxDailyLossBrl * Scale \in Nat
        BY ProductType
      <4> QED BY <4>1, <4>2, <4>3
    <3> QED BY <3>2, <3>3, <3>4 DEF CappedAt
  <2> QED BY <1>1, <1>2, <2>6, <2>7, <2>9, <2>10, <2>11, <2>12 DEF IInv
<1> QED BY <1>4, <1>5

-----------------------------------------------------------------------------
(***************************************************************************)
(* Marks.                                                                  *)
(***************************************************************************)
\* Picking the positions a mark closes keeps the inductive invariant.
LEMMA MarkPriceKeeps ==
  ASSUME IInv, NEW m \in Marks, MarkPrice(m)
  PROVE  IInv'
<1> USE PaperBrokerAssumption
<1>1. /\ closing = {} /\ closing' \subseteq open /\ open' = open \ closing'
      /\ mark' = m
      /\ UNCHANGED <<equity, realized, tradesClosed, killSwitch, worst,
                     rejectedOrders, submitted>>
  BY DEF MarkPrice, ledger
<1>2. TypeOK /\ SlotsInv /\ SwitchInv /\ LedgerAccounts /\ CapInv /\ Sized
  BY DEF IInv
<1>3. IsFiniteSet(open) /\ Cardinality({}) = 0
  BY <1>2, FS_EmptySet DEF TypeOK
<1>4. IsFiniteSet(closing') /\ IsFiniteSet(open')
  BY <1>1, <1>3, FS_Subset
<1>5. Cardinality(open) = Cardinality(open') + Cardinality(closing')
  <2>1. open \cap closing' = closing'
    BY <1>1
  <2>2. Cardinality(open') = Cardinality(open) - Cardinality(closing')
    BY <1>1, <1>3, <1>4, <2>1, FS_Difference
  <2> QED BY <1>3, <1>4, <2>2, FS_CardinalityType
<1>6. open' \cup closing' = open /\ open' \cup closing' = open \cup closing
  BY <1>1
<1>7. TypeOK'
  BY <1>1, <1>2, <1>4, <1>6 DEF TypeOK
<1>8. Sized'
  BY <1>2, <1>6 DEF Sized
<1>9. Taken' = Taken
  <2>1. Cardinality(open) \in Nat /\ Cardinality(open') \in Nat
        /\ Cardinality(closing') \in Nat
    BY <1>3, <1>4, FS_CardinalityType
  <2> QED BY <1>1, <1>3, <1>5, <2>1 DEF Taken
<1>10. SlotsInv' /\ SwitchInv' /\ CapInv' /\ mark' \in Marks
  BY <1>1, <1>2, <1>9 DEF SlotsInv, SwitchInv, KillSwitchRemembers, CapInv, CappedAt
<1>11. LedgerAccounts'
  <2>1. /\ Cardinality(open) \in Nat /\ Cardinality(open') \in Nat
        /\ Cardinality(closing') \in Nat
    BY <1>3, <1>4, FS_CardinalityType
  <2> QED BY <1>1, <1>2, <1>3, <1>5, <2>1 DEF LedgerAccounts, TypeOK
<1> QED BY <1>7, <1>8, <1>10, <1>11 DEF IInv

\* Settling a position keeps the inductive invariant.
LEMMA SettleKeeps ==
  ASSUME IInv, Settle
  PROVE  IInv'
<1> USE PaperBrokerAssumption
<1>1. PICK p \in closing : /\ closing' = closing \ {p}
                           /\ realized' = realized + Pnl(p, mark)
                           /\ equity' = equity + Pnl(p, mark) * UsdtBrl
    /\ tradesClosed' = tradesClosed + 1
    /\ killSwitch' = (killSwitch \/ -realized' * UsdtBrl >= MaxDailyLossBrl * Scale)
    /\ worst' = Lesser(worst, realized')
    /\ UNCHANGED <<open, mark, rejectedOrders, submitted>>
  BY DEF Settle
<1> DEFINE result == Pnl(p, mark)
<1>2. TypeOK /\ SlotsInv /\ SwitchInv /\ LedgerAccounts /\ CapInv /\ Sized
      /\ mark \in Marks
  BY DEF IInv
<1>3. result \in Int
  BY <1>2, PnlType DEF TypeOK
<1>4. /\ realized \in Int /\ worst \in Int /\ realized' \in Int /\ worst' \in Int
      /\ equity' \in Int
  <2>1. realized \in Int /\ worst \in Int /\ equity \in Int
    BY <1>2 DEF TypeOK
  <2>2. result * UsdtBrl \in Int
    BY <1>3, ProductType
  <2> QED BY <1>1, <1>3, <2>1, <2>2 DEF Lesser
<1>5. /\ IsFiniteSet(closing') /\ Cardinality(closing) \in Nat
      /\ Cardinality(closing') = Cardinality(closing) - 1
      /\ Cardinality(open) \in Nat /\ Cardinality(closing') \in Nat
  BY <1>1, <1>2, FS_RemoveElement, FS_CardinalityType DEF TypeOK
<1>6. Taken \in Nat /\ Taken' = Taken - 1
  BY <1>1, <1>5 DEF Taken
<1>7. realized' * UsdtBrl = realized * UsdtBrl + result * UsdtBrl
  BY <1>1, <1>3, <1>4, Distributes
<1>8. /\ realized * UsdtBrl \in Int /\ result * UsdtBrl \in Int
      /\ realized' * UsdtBrl \in Int /\ MaxDailyLossBrl * Scale \in Int
      /\ worst * UsdtBrl \in Int /\ StartBrl * Scale \in Int
  BY <1>3, <1>4, ProductType
<1> HIDE DEF result
<1>9. TypeOK'
  <2>1. killSwitch' \in BOOLEAN
    BY <1>1
  <2>2. tradesClosed' \in Nat
    BY <1>1, <1>2 DEF TypeOK
  <2> QED BY <1>1, <1>2, <1>4, <1>5, <2>1, <2>2 DEF TypeOK
<1>10. Sized' /\ mark' \in Marks
  BY <1>1, <1>2 DEF Sized
<1>11. SlotsInv'
  BY <1>2, <1>6 DEF SlotsInv
<1>12. SwitchInv'
  <2> DEFINE loss == -realized * UsdtBrl
             deepest == -worst * UsdtBrl
             limit == MaxDailyLossBrl * Scale
  <2>1. /\ loss \in Int /\ loss' \in Int /\ deepest \in Int /\ limit \in Int
    BY <1>8
  <2>2. killSwitch <=> deepest >= limit
    BY <1>2 DEF SwitchInv, KillSwitchRemembers
  <2>3. killSwitch' <=> killSwitch \/ loss' >= limit
    BY <1>1, Zenon
  <2>4. deepest' = IF deepest >= loss' THEN deepest ELSE loss'
    <3>1. CASE worst <= realized'
      <4>1. worst' = worst
        BY <1>4, <3>1, <1>1 DEF Lesser
      <4>2. worst * UsdtBrl <= realized' * UsdtBrl
        BY <1>4, <3>1, Monotone
      <4> QED BY <1>8, <4>1, <4>2
    <3>2. CASE realized' < worst
      <4>1. worst' = realized' /\ realized' <= worst
        BY <1>4, <3>2, <1>1 DEF Lesser
      <4>2. realized' * UsdtBrl <= worst * UsdtBrl
        BY <1>4, <4>1, Monotone
      <4> QED BY <1>8, <4>1, <4>2
    <3>3. worst <= realized' \/ realized' < worst
      BY <1>4
    <3> QED BY ONLY <3>1, <3>2, <3>3, Zenon
  <2>5. /\ ~killSwitch' => loss' < limit
        /\ killSwitch' <=> deepest' >= limit
    <3> HIDE DEF loss, deepest, limit
    <3> QED BY <2>1, <2>2, <2>3, <2>4
  <2> QED BY <2>5 DEF SwitchInv, KillSwitchRemembers
<1>13. LedgerAccounts'
  <2>1. equity' = StartBrl * Scale + realized' * UsdtBrl
    BY <1>1, <1>2, <1>7, <1>8 DEF LedgerAccounts, result
  <2>2. submitted' = rejectedOrders' + tradesClosed' + Cardinality(open')
                       + Cardinality(closing')
    BY <1>1, <1>2, <1>5 DEF LedgerAccounts, TypeOK
  <2> QED BY <2>1, <2>2 DEF LedgerAccounts
<1>14. CapInv'
  <2> SUFFICES ASSUME NEW w \in Nat, CostsAtMost(w) PROVE CappedAt(w)'
    BY DEF CapInv
  <2>1. PICK r \in Requests, id \in Nat : WellFormed(r) /\ p = PositionOf(r, id)
    BY <1>1, <1>2 DEF Sized
  <2>2. result = Pnl(PositionOf(r, 0), mark)
    BY <2>1, PnlIgnoresId DEF result
  <2>3. -result * UsdtBrl <= w
    BY <1>2, <2>1, <2>2 DEF CostsAtMost, LossBrl
  <2>4. CappedAt(w)
    BY <1>2 DEF CapInv
  <2>5. Taken' * w = Taken * w - w
    <3>1. (Taken + (-1)) * w = Taken * w + (-1) * w
      BY <1>6, Distributes
    <3> QED BY <1>6, <3>1
  <2>6. Taken * w \in Int /\ MaxPositions * w \in Int
    BY <1>6, ProductType
  <2> QED BY <1>7, <1>8, <2>3, <2>4, <2>5, <2>6 DEF CappedAt
<1> QED BY <1>9, <1>10, <1>11, <1>12, <1>13, <1>14 DEF IInv

-----------------------------------------------------------------------------
(***************************************************************************)
(* Theorems.                                                               *)
(***************************************************************************)
\* The inductive invariant is inductive.
LEMMA IInvStep == IInv /\ [Next]_vars => IInv'
<1> SUFFICES ASSUME IInv, [Next]_vars PROVE IInv'
  OBVIOUS
<1>1. CASE UNCHANGED vars
  BY <1>1 DEF IInv, TypeOK, Sized, SlotsInv, Taken, SwitchInv, KillSwitchRemembers,
     LedgerAccounts, CapInv, CappedAt, vars, ledger
<1>2. ASSUME NEW r \in Requests, Submit(r) PROVE IInv'
  BY <1>2, SubmitKeeps
<1>3. ASSUME NEW m \in Marks, MarkPrice(m) PROVE IInv'
  BY <1>3, MarkPriceKeeps
<1>4. CASE Settle
  BY <1>4, SettleKeeps
<1> QED BY <1>1, <1>2, <1>3, <1>4 DEF Next

\* The inductive invariant holds of every behaviour.
THEOREM Invariance == Spec => []IInv
BY InitIInv, IInvStep, PTL DEF Spec

\* Every variable of the broker keeps its type.
THEOREM TypeCorrect == Spec => []TypeOK
<1>1. IInv => TypeOK
  BY DEF IInv
<1> QED BY <1>1, Invariance, PTL

\* The loss of a session passes its limit by no more than the worst exit of
\* each position that may be open (evaluate, mark_price).
THEOREM LossCapped == Spec => []LossIsCapped
<1>1. IInv => LossIsCapped
  <2> SUFFICES ASSUME IInv,
                      NEW r \in Requests, WellFormed(r), NEW m \in Marks,
                      LossBrl(r, m) >= 0, CostsAtMost(LossBrl(r, m))
               PROVE  -realized * UsdtBrl
                        < MaxDailyLossBrl * Scale + MaxPositions * LossBrl(r, m)
    BY DEF LossIsCapped
  <2> USE PaperBrokerAssumption
  <2> DEFINE w == LossBrl(r, m)
  <2>1. w \in Nat
    <3>1. Pnl(PositionOf(r, 0), m) \in Int
      BY OpensPosition, PnlType
    <3>2. Pnl(PositionOf(r, 0), m) * UsdtBrl \in Int
      BY <3>1, ProductType
    <3> QED BY <3>2 DEF LossBrl
  <2>2. CappedAt(w)
    BY <2>1 DEF IInv, CapInv
  <2>3. Taken \in Nat
    BY FS_CardinalityType DEF IInv, TypeOK, Taken
  <2>4. /\ Taken * w \in Nat /\ MaxPositions * w \in Nat
        /\ MaxDailyLossBrl * Scale \in Nat
    BY <2>1, <2>3, ProductType
  <2>5. realized * UsdtBrl \in Int
    BY ProductType DEF IInv, TypeOK
  <2> HIDE DEF w
  <2>6. -realized * UsdtBrl < MaxDailyLossBrl * Scale + MaxPositions * w
    BY <2>2, <2>4, <2>5 DEF CappedAt
  <2> QED BY <2>6 DEF w
<1> QED BY <1>1, Invariance, PTL

\* The kill switch remembers whether the loss ever reached the limit.
THEOREM SwitchRemembers == Spec => []KillSwitchRemembers
<1>1. IInv => KillSwitchRemembers
  BY DEF IInv, SwitchInv
<1> QED BY <1>1, Invariance, PTL

\* The ledger accounts for every order and every result.
THEOREM LedgerBalances == Spec => []LedgerAccounts
<1>1. IInv => LedgerAccounts
  BY DEF IInv
<1> QED BY <1>1, Invariance, PTL

\* A position stopped at its stop loses no more than the risk per trade.
THEOREM RiskIsLimited == Spec => []RiskPerTrade
<1>1. IInv => RiskPerTrade
  <2> SUFFICES ASSUME IInv, \A r \in Requests : r.usdtbrl = UsdtBrl,
                      NEW p \in open \cup closing
               PROVE  p.qty * Abs(p.entry - p.stop) * UsdtBrl <= RiskBrl
    BY DEF RiskPerTrade
  <2>1. PICK r \in Requests, id \in Nat : WellFormed(r) /\ p = PositionOf(r, id)
    BY DEF IInv, Sized
  <2>2. Qty(r) \in Nat /\ Qty(r) * (UsdtBrl * StopDistance(r)) <= RiskBrl
    BY <2>1, Sizing
  <2>3. p.qty = Qty(r) /\ Abs(p.entry - p.stop) = StopDistance(r)
    BY <2>1 DEF PositionOf, StopDistance
  <2>4. StopDistance(r) \in Int /\ UsdtBrl \in Int
    BY PaperBrokerAssumption DEF Request, StopDistance, Abs
  <2>5. Qty(r) * StopDistance(r) * UsdtBrl = Qty(r) * (UsdtBrl * StopDistance(r))
    BY <2>2, <2>4
  <2> QED BY <2>2, <2>3, <2>5
<1> QED BY <1>1, Invariance, PTL

\* Once the kill switch is set it stays set, and no position is opened.
THEOREM SwitchIsFinal == Spec => KillSwitchIsFinal
<1>1. [Next]_vars /\ killSwitch =>
        killSwitch' /\ open' \cup closing' \subseteq open \cup closing
  <2> SUFFICES ASSUME [Next]_vars, killSwitch
               PROVE  killSwitch' /\ open' \cup closing' \subseteq open \cup closing
    OBVIOUS
  <2>1. CASE UNCHANGED vars
    BY <2>1 DEF vars, ledger
  <2>2. ASSUME NEW r \in Requests, Submit(r)
        PROVE  killSwitch' /\ open' \cup closing' \subseteq open \cup closing
    BY <2>2 DEF Submit, Approved, ledger
  <2>3. ASSUME NEW m \in Marks, MarkPrice(m)
        PROVE  killSwitch' /\ open' \cup closing' \subseteq open \cup closing
    BY <2>3 DEF MarkPrice, ledger
  <2>4. CASE Settle
    BY <2>4 DEF Settle
  <2> QED BY <2>1, <2>2, <2>3, <2>4 DEF Next
<1> QED BY <1>1, PTL DEF Spec, KillSwitchIsFinal

=============================================================================
