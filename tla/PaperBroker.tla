---------------------------- MODULE PaperBroker ----------------------------
(***************************************************************************)
(* The paper broker (paper.rs): it sizes and admits simulated market       *)
(* orders within the limits of the risk configuration, closes positions    *)
(* when a marked price reaches their stop or target, keeps the ledger, and *)
(* stops trading for good when the realised loss reaches its limit.        *)
(*                                                                         *)
(* Floating point becomes whole numbers: prices in USDT, quantities in     *)
(* contracts, rates and fees in 1/Scale, so that money is counted in       *)
(* 1/Scale USDT and 1/Scale BRL and nothing but the sizing rounds.  Ratios *)
(* are [num, den].                                                         *)
(*                                                                         *)
(* mark_price takes one step per position it closes, in the order of the   *)
(* vector (which is the order of admission); nothing else happens between  *)
(* these steps, the broker being borrowed mutably.                         *)
(***************************************************************************)
EXTENDS Integers, FiniteSets

CONSTANTS
  Requests,      \* the orders a strategy can submit
  Marks,         \* [price, feeRate]: the arguments of mark_price
  Scale,         \* units of money per USDT and per BRL
  UsdtBrl,       \* the rate the ledger is kept at
  StartBrl,      \* starting_capital_brl
  RiskBrl,       \* risk_per_trade_brl
  MaxDailyLossBrl,
  MaxPositions,  \* max_concurrent_positions
  MaxMarginFraction, MaxFeeToTarget, MaxSlippageToStop,
  StressCap,     \* leverage_paper_stress_cap
  MaxOrders      \* bound: orders submitted

Ratio == [num : Nat, den : Nat \ {0}]
Request == [side : {"Long", "Short"}, entry : Int, stop : Int, target : Int,
            usdtbrl : Int, slippage : Nat, feeRate : Nat,
            exchangeMaxLeverage : Nat, minQty : Nat, stepSize : Nat]
Mark == [price : Nat, feeRate : Nat]

ASSUME PaperBrokerAssumption ==
  /\ Requests \subseteq Request
  /\ Marks \subseteq Mark
  /\ Scale \in Nat \ {0} /\ Scale % 200 = 0
  /\ UsdtBrl \in Nat \ {0}
  /\ StartBrl \in Nat
  /\ RiskBrl \in Nat \ {0}
  /\ MaxDailyLossBrl \in Nat \ {0}
  /\ MaxPositions \in Nat
  /\ MaxMarginFraction \in Ratio
  /\ MaxFeeToTarget \in Ratio
  /\ MaxSlippageToStop \in Ratio
  /\ StressCap \in Nat
  /\ MaxOrders \in Nat

VARIABLES
  open,         \* open_positions
  closing,      \* positions of the running mark_price still to be settled
  mark,         \* its arguments
  equity,       \* equity_brl
  realized,     \* realized_pnl_usdt
  tradesClosed, rejectedOrders, killSwitch,
  submitted,    \* history: orders submitted
  worst         \* history: the lowest realized

ledger == <<equity, realized, tradesClosed, killSwitch, worst>>
vars == <<open, closing, mark, ledger, rejectedOrders, submitted>>

-----------------------------------------------------------------------------
(***************************************************************************)
(* evaluate                                                                *)
(***************************************************************************)
Abs(n) == IF n >= 0 THEN n ELSE -n
StopDistance(r) == Abs(r.entry - r.stop)
TargetDistance(r) == Abs(r.target - r.entry)

\* risk / stop distance, in whole contracts
Lots(r) == RiskBrl \div (r.usdtbrl * StopDistance(r))

\* Mutant: the sizing rounds up.
QtyRoundedUp(r) ==
  IF r.stepSize = 0 THEN Lots(r) ELSE (Lots(r) \div r.stepSize + 1) * r.stepSize

\* round_step: rounded down to a multiple of the step, unless the step is zero.
Qty(r) == IF r.stepSize = 0 THEN Lots(r) ELSE (Lots(r) \div r.stepSize) * r.stepSize

Notional(r) == Qty(r) * r.entry

\* Open and close at the entry price, in 1/Scale USDT.
ExpectedFee(r) == Notional(r) * r.feeRate * 2

Lesser(a, b) == IF a < b THEN a ELSE b
Greater(a, b) == IF a > b THEN a ELSE b

\* Rates, prices and distances make sense.
WellFormed(r) ==
  /\ r.usdtbrl > 0
  /\ r.entry > 0 /\ r.stop > 0 /\ r.target > 0
  /\ StopDistance(r) > 0 /\ TargetDistance(r) > 0

\* Slippage and fees are small against what the trade can win or lose.
WorthItsCosts(r) ==
  /\ r.slippage * MaxSlippageToStop.den <= MaxSlippageToStop.num * StopDistance(r)
  /\ Qty(r) >= r.minQty
  /\ ExpectedFee(r) * MaxFeeToTarget.den
       <= MaxFeeToTarget.num * Scale * Greater(TargetDistance(r), 1)

\* The notional fits the margin fraction and the exchange's leverage.
FitsMargin(r) ==
  /\ Notional(r) * r.usdtbrl * Scale * MaxMarginFraction.den
       <= equity * MaxMarginFraction.num * Lesser(StressCap, r.exchangeMaxLeverage)
  /\ Notional(r) * r.usdtbrl * Scale <= equity * r.exchangeMaxLeverage

\* The leverage is the least of the exchange's, the cap and the one at which a
\* stop costs the risk, and at least 1; liquidation is entry / leverage away.
\* A stop on the wrong side of the entry is never behind the liquidation.
LiquidationBeforeStop(r) ==
  LET away == IF r.side = "Long" THEN r.entry - r.stop ELSE r.stop - r.entry
      lossPct == (StopDistance(r) + r.slippage) * Scale
                   + r.entry * (2 * r.feeRate + Scale \div 200)
      byRisk == equity <= 0 \/ RiskBrl * away * Scale * Scale >= equity * lossPct
  IN  \/ away >= r.entry
      \/ /\ away > 0 /\ byRisk
         /\ r.exchangeMaxLeverage * away >= r.entry
         /\ StressCap * away >= r.entry

\* Mutant: the kill switch is not consulted.
ApprovedAfterKill(r) ==
  /\ Cardinality(open) < MaxPositions
  /\ WellFormed(r) /\ WorthItsCosts(r) /\ FitsMargin(r)
  /\ ~LiquidationBeforeStop(r)

\* Mutant: one position too many is allowed.
ApprovedOneMore(r) ==
  /\ ~killSwitch
  /\ Cardinality(open) <= MaxPositions
  /\ WellFormed(r) /\ WorthItsCosts(r) /\ FitsMargin(r)
  /\ ~LiquidationBeforeStop(r)

Approved(r) ==
  /\ ~killSwitch
  /\ Cardinality(open) < MaxPositions
  /\ WellFormed(r) /\ WorthItsCosts(r) /\ FitsMargin(r)
  /\ ~LiquidationBeforeStop(r)

-----------------------------------------------------------------------------
(***************************************************************************)
(* submit_market_order                                                     *)
(***************************************************************************)
\* Mutant: the open fee is booked as a credit.
PositionWithCredit(r, id) ==
  [id |-> id, side |-> r.side, qty |-> Qty(r), entry |-> r.entry,
   stop |-> r.stop, target |-> r.target, openFee |-> -(Notional(r) * r.feeRate)]

\* Positions are told apart by the order that opened them.
PositionOf(r, id) ==
  [id |-> id, side |-> r.side, qty |-> Qty(r), entry |-> r.entry,
   stop |-> r.stop, target |-> r.target, openFee |-> Notional(r) * r.feeRate]

Position == [id : Nat, side : {"Long", "Short"}, qty : Nat, entry : Nat,
             stop : Nat, target : Nat, openFee : Nat]

Submit(r) ==
  /\ closing = {} /\ submitted < MaxOrders
  /\ submitted' = submitted + 1
  /\ IF Approved(r)
       THEN /\ open' = open \cup {PositionOf(r, submitted + 1)}
            /\ UNCHANGED rejectedOrders
       ELSE /\ rejectedOrders' = rejectedOrders + 1
            /\ UNCHANGED open
  /\ UNCHANGED <<closing, mark, ledger>>

-----------------------------------------------------------------------------
(***************************************************************************)
(* mark_price                                                              *)
(***************************************************************************)
HitExit(p, price) ==
  IF p.side = "Long" THEN price <= p.stop \/ price >= p.target
                     ELSE price >= p.stop \/ price <= p.target

\* What closing p under mark m adds to the ledger, in 1/Scale USDT.
Pnl(p, m) ==
  LET move == IF p.side = "Long" THEN m.price - p.entry ELSE p.entry - m.price
  IN  move * p.qty * Scale - p.openFee - p.qty * m.price * m.feeRate

MarkPrice(m) ==
  /\ closing = {}
  /\ mark' = m
  /\ closing' = {p \in open : HitExit(p, m.price)}
  /\ open' = open \ closing'
  /\ UNCHANGED <<ledger, rejectedOrders, submitted>>

\* The closed position that comes first.
NextToSettle(p) == p \in closing /\ \A q \in closing : p.id <= q.id

\* Mutant: the equity is credited without the rate.
SettleInUsdt ==
  \E p \in closing :
    /\ NextToSettle(p)
    /\ closing' = closing \ {p}
    /\ realized' = realized + Pnl(p, mark)
    /\ equity' = equity + Pnl(p, mark)
    /\ tradesClosed' = tradesClosed + 1
    /\ killSwitch' = (killSwitch \/ -realized' * UsdtBrl >= MaxDailyLossBrl * Scale)
    /\ worst' = Lesser(worst, realized')
    /\ UNCHANGED <<open, mark, rejectedOrders, submitted>>

\* Mutant: a winning trade lifts the kill switch.
SettleUnlatched ==
  \E p \in closing :
    /\ NextToSettle(p)
    /\ closing' = closing \ {p}
    /\ realized' = realized + Pnl(p, mark)
    /\ equity' = equity + Pnl(p, mark) * UsdtBrl
    /\ tradesClosed' = tradesClosed + 1
    /\ killSwitch' = (-realized' * UsdtBrl >= MaxDailyLossBrl * Scale)
    /\ worst' = Lesser(worst, realized')
    /\ UNCHANGED <<open, mark, rejectedOrders, submitted>>

Settle ==
  \E p \in closing :
    /\ NextToSettle(p)
    /\ closing' = closing \ {p}
    /\ realized' = realized + Pnl(p, mark)
    /\ equity' = equity + Pnl(p, mark) * UsdtBrl
    /\ tradesClosed' = tradesClosed + 1
    /\ killSwitch' = (killSwitch \/ -realized' * UsdtBrl >= MaxDailyLossBrl * Scale)
    /\ worst' = Lesser(worst, realized')
    /\ UNCHANGED <<open, mark, rejectedOrders, submitted>>

-----------------------------------------------------------------------------
Init ==
  /\ open = {} /\ closing = {}
  /\ mark \in Marks
  /\ equity = StartBrl * Scale
  /\ realized = 0
  /\ tradesClosed = 0 /\ rejectedOrders = 0
  /\ killSwitch = FALSE
  /\ submitted = 0
  /\ worst = 0

Next ==
  \/ \E r \in Requests : Submit(r)
  \/ \E m \in Marks : MarkPrice(m)
  \/ Settle

Spec == Init /\ [][Next]_vars

-----------------------------------------------------------------------------
(***************************************************************************)
(* Properties.                                                             *)
(***************************************************************************)
\* Every variable has its type; positions are told apart by their id.
TypeOK ==
  /\ open \subseteq Position /\ closing \subseteq Position
  /\ IsFiniteSet(open) /\ IsFiniteSet(closing)
  /\ mark \in Mark
  /\ equity \in Int /\ realized \in Int /\ worst \in Int
  /\ tradesClosed \in Nat /\ rejectedOrders \in Nat /\ submitted \in Nat
  /\ killSwitch \in BOOLEAN
  /\ \A p, q \in open \cup closing : p.id = q.id => p = q
  /\ \A p \in open \cup closing : p.id <= submitted

\* What a mark can cost at most, in 1/Scale BRL, over all orders the broker can
\* size and all marks: the price may jump past the stop.
LossBrl(r, m) == -Pnl(PositionOf(r, 0), m) * UsdtBrl
CostsAtMost(w) ==
  \A r \in Requests, m \in Marks : WellFormed(r) => LossBrl(r, m) <= w

\* The loss of a session is capped: before the limit, and beyond it by no more
\* than the worst exit of each position that may be open at the same time.  No
\* order of exits, jumps of the price and new orders between them gets past it
\* (evaluate, mark_price).
LossIsCapped ==
  \A w \in {LossBrl(r, m) : r \in {q \in Requests : WellFormed(q)}, m \in Marks} :
    w >= 0 /\ CostsAtMost(w)
      => -realized * UsdtBrl < MaxDailyLossBrl * Scale + MaxPositions * w

\* The kill switch tells whether the realised loss has ever reached the limit,
\* also in the middle of a mark that ends better (mark_price).
KillSwitchRemembers ==
  killSwitch <=> -worst * UsdtBrl >= MaxDailyLossBrl * Scale

\* The ledger accounts for every order: it was refused, is open or is closed, and
\* the equity in BRL moved by the realised result and nothing else.
LedgerAccounts ==
  /\ equity = StartBrl * Scale + realized * UsdtBrl
  /\ submitted = rejectedOrders + tradesClosed + Cardinality(open)
                   + Cardinality(closing)

\* Stopped at its stop, a position loses no more than the risk per trade before
\* costs, if orders carry the rate of the ledger (evaluate: sizing and step).
RiskPerTrade ==
  (\A r \in Requests : r.usdtbrl = UsdtBrl) =>
    \A p \in open \cup closing : p.qty * Abs(p.entry - p.stop) * UsdtBrl <= RiskBrl

\* Once the switch is set no position is opened any more, for the life of the
\* broker.
KillSwitchIsFinal ==
  [][killSwitch => killSwitch' /\ open' \cup closing' \subseteq open \cup closing]_vars

=============================================================================
