\* Two positions at a time, stops, targets and jumps, down to the kill switch.
CONSTANTS
  Requests <- Orders
  Marks <- Prices
  Scale = 200
  UsdtBrl = 2
  StartBrl = 60
  RiskBrl = 17
  MaxDailyLossBrl = 25
  MaxPositions = 2
  MaxMarginFraction <- Third
  MaxFeeToTarget <- Third
  MaxSlippageToStop <- Fifth
  StressCap = 50
  MaxOrders = 4
SPECIFICATION Spec
CHECK_DEADLOCK FALSE
INVARIANTS
  TypeOK
  LossIsCapped
  KillSwitchRemembers
  LedgerAccounts
  RiskPerTrade
PROPERTY KillSwitchIsFinal
