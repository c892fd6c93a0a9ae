\* The scalper restarts, and its event counter with it.
CONSTANTS
  Calls = {c1}
  Faults = {"orderbook"}
  Memory = {50}
  Critical = 85
  StaleAfter = 2
  NoEventsAfter = 2
  MaxRestarts = 1
  MaxTime = 4
  MaxEvents = 2
SPECIFICATION Spec
CHECK_DEADLOCK FALSE
PROPERTY RestartRaisesNoAlarm
