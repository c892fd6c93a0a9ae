\* One call at a time; each can fail at any step.  A heartbeat is stale from the
\* next unit of time on, so the server can fall silent, be told down, come back
\* and fall silent again.
CONSTANTS
  Calls = {c1}
  Faults = {}
  Memory = {50, 85}
  Critical = 85
  StaleAfter = 0
  NoEventsAfter = 1
  MaxRestarts = 1
  MaxTime = 3
  MaxEvents = 1
SPECIFICATION FairSpec
CHECK_DEADLOCK FALSE
INVARIANTS
  TypeOK
  LastMessageIsTheVerdict
  NoDuplicateMessage
PROPERTIES
  RecordedOnlyAfterSent
  NoEventsAlarmIsTrue
  SilentServerIsReported
