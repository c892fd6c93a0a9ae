\* Three events of changing kinds through channels of one place, an engine that
\* takes some of them, the order book's second way into the store, and a store
\* that may give up at its start: does everyone get their events, and does
\* Ctrl-C end the process?
CONSTANTS
  Sources <- OneStream
  Emits <- DeltasAndOthers
  Engines = {"gex"}
  Capacity = 1
  MaxSnapshots = 1
SPECIFICATION FairSpec
CHECK_DEADLOCK FALSE
INVARIANTS
  TypeOK
  EachReceiverGetsItsEvents
  OnlyShutdownEnds
PROPERTIES
  EveryEventIsHandled
  CtrlCExits
