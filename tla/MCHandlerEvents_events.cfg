SPECIFICATION Spec
CONSTANTS
  Broker <- Brokers
  Ruled = {3}
  Broken = {3}
  MaxEvents = 3
  MaxConf = 3
  MaxStarts = 2
INVARIANTS TypeOK EventsInOrder ReloadIsFresh
PROPERTIES NothingDropped EventsLeave
CHECK_DEADLOCK FALSE
