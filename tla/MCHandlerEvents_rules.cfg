SPECIFICATION Spec
CONSTANTS
  Broker <- Brokers
  Ruled = {1, 2}
  Broken = {}
  MaxEvents = 1
  MaxConf = 3
  MaxStarts = 1
INVARIANT ReloadTakesEffect
CHECK_DEADLOCK FALSE
