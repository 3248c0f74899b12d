CONSTANTS
  Symbols = {"a", "b"}
  None = None
  Capacity = 3
  Window = 1
  Lag = 1
  FirstStream = "LIVE"
  FirstRange = "SESSION"
  MaxTime = 2
  MaxEvents = 1
  MaxMounts = 2
SPECIFICATION Spec
INVARIANTS ChartIsOfItsPane TagIsLastSample
CHECK_DEADLOCK FALSE
