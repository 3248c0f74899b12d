SPECIFICATION Spec
CONSTANTS
  Units = {10, 100}
  Prices = {19999, 20162}
  Closes = {20000}
  Opens = {20161}
  Quantity = 50
  Fragile = {"previousClose", "p", "referencePrice", "requestId", "heartbeatIntervalMs"}
  None = None
  Asked = Asked
  MaxTrades = 2
  MaxSaid = 2
  MaxInFlight = 1
  MaxFaults = 1
INVARIANT RowFiguresAgree
