\* Two callers, two servers, two clients.
SPECIFICATION FairSpec
CONSTANTS
  a1 = a1
  a2 = a2
  None = None
  Wake = Wake
  Main = Main
  Looper = Looper
  Callers <- MCCallers
  MaxStarts = 2
  MaxConns = 2
  MaxEvents = 3
INVARIANTS
  ServiceTypeOK
  BluetoothUsedOnce
PROPERTIES
  StopReturns
  HangUpStops
  ServerEnds
CHECK_DEADLOCK FALSE
