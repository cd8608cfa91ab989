\* A runnable is run after stop().
SPECIFICATION Spec
CONSTANTS
  a1 = a1
  a2 = a2
  None = None
  Wake = Wake
  Main = Main
  Looper = Looper
  Callers <- MCCallers
  MaxStarts = 2
  MaxConns = 2
  MaxEvents = 4
INVARIANTS
  CancelFindsServer
CHECK_DEADLOCK FALSE
