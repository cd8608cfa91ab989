\* A child exits.
SPECIFICATION Spec
CONSTANTS
  c1 = c1
  c2 = c2
  c3 = c3
  NoConn = NoConn
  Main = Main
  Conns <- MCConns
  Faults = {}
  Stops = {}
  MaxFds = 2
INVARIANTS
  StopsOnlyWhenTold
CHECK_DEADLOCK FALSE
