\* The daemon is told to stop by a signal.
SPECIFICATION FairSpec
CONSTANTS
  c1 = c1
  c2 = c2
  c3 = c3
  NoConn = NoConn
  Main = Main
  Conns <- MCConns
  Faults = {}
  Stops = {"signal"}
  MaxFds = 2
PROPERTIES
  AbortStops
CHECK_DEADLOCK FALSE
