\* Three clients, two descriptors; everything may fail, every signal.
SPECIFICATION FairSpec
CONSTANTS
  c1 = c1
  c2 = c2
  c3 = c3
  NoConn = NoConn
  Main = Main
  Conns <- MCConns
  Faults = {"startup", "accept", "fork"}
  Stops = {"signal", "pp_stop"}
  MaxFds = 2
INVARIANTS
  DaemonTypeOK
  ZombiesNoticed
  HungUp
  HoldersInvariant
PROPERTIES
  BacklogServed
CHECK_DEADLOCK FALSE
