\* Every call returns, and every failure happens.
SPECIFICATION FairSpec
CONSTANTS
  t1 = t1
  t2 = t2
  None = None
  Threads <- MCThreads
  Ops <- AllOps
  MaxCalls = 3
  PP_MAX_CONTEXT = 1
  Discipline = "own"
  Faults = {"tlsinit", "credentials", "refused", "reset", "exit", "service", "lengths", "interrupt", "environment", "sigpipe"}
INVARIANTS
  TypeOK
  UnansweredOnlyAfterExit
  ConnectionInvariant
  StrayInvariant
PROPERTIES
  CallsReturn
  StraysAreLate
CHECK_DEADLOCK FALSE
