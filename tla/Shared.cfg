\* Threads share their contexts and cards.
SPECIFICATION FairSpec
CONSTANTS
  t1 = t1
  t2 = t2
  None = None
  Threads <- MCThreads
  Ops <- CoreOps
  MaxCalls = 4
  PP_MAX_CONTEXT = 1
  Discipline = "shared"
  Faults = {"reset", "refused", "exit", "service"}
INVARIANTS
  
  NothingLeftOpen
  
  SharedContextKnown
  
PROPERTIES
  NoOrphans
CHECK_DEADLOCK FALSE
