\* A session left in the slot of a failed SCardEstablishContext.
SPECIFICATION Spec
CONSTANTS
  t1 = t1
  t2 = t2
  None = None
  Threads <- MCOneThread
  Ops <- EstablishOps
  MaxCalls = 2
  PP_MAX_CONTEXT = 1
  Discipline = "own"
  Faults = {"reset"}
INVARIANTS
  EstablishOpensConnection
CHECK_DEADLOCK FALSE
