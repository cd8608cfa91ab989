\* A child dies while a call is under way.
SPECIFICATION Spec
CONSTANTS
  t1 = t1
  t2 = t2
  None = None
  Threads <- MCOneThread
  Ops <- EstablishOps
  MaxCalls = 1
  PP_MAX_CONTEXT = 1
  Discipline = "own"
  Faults = {"exit"}
INVARIANTS
  ResultsComeFromTheService
CHECK_DEADLOCK FALSE
