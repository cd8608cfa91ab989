\* Any handle at any time, from any thread.
SPECIFICATION Spec
CONSTANTS
  t1 = t1
  t2 = t2
  None = None
  Threads <- MCThreads
  Ops <- CoreOps
  MaxCalls = 3
  PP_MAX_CONTEXT = 1
  Discipline = "any"
  Faults = {"reset", "exit", "sigpipe", "interrupt", "environment"}
SYMMETRY ThreadSymmetry
INVARIANTS
  AtMostOnce
  OnceInvariant
CHECK_DEADLOCK FALSE
