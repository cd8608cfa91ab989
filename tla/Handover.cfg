\* Two threads, two contexts and cards; slots change hands, connections break.
SPECIFICATION Spec
CONSTANTS
  t1 = t1
  t2 = t2
  None = None
  Threads <- MCThreads
  Ops <- CoreOps
  MaxCalls = 4
  PP_MAX_CONTEXT = 2
  Discipline = "own"
  Faults = {"tlsinit", "credentials", "refused", "reset", "service", "lengths"}
SYMMETRY ThreadSymmetry
INVARIANTS
  ReplyToItsCall
  ReplyInvariant
  HandleKnown
  HandleInvariant
  AnswerInvariant
  SessionsNotShared
  NoCrash
PROPERTIES
  ImplementsRemoteCalls
CHECK_DEADLOCK FALSE
