\* Three messages; the header has three bytes, a message at most two more.
SPECIFICATION FairSpec
CONSTANTS
  Messages = 3
  Header = 3
  PP_MAX_MESSAGE_LEN = 5
  MaxInterrupts = 2
  Faults = {"die", "reset"}
INVARIANTS
  FramingTypeOK
  InOrder
  EndIsEnd
  InStepUnless
  FramingInvariant
PROPERTIES
  RecvReturns
  ImplementsChannel
CHECK_DEADLOCK FALSE
