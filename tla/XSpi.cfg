CONSTANTS
  MaxBytes = 4
  FifoDepth = 2
  PollBudget = 2
  UIntMax = 7
  SlaveMasks = {0, 1}
SPECIFICATION FairSpec
INVARIANTS
  TypeOK
  SuccessMeansExchanged
  NoByteLost
  RecvBufferBounded
  BusAtRest
PROPERTIES
  CompleteFrames
  WedgedUntilAborted
  ImplementsPort
  CallsReturn
