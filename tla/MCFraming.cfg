SPECIFICATION FairSpec
CONSTANTS
  Text <- Texts
  Start <- StartOf
  ReceiveBufferSize = 40
INVARIANTS
  InStep
  BytesInOrder
PROPERTIES
  MessagesAreExecuted
CHECK_DEADLOCK FALSE
