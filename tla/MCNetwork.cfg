SPECIFICATION FairSpec
CONSTANTS
  c1 = c1
  c2 = c2
  Conn <- Conns
  NoConn = NoConn
  MaxSent = 2
INVARIANTS
  TypeOK
  OneWriteAtATime
  OneReadAtATime
  PlayersAreConnected
PROPERTIES
  ImplementsMailbox
  MessagesAreWritten
  FailedConnectionsEnd
CHECK_DEADLOCK FALSE
