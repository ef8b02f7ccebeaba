SPECIFICATION FairSpec
CONSTANTS
  c1 = c1
  c2 = c2
  Conn <- Conns
  NoConn = NoConn
  MaxSent = 1
PROPERTIES
  StopFinishes
CHECK_DEADLOCK FALSE
