SPECIFICATION NewsSpec
CONSTANTS
  h1 = h1
  h2 = h2
  h3 = h3
  h4 = h4
  b1 = b1
  Human <- Humans
  Bot <- Bots
  Capacity = {0, 2, 3, 4}
  Garbage = {3}
  BotCapacity = 3
  MaskSize = 3
  MaxRooms = 3
  Threads = 1
SYMMETRY Symmetry
INVARIANTS
  AbortsOnlyBySize
  MaskShowsSeats
  OccupiedRoomsRun
  ClientsAreCurrent
PROPERTIES
  GamesStartFull
  GamesAreClosed
CHECK_DEADLOCK FALSE
