SPECIFICATION Spec
CONSTANTS
  h1 = h1
  h2 = h2
  h3 = h3
  b1 = b1
  Human <- Humans
  Bot <- Bots
  Capacity = {3}
  Garbage = {3}
  BotCapacity = 3
  MaskSize = 5
  MaxRooms = 2
  Threads = 2
SYMMETRY Symmetry
INVARIANTS
  NeverAborts
CHECK_DEADLOCK FALSE
