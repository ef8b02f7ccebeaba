SPECIFICATION FairSpec
CONSTANTS
  MaxPlayers = 11
  Targets = {1, 3, 10}
  MaxAnnouncements = 1
  VoteCounts = {0, 1}
  Bots = {2, 3, 4, 5, 6, 7, 8, 9}
  Deals <- ElevenPlayers
  ClientChecks = TRUE
  CanLeave = FALSE
INVARIANTS
  NeverFails
  TurnsAreLiving
  IInv
PROPERTIES
  EverybodyGetsToSpeak
  AnnouncedVictimDies
CHECK_DEADLOCK FALSE
