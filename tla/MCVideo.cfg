SPECIFICATION VideoSpec
CONSTANTS
  MaxPlayers = 5
  Targets = {3}
  MaxAnnouncements = 1
  VoteCounts = {1}
  Bots = {2}
  Deals <- FivePlayers
  ClientChecks = TRUE
  CanLeave = TRUE
  Watchers = {4}
  Leavers = {3}
  Cameras = {1, 3}
  ShortPictures = {3}
INVARIANTS
  NoPeeping
  EverybodyIsShown
CHECK_DEADLOCK FALSE
