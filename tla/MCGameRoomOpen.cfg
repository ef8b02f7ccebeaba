SPECIFICATION Spec
CONSTANTS
  MaxPlayers = 5
  Targets = {0, 1, 3}
  MaxAnnouncements = 2
  VoteCounts = {0, 1}
  Bots = {3}
  Deals <- FivePlayers
  ClientChecks = FALSE
  CanLeave = TRUE
INVARIANTS
  TypeOK
  RingIsOneCycle
  BeforeLeadsToVictim
  FreshChoices
  OneSpeaker
PROPERTIES
  DeathIsAnnounced
  NextIsAsAnnounced
  VictoryIsFinal
  ImplementsRules
CHECK_DEADLOCK FALSE
