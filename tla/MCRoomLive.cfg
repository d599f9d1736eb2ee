CONSTANTS
  Player = {p1, p2, p3}
  NoPlayer = NoPlayer
  Chips = 2
  Throws = 2
  Die = {1, 2}
  Fiches <- TwoRanks
  MaxPlayers = 3
  PointsToLose = 1
  RuleChoices = {}
  AfkBot = TRUE
  Acting = {p1}
  Exits = {}
  Returns = FALSE
  MaxFaults = 0
SPECIFICATION FairSpec
INVARIANT SomeoneIsTimed
PROPERTIES
  TurnsArePlayed
  TurnsAreCommitted
  InitialRollsAreMade
  TiebreaksMove
  PartiesGoOn
CHECK_DEADLOCK FALSE
