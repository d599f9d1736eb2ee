CONSTANTS
  Player = {p1, p2}
  NoPlayer = NoPlayer
  Chips = 2
  Throws = 1
  Die = {1, 2}
  Fiches <- TwoRanks
  MaxPlayers = 2
  PointsToLose = 1
  RuleChoices = {}
  AfkBot = TRUE
  Acting = {p1}
  Exits = {"disconnect"}
  Returns = FALSE
  MaxFaults = 1
SPECIFICATION FairSpec
PROPERTY TurnsArePlayed
CHECK_DEADLOCK FALSE
