CONSTANTS
  Player = {p1, p2}
  NoPlayer = NoPlayer
  Chips = 2
  Throws = 1
  Die = {1, 2}
  Fiches <- TwoRanks
  MaxPlayers = 2
  PointsToLose = 1
  RuleChoices = {"sec", "free"}
  AfkBot = TRUE
  Acting = {p1, p2}
  Exits = {"leave", "kick"}
  Returns = FALSE
  MaxFaults = 1
SPECIFICATION FairSpec
PROPERTY LoneSurvivorIsReleased
CHECK_DEADLOCK FALSE
