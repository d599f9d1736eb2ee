CONSTANTS
  Player = {p1, p2}
  NoPlayer = NoPlayer
  Chips = 1
  Throws = 1
  Die = {1, 2}
  Fiches <- TwoRanks
  MaxPlayers = 2
  PointsToLose = 1
  RuleChoices = {"sec", "free"}
SPECIFICATION Spec
PROPERTY QueuedRulesReachNextPartie
