CONSTANTS
  Player = {p1, p2, p3}
  NoPlayer = NoPlayer
  Chips = 2
  Throws = 2
  Die = {1, 2}
  Fiches <- TwoRanks
  MaxPlayers = 3
  PointsToLose = 1
  RuleChoices = {}
  AfkBot = TRUE
  Acting = {p1, p2, p3}
  Exits = {}
  Returns = TRUE
  MaxFaults = 0
SPECIFICATION Spec
INVARIANTS
  TypeOK
  StarterSetsTheRhythm
PROPERTIES
  WakesOnItsOwnTurn
  ImplementsMatch
SYMMETRY Symmetric
