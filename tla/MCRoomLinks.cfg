CONSTANTS
  Player = {p1, p2, p3}
  NoPlayer = NoPlayer
  Chips = 2
  Throws = 1
  Die = {1, 2}
  Fiches <- TwoRanks
  MaxPlayers = 3
  PointsToLose = 1
  RuleChoices = {}
  AfkBot = TRUE
  Acting = {p1, p2, p3}
  Exits = {"disconnect", "admin", "evict"}
  Returns = TRUE
  MaxFaults = 1
SPECIFICATION Spec
INVARIANTS
  ChipsConserved
  PoolMatchesPhase
SYMMETRY Symmetric
CHECK_DEADLOCK FALSE
