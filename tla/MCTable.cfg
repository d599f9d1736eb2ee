CONSTANTS
  Player = {p1, p2, p3}
  NoPlayer = NoPlayer
  Chips = 3
  Throws = 2
  Die = {1, 2}
  Fiches <- TwoRanks
  MaxPlayers = 3
  PointsToLose = 1
  RuleChoices = {"sec", "free"}
SPECIFICATION Spec
INVARIANTS
  TypeOK
  ChipsConserved
  PoolMatchesPhase
  StarterSetsTheRhythm
  DuelAlive
  HandIsLive
  ScoresBelowLimits
PROPERTIES
  LoserOpensNextCycle
  ImplementsMatch
  RulesChangeBetweenMatches
SYMMETRY Symmetric
