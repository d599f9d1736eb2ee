CONSTANTS
  Player = {p1, p2}
  NoPlayer = NoPlayer
  Me = p1
  MaxLag = 2
  Chips = 2
  Throws = 2
  Die = {1, 2}
  Fiches <- ScreenRanks
  MaxPlayers = 2
  PointsToLose = 1
  RuleChoices = {"sec","free"}
SPECIFICATION TabSpec
INVARIANTS
  OffersAreAccepted
  AwaitedIsOffered
  TrophyIsEarned
PROPERTY RhythmShownIsKept
