CONSTANTS
  Player = {me, you}
  Me = me
  Nobody = Nobody
  Window = 5
  MaxCards = 3
  Field = {bank_rule, afk_bot}
  MaxLag = 2
  MaxEvents = 5
  MaxClicks = 5
  Mixes <- ThreeMixes
SPECIFICATION FairSpec
INVARIANT AbsenceIsToldOnce
PROPERTIES
  LossesAreAnnounced
  OutStaysOut
  RulesNotEditedStay
  NoticesGoAway
CHECK_DEADLOCK FALSE
