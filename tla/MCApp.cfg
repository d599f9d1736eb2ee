CONSTANTS
  Account = {adm, pat}
  Nobody = Nobody
  MaxLogins = 2
  MaxCalls = 3
  Name = {ana}
  NoName = NoName
  Taken = {}
  MaxKeys = 1
  Staff = {adm}
  Subject = {s1, s2}
  Whole = Whole
  MaxAsks = 2
  MaxClicks = 3
  MaxFailures = 1
  Tours <- Tourings
SPECIFICATION FairSpec
INVARIANTS
  ShownIsAsked
  OwnActsAreSeen
  SplashIsAwaited
PROPERTIES
  OldAnswersEndNoSession
  FormsComeBack
  LobbyCatchesUp
CHECK_DEADLOCK FALSE
