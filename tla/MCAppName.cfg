CONSTANTS
  Account = {adm, pat}
  Nobody = Nobody
  MaxLogins = 2
  MaxCalls = 3
  Name = {ana, bob}
  NoName = NoName
  Taken = {bob}
  MaxKeys = 1
  Staff = {adm}
  Subject = {s1, s2}
  Whole = Whole
  MaxAsks = 2
  MaxClicks = 3
  MaxFailures = 1
  Tours <- Tourings
SPECIFICATION Spec
INVARIANT VerdictIsForTheName
CHECK_DEADLOCK FALSE
