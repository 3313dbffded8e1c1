SPECIFICATION FairSpec
CONSTANTS
  Logins = {l1, l2, l3}
  Refreshes = {r1}
  Logouts = {o1, o2}
  RateLimit = 2
  Window = 2
  Tokens = {access, refresh}
  RefreshTokens = {refresh}
  NoToken = NoToken
  Lifetime = 2
  Offsets <- MCOffsets
  MaxCount = 4
INVARIANTS
  TypeOK
  LimitKept
PROPERTIES
  WindowEnds
  LoggedOutTokenRefused
