CONSTANTS
  r1 = r1 r2 = r2
  Request = {r1, r2}
  NoRequest = NoRequest
  AccessTTL = {1, 5}
  MaxPair = 1
  RefreshTTL = 2
  Leeway = 1
  Margin = 2
  PurgeAge = 1
  MaxChange = 1
  MaxClock = 5
SYMMETRY Symmetric
SPECIFICATION Spec
INVARIANTS DeniedAsLongAsTokensLive
