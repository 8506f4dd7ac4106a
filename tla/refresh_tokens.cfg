CONSTANTS
  r1 = r1 r2 = r2
  Request = {r1, r2}
  NoRequest = NoRequest
  AccessTTL = {1, 2}
  MaxPair = 2
  RefreshTTL = 1
  Leeway = 1
  Margin = 1
  PurgeAge = 0
  MaxChange = 1
  MaxClock = 2
SYMMETRY Symmetric
SPECIFICATION MCSpec
INVARIANTS OneActivePerFamily EndedFamilyStaysEnded OldKeysAreRefused RevokedAccessIsRefused
PROPERTY SessionSpec
