SPECIFICATION Spec
CONSTANTS
  s1 = s1
  s2 = s2
  s3 = s3
  gold = gold
  coin = coin
  NoOne = NoOne
  Requests = {r1, r2}
  Signals = {s1, s3}
  Symbols = {gold, coin}
  Approvals = {}
  Tradable = {s1, s3}
  SymbolOf <- MCSymbolOf
  VolumeOf <- MCVolumeOf
  LimitSettings <- MCLimits
  MaxDay = 1
SYMMETRY Symmetry
PROPERTIES
  ReservationsWithinLimit
