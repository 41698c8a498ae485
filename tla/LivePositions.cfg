SPECIFICATION Spec
CONSTANTS
  s1 = s1
  s2 = s2
  s3 = s3
  gold = gold
  coin = coin
  NoOne = NoOne
  Requests = {r1, r2}
  Signals = {s1}
  Symbols = {gold}
  Approvals = {}
  Tradable = {s1}
  SymbolOf <- MCSymbolOf
  VolumeOf <- MCVolumeOf
  LimitSettings <- MCRoomy
  MaxDay = 0
SYMMETRY Symmetry
PROPERTIES
  OnePositionPerSymbol
