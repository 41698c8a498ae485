SPECIFICATION Spec
CONSTANTS
  s1 = s1
  s2 = s2
  s3 = s3
  gold = gold
  coin = coin
  NoOne = NoOne
  Requests = {r1, r2}
  Signals = {s1, s2}
  Symbols = {gold}
  Approvals = {risk, manual}
  Tradable = {s1, s2}
  SymbolOf <- MCSymbolOf
  VolumeOf <- MCVolumeOf
  LimitSettings <- MCRoomy
  MaxDay = 0
SYMMETRY Symmetry
INVARIANTS
  TypeOK
  OneActivePerSymbol
  ReservationHeld
  BooksMatchBroker
  StuckOnlyByFault
PROPERTIES
  OutcomeStands
  SlotSpec
