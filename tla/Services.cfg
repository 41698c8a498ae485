SPECIFICATION Spec
CHECK_DEADLOCK FALSE
CONSTANTS
  s1 = s1
  s2 = s2
  p1 = p1
  t1 = t1
  t2 = t2
  t3 = t3
  q1 = q1
  q2 = q2
  q3 = q3
  c1 = c1
  c2 = c2
  k1 = k1
  k2 = k2
  e1 = e1
  e2 = e2
  Calls = {p1}
  MaxCandle = 2
  Syncs = {s1, s2}
  Asks <- MCAsks
  MaxLimit = 2
  MaxExtras = 1
  NoOne = NoOne
  MinCandles = 1
  MaxDecisions = 2
  MaxAttempts = 2
  MaxFaults = 1
  Readings <- MCReadings
  StopTenths = 15
  TakeTenths = 30
  Shapes <- MCShapes
  BarReadings <- MCBarReadings
  BarCount = 5
  MinBars = 5
  InitialBalance = 1000
  RiskPercent = 100
  SizeUnits = 100
  Tokens = {t1, t2, t3}
  AuthCalls = {q1, q2, q3}
  NoToken = NoToken
  Clients = {c1, c2}
  EventIds = {e1, e2}
  EventCalls = {k1, k2}
  DtoRows <- MCDtoRows
  Queries <- MCQueries
  WindowMinutes = 15
  OtherEvents <- MCOtherEvents
  MaxOthers = 1
  NoEvent = NoEvent
INVARIANTS
  TypesOK
  AnalysisOwed
  SkipsCovered
  AddedIsAnalysed
  MovesForward
  SignalsExplained
  TradesReplay
  RowHonest
  EmaMirror
  SessionsAccounted
  ClientsHear
PROPERTIES
  SyncsSettle
  FeedImplemented
  JobsEnd
  SpentStaysSpent
