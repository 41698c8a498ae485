SPECIFICATION Spec
CONSTANTS
  s1 = s1
  s2 = s2
  main = main
  side = side
  gold = gold
  open1 = open1
  open2 = open2
  shut1 = shut1
  bar = bar
  bar2 = bar2
  Signals = {s1, s2}
  TermsOf <- MCTermsOf
  Accounts = {main}
  SignalsOf <- AnySignal
  AccountOf <- OneAccount
  Initial = 10
  Openers = {open1, open2}
  Approvals = {risk, supervisor}
  Closers = {shut1}
  Prices = {4}
  Evaluators = {bar}
  CandleOf <- MCCandleOf
  Jobs = {bar}
  MaxAttempts = 1
  MaxStalls = 0
  MaxRunning = 2
SYMMETRY Twins
INVARIANTS
  TypeOK
  TradesApproved
  BalanceExplained
  ClosedIsBooked
  ListsAreClosed
PROPERTIES
  LedgerSpec
