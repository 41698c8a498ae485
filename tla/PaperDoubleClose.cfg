SPECIFICATION Spec
CONSTANTS
  s1 = s1
  s2 = s2
  main = main
  side = side
  gold = gold
  open1 = open1
  open2 = open2
  shut1 = shut1
  bar = bar
  bar2 = bar2
  Signals = {s1}
  TermsOf <- MCTermsOf
  Accounts = {main}
  SignalsOf <- TwoSignals
  AccountOf <- OneAccount
  Initial = 10
  Openers = {open1}
  Approvals = {}
  Closers = {shut1}
  Prices = {4}
  Evaluators = {bar}
  CandleOf <- MCCandleOf
  Jobs = {bar}
  MaxAttempts = 2
  MaxStalls = 1
  MaxRunning = 2
INVARIANTS
  BookedOnce
