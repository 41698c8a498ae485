SPECIFICATION Spec
CONSTANTS
  s1 = s1
  s2 = s2
  main = main
  side = side
  gold = gold
  open1 = open1
  open2 = open2
  shut1 = shut1
  bar = bar
  bar2 = bar2
  Signals = {s1, s2}
  TermsOf <- MCTermsOf
  Accounts = {main}
  SignalsOf <- TwoSignals
  AccountOf <- OneAccount
  Initial = 10
  Openers = {open1, open2}
  Approvals = {}
  Closers = {}
  Prices = {4}
  Evaluators = {}
  CandleOf <- MCCandleOf
  Jobs = {open1, open2}
  MaxAttempts = 2
  MaxStalls = 1
  MaxRunning = 2
INVARIANTS
  OneOpenPerInstrument
