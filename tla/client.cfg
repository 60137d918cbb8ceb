SPECIFICATION MCSpec
CONSTANTS
  a = a
  b = b
  v = v
  w = w
  None = None
  Accounts = {v, w}
  Tokens = {a, b}
  Reserves <- MCReserves
  Amounts = {10, 70}
  Tolerances = {1, 49}
  StampCost = 5
  LpShare = 4
  Rich = 80
  Poor = 72
  One = 100
  FeePct = 3
  Discount = 50
  MaxTrades = 2
  MaxAsked = 3
  MaxPages = 2
  MaxFailures = 1
  Budgets <- MCBudgets
SYMMETRY Renamings
INVARIANTS
  SelectionStands
  QuoteOfItsToken
  QuoteFits
  SessionOfUser
CHECK_DEADLOCK FALSE
