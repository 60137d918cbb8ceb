\* Two markets; tokens valid for a day, and refreshed on the day they are issued.
CONSTANTS
  None = None
  rswp = rswp
  tok = tok
  dev = dev
  farm = farm
  holder = holder
  Tokens = {rswp, tok}
  Rswp = rswp
  AccessDays = 1
  RefreshDays = 0
  TradesTaken = 1
  MessagesTaken = 2
  Budgets <- Scenes
  Listed <- Order
  AmmToken = rswp
  Developer = dev
  StakingContracts = {farm}
  Holders = {holder}
  Unset = Unset
  Prices = {1, 2}
  Day = 1
  base_supply = 2
  MaxSales = 4
  MaxMoves = 2
  MaxHours = 2
  MaxRounds = 2
SPECIFICATION MCSpec
INVARIANTS
  TradesShownOnce
  RowsSettle
  ListedOnceInOrder
  SignOnAnswered
  SpeaksWithin
  SummariesReach
  CirculatingIsHeld
CHECK_DEADLOCK FALSE
