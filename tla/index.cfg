CONSTANTS
  Tokens = {rswp, tok}
  Rswp = rswp
  Old = {rswp}
  KeyHolders = {u}
  Contracts = {bot}
  None = None
  Calls = {"submit", "change_metadata", "create_market", "add_liquidity", "buy", "sell", "buy_rswp_fee"}
  Amounts = {1}
  MaxTxs = 4
  MaxReserve = 2
  MaxReplays = 1
  MaxCrashes = 1
  MaxAgain = 1
SPECIFICATION IndexSpec
CHECK_DEADLOCK FALSE
INVARIANTS
  MarketsSettle
  ClientsSettle
  TradesKept
