\* Token: two accounts that call and one that only receives.  Wallet: two that
\* sign and one that does not, two proposals.  AMM: two markets, one user, fees
\* switched on and off.
CONSTANTS
  a1 = a1
  a2 = a2
  h = h
  m1 = m1
  None = None
  Callers = {a1, a2}
  Holders = {h}
  Deployer = a1
  Supply = 3
  Amounts = {1, 2}
  Allowances = {0, 2}
  MetaValues = {m1}
  s1 = s1
  s2 = s2
  o = o
  Signers = {s1, s2}
  Outsiders = {o}
  Transfers = {2}
  Funds = 3
  Percentages = {100}
  Durations = {0, 1}
  MaxProposals = 2
  MaxVotes = 2
  MaxDay = 1
  tau = tau
  tok = tok
  tok2 = tok2
  u1 = u1
  zero = zero
  fee = fee
  Assets = {tau, tok, tok2}
  Pairs <- SharedPairs
  Users = {u1}
  This = this
  Zero = zero
  FeeTaker = fee
  One = 1
  MinimumLiquidity = 1
  Endowments <- Purses
  DepositAmounts = {17}
  TransferAmounts = {5}
  SwapAmounts = {1}
SPECIFICATION MCSpec
SYMMETRY Renamings
INVARIANTS
  SupplyConserved
  PaidOrOpen
  ApprovedByShare
  FeeWithinGrowth
  ReservesCovered
PROPERTIES
  OverdrawnOnlyByBoth
  SharesNotDiluted
CHECK_DEADLOCK FALSE
