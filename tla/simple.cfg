\* Users' and owner's calls in every order.
CONSTANTS
  u1 = u1
  owner = owner
  this = this
  Users = {u1}
  Admins = {owner}
  This = this
  Deployer = owner
  PctBase = 2
  InitialStake = 2
  InitialPool = 4
  Rate0 = 1
  DevPct0 = 1
  Start0 = 0
  End0 = 2
  StakeAmounts = {1}
  HarvestAmounts = {1}
  Rates = {0, 2}
  Pcts = {0, 2}
  StartTimes = {1}
  EndTimes = {0}
  RecoverAmounts = {2}
  FundAmounts = {2}
  OpenChoices = {TRUE, FALSE}
  MetaValues = {"0.0.1"}
  MaxTime = 3
  MaxEpoch = 1
  MaxApproval = 1
SPECIFICATION TapeSpec
INVARIANTS
  AccruedAsEarned
  PaidWithinPromise
  StakeReturnable
