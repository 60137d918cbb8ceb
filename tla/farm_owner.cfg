\* Every call of the owner, interleaved with one user's and another's.
CONSTANTS
  u1 = u1
  u2 = u2
  owner = owner
  dev = dev
  this = this
  Users = {u1, u2}
  Admins = {owner, dev}
  This = this
  Deployer = owner
  Precision = 2
  PctBase = 2
  InitialStake = 1
  InitialPool = 3
  Rate0 = 1
  DevPct0 = 1
  Start0 = 0
  End0 = 2
  StakeAmounts = {1}
  HarvestAmounts = {1}
  Rates = {0}
  Pcts = {0, 2}
  StartTimes = {1}
  EndTimes = {0}
  RecoverAmounts = {2}
  FundAmounts = {2}
  OpenChoices = {TRUE, FALSE}
  MaxTime = 2
  MaxEpoch = 3
  MaxApproval = 1
SPECIFICATION Spec
SYMMETRY UserSymmetry
INVARIANTS
  SharesWithinEpoch
PROPERTIES
  KeepsStakes
