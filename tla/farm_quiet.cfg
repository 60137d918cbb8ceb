\* The settings of seed left alone: what users can count on.
CONSTANTS
  u1 = u1
  u2 = u2
  owner = owner
  this = this
  Users = {u1, u2}
  Admins = {owner}
  This = this
  Deployer = owner
  Precision = 10
  PctBase = 10
  InitialStake = 2
  InitialPool = 20
  Rate0 = 1
  DevPct0 = 1
  Start0 = 1
  End0 = 3
  StakeAmounts = {0, 1, 2}
  HarvestAmounts = {0, 3}
  Rates = {1}
  Pcts = {1, 10}
  StartTimes = {1}
  EndTimes = {3}
  RecoverAmounts = {}
  FundAmounts = {}
  OpenChoices = {TRUE}
  MaxTime = 4
  MaxEpoch = 3
  MaxApproval = 2
SPECIFICATION TapeSpec
SYMMETRY UserSymmetry
INVARIANTS
  StakeAccounted
  AccruedAsEarned
  WithinEmission
  ExitFunded
