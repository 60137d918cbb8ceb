\* Faults, restarts and up to three grabbers.
CONSTANTS
  MaxHeight = 2
  BatchAmount = 2
  StartBlock = 0
  Height0 = 1
  MaxGrabbers = 3
  MaxRuns = 3
  MaxFaults = 2
  MaxLags = 0
  MaxCrashes = 1
  WipeChoices = {TRUE, FALSE}
  ReloadChoices = {TRUE}
SPECIFICATION Spec
INVARIANTS
  OneAtATime
  SavedIsHanded
  SettlesInChainOrder
