CONSTANTS
  MaxHeight = 2
  BatchAmount = 2
  StartBlock = 0
  Height0 = 1
  MaxGrabbers = 2
  MaxRuns = 3
  MaxFaults = 1
  MaxLags = 1
  MaxCrashes = 0
  WipeChoices = {FALSE}
  ReloadChoices = {FALSE}
SPECIFICATION FairSpec
PROPERTIES
  EveryBlockArrives
