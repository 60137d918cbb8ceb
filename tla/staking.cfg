SPECIFICATION Spec
CONSTANTS
  Users = {u1, u2}
  Nobody = Nobody
  Jobs = {j1, j2}
  MaxEvents = 2
  MaxQueue = 1
SYMMETRY Symmetry
INVARIANTS RowsAsChain YieldsSettle
PROPERTY CutOnlyByFlightOrEpoch
CHECK_DEADLOCK FALSE
