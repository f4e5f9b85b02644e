SPECIFICATION FairSpec
CONSTANTS
  Sleepers = {1, 2}
  Width = 3
  MaxN = 3
  MaxLag = 2
INVARIANTS NeverOversleeps
PROPERTIES SleepsLongEnough SleepReturns
