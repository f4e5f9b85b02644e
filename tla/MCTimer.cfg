SPECIFICATION Spec
CONSTANTS
  Base = 4
  Interval = 3
  MaxTime = 11
INVARIANTS NoFalseInterrupt NextTickOnTime IInv
\* The time is bounded: at its end the timer stays armed and nothing happens.
CHECK_DEADLOCK FALSE
