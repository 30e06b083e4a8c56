\* Every image of up to 40 by 40 for a screen of 12 by 10.
CONSTANTS
  MaxWidth = 12
  MaxHeight = 10
  MaxSide = 40

SPECIFICATION ResizeSpec
INVARIANT BestFit
CHECK_DEADLOCK FALSE
