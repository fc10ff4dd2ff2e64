SPECIFICATION SeriesSpec
CONSTANTS
  Bars <- MCBars
  Definitions <- MCDefinitions
  MaxBars = 6
  Ordered <- MCOrdered
  Prices = {1, 2}
  Horizon = 3
  Offsets = {0, 1}
INVARIANTS CutsAgree
PROPERTIES NothingRevised EmittedBarsAreFinal UsableWhenLastRollGaps
CHECK_DEADLOCK FALSE
