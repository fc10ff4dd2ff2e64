SPECIFICATION FabricationSpec
CONSTANTS
  Quantities <- MCQuantities
  Quotes = {1, 3}
  Models <- MCModels
  Tolerances <- MCTolerances
  Conventions = {"unsigned"}
  LeftOut <- MCLeftOut
  MaxFills = 2
  MaxMoves = 1
  MaxAlterations = 1
  Shapes <- MCShapes
  Misprints <- MCMisprints
  Unreal <- MCUnreal
  Invariants <- MCInvariants
  Sessions = 6
  MaxFaults = 1
INVARIANT UnsupportedConventionNotAccused
CHECK_DEADLOCK FALSE
