SPECIFICATION Spec
CONSTANTS
  Cases <- MCCases
  Tests <- MCTests
  Hides <- MCHides
  Faults = {"kill"}
INVARIANTS CrashLeavesTreeClean
