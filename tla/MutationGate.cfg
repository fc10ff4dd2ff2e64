SPECIFICATION Spec
CONSTANTS
  Cases <- MCCases
  Tests <- MCTests
  Hides <- MCHides
  Faults = {"kill", "suite", "read", "write", "restore"}
INVARIANTS OkMeansLoadBearing OneMutationAtATime StaleIsReported
