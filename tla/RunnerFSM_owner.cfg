\* One run of two waves, one retry each, with an owner that calls the object
\* directly, callbacks that call it, raise or stop it, and exceptions inside apply_gate.
SPECIFICATION Spec
CONSTANTS
  MaxWave = 1
  MaxPatch = 1
  StepCap = 31
  Agents = {a1}
  Faults = {"provider", "declaration", "collect"}
  OwnerCalls = {"apply_gate", "stop", "transition", "record_patch", "unlock_next_wave"}
INVARIANTS
  WavesInOrder
  BudgetSpentMeansReview
  ControlAssertionsHold
PROPERTIES
  RecordedOnlyWhenEarned
  ParkedGateTakesNoVerdict
  ImplementsWaveOrder
VIEW Remembered
