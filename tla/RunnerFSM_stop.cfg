\* What CONSTITUTION.md says of stop conditions, against the gate loop.
SPECIFICATION Spec
CONSTANTS
  MaxWave = 0
  MaxPatch = 1
  StepCap = 17
  Agents = {a1}
  Faults = {}
  OwnerCalls = {}
INVARIANT StopConditionHalts
