\* What the docs say of an unreadable agents declaration, against load_wave.
SPECIFICATION Spec
CONSTANTS
  MaxWave = 0
  MaxPatch = 1
  StepCap = 17
  Agents = {a1}
  Faults = {"declaration"}
  OwnerCalls = {}
INVARIANT UnreadableDeclarationDenies
