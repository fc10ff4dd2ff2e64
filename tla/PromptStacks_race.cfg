CONSTANTS
  Ids = {"00", "04", "99"}
  Files = {"f00", "f04"}
  Registries <- MCPresentOnly
  Held <- MCHeld
  Committed <- MCCommitted
  Requests <- MCRequests
  MaxEdits = 3
  MaxAmends = 1
SPECIFICATION Spec
CHECK_DEADLOCK FALSE
INVARIANT AcceptedWasCurrentOnce
