CONSTANTS
  Ids = {"00", "04", "99"}
  Files = {"f00", "f04"}
  Registries <- MCRegistries
  Held <- MCHeld
  Committed <- MCCommitted
  Requests <- MCRequests
  MaxEdits = 2
  MaxAmends = 1
SPECIFICATION Spec
CHECK_DEADLOCK FALSE
INVARIANT RoleReceivesOnlyPermitted
