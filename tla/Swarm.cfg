SPECIFICATION Spec
CONSTANTS
  Ledgers <- MCLedgers
  Agents <- MCAgents
  Leases <- MCLeases
  Files = {"fa", "fb"}
  MaxParallel = 8
  Registries = {"old", "new", "broken"}
  Damaged = {"broken"}
  MaxWrites = 2
  MaxEdits = 2
INVARIANTS EveryAgentDelivered OwnershipDisjoint
PROPERTIES AnswersToAStandingRegistry
