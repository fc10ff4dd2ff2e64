SPECIFICATION Spec
CONSTANTS
  Ledgers <- MCAliasLedgers
  Agents <- MCAgents
  Leases <- MCLeases
  Files = {"fa", "fb"}
  MaxParallel = 8
  Registries = {"old"}
  Damaged = {}
  MaxWrites = 2
  MaxEdits = 0
INVARIANTS EachClaimItsOwnFile
