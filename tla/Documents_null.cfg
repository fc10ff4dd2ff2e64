SPECIFICATION DocumentsSpec
CONSTANTS
  Ids = {"00", "04", "99"}
  Files = {"f00", "f04"}
  Registries <- MCRegistries
  Held <- MCHeld
  Committed <- MCCommitted
  Requests <- MCRequests
  MaxEdits = 2
  MaxAmends = 1
  Paths <- MCPaths
  WavePaths <- MCWavePaths
  Canonical <- MCCanonical
  Number <- MCNumber
  PythonPaths = {"build/tool.py", "tool.py"}
  JsonPaths = {"waves/index.json"}
  WorkflowPaths = {"ci.yml"}
  ExcludedPaths = {"build/tool.py"}
  IndexPath = "waves/index.json"
  Trees <- MCTrees
  Writable <- MCWritable
  Evidence <- MCEvidence
  THEIR_WAVES = {2, 3}
  MaxTreeEdits = 2
  Contracts <- MCContracts
  Sources <- MCSources
  Candidates <- MCCandidates
  Texts = {"", "text", "null"}
  MaxRevisions = 3
INVARIANT ConnectedIsProven
CHECK_DEADLOCK FALSE
