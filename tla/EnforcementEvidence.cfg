SPECIFICATION Spec
CONSTANTS
  Code = {"gates.py"}
  Rules = {"capital-rules.json"}
  CapitalRules = "capital-rules.json"
  Undigested = {"evidence.schema.json"}
  Extra = {"new_detector.py"}
  Lifetimes = {0, 1, 2}
  MaxTime = 1
  MaxEdits = 2
INVARIANTS HeadIsWhatRan CurrentIsStillEarned ValidIsInForce
CHECK_DEADLOCK FALSE
