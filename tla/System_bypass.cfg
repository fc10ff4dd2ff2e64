SPECIFICATION SystemSpec
CONSTANTS
  CriticalMax = 0
  HighMax = 0
  Calls <- MCCalls
  Contents = {"CLEAR", "ENGAGED", "garbage", "absent"}
  LoopCalls <- MCLoopCalls
  LoopContents = {"CLEAR", "ENGAGED"}
  MaxWave = 1
  MaxPatch = 1
  StepCap = 31
  Agents = {}
  Faults = {}
  OwnerCalls = {}
INVARIANT EngagingIsNotMisconduct
