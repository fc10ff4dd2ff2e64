SPECIFICATION FairSystemSpec
CONSTANTS
  CriticalMax = 0
  HighMax = 0
  Calls <- MCCalls
  Contents = {"CLEAR", "ENGAGED", "garbage", "undecodable", "absent"}
  LoopCalls <- MCLoopCalls
  LoopContents = {"CLEAR", "ENGAGED", "undecodable"}
  MaxWave = 0
  MaxPatch = 1
  StepCap = 17
  Agents = {}
  Faults = {"provider"}
  OwnerCalls = {}
INVARIANTS PassIsEarned HeldStopDenies PassSawClear FailIsDemonstrated
PROPERTIES RunEnds StoppedWaveStaysOpen
