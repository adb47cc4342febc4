SPECIFICATION Spec
CONSTANTS
  PhaseOf <- MCPhaseOf
  TimeModulus = 32
  Plans <- TwoPlans
  MaxPlans = 2
  MaxTime = 7
  SleepDur = 1
  TornReads <- StaleCommands
  SetMayFail = FALSE
  LateDelivery = FALSE
PROPERTY PopRemovesExecuted
CHECK_DEADLOCK FALSE
