SPECIFICATION FairSpec
CONSTANTS
  PhaseOf <- MCPhaseOf
  TimeModulus = 32
  Plans <- TwoPlans
  MaxPlans = 2
  MaxTime = 7
  SleepDur = 1
  TornReads <- StaleCommands
  SetMayFail = TRUE
  LateDelivery = FALSE
INVARIANT NeverSleepsBeyondPlan
PROPERTY HeldPhasesAreReleased
CHECK_DEADLOCK FALSE
