SPECIFICATION Spec
CONSTANTS
  PhaseOf <- MCPhaseOf
  TimeModulus = 32
  Plans <- EveryKindOfPlan
  MaxPlans = 2
  MaxTime = 7
  SleepDur = 1
  TornReads <- StaleCommands
  SetMayFail = TRUE
  LateDelivery = TRUE
INVARIANT TypeOK
INVARIANT DrainedMeansReleased
INVARIANT PopFindsACommand
INVARIANT QueueIsTailOfPlan
INVARIANT QueueBuiltFromWholePlan
INVARIANT NeverEarly
INVARIANT HeldPhasesNotOmitted
CHECK_DEADLOCK FALSE
