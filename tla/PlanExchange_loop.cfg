\* A controller that follows the plans; all times within one hour.
SPECIFICATION Spec
CONSTANTS
  Throws = Throws
  HourMs = 100
  TenthMs = 1
  Order <- FourGroups
  MoveGroups <- PairsAndSingle
  Yellow <- YellowTimes
  RedClear <- RedClearances
  MinGreen <- MinGreens
  Indeterminate = {"dark"}
  GreenLengths = {2, 3}
  FutureGroups = 2
  TimeToYellow = 2
  MinToYellow = 0
  SoSleep = 1
  MaxSkips = 3
  Prompt = TRUE
  MaxTime = 11
  MaxPlans = 2
INVARIANT
  LoopIsSafe
PROPERTIES
  PlannedEventsInOrder
  PlanReadBack
CHECK_DEADLOCK FALSE
