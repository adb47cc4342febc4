\* An iteration may take any time, and the SPaT it reads may be old.
SPECIFICATION Spec
CONSTANTS
  Throws = Throws
  HourMs = 100
  TenthMs = 1
  Order <- FourGroups
  MoveGroups <- PairsAndSingle
  Yellow <- YellowTimes
  RedClear <- RedClearances
  MinGreen <- MinGreens
  Indeterminate = {"dark"}
  GreenLengths = {2}
  FutureGroups = 2
  TimeToYellow = 2
  MinToYellow = 0
  SoSleep = 1
  MaxSkips = 3
  Prompt = FALSE
  MaxTime = 8
  MaxPlans = 2
INVARIANT
  EventsContiguous
PROPERTY
  PlansOnlyExtend
CHECK_DEADLOCK FALSE
