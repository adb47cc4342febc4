\* The SPaT changes between the generation of a plan and its evaluation.
SPECIFICATION Spec
CONSTANTS
  Throws = Throws
  HourMs = 100
  TenthMs = 1
  Order <- FourGroups
  MoveGroups <- PairsAndSingle
  Yellow <- YellowTimes
  RedClear <- RedClearances
  MinGreen <- MinGreens
  Indeterminate = {"dark"}
  GreenLengths = {2}
  FutureGroups = 2
  TimeToYellow = 2
  MinToYellow = 0
  SoSleep = 1
  MaxSkips = 3
  Prompt = FALSE
  MaxTime = 6
  MaxPlans = 2
INVARIANT
  SelectionFailureIsContained
CHECK_DEADLOCK FALSE
