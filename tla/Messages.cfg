\* What the services make of messages and of their configuration.
SPECIFICATION AllSpec
CONSTANTS
  o1 = o1
  o2 = o2
  p1 = p1
  p2 = p2
  Unfinished = Unfinished
  None = None
  Throws = Throws
  Objects = {o1, o2}
  Simulations = {TRUE, FALSE}
  Period = 2
  Fresh = 3
  CountMax = 1
  Capacity = 2
  MaxSends = 3
INVARIANTS
  DistancesAreOfTheTrajectory
  TellsTheRoad
  ReadsBack
  TellsWhatWasDetected
PROPERTIES
  JoinsWhatBelongs
  PublishesInTime
  ConfigurationIsWhole

CHECK_DEADLOCK FALSE
