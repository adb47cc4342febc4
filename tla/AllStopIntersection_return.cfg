SPECIFICATION IntersectionSpec
CONSTANTS
  v1 = v1
  v2 = v2
  Vehicles = {v1, v2}
  Timeout = 1
  IntersectionType = "stop_controlled_intersection"
  InFlight = 1
  MaxTrips = 2
  Lanes = {v1, v2}
  Links = {v1, v2}
  Conflicting <- EverybodyElse
  FlexibilityLimit = 5
  EnteringTimeBuffer = 0
  StaleAfter = 1
  Timely = TRUE
INVARIANTS NoConflictInBox
SYMMETRY Symmetry
