\* Vehicles at an intersection, and what the scheduling service makes of them.
SPECIFICATION AllSpec
CONSTANTS
  a = a
  b = b
  c = c
  A = A
  B = B
  LinkA = LinkA
  LinkB = LinkB
  LinkC = LinkC
  Throws = Throws
  HourMs = 1000
  TenthMs = 1
  Lanes = {1, 2}
  Connecting <- ConnectingLinks
  GroupOf <- SignalGroupOf
  InitialGreenBuffer = 3
  FinalGreenBuffer = 1
  Vehicles = {a, b, c}
  Route <- Routes
  Distance <- Distances
  Headway = 2
  Clearance = 6
  Timeline <- TwoGroups
  Announced = 2
  SpatAge = 1
  ScheduleAge = 1
  Ahead = 1
  MaxTime = 15
INVARIANTS
  RoundIsRight
  BoxIsSafe

PROPERTIES
  TracksTheVehicle
  EntersOnGreen

CHECK_DEADLOCK FALSE
