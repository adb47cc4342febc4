\* The parts of tsc_client_service around the control loop, and the choice of a plan.
SPECIFICATION Spec
CONSTANTS
  spat = spat
  control = control
  PhaseNext = PhaseNext
  VehCalls = VehCalls
  SpatState = SpatState
  Hold = Hold
  Omit = Omit
  None = None
  Throws = Throws
  Schedules <- Separate
  SleepDur = 1
  MaxMessages = 1
  MaxFailures = 1
  MaxTime = 5
INVARIANTS
  ProjectionComesTrue
  ScheduleIsObeyed
  QueuesGetTheirGreen

PROPERTIES
  RequestsAreOnesOwn
  StateIsTheControllers
  PollEveryTenth

CHECK_DEADLOCK FALSE
