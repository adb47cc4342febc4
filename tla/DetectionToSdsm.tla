--------------------------- MODULE DetectionToSdsm ---------------------------
(***************************************************************************)
(* sensor_data_sharing_service, create_sdsm: one detection on its way into *)
(* a sensor data sharing message: from the frame of the sensor to that of  *)
(* the reference point, from east-north-up to north-east-down, and to the  *)
(* units and enumerations of the message. Positions are in centimetres,    *)
(* accuracies (two standard deviations) in thousandths of their unit.      *)
(***************************************************************************)
EXTENDS SdsmFormat, SequencesExt, FiniteSetsExt

CONSTANTS
  Positions,   \* of the object, east, north and up
  Accuracies, Clocks, \* values of an accuracy, and of the clock
  Garbage,     \* what memory that is not initialized may hold
  None

DetectionToSdsmAssumption ==
  Accuracies \subseteq Nat /\ Clocks \subseteq Nat /\ Garbage \subseteq Nat

VARIABLES detection, now, pc, position, velocity, message

vars == <<detection, now, pc, position, velocity, message>>

Types == {"CAR", "PEDESTRIAN", "TREE"}

Directions == 0..7 \cup {None}   \* eighths of a turn, clockwise from north; None stands still

\* The compass: north and east part of a direction.
Compass ==
  <<1, 0>> :> 0 @@ <<1, 1>> :> 1 @@ <<0, 1>> :> 2 @@ <<-1, 1>> :> 3
  @@ <<-1, 0>> :> 4 @@ <<-1, -1>> :> 5 @@ <<0, -1>> :> 6 @@ <<1, -1>> :> 7

\* The velocity that a sensor tells of a direction, east and north.
Seen(d) ==
  IF d = None THEN <<0, 0>>
  ELSE LET v == CHOOSE v \in DOMAIN Compass : Compass[v] = d IN <<v[2], v[1]>>

\* A detection: its optional members, and whether its proj string is usable.
Detection ==
  [type : Types, direction : Directions, position : Positions, accuracy : Accuracies,
   has : SUBSET {"angularVelocity", "angularVelocityCovariance", "size"}, usable : BOOLEAN]

Init ==
  /\ detection \in Detection
  /\ detection.usable \/ detection.has = {}
  /\ now \in Clocks
  /\ pc = "sensor"
  /\ position = detection.position /\ velocity = Seen(detection.direction)
  /\ message = None

\* detected_object_local_to_ref: both frames have the same origin here; without
\* a transformation the detection is left out.
ToReference ==
  /\ pc = "sensor"
  /\ pc' = IF detection.usable THEN "reference" ELSE "left out"
  /\ UNCHANGED <<detection, now, position, velocity, message>>

MutantEnuToNed ==
  /\ pc = "reference"
  /\ position' = <<position[2], position[1], -position[3]>>
  /\ pc' = "ned"
  /\ UNCHANGED <<detection, now, velocity, message>>

\* detected_object_enu_to_ned
EnuToNed ==
  /\ pc = "reference"
  /\ position' = <<position[2], position[1], -position[3]>>
  /\ velocity' = <<velocity[2], velocity[1]>>
  /\ pc' = "ned"
  /\ UNCHANGED <<detection, now, message>>

-----------------------------------------------------------------------------
(***************************************************************************)
(* The conversions.                                                        *)
(***************************************************************************)

\* static_cast<unsigned int> of a number of decimetres, kept in an int: towards
\* zero, but undefined for what is not above -1: a conversion that wraps yields
\* the number, one that saturates yields none.
Truncate(cm) ==
  IF cm >= 0 THEN {cm \div 10} ELSE {-((-cm) \div 10), 0}

\* std::atan2 in eighths of a turn, -3 to 4.
Atan2(y, x) == LET k == Compass[<<x, y>>] IN IF k > 4 THEN k - 8 ELSE k

\* to_heading, in units of 0.0125 degrees.
ToHeading(v) ==
  IF v = <<0, 0>> THEN 0
  ELSE LET a == Atan2(v[2], v[1]) IN (IF a < 0 THEN a + 8 ELSE a) * 3600

\* The first threshold that an accuracy reaches, of a falling sequence.
Reached(accuracy, thresholds) ==
  LET indices == {i \in DOMAIN thresholds : accuracy >= thresholds[i]}
  IN IF indices = {} THEN Len(thresholds) + 1 ELSE Min(indices)

\* to_position_confidence and to_speed_confidence, which count from 1 = least.
ToPositionConfidence(accuracy) ==
  Reached(accuracy, <<350000, 150000, 75000, 35000, 15000, 7500, 3500, 1500, 750, 350, 150, 75,
                      35, 15>>)

ToSpeedConfidence(accuracy) == Reached(accuracy, <<55000, 7500, 3000, 550, 75, 30>>)

\* to_angular_velocity_confidence has the thresholds of a speed; the accuracy
\* is in radians per second.
ToAngularVelocityConfidence(accuracy) == Reached(accuracy, <<55000, 7500, 3000, 550, 75, 30>>)

\* to_sdsm_timestamp: seconds are milliseconds of the minute.
ToSdsmTimestamp(t) ==
  [hour |-> (t \div 3600000) % 24, minute |-> (t \div 60000) % 60, second |-> t % 60000]

\* to_object_type
ToObjectType ==
  CASE detection.type = "CAR" -> "VEHICLE"
    [] detection.type = "PEDESTRIAN" -> "VRU"
    [] OTHER -> "UNKNOWN"

\* Members of the optional data that to_detected_object_data sets.
OptionalMembers ==
  CASE ToObjectType = "VEHICLE" ->
         {<<"detected_object_optional_data", "detected_vehicle_data">>,
          <<"detected_vehicle_data", "size">>, <<"detected_vehicle_data", "height">>} \cup Whole["size"]
    [] ToObjectType = "VRU" -> {<<"detected_object_optional_data", "detected_vru_data">>}
    [] OTHER -> {<<"detected_object_optional_data", "detected_obstacle_data">>,
                 <<"obst_size", "height">>} \cup Whole["detected_obstacle_data"]

\* The yaw rate is written into an optional that is empty, and stays empty.
Members ==
  Whole["sdsm"] \cup OptionalMembers
  \cup {<<"ref_pos", "elevation">>, OffsetZ, SpeedZConfidence,
        <<"detected_object_common_data", "speed_z">>,
        <<"detected_object_data", "detected_object_optional_data">>}
  \cup (IF "angularVelocityCovariance" \in detection.has
        THEN {<<"detected_object_common_data", "acc_cfd_yaw">>} ELSE {})

\* to_detected_object_data; 4 is the size that the sensor has measured.
ToData ==
  /\ pc = "ned"
  /\ \E size \in (IF "size" \in detection.has THEN {4} ELSE Garbage) :
     \E offset \in Truncate(position[1]) \X Truncate(position[2]) \X Truncate(position[3]) :
       message' =
         [members |-> Members, codes |-> <<>>, stamp |-> ToSdsmTimestamp(now), size |-> size,
          offset |-> offset,
          heading |-> ToHeading(velocity),
          position |-> ToPositionConfidence(detection.accuracy),
          speed |-> ToSpeedConfidence(detection.accuracy),
          yaw |-> IF "angularVelocityCovariance" \in detection.has
                  THEN ToAngularVelocityConfidence(detection.accuracy) ELSE None]
  /\ pc' = "published"
  /\ UNCHANGED <<detection, now, position, velocity>>

Next == ToReference \/ EnuToNed \/ ToData

Spec == Init /\ [][Next]_vars

-----------------------------------------------------------------------------
\* What is published is of a detection that could be transformed.
TypeOK ==
  /\ detection \in Detection /\ now \in Clocks
  /\ pc \in {"sensor", "reference", "ned", "published", "left out"}
  /\ pc = "published" => detection.usable /\ message.heading \in 0..28799

\* What the service publishes can be read back by the library, whatever was
\* detected and whichever members the detection has.
PublishedIsReadable == pc = "published" => Read(Written(message)) # Throws

NorthEastDown == <<detection.position[2], detection.position[1], -detection.position[3]>>

IsTold(i) ==
  /\ 10 * message.offset[i] - NorthEastDown[i] \in -9..9
  /\ message.offset[i] * NorthEastDown[i] >= 0

\* The message tells where the object is and where it goes: offsets north, east
\* and down, or 0 for a negative one, and a heading clockwise from north (the swap
\* of the axes and the arcus tangent, which each alone would be wrong).
TellsWhereTo ==
  pc = "published" =>
    /\ \A i \in 1..3 : IsTold(i) \/ (NorthEastDown[i] < 0 /\ message.offset[i] = 0)
    /\ detection.direction # None => message.heading = 3600 * detection.direction

\* The time stamp and its parts tell the same time of the day.
TellsTheTime ==
  pc = "published" =>
    LET s == message.stamp
    IN /\ 3600000 * s.hour + 60000 * s.minute + s.second = now % 86400000
       /\ s.minute < 60 /\ s.hour < 24

PositionSteps ==
  <<500000, 200000, 100000, 50000, 20000, 10000, 5000, 2000, 1000, 500, 200, 100, 50, 20, 10>>

RateSteps == <<100000, 10000, 5000, 1000, 100, 50, 10>>

Apart(a, b) == Max({a - b, b - a})

Nearest(i, accuracy, steps) == \A j \in DOMAIN steps : Apart(accuracy, steps[i]) <= Apart(accuracy, steps[j])

\* detected_object_to_sdsm_converter.hpp:91, 104: an accuracy is told as the
\* nearest step of the enumeration.
TellsNearestAccuracy ==
  pc = "published" =>
    /\ Nearest(message.position, detection.accuracy, PositionSteps)
    /\ Nearest(message.speed, detection.accuracy, RateSteps)

=============================================================================
