----------------------------- MODULE SdsmFormat -----------------------------
(***************************************************************************)
(* The JSON form of a sensor data sharing message, as the serializer       *)
(* writes it and as the deserializer reads it. A message is the set of the *)
(* members that it has, as pairs of an object and a name in that object,   *)
(* and the codes of its enumerated members. The list of detected objects   *)
(* is its one element.                                                     *)
(***************************************************************************)
EXTENDS Integers, TLC

CONSTANT Throws   \* the reader throws an exception

-----------------------------------------------------------------------------
(***************************************************************************)
(* What a message has: the members that every object of a kind has, and    *)
(* those it may have. The names are those that the deserializer knows.     *)
(***************************************************************************)

Has(must, may) == [must |-> must, may |-> may]

HeaderHas ==
  "sdsm" :> Has({"msg_cnt", "source_id", "equipment_type", "sdsm_time_stamp", "ref_pos",
                 "ref_pos_xy_conf", "objects"}, {"ref_pos_el_conf"})
  @@ "sdsm_time_stamp" :> Has({"second", "minute", "hour", "day", "month", "year", "offset"}, {})
  @@ "ref_pos" :> Has({"long", "lat"}, {"elevation"})
  @@ "ref_pos_xy_conf" :> Has({"semi_major", "semi_minor", "orientation"}, {})
  @@ "objects" :> Has({"detected_object_data"}, {})
  @@ "detected_object_data" :> Has({"detected_object_common_data"}, {"detected_object_optional_data"})

CommonHas ==
  "detected_object_common_data" :>
    Has({"obj_type", "object_id", "obj_type_cfd", "measurement_time", "time_confidence", "pos",
         "pos_confidence", "speed", "speed_confidence", "heading", "heading_conf"},
        {"speed_z", "speed_z_confidence", "acc_cfd_x", "acc_cfd_y", "acc_cfd_z", "acc_cfd_yaw",
         "accel_4_way"})
  @@ "pos" :> Has({"offset_x", "offset_y"}, {"offset_z"})
  @@ "pos_confidence" :> Has({"pos", "elevation"}, {})
  @@ "accel_4_way" :> Has({"lat", "long", "vert", "yaw"}, {})

ObstacleAndVruHas ==
  "detected_object_optional_data" :>
    Has({}, {"detected_obstacle_data", "detected_vehicle_data", "detected_vru_data"})
  @@ "detected_obstacle_data" :> Has({"obst_size", "obst_size_confidence"}, {})
  @@ "obst_size" :> Has({"width", "length"}, {"height"})
  @@ "obst_size_confidence" :> Has({"width_confidence", "length_confidence"}, {"height_confidence"})
  @@ "detected_vru_data" :> Has({}, {"basic_type", "attachment", "propulsion", "radius"})
  @@ "propulsion" :> Has({}, {"human", "animal", "motor"})

VehicleHas ==
  "detected_vehicle_data" :>
    Has({}, {"lights", "veh_attitude", "veh_attitude_confidence", "veh_ang_vel",
             "veh_ang_vel_confidence", "size", "vehicle_size_confidence", "height",
             "vehicle_class", "class_conf"})
  @@ "veh_attitude" :> Has({"pitch", "roll", "yaw"}, {})
  @@ "veh_attitude_confidence" :> Has({"pitch_confidence", "roll_confidence", "yaw_confidence"}, {})
  @@ "veh_ang_vel" :> Has({"pitch_rate", "roll_rate"}, {})
  @@ "veh_ang_vel_confidence" :> Has({}, {"pitch_rate_confidence", "roll_rate_confidence"})
  @@ "size" :> Has({"width", "length"}, {})
  @@ "vehicle_size_confidence" :>
       Has({"vehicle_width_confidence", "vehicle_length_confidence"}, {"vehicle_height_confidence"})

Format == HeaderHas @@ CommonHas @@ ObstacleAndVruHas @@ VehicleHas

Composites == DOMAIN Format

\* std::variant: an object that has exactly one of the members it may have.
Alternatives == {"detected_object_optional_data", "propulsion"}

\* Members that are objects themselves; the "pos" of a confidence is not.
IsObject(m) == m[2] \in Composites /\ m # <<"pos_confidence", "pos">>

ObjectsOf(members) == {"sdsm"} \cup {m[2] : m \in {x \in members : IsObject(x)}}

\* An object with all that it must have.
Whole[o \in Composites] ==
  LET own == {<<o, k>> : k \in Format[o].must}
  IN own \cup UNION {Whole[m[2]] : m \in {x \in own : IsObject(x)}}

-----------------------------------------------------------------------------
(***************************************************************************)
(* Enumerations: the codes that the *_from_int functions know.             *)
(***************************************************************************)

EquipmentType == 0..3
ObjectType == 0..3
TimeConfidence == 0..39
PositionConfidence == 0..15
SpeedConfidence == 0..7
HeadingConfidence == 0..7
AccelerationConfidence == 0..7
AngularVelocityConfidence == 0..7
SizeValueConfidence == 0..13
PersonalDeviceUserType == 0..4
Attachment == 0..6
HumanPropelledType == 0..5
AnimalPropelledType == 0..3
MotorizedPropelledType == 0..5

Of(o, keys, codes) == [m \in {o} \X keys |-> codes]

Codes ==
  Of("sdsm", {"equipment_type"}, EquipmentType)
  @@ Of("sdsm", {"ref_pos_el_conf"}, PositionConfidence)
  @@ Of("detected_object_common_data", {"obj_type"}, ObjectType)
  @@ Of("detected_object_common_data", {"time_confidence"}, TimeConfidence)
  @@ Of("detected_object_common_data", {"speed_confidence", "speed_z_confidence"}, SpeedConfidence)
  @@ Of("detected_object_common_data", {"heading_conf"}, HeadingConfidence)
  @@ Of("detected_object_common_data", {"acc_cfd_x", "acc_cfd_y", "acc_cfd_z"}, AccelerationConfidence)
  @@ Of("detected_object_common_data", {"acc_cfd_yaw"}, AngularVelocityConfidence)
  @@ Of("pos_confidence", {"pos", "elevation"}, PositionConfidence)
  @@ Of("obst_size_confidence", {"width_confidence", "length_confidence", "height_confidence"},
        SizeValueConfidence)
  @@ Of("detected_vru_data", {"basic_type"}, PersonalDeviceUserType)
  @@ Of("detected_vru_data", {"attachment"}, Attachment)
  @@ Of("propulsion", {"human"}, HumanPropelledType)
  @@ Of("propulsion", {"animal"}, AnimalPropelledType)
  @@ Of("propulsion", {"motor"}, MotorizedPropelledType)
  @@ Of("veh_attitude_confidence", {"pitch_confidence", "roll_confidence", "yaw_confidence"},
        HeadingConfidence)
  @@ Of("veh_ang_vel_confidence", {"pitch_rate_confidence", "roll_rate_confidence"},
        AngularVelocityConfidence)
  @@ Of("vehicle_size_confidence",
        {"vehicle_width_confidence", "vehicle_length_confidence", "vehicle_height_confidence"},
        SizeValueConfidence)

-----------------------------------------------------------------------------
(***************************************************************************)
(* The serializer writes every member that a message has, two of them      *)
(* under a name of its own.                                                *)
(***************************************************************************)

SpeedZConfidence == <<"detected_object_common_data", "speed_z_confidence">>
ClassConfidence == <<"detected_vehicle_data", "class_conf">>
OffsetZ == <<"pos", "offset_z">>

Key(m) ==
  CASE m = SpeedZConfidence -> "speed_confidence_z"
    [] m = ClassConfidence -> "vehicle_class_conf"
    [] OTHER -> m[2]

\* to_json: a code stays with its member. Integers are read back: a negative rate
\* is written as an unsigned one, read as one of 64 bits and cut back to an int.
Written(message) ==
  [members |-> {<<m[1], Key(m)>> : m \in message.members},
   codes   |-> [m \in {x \in DOMAIN message.codes : Key(x) = x[2]} |-> message.codes[m]]]

-----------------------------------------------------------------------------
(***************************************************************************)
(* The deserializer requires the members that an object must have, and     *)
(* more; it knows those it may have, but for the third offset.             *)
(***************************************************************************)

MutantAlsoRequired(o) ==
  CASE o = "obst_size" -> {"height"}
    [] o = "vehicle_size_confidence" -> {"vehicle_height_confidence"}
    [] OTHER -> {}

AlsoRequired(o) ==
  CASE o = "obst_size" -> {"height"}
    [] o = "veh_ang_vel_confidence" -> {"pitch_rate_confidence", "roll_rate_confidence"}
    [] OTHER -> {}

Complete(o, members) ==
  /\ \A k \in Format[o].must \cup AlsoRequired(o) : <<o, k>> \in members
  /\ o = "propulsion" => \E k \in Format[o].may : <<o, k>> \in members

Known(members) ==
  {m \in members : m # OffsetZ /\ m[2] \in Format[m[1]].must \cup Format[m[1]].may}

\* A code is checked but for the confidence in the height of a vehicle.
Unchecked == <<"vehicle_size_confidence", "vehicle_height_confidence">>

\* from_json
Read(json) ==
  LET known == Known(json.members)
      codes == [m \in DOMAIN json.codes \cap known |-> json.codes[m]]
  IN IF /\ \A o \in ObjectsOf(json.members) : Complete(o, json.members)
        /\ \A m \in DOMAIN codes \ {Unchecked} : codes[m] \in Codes[m]
     THEN [members |-> known, codes |-> codes]
     ELSE Throws

=============================================================================
