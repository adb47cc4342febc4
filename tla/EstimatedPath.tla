---------------------------- MODULE EstimatedPath ----------------------------
(***************************************************************************)
(* The estimated path of a vehicle status and intent: the start of the     *)
(* trajectory of the MobilityPath and the points of its offsets, thinned   *)
(* out. One step is one turn of the loop over the offsets. Positions are   *)
(* distances along the lanelet that the vehicle drives on.                 *)
(***************************************************************************)
EXTENDS Integers, SequencesExt, FiniteSetsExt

CONSTANTS
  Strides,     \* values of mobility_path_trajectory_offset_duration
  Counts,      \* values of vsi_est_path_count, 0 is no limit
  Offsets,     \* values of an offset
  LaneEnd,     \* where the lanelet ends
  MaxOffsets   \* bound: points in a trajectory, 60 in the message

EstimatedPathAssumption ==
  /\ Strides \subseteq Nat \ {0} /\ Counts \subseteq Nat /\ Offsets \subseteq Nat
  /\ LaneEnd \in Nat /\ MaxOffsets \in Nat

VARIABLES
  stride, limit, pointToPoint,  \* the configuration
  vehicle, start, offsets,      \* position of the vehicle, and the MobilityPath
  index,       \* offset_index, counted from 0
  nextIndex,
  accumulated, \* accumulated_distance_to_previous_point
  position,    \* ecef_x, ecef_y, ecef_z
  path         \* est_path_v

config == <<stride, limit, pointToPoint, vehicle, start, offsets>>
vars == <<config, index, nextIndex, accumulated, position, path>>

\* distance2_cur_lanelet_end
ToLaneEnd(p) == LaneEnd - p

Distance(p, q) == Max({p - q, q - p})

FirstPoint ==
  [distance |-> IF pointToPoint THEN Distance(start, vehicle) ELSE ToLaneEnd(start), time |-> 0]

Init ==
  /\ stride \in Strides /\ limit \in Counts /\ pointToPoint \in BOOLEAN
  /\ start \in 0..1 /\ vehicle \in 0..1
  /\ offsets \in SeqOf(Offsets, MaxOffsets)
  /\ index = 0 /\ nextIndex = 0 /\ accumulated = 0
  /\ position = start
  /\ path = <<FirstPoint>>

\* The loop ends after the point that makes count greater than the limit.
HasRoom == limit = 0 \/ Len(path) <= limit

Walked(offset) == IF pointToPoint THEN accumulated + offset ELSE accumulated

\* An offset that is not the next one to be taken, or the first, adds no point.
Skip(offset) ==
  /\ index # nextIndex \/ index = 0
  /\ nextIndex' = IF index = nextIndex THEN nextIndex + stride ELSE nextIndex
  /\ accumulated' = Walked(offset)
  /\ UNCHANGED path

MutantAdd(offset) ==
  /\ index = nextIndex /\ index # 0
  /\ nextIndex' = nextIndex + stride
  /\ path' = Append(path, [distance |-> IF pointToPoint THEN offset ELSE ToLaneEnd(position + offset),
                           time |-> 100 * (index + 1)])
  /\ accumulated' = 0

\* One that is adds a point, at the time of the offset.
Add(offset) ==
  /\ index = nextIndex /\ index # 0
  /\ nextIndex' = nextIndex + stride
  /\ path' = Append(path, [distance |-> IF pointToPoint THEN Walked(offset)
                                        ELSE ToLaneEnd(position + offset),
                           time |-> 100 * (index + 1)])
  /\ accumulated' = 0

\* One turn of the loop.
Turn ==
  /\ index < Len(offsets)
  /\ HasRoom
  /\ LET offset == offsets[index + 1] IN
     /\ position' = position + offset
     /\ Skip(offset) \/ Add(offset)
  /\ index' = index + 1
  /\ UNCHANGED config

Next == Turn

Spec == Init /\ [][Next]_vars

-----------------------------------------------------------------------------
\* Where the trajectory is after so many offsets.
PositionAfter(n) == FoldLeft(LAMBDA p, o : p + o, start, SubSeq(offsets, 1, n))

\* The point of the trajectory that a point of the path stands for.
PointOf(i) == path[i].time \div 100

\* Every variable has its type, and the path starts where the trajectory does.
TypeOK ==
  /\ index \in 0..Len(offsets)
  /\ \E n \in 0..(MaxOffsets + 1) : nextIndex = n * stride
  /\ nextIndex >= index
  /\ position = PositionAfter(index)
  /\ path[1] = FirstPoint

\* The distance of each point is the distance of the trajectory at the time of
\* that point: to the point before, whatever was skipped between the two, or to
\* the end of the lanelet (compose_vehicle_status_intent, both settings of
\* is_est_path_p2p_distance_only).
DistancesAreOfTheTrajectory ==
  \A i \in 2..Len(path) :
    path[i].distance =
      IF pointToPoint THEN PositionAfter(PointOf(i)) - PositionAfter(PointOf(i - 1))
                      ELSE ToLaneEnd(PositionAfter(PointOf(i)))

=============================================================================
