------------------------------ MODULE MCMessages ------------------------------
(***************************************************************************)
(* What the services make of messages and of their configuration, side by  *)
(* side: in each behaviour one part moves and the others stay as they      *)
(* began. The part that is extended here is the sharing of sensor data:    *)
(* Init, Next, vars and its properties are its own.                        *)
(***************************************************************************)
EXTENDS SensorDataSharing, TLC

CONSTANTS
  o1, o2, p1, p2,  \* two detected objects, names of two parameters
  Unfinished, Throws

VARIABLES
  part,
  steps, bsmTopic, pathTopic, operationTopic, bsms, paths, operations, now, lastClean, joining,
  joined,
  stride, limit, pointToPoint, vehicle, start, offsets, index, nextIndex, accumulated, position,
  path,
  way, at, along, side, within, lag, lead,
  message, added, json, result, own,
  detection, clock, conversion, place, velocity, sdsm,
  second, file, map, level, last_modified, loaded, stage, time, got

joinVars == <<steps, bsmTopic, pathTopic, operationTopic, bsms, paths, operations, now, lastClean,
              joining, joined>>
pathVars == <<stride, limit, pointToPoint, vehicle, start, offsets, index, nextIndex, accumulated,
              position, path>>
placeVars == <<way, at, along, side, within, lag, lead>>
codecVars == <<message, added, json, result, own>>
detectionVars == <<detection, clock, conversion, place, velocity, sdsm>>
fileVars == <<second, file, map, level, last_modified, loaded, stage, time, got>>
allVars == <<part, joinVars, pathVars, placeVars, vars, codecVars, detectionVars, fileVars>>

-----------------------------------------------------------------------------
\* A vehicle whose second BSM may have the digits of the first.
Join == INSTANCE VehicleStatusIntent WITH
  Vehicles <- {<<5>>},
  Numbers <- <<{<<<<1>>, <<2, 3>>>>}, {<<<<1, 2>>, <<3>>>>, <<<<2>>, <<2, 3>>>>}>>,
  Duration <- 2, Expire <- 1, Clean <- 1, Foreign <- TRUE,
  MaxSteps <- 2, MaxTime <- 4, pc <- joining

Path == INSTANCE EstimatedPath WITH
  Strides <- {1, 2, 3}, Counts <- {0, 1, 2}, Offsets <- {0, 1, 2}, LaneEnd <- 20,
  MaxOffsets <- 5

-----------------------------------------------------------------------------
(***************************************************************************)
(* Two roads that cross, with two ways each: straight on, and a turn into  *)
(* the other one. The center lines have a point every 0.5 m.               *)
(***************************************************************************)

Links == {"s straight", "s right", "w straight", "w left"}

Lanelets == Links \cup {"s approach", "w approach", "s entry", "w entry", "n", "e"}

Following ==
  "s approach" :> <<"s entry">> @@ "w approach" :> <<"w entry">>
  @@ "s entry" :> <<"s straight", "s right">> @@ "w entry" :> <<"w left", "w straight">>
  @@ "s straight" :> <<"n">> @@ "w left" :> <<"n">>
  @@ "s right" :> <<"e">> @@ "w straight" :> <<"e">>
  @@ "n" :> <<"s approach">> @@ "e" :> <<"w approach">>

Previous ==
  "s entry" :> <<"s approach">> @@ "w entry" :> <<"w approach">>
  @@ "s straight" :> <<"s entry">> @@ "s right" :> <<"s entry">>
  @@ "w straight" :> <<"w entry">> @@ "w left" :> <<"w entry">>
  @@ "n" :> <<"w left", "s straight">> @@ "e" :> <<"s right", "w straight">>
  @@ "s approach" :> <<"n">> @@ "w approach" :> <<"e">>

Direction ==
  [l \in Lanelets |->
     CASE l \in {"s straight", "w straight"} -> "straight"
       [] l = "s right" -> "right" [] l = "w left" -> "left" [] OTHER -> None]

Place == INSTANCE MessageTranslation WITH
  AllWayStop <- {"s entry", "w entry"}, Crossing <- 20,
  Vertices <- [l \in Lanelets |-> [i \in 1..(IF l \in Links THEN 9 ELSE 3) |-> 5 * (i - 1)]],
  Sides <- {0, 8}, Lags <- {0, 10}, Leads <- {0, 17, 60}

-----------------------------------------------------------------------------
Codec == INSTANCE SdsmCodec WITH MaxOptional <- 4

\* Each threshold of an accuracy, and what is just below it.
Accuracies ==
  LET thresholds == {350000, 150000, 75000, 55000, 35000, 15000, 10000, 7500, 3500, 3000, 1500, 750,
                     550, 350, 150, 75, 35, 30, 15}
  IN thresholds \cup {t - 1 : t \in thresholds}

Detected == INSTANCE DetectionToSdsm WITH
  Positions <- {<<-15, 27, 9>>, <<100, -33, -10>>, <<0, 0, 25>>},
  Clocks <- {0, 59999, 86400000 + 3660001}, Garbage <- {0, 7},
  now <- clock, pc <- conversion, position <- place, message <- sdsm

-----------------------------------------------------------------------------
(***************************************************************************)
(* Configuration files: two complete ones that differ in a value and in    *)
(* the level, one that lacks a parameter, and one whose second entry is    *)
(* refused after the first was applied.                                    *)
(***************************************************************************)

Entry(name, type, value) == [name |-> name, type |-> type, value |-> value, valid |-> TRUE]

Contents ==
  {[level |-> "info", entries |-> <<Entry(p1, "INTEGER", 1), Entry(p2, "STRING", 1)>>],
   [level |-> "debug", entries |-> <<Entry(p1, "INTEGER", 2), Entry(p2, "STRING", 1)>>],
   [level |-> "info", entries |-> <<Entry(p2, "STRING", 2)>>],
   [level |-> "debug", entries |-> <<Entry(p1, "DOUBLE", 3),
                                     [Entry(p2, "STRING", 1) EXCEPT !.valid = FALSE]>>]}

File == INSTANCE StreetsConfiguration WITH
  Names <- {p1, p2}, Levels <- {"info", "debug"}, MaxSecond <- 3

-----------------------------------------------------------------------------
\* What the parts assume of their constants.
ASSUME MessagesAssumption ==
  /\ Join!VehicleStatusIntentAssumption /\ Path!EstimatedPathAssumption
  /\ Place!MessageTranslationAssumption
  /\ SensorDataSharingAssumption /\ NoneAssumption
  /\ Codec!SdsmCodecAssumption /\ Detected!DetectionToSdsmAssumption
  /\ File!ContentsAssumption /\ File!MaxSecondAssumption

\* A part that does not move has one state to stay in.
PathBegan ==
  /\ stride = 1 /\ limit = 0 /\ pointToPoint = TRUE
  /\ start = 0 /\ vehicle = 0 /\ offsets = <<>>

PlaceBegan == way = "s straight" /\ side = 0

DetectionBegan ==
  /\ clock = 0
  /\ detection = [type |-> "CAR", direction |-> 0, position |-> <<0, 0, 25>>, accuracy |-> 15,
                  has |-> {}, usable |-> TRUE]

FileBegan ==
  /\ file = [mtime |-> 1, content |-> CHOOSE c \in Contents : File!Complete(c)]
  /\ got = [name |-> p1, answer |-> "none"]

AllInit ==
  /\ part \in {"join", "path", "place", "sharing", "codec", "detection", "file"}
  /\ part = "sharing" \/ simulation = TRUE
  /\ IF part = "path" THEN TRUE ELSE PathBegan
  /\ IF part = "place" THEN TRUE ELSE PlaceBegan
  /\ IF part = "detection" THEN TRUE ELSE DetectionBegan
  /\ IF part = "file" THEN TRUE ELSE FileBegan
  /\ Join!Init /\ Path!Init /\ Place!Init /\ Init /\ Codec!Init /\ Detected!Init
  /\ File!Init

JoinStep ==
  /\ part = "join" /\ Join!Next
  /\ UNCHANGED <<part, pathVars, placeVars, vars, codecVars, detectionVars, fileVars>>

PathStep ==
  /\ part = "path" /\ Path!Next
  /\ UNCHANGED <<part, joinVars, placeVars, vars, codecVars, detectionVars, fileVars>>

PlaceStep ==
  /\ part = "place" /\ Place!Next
  /\ UNCHANGED <<part, joinVars, pathVars, vars, codecVars, detectionVars, fileVars>>

SharingStep ==
  /\ part = "sharing" /\ Next
  /\ UNCHANGED <<part, joinVars, pathVars, placeVars, codecVars, detectionVars, fileVars>>

CodecStep ==
  /\ part = "codec" /\ Codec!Next
  /\ UNCHANGED <<part, joinVars, pathVars, placeVars, vars, detectionVars, fileVars>>

DetectionStep ==
  /\ part = "detection" /\ Detected!Next
  /\ UNCHANGED <<part, joinVars, pathVars, placeVars, vars, codecVars, fileVars>>

FileStep ==
  /\ part = "file" /\ File!Next
  /\ UNCHANGED <<part, joinVars, pathVars, placeVars, vars, codecVars, detectionVars>>

AllNext ==
  JoinStep \/ PathStep \/ PlaceStep \/ SharingStep \/ CodecStep \/ DetectionStep \/ FileStep

AllSpec == AllInit /\ [][AllNext]_allVars

-----------------------------------------------------------------------------
(***************************************************************************)
(* What each part promises, put together from what its module states and   *)
(* explains.                                                               *)
(***************************************************************************)

\* A vehicle status and intent joins messages that belong together, those of a vehicle
\* in order and each once; what finds no partner is forgotten in the end.
JoinsWhatBelongs ==
  /\ [](part = "join" =>
         Join!TypeOK /\ Join!JoinsWhatBelongs /\ Join!InOrderAndOnce /\ Join!StoresForget)
  /\ [][part = "join" => Join!JoinsWhatItCan]_allVars

\* Distances of the estimated path are those of the trajectory, thinned out or not.
DistancesAreOfTheTrajectory ==
  part = "path" => Path!TypeOK /\ Path!DistancesAreOfTheTrajectory

\* The lanelet told is the one driven on, also where links overlap, once the trajectory
\* tells a direction and the vehicle is not exactly on its center line; entry, link and
\* departure are the vehicle's own, and the distance to the lanelet's end is not told
\* too long.
TellsTheRoad ==
  part = "place" =>
    Place!TypeOK /\ Place!TellsTheLanelet /\ Place!TellsTheWay /\ Place!NeverTooFar

\* An SDSM that is written is read back, whatever optional members it has, up to those
\* that SdsmCodec lists, and a message with a code that is not known is refused.
ReadsBack ==
  part = "codec" => Codec!TypeOK /\ Codec!ReadsBack /\ Codec!UnknownCodesRefused

\* What is published of a detection can be read, and tells the place and the heading
\* in the frame of the message, the time of the day and the nearest accuracy.
TellsWhatWasDetected ==
  part = "detection" =>
    /\ Detected!TypeOK /\ Detected!PublishedIsReadable
    /\ Detected!TellsWhereTo /\ Detected!TellsTheTime /\ Detected!TellsNearestAccuracy

\* What a get answers of a parameter that the last accepted file names is of that file, a
\* parameter once found stays found, and the answer is stale only within the second of a
\* save.
ConfigurationIsWhole ==
  /\ [](part = "file" => File!TypeOK /\ File!AnswersFromOneFile)
  /\ [][part = "file" => File!StillFound /\ File!HasTheLastSave]_allVars

=============================================================================
