------------------------------ MODULE SdsmCodec ------------------------------
(***************************************************************************)
(* A message is built up, written and read back; or another node's JSON is *)
(* read, with a code that this one may not know.                           *)
(***************************************************************************)
EXTENDS SdsmFormat, FiniteSets

CONSTANTS MaxOptional,  \* bound: optional members added to a message
          None

SdsmCodecAssumption == MaxOptional \in Nat

VARIABLES
  message, \* what was built
  added,
  json,    \* what was written or received, or None
  result,  \* what was read, or None
  own      \* whether the JSON is this node's

vars == <<message, added, json, result, own>>

Init ==
  /\ message = [members |-> Whole["sdsm"], codes |-> <<>>]
  /\ added = 0 /\ json = None /\ result = None /\ own = TRUE

\* An optional member, with what it must have; a choice comes with one of its
\* members.
Extensions(m) ==
  IF ~IsObject(m) THEN {{m}}
  ELSE IF m[2] \notin Alternatives THEN {{m} \cup Whole[m[2]]}
  ELSE {{m, <<m[2], k>>} \cup (IF IsObject(<<m[2], k>>) THEN Whole[k] ELSE {}) : k \in Format[m[2]].may}

Add ==
  /\ json = None /\ added < MaxOptional
  /\ \E o \in ObjectsOf(message.members) \ Alternatives : \E k \in Format[o].may :
       /\ <<o, k>> \notin message.members
       /\ \E members \in Extensions(<<o, k>>) : message' = [message EXCEPT !.members = @ \cup members]
  /\ added' = added + 1
  /\ UNCHANGED <<json, result, own>>

Write ==
  /\ json = None
  /\ json' = Written(message)
  /\ UNCHANGED <<message, added, result, own>>

\* Another node writes the names of the document, and one code on purpose.
Receive ==
  /\ json = None
  /\ \E m \in DOMAIN Codes \cap message.members :
       \E code \in {0, Cardinality(Codes[m]) - 1, Cardinality(Codes[m])} :
         json' = [message EXCEPT !.codes = m :> code]
  /\ own' = FALSE
  /\ UNCHANGED <<message, added, result>>

ReadJson ==
  /\ json # None /\ result = None
  /\ result' = Read(json)
  /\ UNCHANGED <<message, added, json, own>>

Next == Add \/ Write \/ Receive \/ ReadJson

Spec == Init /\ [][Next]_vars

-----------------------------------------------------------------------------
\* Every object of a message is whole, and a choice is made once.
TypeOK ==
  /\ added \in 0..MaxOptional
  /\ \A o \in ObjectsOf(message.members) :
       /\ \A k \in Format[o].must : <<o, k>> \in message.members
       /\ o \in Alternatives => Cardinality({k \in Format[o].may : <<o, k>> \in message.members}) = 1
  /\ own /\ json # None => Cardinality(json.members) = Cardinality(message.members)

\* What is written is read back, but for the members whose name or whose
\* reading differs, and unless a member that is optional is required
\* (to_json, from_json and all the functions they call).
ReadsBack ==
  own /\ result # None =>
    LET lost == {SpeedZConfidence, ClassConfidence, OffsetZ}
        refused == \/ <<"obst_size", "width">> \in message.members
                      /\ <<"obst_size", "height">> \notin message.members
                   \/ "veh_ang_vel_confidence" \in ObjectsOf(message.members)
                      /\ ~ Whole["veh_ang_vel_confidence"] \cup
                           {<<"veh_ang_vel_confidence", k>> : k \in Format["veh_ang_vel_confidence"].may}
                           \subseteq message.members
    IN IF refused THEN result = Throws ELSE result.members = message.members \ lost

\* A code that the reader does not know is not taken over, with one exception.
UnknownCodesRefused ==
  ~own /\ result # None =>
    \A m \in DOMAIN json.codes \ {Unchecked} : json.codes[m] \notin Codes[m] => result = Throws

=============================================================================
