------------------------ MODULE StreetsConfiguration ------------------------
(***************************************************************************)
(* The singleton streets_configuration: parameters read from manifest.json *)
(* at start-up and read again by any get_..._config that finds the file    *)
(* modified. An editor saves the file in two steps, so that a reader may   *)
(* find it unfinished; the file system dates a save to the second.         *)
(***************************************************************************)
EXTENDS Integers, SequencesExt

CONSTANTS
  Names,      \* names of parameters
  Levels,     \* log levels
  Contents,   \* what may be saved: [level, entries], a sequence of parameters
  Unfinished, \* a file that does not parse: none of the contents
  MaxSecond   \* bound: the clock stops here

Types == {"STRING", "INTEGER", "DOUBLE", "BOOL"}

\* A parameter whose value is of its type, or one that fromJson refuses.
Parameter == [name : Names, type : Types, value : Nat, valid : BOOLEAN]

ContentsAssumption ==
  /\ \A c \in Contents : c.level \in Levels /\ c.entries \in Seq(Parameter)
  /\ Unfinished \notin Contents

MaxSecondAssumption == MaxSecond \in Nat

VARIABLES
  second,        \* the clock of the file system
  file,          \* [mtime, content]
  map,           \* configuration_map: the parameters that there are, by name
  level,         \* the log level
  last_modified,
  loaded,        \* the content that was applied to the map last, in full
  stage,         \* of a get: "idle", "check", "parse", "find", "threw"
  time,          \* check_update: the modification time it works with
  got            \* the last answer: [name, answer]

vars == <<second, file, map, level, last_modified, loaded, stage, time, got>>

TypeOK ==
  /\ second \in Nat
  /\ file.mtime \in 0 .. second /\ file.content \in Contents \cup {Unfinished}
  /\ DOMAIN map \subseteq Names
  /\ \A n \in DOMAIN map : map[n] \in Parameter /\ map[n].name = n /\ map[n].valid
  /\ level \in Levels /\ loaded \in Contents
  /\ {last_modified, time} \subseteq 0 .. second
  /\ stage \in {"idle", "check", "parse", "find", "threw"}
  /\ got \in [name : Names, answer : {"none", "value", "undefined", "threw"}]

-----------------------------------------------------------------------------
(***************************************************************************)
(* parse_configurations_array: the parameters up to the first one that is  *)
(* refused replace those of the same name; nothing is ever removed.        *)
(***************************************************************************)

MutantAccepted(entries) == entries

Accepted(entries) ==
  LET refused == {i \in DOMAIN entries : ~ entries[i].valid}
  IN IF refused = {} THEN entries
     ELSE SubSeq(entries, 1, (CHOOSE i \in refused : \A j \in refused : i <= j) - 1)

\* A name that is there is erased and inserted again.
Put(m, parameter) ==
  [n \in DOMAIN m \cup {parameter.name} |-> IF n = parameter.name THEN parameter ELSE m[n]]

Updated(m, entries) == FoldLeft(Put, m, Accepted(entries))

Complete(content) == \A i \in DOMAIN content.entries : content.entries[i].valid

\* The constructor, with a file that it accepts. It does not note its time.
Init ==
  /\ second = 1
  /\ \E c \in Contents :
       /\ Complete(c)
       /\ file = [mtime |-> 1, content |-> c]
       /\ map = Updated([n \in {} |-> 0], c.entries)
       /\ level = c.level /\ loaded = c
  /\ last_modified = 0 /\ time = 0
  /\ stage = "idle"
  /\ \E n \in Names : got = [name |-> n, answer |-> "none"]

-----------------------------------------------------------------------------
(***************************************************************************)
(* The editor and the clock (external).                                    *)
(***************************************************************************)

Tick ==
  /\ second < MaxSecond
  /\ second' = second + 1
  /\ UNCHANGED <<file, map, level, last_modified, loaded, stage, time, got>>

BeginSave ==
  /\ file' = [mtime |-> second, content |-> Unfinished]
  /\ UNCHANGED <<second, map, level, last_modified, loaded, stage, time, got>>

EndSave ==
  /\ file.content = Unfinished
  /\ \E c \in Contents : file' = [mtime |-> second, content |-> c]
  /\ UNCHANGED <<second, map, level, last_modified, loaded, stage, time, got>>

-----------------------------------------------------------------------------
(***************************************************************************)
(* get_string_config and the like. Nothing guards the map: in every service *)
(* one thread at a time asks for parameters (README, Not modelled).         *)
(***************************************************************************)

Get ==
  /\ stage \in {"idle", "threw"}
  /\ stage' = "check"
  /\ UNCHANGED <<second, file, map, level, last_modified, loaded, time, got>>

\* check_update: the modification time ...
CheckTime ==
  /\ stage = "check"
  /\ time' = file.mtime
  /\ stage' = IF file.mtime > last_modified THEN "parse" ELSE "find"
  /\ UNCHANGED <<second, file, map, level, last_modified, loaded, got>>

MutantParseFile ==
  /\ stage = "parse"
  /\ last_modified' = time
  /\ IF file.content = Unfinished
       THEN stage' = "threw" /\ UNCHANGED <<map, level, loaded>>
       ELSE /\ level' = file.content.level
            /\ map' = Updated(map, file.content.entries)
            /\ IF Complete(file.content)
                 THEN loaded' = file.content /\ stage' = "find"
                 ELSE stage' = "threw" /\ UNCHANGED loaded
  /\ UNCHANGED <<second, file, time, got>>

\* ... then the file. The time is noted when all of it was accepted; what was
\* accepted before an exception stays.
ParseFile ==
  /\ stage = "parse"
  /\ IF file.content = Unfinished
       THEN stage' = "threw" /\ UNCHANGED <<map, level, last_modified, loaded>>
       ELSE /\ level' = file.content.level
            /\ map' = Updated(map, file.content.entries)
            /\ IF Complete(file.content)
                 THEN last_modified' = time /\ loaded' = file.content /\ stage' = "find"
                 ELSE stage' = "threw" /\ UNCHANGED <<last_modified, loaded>>
  /\ UNCHANGED <<second, file, time, got>>

\* The value of a parameter of the type asked for; another type throws. For a name
\* that the map does not hold it reads past the end of the map.
FindIn(m, name, type) ==
  CASE name \notin DOMAIN m -> "undefined"
    [] name \in DOMAIN m /\ m[name].type = type -> "value"
    [] OTHER -> "threw"

Find ==
  /\ stage = "find"
  /\ \E n \in Names, t \in Types : got' = [name |-> n, answer |-> FindIn(map, n, t)]
  /\ stage' = "idle"
  /\ UNCHANGED <<second, file, map, level, last_modified, loaded, time>>

Next == Tick \/ BeginSave \/ EndSave \/ Get \/ CheckTime \/ ParseFile \/ Find

Spec == Init /\ [][Next]_vars

-----------------------------------------------------------------------------
(***************************************************************************)
(* Properties.                                                             *)
(***************************************************************************)

NamesOf(content) == {content.entries[i].name : i \in DOMAIN content.entries}

\* What a get returns of the parameters that the last accepted file names is of that file:
\* a file that was refused halfway leaves nothing behind for the next one. A name that
\* only an earlier file had keeps its value.
AnswersFromOneFile ==
  stage = "find" =>
    /\ level = loaded.level
    /\ NamesOf(loaded) \subseteq DOMAIN map
    /\ \A n \in NamesOf(loaded) :
         map[n] = Last(SelectSeq(loaded.entries, LAMBDA e : e.name = n))

\* A parameter that was found once is found by every later get, whatever was saved
\* and refused in between: it is never looked for past the end of the map.
StillFound ==
  got.name = got'.name /\ got'.answer = "undefined" => got.answer \in {"none", "undefined"}

\* A get that does not read the file has its last save, unless that save fell into
\* the second of the save that was read (also when it is not finished yet).
HasTheLastSave ==
  stage = "check" /\ stage' = "find" => loaded = file.content \/ file.mtime = last_modified

=============================================================================
