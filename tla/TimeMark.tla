------------------------------ MODULE TimeMark ------------------------------
(***************************************************************************)
(* The times of a SPaT message: J2735 TimeMarks, tenths of a second of     *)
(* "the" hour. time_change_details and intersection_state convert epoch    *)
(* milliseconds and offsets to marks; every reader converts a mark back    *)
(* with the hour in which it reads.                                        *)
(***************************************************************************)
EXTENDS Integers

CONSTANTS
  HourMs,   \* 3600000
  TenthMs   \* 100

ASSUME HourAssumption ==
  /\ HourMs \in Nat \ {0} /\ TenthMs \in Nat \ {0}
  /\ HourMs % TenthMs = 0

HourStart(time) == time - (time % HourMs)

\* 36000 stands for a time at or after the end of the hour, 36001 for no time.
LastMark == HourMs \div TenthMs
UnsetMark == LastMark + 1
Mark == 0 .. UnsetMark

\* convert_msepoch_to_hour_tenth_secs
MarkOfEpoch(time, now) ==
  LET tenths == (time - HourStart(now)) \div TenthMs IN
  IF HourStart(now) > time THEN 0
  ELSE IF tenths >= LastMark THEN LastMark ELSE tenths

\* convert_offset, for an offset in tenths of a second.
MarkOfOffset(tenths, now) == ((now + tenths * TenthMs) % HourMs) \div TenthMs

\* convert_hour_tenth_secs2epoch_ts
EpochOfMark(mark, now) == HourStart(now) + mark * TenthMs

=============================================================================
