------------------------------ MODULE Calendar ------------------------------
(***************************************************************************)
(* A calendar: dates are [year, day], a year has YearDays days, of which   *)
(* LeapDay exists in LeapYears only.                                       *)
(***************************************************************************)
EXTENDS Integers, FiniteSets

CONSTANTS YearDays, LeapDay, LeapYears

ASSUME CalendarAssumption == YearDays \in Nat \ {0} /\ LeapDay \in 1..YearDays

DateExists(d) ==
  d.day \in 1..YearDays /\ (d.day # LeapDay \/ d.year \in LeapYears)

Dates == {d \in [year : Nat \ {0}, day : 1..YearDays] : DateExists(d)}

(* The number of days from the start of the calendar.                       *)
Ordinal(d) ==
  d.year * YearDays + d.day
    - Cardinality({y \in 0..d.year :
                     y \notin LeapYears /\ (y < d.year \/ d.day > LeapDay)})

(* The date n days after d, for n up to a year.                             *)
Later(d, n) ==
  CHOOSE e \in [year : d.year .. d.year + 1, day : 1..YearDays] :
    DateExists(e) /\ Ordinal(e) = Ordinal(d) + n

=============================================================================
