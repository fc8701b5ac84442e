------------------------------ MODULE Calendar ------------------------------
(***************************************************************************)
(* The calendar of src/src/inbox.rs: the arithmetic that turns a day       *)
(* number and a second into a date and a time, and, to compare it with,    *)
(* the calendar as everyone knows it.                                      *)
(***************************************************************************)
EXTENDS Integers

\* Rust's / on i64, for a divisor above zero: towards zero.
Quotient(a, b) == IF a >= 0 THEN a \div b ELSE -((-a) \div b)

DaysPerEra == 146097

\* Days of the year of an era, which begins on the first of March, before the
\* given one begins; and those of a year before the given month.
DaysBeforeYear(y) == 365 * y + y \div 4 - y \div 100
DaysBeforeMonth(m) == (153 * m + 2) \div 5

\* The slip: years that end a century are leap years.
YearOfEraWithoutCenturies(doe) == (doe - doe \div 1460) \div 365

\* The year of an era that a day of the era is in.
YearOfEra(doe) ==
  (doe - doe \div 1460 + doe \div 36524 - doe \div 146096) \div 365

\* The date of a day of an era.
DateInEra(era, doe) ==
  LET yoe == YearOfEra(doe)
      doy == doe - DaysBeforeYear(yoe)
      mp == (5 * doy + 2) \div 153
      month == IF mp < 10 THEN mp + 3 ELSE mp - 9
      year == yoe + era * 400
  IN [year |-> IF month <= 2 THEN year + 1 ELSE year,
      month |-> month, day |-> doy - DaysBeforeMonth(mp) + 1]

\* civil_from_days: day 0 is the first of January 1970.
CivilFromDays(days) ==
  LET shifted == days + 719468
      era == Quotient(IF shifted >= 0 THEN shifted ELSE shifted - (DaysPerEra - 1),
                      DaysPerEra)
  IN DateInEra(era, shifted - era * DaysPerEra)

\* The slip: / and % in the place of div_euclid and rem_euclid.
UtcPartsTruncating(seconds) ==
  LET days == Quotient(seconds, 86400)
      timeOfDay == seconds - days * 86400
  IN [date |-> CivilFromDays(days), hour |-> Quotient(timeOfDay, 3600),
      minute |-> Quotient(timeOfDay, 60) % 60, second |-> timeOfDay % 60]

\* utc_parts: \div and % of TLA+ are div_euclid and rem_euclid.
UtcParts(seconds) ==
  LET timeOfDay == seconds % 86400
  IN [date |-> CivilFromDays(seconds \div 86400), hour |-> timeOfDay \div 3600,
      minute |-> (timeOfDay \div 60) % 60, second |-> timeOfDay % 60]

\* validate_occurred, for a value of the form YYYY-MM-DD.
ValidOccurred(date) == date.month \in 1 .. 12 /\ date.day \in 1 .. 31

----------------------------------------------------------------------------
(* The calendar everyone knows.                                            *)

IsLeap(year) == year % 4 = 0 /\ (year % 100 # 0 \/ year % 400 = 0)

DaysInMonth(year, month) ==
  CASE month \in {4, 6, 9, 11} -> 30
    [] month = 2 -> IF IsLeap(year) THEN 29 ELSE 28
    [] OTHER -> 31

\* The date of the day after.
DayAfter(d) ==
  IF d.day < DaysInMonth(d.year, d.month) THEN [d EXCEPT !.day = @ + 1]
  ELSE IF d.month < 12 THEN [year |-> d.year, month |-> d.month + 1, day |-> 1]
  ELSE [year |-> d.year + 1, month |-> 1, day |-> 1]

Epoch == [year |-> 1970, month |-> 1, day |-> 1]
=============================================================================
