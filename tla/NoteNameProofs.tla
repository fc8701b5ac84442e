--------------------------- MODULE NoteNameProofs ---------------------------
(***************************************************************************)
(* The arithmetic of Calendar is the calendar everyone knows, on every day *)
(* there is, and so are the dates and times that NoteName walks through;   *)
(* the slug of every title is its words, joined and cut off.               *)
(***************************************************************************)
EXTENDS NoteName, FiniteSetTheorems, WellFoundedInduction, SequenceTheorems, TLAPS

\* A day of an era.
DayOfEra(doe) == doe \in Int /\ 0 <= doe /\ doe < DaysPerEra

----------------------------------------------------------------------------
(* Years of an era.                                                        *)

\* YearOfEra finds the year a day is in; the last day of an era is in its last
\* year, which is one day longer than DaysBeforeYear counts.
LEMMA YearBounds ==
  ASSUME NEW doe, DayOfEra(doe),
         NEW y, y = YearOfEra(doe)
  PROVE  /\ y \in 0 .. 399
         /\ DaysBeforeYear(y) <= doe
         /\ doe # DaysPerEra - 1 => doe < DaysBeforeYear(y + 1)
         /\ doe = DaysPerEra - 1 => y = 399
<1> DEFINE a == doe \div 1460
           b == doe \div 36524
           c == doe \div 146096
           z == (doe - a + b - c) \div 365
<1>0. doe \in Int /\ 0 <= doe /\ doe <= 146096
  BY DEF DayOfEra, DaysPerEra
<1>1. doe \in Int /\ 0 <= doe /\ doe <= 146096 /\ z \in Int
  <2>1. a \in Int /\ b \in Int /\ c \in Int
    BY <1>0
  <2>. QED
    BY <2>1, <1>0
<1>2. 0 <= z /\ z <= 399
  BY <1>1
<1>3. 365 * z + z \div 4 - z \div 100 <= doe
  BY <1>1
<1>4. doe # 146096 => doe < 365 * (z + 1) + (z + 1) \div 4 - (z + 1) \div 100
  BY <1>1
<1>5. doe = 146096 => z = 399
  BY <1>1
<1>6. y = z
  BY DEF YearOfEra
<1>. QED
  BY <1>1, <1>2, <1>3, <1>4, <1>5, <1>6 DEF DaysBeforeYear, DaysPerEra

\* No day is in two years.
LEMMA YearUnique ==
  ASSUME NEW doe, DayOfEra(doe), doe # DaysPerEra - 1,
         NEW y \in 0 .. 399,
         DaysBeforeYear(y) <= doe, doe < DaysBeforeYear(y + 1)
  PROVE  YearOfEra(doe) = y
<1> DEFINE z == YearOfEra(doe)
<1>1. /\ z \in 0 .. 399
      /\ DaysBeforeYear(z) <= doe /\ doe < DaysBeforeYear(z + 1)
  BY YearBounds
<1>2. doe \in Int
  BY DEF DayOfEra
<1>. HIDE DEF z
<1>3. ASSUME z < y PROVE FALSE
  BY <1>1, <1>2, <1>3 DEF DaysBeforeYear
<1>4. ASSUME y < z PROVE FALSE
  BY <1>1, <1>2, <1>4 DEF DaysBeforeYear
<1>5. z = y
  BY <1>1, <1>3, <1>4
<1>. QED
  BY <1>5 DEF z

----------------------------------------------------------------------------
(* Eras.                                                                   *)

\* Every day is a day of an era, before year 0 as after it.
LEMMA DayHasEra ==
  ASSUME NEW d \in Int
  PROVE  \E era \in Int, doe \in Int :
           DayOfEra(doe) /\ d + 719468 = era * DaysPerEra + doe
<1> DEFINE e == (d + 719468) \div 146097
           r == (d + 719468) % 146097
<1>1. /\ e \in Int /\ r \in Int /\ 0 <= r /\ r < 146097
      /\ d + 719468 = e * 146097 + r
  OBVIOUS
<1>. HIDE DEF e, r
<1>2. DayOfEra(r) /\ d + 719468 = e * DaysPerEra + r
  BY <1>1 DEF DayOfEra, DaysPerEra
<1>. QED
  BY <1>1, <1>2

\* And civil_from_days finds them.
LEMMA EraOfDay ==
  ASSUME NEW era \in Int, NEW doe, DayOfEra(doe),
         NEW d \in Int, d + 719468 = era * DaysPerEra + doe
  PROVE  CivilFromDays(d) = DateInEra(era, doe)
<1> DEFINE s == d + 719468
           e == Quotient(IF s >= 0 THEN s ELSE s - (DaysPerEra - 1), DaysPerEra)
<1>1. s \in Int /\ doe \in Int /\ 0 <= doe /\ doe <= 146096
      /\ s = era * 146097 + doe
  <2>1. doe \in Int /\ 0 <= doe /\ doe <= 146096
    BY DEF DayOfEra, DaysPerEra
  <2>2. s = era * 146097 + doe
    BY DEF DaysPerEra
  <2>. QED
    BY <2>1, <2>2
<1>2. CASE s >= 0
  <2>1. s \div 146097 = era
    BY <1>1
  <2>. QED
    BY <2>1, <1>2, <1>1 DEF CivilFromDays, Quotient, DaysPerEra
<1>3. CASE s < 0
  <2>1. s - 146096 \in Int /\ s - 146096 < 0
    BY <1>1, <1>3
  <2>2. -((-(s - 146096)) \div 146097) = era
    BY <1>1, <1>3
  <2>3. e = era
    BY <2>1, <2>2, <1>3, <1>1 DEF Quotient, DaysPerEra
  <2>4. s - e * DaysPerEra = doe
    BY <2>3, <1>1 DEF DaysPerEra
  <2>. QED
    BY <2>3, <2>4 DEF CivilFromDays
<1>. QED
  BY <1>1, <1>2, <1>3

----------------------------------------------------------------------------
(* Days of a year that begins in March, and its months.                    *)

\* The days of year y of an era, whose February is in the year after.
YearLength(era, y) == IF IsLeap(y + 1 + era * 400) THEN 366 ELSE 365

\* The years are as long as leap years make them, and the last one ends the era.
LEMMA YearLengths ==
  ASSUME NEW era \in Int, NEW y \in Int, 0 <= y, y <= 399
  PROVE  /\ y # 399 => DaysBeforeYear(y + 1) = DaysBeforeYear(y) + YearLength(era, y)
         /\ y = 399 => /\ YearLength(era, y) = 366
                       /\ DaysPerEra = DaysBeforeYear(y) + YearLength(era, y)
<1>1. /\ (y + 1 + era * 400) % 4 = (y + 1) % 4
      /\ (y + 1 + era * 400) % 100 = (y + 1) % 100
      /\ (y + 1 + era * 400) % 400 = (y + 1) % 400
  OBVIOUS
<1>2. CASE y # 399
  BY <1>1, <1>2 DEF YearLength, IsLeap, DaysBeforeYear
<1>3. CASE y = 399
  BY <1>1, <1>3 DEF YearLength, IsLeap, DaysBeforeYear, DaysPerEra
<1>. QED
  BY <1>2, <1>3

\* The month a day of a year is in, March being 0, and its day in it.
MonthOf(doy) == (5 * doy + 2) \div 153
DayOf(doy) == doy - DaysBeforeMonth(MonthOf(doy)) + 1

\* There are twelve months, of 31 days at most.
LEMMA MonthBounds ==
  ASSUME NEW doy \in Int, 0 <= doy, doy <= 365
  PROVE  /\ MonthOf(doy) \in Int /\ 0 <= MonthOf(doy) /\ MonthOf(doy) <= 11
         /\ DayOf(doy) \in Int /\ 1 <= DayOf(doy) /\ DayOf(doy) <= 31
BY DEF MonthOf, DayOf, DaysBeforeMonth

\* The day after is the next of the month, or the first of the next month.
LEMMA MonthStep ==
  ASSUME NEW doy \in Int, 0 <= doy, doy <= 364
  PROVE  LET m == MonthOf(doy)
             last == IF m \in {1, 3, 6, 8} THEN 30 ELSE 31
         IN \/ /\ MonthOf(doy + 1) = m /\ DayOf(doy + 1) = DayOf(doy) + 1
               /\ DayOf(doy) < last
               /\ m = 11 => DayOf(doy) = doy - 336
            \/ /\ m < 11 /\ DayOf(doy) = last
               /\ MonthOf(doy + 1) = m + 1 /\ DayOf(doy + 1) = 1
BY SMTT(60) DEF MonthOf, DayOf, DaysBeforeMonth

----------------------------------------------------------------------------
(* The day after.                                                          *)

\* A date from the year of an era and the day of that year.
DateOf(era, y, doy) ==
  LET m == MonthOf(doy)
  IN [year |-> IF m < 10 THEN y + era * 400 ELSE y + era * 400 + 1,
      month |-> IF m < 10 THEN m + 3 ELSE m - 9,
      day |-> DayOf(doy)]

\* DateInEra finds the year of a day, and the day of that year.
LEMMA DateFound ==
  ASSUME NEW era \in Int, NEW doe, DayOfEra(doe),
         NEW y, y = YearOfEra(doe),
         NEW doy, doy = doe - DaysBeforeYear(y)
  PROVE  /\ y \in Int /\ 0 <= y /\ y <= 399
         /\ doy \in Int /\ 0 <= doy /\ doy < YearLength(era, y)
         /\ DateInEra(era, doe) = DateOf(era, y, doy)
<1>1. /\ y \in 0 .. 399 /\ DaysBeforeYear(y) <= doe
      /\ doe # DaysPerEra - 1 => doe < DaysBeforeYear(y + 1)
      /\ doe = DaysPerEra - 1 => y = 399
  BY YearBounds
<1>2. y \in Int /\ 0 <= y /\ y <= 399
  BY <1>1
<1>3. DaysBeforeYear(y) \in Int /\ DaysBeforeYear(y + 1) \in Int
  BY <1>2 DEF DaysBeforeYear
<1>4. /\ y # 399 => DaysBeforeYear(y + 1) = DaysBeforeYear(y) + YearLength(era, y)
      /\ y = 399 => DaysPerEra = DaysBeforeYear(y) + YearLength(era, y)
      /\ YearLength(era, y) = 365 \/ YearLength(era, y) = 366
  <2>1. YearLength(era, y) = 365 \/ YearLength(era, y) = 366
    BY DEF YearLength
  <2>. QED
    BY <1>2, <2>1, YearLengths
<1>5. doy \in Int /\ 0 <= doy /\ doy < YearLength(era, y)
  BY <1>1, <1>2, <1>3, <1>4 DEF DayOfEra, DaysPerEra
<1>6. MonthOf(doy) \in Int /\ 0 <= MonthOf(doy) /\ MonthOf(doy) <= 11
  BY <1>5, <1>4, MonthBounds
<1>7. DateInEra(era, doe) = DateOf(era, y, doy)
  BY <1>2, <1>6 DEF DateInEra, DateOf, MonthOf, DayOf
<1>. QED
  BY <1>2, <1>5, <1>7

\* From a day of a year to the next day of the same year.
LEMMA SameYear ==
  ASSUME NEW era \in Int, NEW y \in Int,
         NEW doy \in Int, 0 <= doy, doy + 1 < YearLength(era, y)
  PROVE  DateOf(era, y, doy + 1) = DayAfter(DateOf(era, y, doy))
<1> DEFINE m == MonthOf(doy)
           d == DateOf(era, y, doy)
           last == IF m \in {1, 3, 6, 8} THEN 30 ELSE 31
<1>1. doy <= 364
  BY DEF YearLength
<1>2. m \in Int /\ 0 <= m /\ m <= 11 /\ DayOf(doy) \in Int
  BY <1>1, MonthBounds
<1>3. \/ /\ MonthOf(doy + 1) = m /\ DayOf(doy + 1) = DayOf(doy) + 1
         /\ DayOf(doy) < last
         /\ m = 11 => DayOf(doy) = doy - 336
      \/ /\ m < 11 /\ DayOf(doy) = last
         /\ MonthOf(doy + 1) = m + 1 /\ DayOf(doy + 1) = 1
  BY <1>1, MonthStep
<1>4. d = [year |-> IF m < 10 THEN y + era * 400 ELSE y + era * 400 + 1,
           month |-> IF m < 10 THEN m + 3 ELSE m - 9,
           day |-> DayOf(doy)]
  BY DEF DateOf
<1>5. DaysInMonth(d.year, d.month)
      = IF m = 11 THEN IF IsLeap(y + 1 + era * 400) THEN 29 ELSE 28 ELSE last
  BY <1>2, <1>4 DEF DaysInMonth
<1>6. CASE MonthOf(doy + 1) = m
  <2>1. DayOf(doy + 1) = DayOf(doy) + 1 /\ DayOf(doy) < last
        /\ (m = 11 => DayOf(doy) = doy - 336)
    BY <1>2, <1>3, <1>6
  <2>2. DayOf(doy) < DaysInMonth(d.year, d.month)
    BY <2>1, <1>5 DEF YearLength
  <2>3. DayAfter(d) = [d EXCEPT !.day = DayOf(doy) + 1]
    BY <2>2, <1>4 DEF DayAfter
  <2>. QED
    BY <2>1, <2>3, <1>4, <1>6 DEF DateOf
<1>7. CASE MonthOf(doy + 1) # m
  <2>1. m < 11 /\ DayOf(doy) = last /\ MonthOf(doy + 1) = m + 1 /\ DayOf(doy + 1) = 1
    BY <1>3, <1>7
  <2>2. ~(d.day < DaysInMonth(d.year, d.month))
    BY <2>1, <1>2, <1>4, <1>5
  <2>3. CASE m # 9
    <3>2. DayAfter(d) = [year |-> d.year, month |-> d.month + 1, day |-> 1]
      BY <2>1, <2>2, <2>3, <1>2, <1>4 DEF DayAfter
    <3>3. CASE m < 9
      <4>1. DateOf(era, y, doy + 1) = [year |-> y + era * 400, month |-> m + 4, day |-> 1]
        BY <2>1, <3>3, <1>2 DEF DateOf
      <4>2. d.year = y + era * 400 /\ d.month + 1 = m + 4
        BY <3>3, <1>2, <1>4
      <4>. QED
        BY <3>2, <4>1, <4>2
    <3>4. CASE m = 10
      <4>1. DateOf(era, y, doy + 1) = [year |-> y + era * 400 + 1, month |-> 2, day |-> 1]
        BY <2>1, <3>4 DEF DateOf
      <4>2. d.year = y + era * 400 + 1 /\ d.month + 1 = 2
        BY <3>4, <1>4
      <4>. QED
        BY <3>2, <4>1, <4>2
    <3>. QED
      BY <2>1, <2>3, <3>3, <3>4, <1>2
  <2>4. CASE m = 9
    <3>1. d = [year |-> y + era * 400, month |-> 12, day |-> DayOf(doy)]
      BY <2>4, <1>4
    <3>2. DayAfter(d) = [year |-> y + era * 400 + 1, month |-> 1, day |-> 1]
      BY <2>2, <3>1 DEF DayAfter
    <3>3. DateOf(era, y, doy + 1) = [year |-> y + era * 400 + 1, month |-> 1, day |-> 1]
      BY <2>1, <2>4 DEF DateOf
    <3>. QED
      BY <3>2, <3>3
  <2>. QED
    BY <2>3, <2>4
<1>. QED
  BY <1>6, <1>7

\* From the last day of February to the first of March.
LEMMA NewYear ==
  ASSUME NEW era \in Int, NEW y \in Int,
         NEW doy \in Int, doy + 1 = YearLength(era, y)
  PROVE  DateOf(era, y + 1, 0) = DayAfter(DateOf(era, y, doy))
<1>1. MonthOf(doy) = 11 /\ DayOf(doy) = doy - 336
  BY DEF YearLength, MonthOf, DayOf, DaysBeforeMonth
<1>2. MonthOf(0) = 0 /\ DayOf(0) = 1
  BY DEF MonthOf, DayOf, DaysBeforeMonth
<1>3. DateOf(era, y, doy) = [year |-> y + era * 400 + 1, month |-> 2, day |-> doy - 336]
  BY <1>1 DEF DateOf
<1>4. DateOf(era, y + 1, 0) = [year |-> y + 1 + era * 400, month |-> 3, day |-> 1]
  BY <1>2 DEF DateOf
<1> DEFINE feb == DateOf(era, y, doy)
<1>5. DaysInMonth(feb.year, feb.month) = doy - 336
  <2>1. feb.year = y + 1 + era * 400 /\ feb.month = 2
    BY <1>3
  <2>2. DaysInMonth(feb.year, feb.month) = IF IsLeap(y + 1 + era * 400) THEN 29 ELSE 28
    BY <2>1 DEF DaysInMonth
  <2>. QED
    BY <2>2 DEF YearLength
<1>6. DayAfter(feb) = [year |-> feb.year, month |-> feb.month + 1, day |-> 1]
  BY <1>3, <1>5 DEF DayAfter
<1>7. DayAfter(feb) = [year |-> y + era * 400 + 1, month |-> 3, day |-> 1]
  BY <1>3, <1>6
<1>8. y + era * 400 + 1 = y + 1 + era * 400
  OBVIOUS
<1>. QED
  BY <1>4, <1>7, <1>8
----------------------------------------------------------------------------
(* Theorems.                                                               *)

\* The day after a day of an era.
LEMMA NextDayOfEra ==
  ASSUME NEW era \in Int, NEW doe, DayOfEra(doe)
  PROVE  DayAfter(DateInEra(era, doe))
         = IF doe = DaysPerEra - 1 THEN DateInEra(era + 1, 0)
           ELSE DateInEra(era, doe + 1)
<1> DEFINE y == YearOfEra(doe)
           doy == doe - DaysBeforeYear(y)
           length == YearLength(era, y)
           next == doe + 1
<1>1. /\ y \in Int /\ 0 <= y /\ y <= 399
      /\ doy \in Int /\ 0 <= doy /\ doy < length
      /\ DateInEra(era, doe) = DateOf(era, y, doy)
  BY DateFound
<1>2. doe \in Int /\ 0 <= doe /\ doe <= 146096
  BY DEF DayOfEra, DaysPerEra
<1>3. DaysBeforeYear(y) \in Int /\ doe = DaysBeforeYear(y) + doy
  BY <1>1, <1>2 DEF DaysBeforeYear
<1>4. /\ y # 399 => DaysBeforeYear(y + 1) = DaysBeforeYear(y) + length
      /\ y = 399 => /\ length = 366
                    /\ 146097 = DaysBeforeYear(y) + length
  BY <1>1, YearLengths DEF DaysPerEra
<1>5. length \in Int /\ 365 <= length
  BY DEF YearLength
<1>6. CASE doe = DaysPerEra - 1
  <2>1. y = 399
    BY <1>6, YearBounds
  <2>2. doy + 1 = length
    BY <2>1, <1>2, <1>3, <1>4, <1>5, <1>6, <1>1 DEF DaysPerEra
  <2>3. DateOf(era, y + 1, 0) = DayAfter(DateOf(era, y, doy))
    BY <1>1, <2>2, NewYear
  <2>4. DateInEra(era + 1, 0) = DateOf(era + 1, 0, 0)
    BY DEF DateInEra, DateOf, YearOfEra, DaysBeforeYear, MonthOf, DayOf
  <2>5. DateOf(era + 1, 0, 0) = DateOf(era, y + 1, 0)
    <3>1. 0 + (era + 1) * 400 = y + 1 + era * 400
      BY <2>1
    <3>. QED
      BY <3>1 DEF DateOf
  <2>. QED
    BY <1>1, <1>6, <2>3, <2>4, <2>5
<1>7. CASE doe # DaysPerEra - 1
  <2>1. DayOfEra(next) /\ next = doe + 1
    BY <1>2, <1>7 DEF DayOfEra, DaysPerEra
  <2>. HIDE DEF next
  <2>2. CASE doy + 1 < length
    <3>1. YearOfEra(next) = y
      <4>1. CASE next = DaysPerEra - 1
        <5>1. YearOfEra(next) = 399
          BY <2>1, <4>1, YearBounds
        <5>2. y = 399
          <6>1. SUFFICES ASSUME y # 399 PROVE FALSE
            OBVIOUS
          <6>2. next < DaysBeforeYear(y + 1)
            BY <2>1, <1>1, <1>2, <1>3, <1>4, <1>5, <2>2, <6>1
          <6>3. DaysBeforeYear(y + 1) <= 145731
            BY <1>1, <6>1 DEF DaysBeforeYear
          <6>. QED
            BY <2>1, <6>2, <6>3, <4>1, <1>1, <1>2 DEF DaysPerEra, DaysBeforeYear
        <5>. QED
          BY <5>1, <5>2
      <4>2. CASE next # DaysPerEra - 1
        <5>1. DaysBeforeYear(y) <= next
          BY <2>1, <1>1, <1>2, <1>3
        <5>2. next < DaysBeforeYear(y + 1)
          <6>1. CASE y # 399
            BY <2>1, <1>1, <1>2, <1>3, <1>4, <1>5, <2>2, <6>1
          <6>2. CASE y = 399
            <7>1. DaysBeforeYear(y + 1) = 146096
              BY <6>2 DEF DaysBeforeYear
            <7>. QED
              BY <2>1, <7>1, <1>2, <1>7, <4>2 DEF DaysPerEra
          <6>. QED
            BY <6>1, <6>2
        <5>3. y \in 0 .. 399
          BY <1>1
        <5>. HIDE DEF y
        <5>. QED
          BY <2>1, <4>2, <5>1, <5>2, <5>3, YearUnique
      <4>. QED
        BY <4>1, <4>2
    <3>2. DateInEra(era, next) = DateOf(era, y, doy + 1)
      <4>1. next - DaysBeforeYear(y) = doy + 1
        BY <2>1, <1>2, <1>3, <1>1
      <4>2. DateInEra(era, next)
            = DateOf(era, YearOfEra(next),
                     next - DaysBeforeYear(YearOfEra(next)))
        BY <2>1, DateFound
      <4>. QED
        BY <3>1, <4>1, <4>2
    <3>3. DateOf(era, y, doy + 1) = DayAfter(DateOf(era, y, doy))
      BY <1>1, <2>2, SameYear
    <3>. QED
      BY <1>1, <1>7, <2>1, <3>2, <3>3
  <2>3. CASE doy + 1 = length
    <3>1. y # 399 /\ next = DaysBeforeYear(y + 1)
      BY <2>1, <1>1, <1>2, <1>3, <1>4, <1>5, <1>7, <2>3 DEF DaysPerEra
    <3>2. YearOfEra(next) = y + 1
      <4>1. y + 1 \in 0 .. 399
        BY <1>1, <3>1
      <4>2. next # DaysPerEra - 1
        BY <1>1, <2>1, <3>1 DEF DaysBeforeYear, DaysPerEra
      <4>3. next < DaysBeforeYear(y + 1 + 1)
        BY <1>1, <3>1 DEF DaysBeforeYear
      <4>4. DaysBeforeYear(y + 1) <= next
        BY <2>1, <3>1, <1>1, <1>2
      <4>. HIDE DEF y
      <4>. QED
        BY <2>1, <4>1, <4>2, <4>3, <4>4, YearUnique
    <3>3. DateInEra(era, next) = DateOf(era, y + 1, 0)
      <4>1. next - DaysBeforeYear(y + 1) = 0
        BY <2>1, <3>1, <1>1, <1>2
      <4>2. DateInEra(era, next)
            = DateOf(era, YearOfEra(next),
                     next - DaysBeforeYear(YearOfEra(next)))
        BY <2>1, DateFound
      <4>. QED
        BY <3>2, <4>1, <4>2
    <3>4. DateOf(era, y + 1, 0) = DayAfter(DateOf(era, y, doy))
      BY <1>1, <2>3, NewYear
    <3>. QED
      BY <1>1, <1>7, <2>1, <3>3, <3>4
  <2>. QED
    BY <1>1, <1>5, <2>2, <2>3
<1>. QED
  BY <1>6, <1>7

\* civil_from_days takes every day after the first to the date after, through
\* month ends, leap days, centuries, eras and year 0, without a bound.
THEOREM NextDayIsRight ==
  \A d \in Int : CivilFromDays(d + 1) = DayAfter(CivilFromDays(d))
<1>. TAKE d \in Int
<1>1. PICK era \in Int, doe \in Int :
        DayOfEra(doe) /\ d + 719468 = era * DaysPerEra + doe
  BY DayHasEra
<1>2. 0 <= doe /\ doe < 146097
  BY <1>1 DEF DayOfEra, DaysPerEra
<1>3. CivilFromDays(d) = DateInEra(era, doe)
  BY <1>1, EraOfDay
<1>4. CASE doe = DaysPerEra - 1
  <2>1. DayOfEra(0) /\ (d + 1) + 719468 = (era + 1) * DaysPerEra + 0
    BY <1>1, <1>2, <1>4 DEF DayOfEra, DaysPerEra
  <2>2. CivilFromDays(d + 1) = DateInEra(era + 1, 0)
    BY <1>1, <2>1, EraOfDay
  <2>. QED
    BY <1>1, <1>2, <1>3, <1>4, <2>2, NextDayOfEra
<1>5. CASE doe # DaysPerEra - 1
  <2>1. DayOfEra(doe + 1) /\ (d + 1) + 719468 = era * DaysPerEra + (doe + 1)
    BY <1>1, <1>2, <1>5 DEF DayOfEra, DaysPerEra
  <2>2. CivilFromDays(d + 1) = DateInEra(era, doe + 1)
    BY <1>1, <2>1, EraOfDay
  <2>. QED
    BY <1>1, <1>2, <1>3, <1>5, <2>2, NextDayOfEra
<1>. QED
  BY <1>4, <1>5

\* And it begins with the first of January 1970.
THEOREM EpochIsRight == CivilFromDays(0) = Epoch
BY DEF CivilFromDays, Quotient, DaysPerEra, DateInEra, YearOfEra, DaysBeforeYear,
       DaysBeforeMonth, Epoch

----------------------------------------------------------------------------
(* The clock of NoteName, for walks from any day and of any length.        *)

\* civil_from_days gives a month and a day that validate_occurred accepts.
LEMMA DateInRange ==
  ASSUME NEW d \in Int
  PROVE  /\ ValidOccurred(CivilFromDays(d))
         /\ CivilFromDays(d) \in [year : Int, month : 1 .. 12, day : 1 .. 31]
<1>1. PICK era \in Int, doe \in Int :
        DayOfEra(doe) /\ CivilFromDays(d) = DateInEra(era, doe)
  BY DayHasEra, EraOfDay
<1> DEFINE y == YearOfEra(doe)
           doy == doe - DaysBeforeYear(y)
           m == MonthOf(doy)
<1>2. /\ doy \in Int /\ 0 <= doy /\ doy < YearLength(era, y)
      /\ DateInEra(era, doe) = DateOf(era, y, doy)
  BY <1>1, DateFound
<1>3. doy <= 365
  BY <1>2 DEF YearLength
<1>4. /\ m \in Int /\ 0 <= m /\ m <= 11
      /\ DayOf(doy) \in Int /\ 1 <= DayOf(doy) /\ DayOf(doy) <= 31
  BY <1>2, <1>3, MonthBounds
<1>5. /\ DateOf(era, y, doy).month = IF m < 10 THEN m + 3 ELSE m - 9
      /\ DateOf(era, y, doy).day = DayOf(doy)
  BY DEF DateOf
<1>6. (IF m < 10 THEN m + 3 ELSE m - 9) \in 1 .. 12 /\ DayOf(doy) \in 1 .. 31
  BY <1>4
<1>7. y \in Int
  BY <1>1, DateFound
<1>8. DateOf(era, y, doy) \in [year : Int, month : 1 .. 12, day : 1 .. 31]
  <2>1. y + era * 400 \in Int
    BY <1>7
  <2>. QED
    BY <1>6, <2>1 DEF DateOf
<1>. QED
  BY <1>1, <1>2, <1>5, <1>6, <1>8 DEF ValidOccurred

\* What the walk keeps: the date the clock has is the one of its day.
DateOfDay == day \in Int /\ date = CivilFromDays(day)

\* The clock and its date are taken from day to day together.
LEMMA ClockWalks == Spec => []DateOfDay
<1>1. Init => DateOfDay
  BY StartsAssumption DEF Init, DateOfDay
<1>2. DateOfDay /\ [Next]_vars => DateOfDay'
  <2>. SUFFICES ASSUME DateOfDay, [Next]_vars PROVE DateOfDay'
    OBVIOUS
  <2>1. CASE NextDay
    <3>1. day' = day + 1 /\ date' = DayAfter(date)
      BY <2>1 DEF NextDay
    <3>2. CivilFromDays(day + 1) = DayAfter(CivilFromDays(day))
      BY NextDayIsRight DEF DateOfDay
    <3>. QED
      BY <3>1, <3>2 DEF DateOfDay
  <2>2. ASSUME NEW c, Type(c) PROVE DateOfDay'
    BY <2>2 DEF Type, DateOfDay
  <2>3. CASE UNCHANGED vars
    BY <2>3 DEF vars, DateOfDay
  <2>. QED
    BY <2>1, <2>2, <2>3 DEF Next
<1>. QED
  BY <1>1, <1>2, PTL DEF Spec

\* On every day a walk reaches, however far, civil_from_days gives the date of
\* the calendar everyone knows, and validate_occurred accepts it.
THEOREM CalendarIsRight == Spec => []CalendarRight
<1>1. DateOfDay => CalendarRight
  BY DateInRange DEF DateOfDay, CalendarRight
<1>. QED
  BY <1>1, ClockWalks, PTL

\* A day begins every 86400 seconds.
LEMMA DaySplit ==
  ASSUME NEW d \in Int, NEW s \in Int, 0 <= s, s < 86400
  PROVE  (d * 86400 + s) \div 86400 = d /\ (d * 86400 + s) % 86400 = s
OBVIOUS

\* A second of the day has one time.
LEMMA TimeSplit ==
  ASSUME NEW h \in Int, 0 <= h, h <= 23, NEW m \in Int, 0 <= m, m <= 59,
         NEW s \in Int, 0 <= s, s <= 59,
         NEW t, t = h * 3600 + m * 60 + s
  PROVE  /\ t \in Int /\ 0 <= t /\ t < 86400
         /\ t \div 3600 = h /\ (t \div 60) % 60 = m /\ t % 60 = s
<1>1. t \in Int /\ 0 <= t /\ t < 86400
  OBVIOUS
<1>2. t \div 3600 = h
  OBVIOUS
<1>3. t \div 60 = 60 * h + m
  OBVIOUS
<1>4. t % 60 = s
  OBVIOUS
<1>5. (60 * h + m) % 60 = m
  OBVIOUS
<1>. QED
  BY <1>1, <1>2, <1>3, <1>4, <1>5

\* utc_parts splits a second, before the epoch too, into the date everyone knows
\* and the time of the day.
THEOREM StampIsRight == Spec => []StampRight
<1>1. DateOfDay => StampRight
  <2>. SUFFICES ASSUME DateOfDay, NEW t \in ClockTimes
                PROVE  UtcParts(day * 86400 + t.hour * 3600 + t.minute * 60 + t.second)
                       = [date |-> date, hour |-> t.hour, minute |-> t.minute,
                          second |-> t.second]
    BY DEF StampRight
  <2>1. t.hour \in 0 .. 23 /\ t.minute \in 0 .. 59 /\ t.second \in 0 .. 59
    BY NoteNameAssumption
  <2>2. PICK h \in 0 .. 23, m \in 0 .. 59, s \in 0 .. 59 :
          h = t.hour /\ m = t.minute /\ s = t.second
    BY <2>1
  <2>3. PICK time \in Int : time = h * 3600 + m * 60 + s
    OBVIOUS
  <2>4. /\ 0 <= time /\ time < 86400
        /\ time \div 3600 = h /\ (time \div 60) % 60 = m /\ time % 60 = s
    BY <2>3, TimeSplit
  <2>5. date = CivilFromDays(day) /\ day \in Int
    BY DEF DateOfDay
  <2>6. PICK n \in Int : n = day * 86400 + time
    BY <2>5
  <2>7. n \div 86400 = day /\ n % 86400 = time
    BY <2>4, <2>5, <2>6, DaySplit
  <2>8. n % 60 = time % 60
    BY <2>4, <2>5, <2>6
  <2>9. n = day * 86400 + h * 3600 + m * 60 + s
    BY <2>3, <2>5, <2>6
  <2>10. UtcParts(n) = [date |-> date, hour |-> h, minute |-> m, second |-> s]
    BY <2>4, <2>5, <2>7, <2>8 DEF UtcParts
  <2>. QED
    BY <2>2, <2>9, <2>10
<1>. QED
  BY <1>1, ClockWalks, PTL

----------------------------------------------------------------------------
(* Folds over a sequence.                                                  *)

\* Of some numbers one is least.
LEMMA LeastNumber ==
  ASSUME NEW T \in SUBSET Nat, T # {}
  PROVE  \E m \in T : \A k \in T : m <= k
<1>1. PICK m \in T : \A k \in T : <<k, m>> \notin OpToRel(<, Nat)
  BY NatLessThanWellFounded, WFMin
<1>2. \A k \in T : ~(k < m)
  BY <1>1 DEF OpToRel
<1>. QED
  BY <1>2

\* The last place in a set of places.
LEMMA LastPlace ==
  ASSUME NEW n \in Nat, NEW s \in SUBSET (1 .. n), s # {}
  PROVE  Max(s) \in s /\ \A i \in s : i <= Max(s)
<1> DEFINE T == {k \in Nat : s \subseteq 1 .. k}
<1>1. PICK m \in T : \A k \in T : m <= k
  <2>1. n \in T
    OBVIOUS
  <2>2. T \in SUBSET Nat /\ T # {}
    BY <2>1
  <2>. HIDE DEF T
  <2>. QED
    BY <2>2, LeastNumber
<1>2. m \in s
  <2>. SUFFICES ASSUME m \notin s PROVE FALSE
    OBVIOUS
  <2>1. m \in Nat /\ s \subseteq 1 .. m
    BY <1>1
  <2>2. m # 0
    <3>1. PICK i : i \in s
      OBVIOUS
    <3>2. i \in 1 .. m
      BY <2>1, <3>1
    <3>. QED
      BY <3>2
  <2>3. m - 1 \in Nat /\ s \subseteq 1 .. (m - 1)
    BY <2>1, <2>2
  <2>. QED
    BY <1>1, <2>1, <2>3
<1>3. \A i \in s : m >= i
  BY <1>1
<1>. QED
  BY <1>2, <1>3 DEF Max

\* f scans the characters of t at each subset of the places D, last place last.
IsScan(t, D, f) ==
  f = [s \in SUBSET D |->
         IF s = {} THEN NothingScanned ELSE Scan(f[s \ {Max(s)}], t[Max(s)])]

\* Such a scan exists.
LEMMA ScanExists ==
  ASSUME NEW t
  PROVE  \A n \in Nat : \E f : IsScan(t, 1 .. n, f)
<1> DEFINE Wrong == {n \in Nat : ~\E f : IsScan(t, 1 .. n, f)}
<1>. SUFFICES ASSUME Wrong # {} PROVE FALSE
  OBVIOUS
<1>1. PICK n \in Wrong : \A k \in Wrong : n <= k
  <2>1. Wrong \in SUBSET Nat
    OBVIOUS
  <2>. HIDE DEF Wrong
  <2>. QED
    BY <2>1, LeastNumber
<1>2. n \in Nat /\ ~\E f : IsScan(t, 1 .. n, f)
  OBVIOUS
<1>3. CASE n = 0
  <2> DEFINE f == [s \in SUBSET (1 .. n) |-> NothingScanned]
  <2>1. \A s \in SUBSET (1 .. n) : s = {}
    BY <1>3
  <2>2. f = [s \in SUBSET (1 .. n) |->
               IF s = {} THEN NothingScanned ELSE Scan(f[s \ {Max(s)}], t[Max(s)])]
    BY <2>1
  <2>. HIDE DEF f
  <2>. QED
    BY <1>2, <2>2 DEF IsScan
<1>4. CASE n # 0
  <2>1. n - 1 \in Nat /\ n - 1 \notin Wrong
    BY <1>1, <1>2, <1>4
  <2>2. PICK g : IsScan(t, 1 .. (n - 1), g)
    BY <2>1
  <2>. HIDE DEF Wrong
  <2> DEFINE f == [s \in SUBSET (1 .. n) |->
                     IF n \in s THEN Scan(g[s \ {n}], t[n]) ELSE g[s]]
  <2>3. ASSUME NEW s \in SUBSET (1 .. n)
        PROVE  f[s] = IF s = {} THEN NothingScanned
                      ELSE Scan(f[s \ {Max(s)}], t[Max(s)])
    <3>1. CASE n \in s
      <4>1. Max(s) = n
        <5>1. Max(s) \in s /\ \A i \in s : i <= Max(s)
          BY <1>2, <3>1, LastPlace
        <5>2. n <= Max(s) /\ Max(s) \in 1 .. n
          BY <3>1, <5>1
        <5>. HIDE DEF f
        <5>. QED
          BY <1>2, <5>2
      <4>2. f[s \ {n}] = g[s \ {n}]
        OBVIOUS
      <4>. QED
        BY <3>1, <4>1, <4>2
    <3>2. CASE n \notin s
      <4>1. s \in SUBSET (1 .. (n - 1))
        BY <1>2, <3>2
      <4>2. g[s] = IF s = {} THEN NothingScanned ELSE Scan(g[s \ {Max(s)}], t[Max(s)])
        BY <2>2, <4>1, Zenon DEF IsScan
      <4>3. f[s] = g[s] /\ f[s \ {Max(s)}] = g[s \ {Max(s)}]
        BY <3>2
      <4>. HIDE DEF f
      <4>. QED
        BY <4>2, <4>3
    <3>. QED
      BY <3>1, <3>2
  <2>4. f = [s \in SUBSET (1 .. n) |-> f[s]]
    OBVIOUS
  <2>. HIDE DEF f
  <2>5. f = [s \in SUBSET (1 .. n) |->
               IF s = {} THEN NothingScanned ELSE Scan(f[s \ {Max(s)}], t[Max(s)])]
    BY <2>3, <2>4, Zenon
  <2>. QED
    BY <1>2, <2>5 DEF IsScan
<1>. QED
  BY <1>3, <1>4

\* What a scan makes of the first n characters, and of the next.
LEMMA ScanOfNext ==
  ASSUME NEW t, NEW m \in Nat, NEW f, IsScan(t, 1 .. m, f)
  PROVE  /\ f[{}] = NothingScanned
         /\ \A n \in 0 .. (m - 1) : f[1 .. (n + 1)] = Scan(f[1 .. n], t[n + 1])
<1>1. f[{}] = NothingScanned
  <2>1. {} \in SUBSET (1 .. m)
    OBVIOUS
  <2>. QED
    BY <2>1, Zenon DEF IsScan
<1>2. ASSUME NEW n \in 0 .. (m - 1)
      PROVE  f[1 .. (n + 1)] = Scan(f[1 .. n], t[n + 1])
  <2> DEFINE s == 1 .. (n + 1)
  <2>1. s \in SUBSET (1 .. m) /\ s # {} /\ n + 1 \in s /\ n + 1 \in Nat
    <3>1. n + 1 \in s /\ n + 1 \in Nat
      OBVIOUS
    <3>2. s \in SUBSET (1 .. m)
      OBVIOUS
    <3>. QED
      BY <3>1, <3>2
  <2>2. Max(s) \in s /\ \A i \in s : i <= Max(s)
    BY <2>1, LastPlace
  <2>3. Max(s) = n + 1
    BY <2>1, <2>2
  <2>4. s \ {n + 1} = 1 .. n
    OBVIOUS
  <2>. HIDE DEF s
  <2>5. f[s] = Scan(f[s \ {Max(s)}], t[Max(s)])
    BY <2>1, Zenon DEF IsScan
  <2>. QED
    BY <2>3, <2>4, <2>5 DEF s
<1>. QED
  BY <1>1, <1>2

\* Two scans of characters that agree agree.
LEMMA ScansAgree ==
  ASSUME NEW t, NEW u, NEW m \in Nat, NEW k \in Nat, m <= k,
         NEW f, IsScan(t, 1 .. m, f), NEW g, IsScan(u, 1 .. k, g),
         \A i \in 1 .. m : t[i] = u[i]
  PROVE  f[1 .. m] = g[1 .. m]
<1> DEFINE Wrong == {n \in 0 .. m : f[1 .. n] # g[1 .. n]}
<1>. SUFFICES ASSUME Wrong # {} PROVE FALSE
  OBVIOUS
<1>1. PICK n \in Wrong : \A i \in Wrong : n <= i
  <2>1. Wrong \in SUBSET Nat
    OBVIOUS
  <2>. HIDE DEF Wrong
  <2>. QED
    BY <2>1, LeastNumber
<1>2. n \in 0 .. m /\ f[1 .. n] # g[1 .. n]
  OBVIOUS
<1>3. /\ f[{}] = NothingScanned /\ g[{}] = NothingScanned
      /\ \A i \in 0 .. (m - 1) : f[1 .. (i + 1)] = Scan(f[1 .. i], t[i + 1])
      /\ \A i \in 0 .. (k - 1) : g[1 .. (i + 1)] = Scan(g[1 .. i], u[i + 1])
  BY ScanOfNext
<1>4. n # 0
  <2>1. n = 0 => 1 .. n = {}
    OBVIOUS
  <2>. QED
    BY <1>2, <1>3, <2>1
<1>5. PICK i \in 0 .. (m - 1) : n = i + 1
  BY <1>2, <1>4
<1>6. i \notin Wrong /\ i \in 0 .. m
  BY <1>1, <1>5
<1>7. f[1 .. i] = g[1 .. i]
  BY <1>6
<1>. HIDE DEF Wrong
<1>8. i \in 0 .. (k - 1) /\ t[i + 1] = u[i + 1]
  <2>1. i + 1 \in 1 .. m /\ i \in 0 .. (k - 1)
    BY <1>5
  <2>. QED
    BY <2>1
<1>. QED
  BY <1>2, <1>3, <1>5, <1>7, <1>8

\* A title is scanned one character after the other.
LEMMA ScannedByOne ==
  ASSUME NEW S, NEW t \in Seq(S), NEW c \in S
  PROVE  /\ Scanned(<<>>) = NothingScanned
         /\ Scanned(Append(t, c)) = Scan(Scanned(t), c)
<1> DEFINE fun(u, D) == CHOOSE f : IsScan(u, D, f)
<1>1. \A u : Scanned(u) = fun(u, DOMAIN u)[DOMAIN u]
  BY Zenon DEF Scanned, FoldLeft, MapThenFoldSet, IsScan
<1>2. \A u : \A n \in Nat : IsScan(u, 1 .. n, fun(u, 1 .. n))
  BY ScanExists
<1>. HIDE DEF fun
<1>3. \A u \in Seq(S) : Len(u) \in Nat /\ DOMAIN u = 1 .. Len(u)
  BY LenProperties
<1>4. Scanned(<<>>) = NothingScanned
  <2>1. DOMAIN <<>> = {} /\ 1 .. 0 = {}
    OBVIOUS
  <2>2. IsScan(<<>>, 1 .. 0, fun(<<>>, 1 .. 0))
    BY <1>2
  <2>3. fun(<<>>, 1 .. 0)[{}] = NothingScanned
    BY <2>2, ScanOfNext
  <2>. QED
    BY <1>1, <2>1, <2>3
<1> DEFINE u == Append(t, c)
           n == Len(t)
<1>5. /\ u \in Seq(S) /\ n \in Nat /\ Len(u) = n + 1 /\ u[n + 1] = c
      /\ \A i \in 1 .. n : t[i] = u[i]
  BY AppendProperties, LenProperties
<1>6. DOMAIN t = 1 .. n /\ DOMAIN u = 1 .. (n + 1)
  BY <1>3, <1>5
<1>. HIDE DEF u, n
<1>7. n + 1 \in Nat /\ n <= n + 1 /\ n \in 0 .. ((n + 1) - 1)
  BY <1>5
<1> DEFINE f == fun(t, 1 .. n)
           g == fun(u, 1 .. (n + 1))
<1>8. IsScan(t, 1 .. n, f) /\ IsScan(u, 1 .. (n + 1), g)
  BY <1>2, <1>5, <1>7
<1>. HIDE DEF f, g
<1>9. f[1 .. n] = g[1 .. n]
  BY <1>5, <1>7, <1>8, ScansAgree
<1>10. g[1 .. (n + 1)] = Scan(g[1 .. n], u[n + 1])
  BY <1>7, <1>8, ScanOfNext
<1>11. Scanned(t) = f[1 .. n] /\ Scanned(u) = g[1 .. (n + 1)]
  BY <1>1, <1>6 DEF f, g
<1>. QED
  BY <1>4, <1>5, <1>9, <1>10, <1>11 DEF u

----------------------------------------------------------------------------
(* Words joined.                                                           *)

\* f joins the first i sequences of ss, for each i up to n.
IsJoin(ss, n, f) ==
  f = [i \in 1 .. n |-> IF i = 1 THEN ss[i] ELSE f[i - 1] \o ss[i]]

\* Such a join exists.
LEMMA JoinExists ==
  ASSUME NEW ss
  PROVE  \A n \in Nat : \E f : IsJoin(ss, n, f)
<1> DEFINE Wrong == {n \in Nat : ~\E f : IsJoin(ss, n, f)}
<1>. SUFFICES ASSUME Wrong # {} PROVE FALSE
  OBVIOUS
<1>1. PICK n \in Wrong : \A k \in Wrong : n <= k
  <2>1. Wrong \in SUBSET Nat
    OBVIOUS
  <2>. HIDE DEF Wrong
  <2>. QED
    BY <2>1, LeastNumber
<1>2. n \in Nat /\ ~\E f : IsJoin(ss, n, f)
  OBVIOUS
<1>3. CASE n = 0
  <2> DEFINE f == [i \in 1 .. n |-> ss[i]]
  <2>1. 1 .. n = {}
    BY <1>3
  <2>2. f = [i \in 1 .. n |-> IF i = 1 THEN ss[i] ELSE f[i - 1] \o ss[i]]
    BY <2>1
  <2>. HIDE DEF f
  <2>. QED
    BY <1>2, <2>2 DEF IsJoin
<1>4. CASE n # 0
  <2>1. n - 1 \in Nat /\ n - 1 \notin Wrong
    BY <1>1, <1>2, <1>4
  <2>2. PICK g : IsJoin(ss, n - 1, g)
    BY <2>1
  <2>. HIDE DEF Wrong
  <2> DEFINE f == [i \in 1 .. n |->
                     IF i < n THEN g[i] ELSE IF i = 1 THEN ss[i] ELSE g[i - 1] \o ss[i]]
  <2>3. ASSUME NEW i \in 1 .. n
        PROVE  f[i] = IF i = 1 THEN ss[i] ELSE f[i - 1] \o ss[i]
    <3>1. i \in Int /\ 1 <= i /\ i <= n
      BY <1>2
    <3>2. i # 1 => f[i - 1] = g[i - 1]
      <4>1. i # 1 => i - 1 \in 1 .. n /\ i - 1 < n
        BY <1>2, <3>1
      <4>. QED
        BY <4>1
    <3>3. CASE i < n
      <4>1. i \in 1 .. (n - 1)
        BY <1>2, <3>1, <3>3
      <4>2. g[i] = IF i = 1 THEN ss[i] ELSE g[i - 1] \o ss[i]
        BY <2>2, <4>1, Zenon DEF IsJoin
      <4>3. f[i] = g[i]
        BY <3>3
      <4>. HIDE DEF f
      <4>. QED
        BY <3>2, <4>2, <4>3
    <3>4. CASE ~(i < n)
      <4>1. f[i] = IF i = 1 THEN ss[i] ELSE g[i - 1] \o ss[i]
        BY <3>4
      <4>. HIDE DEF f
      <4>. QED
        BY <3>2, <4>1
    <3>. QED
      BY <3>3, <3>4
  <2>4. f = [i \in 1 .. n |-> f[i]]
    OBVIOUS
  <2>. HIDE DEF f
  <2>5. f = [i \in 1 .. n |-> IF i = 1 THEN ss[i] ELSE f[i - 1] \o ss[i]]
    BY <2>3, <2>4, Zenon
  <2>. QED
    BY <1>2, <2>5 DEF IsJoin
<1>. QED
  BY <1>3, <1>4

\* What a join gives, one place after the other.
LEMMA JoinOfNext ==
  ASSUME NEW ss, NEW m \in Nat, NEW f, IsJoin(ss, m, f)
  PROVE  /\ m # 0 => f[1] = ss[1]
         /\ \A n \in 1 .. (m - 1) : f[n + 1] = f[n] \o ss[n + 1]
<1>1. \A i \in 1 .. m : f[i] = IF i = 1 THEN ss[i] ELSE f[i - 1] \o ss[i]
  BY Zenon DEF IsJoin
<1>2. m # 0 => 1 \in 1 .. m
  OBVIOUS
<1>3. \A n \in 1 .. (m - 1) : n + 1 \in 1 .. m /\ n + 1 # 1 /\ (n + 1) - 1 = n
  OBVIOUS
<1>4. \A n \in 1 .. (m - 1) : f[n + 1] = f[n] \o ss[n + 1]
  <2>. TAKE n \in 1 .. (m - 1)
  <2>1. n + 1 \in 1 .. m /\ n + 1 # 1 /\ (n + 1) - 1 = n
    BY <1>3
  <2>2. f[n + 1] = f[(n + 1) - 1] \o ss[n + 1]
    BY <1>1, <2>1
  <2>. QED
    BY <2>1, <2>2
<1>. QED
  BY <1>1, <1>2, <1>4

\* Two joins of sequences that agree agree.
LEMMA JoinsAgree ==
  ASSUME NEW ss, NEW us, NEW m \in Nat, m # 0, NEW k \in Nat, m <= k,
         NEW f, IsJoin(ss, m, f), NEW g, IsJoin(us, k, g),
         \A i \in 1 .. m : ss[i] = us[i]
  PROVE  f[m] = g[m]
<1> DEFINE Wrong == {n \in 1 .. m : f[n] # g[n]}
<1>. SUFFICES ASSUME Wrong # {} PROVE FALSE
  OBVIOUS
<1>1. PICK n \in Wrong : \A i \in Wrong : n <= i
  <2>1. Wrong \in SUBSET Nat
    OBVIOUS
  <2>. HIDE DEF Wrong
  <2>. QED
    BY <2>1, LeastNumber
<1>2. n \in 1 .. m /\ f[n] # g[n]
  OBVIOUS
<1>3. /\ f[1] = ss[1] /\ g[1] = us[1]
      /\ \A i \in 1 .. (m - 1) : f[i + 1] = f[i] \o ss[i + 1]
      /\ \A i \in 1 .. (k - 1) : g[i + 1] = g[i] \o us[i + 1]
  <2>1. m \in Nat /\ m # 0 /\ k # 0
    OBVIOUS
  <2>2. /\ m # 0 => f[1] = ss[1]
        /\ \A i \in 1 .. (m - 1) : f[i + 1] = f[i] \o ss[i + 1]
    BY <2>1, JoinOfNext
  <2>3. /\ k # 0 => g[1] = us[1]
        /\ \A i \in 1 .. (k - 1) : g[i + 1] = g[i] \o us[i + 1]
    BY JoinOfNext
  <2>. QED
    BY <2>1, <2>2, <2>3
<1>4. n # 1
  <2>1. 1 \in 1 .. m
    OBVIOUS
  <2>. QED
    BY <1>2, <1>3, <2>1
<1>5. PICK i \in 1 .. (m - 1) : n = i + 1
  <2>1. n - 1 \in 1 .. (m - 1) /\ n = (n - 1) + 1
    BY <1>2, <1>4
  <2>. QED
    BY <2>1
<1>6. i \notin Wrong /\ i \in 1 .. m
  BY <1>1, <1>5
<1>7. f[i] = g[i]
  BY <1>6
<1>. HIDE DEF Wrong
<1>8. i \in 1 .. (k - 1) /\ ss[i + 1] = us[i + 1]
  <2>1. i + 1 \in 1 .. m /\ i \in 1 .. (k - 1)
    BY <1>5
  <2>. QED
    BY <2>1
<1>. QED
  BY <1>2, <1>3, <1>5, <1>7, <1>8

\* Flattening is the join of all.
LEMMA FlattenStep ==
  ASSUME NEW ss, NEW us, NEW n \in Nat, NEW m \in Nat, m = n + 1,
         Len(ss) = n, Len(us) = m, \A i \in 1 .. n : ss[i] = us[i]
  PROVE  FlattenSeq(us) = IF n = 0 THEN us[1] ELSE FlattenSeq(ss) \o us[m]
<1> DEFINE fun(vs, k) == CHOOSE f : IsJoin(vs, k, f)
<1>1. \A vs : FlattenSeq(vs) = IF Len(vs) = 0 THEN vs ELSE fun(vs, Len(vs))[Len(vs)]
  BY Zenon DEF FlattenSeq, IsJoin
<1>2. \A vs : \A k \in Nat : IsJoin(vs, k, fun(vs, k))
  BY JoinExists
<1>. HIDE DEF fun
<1>3. PICK f, g : f = fun(ss, n) /\ g = fun(us, m)
  OBVIOUS
<1>4. IsJoin(ss, n, f) /\ IsJoin(us, m, g)
  BY <1>2, <1>3
<1>5. FlattenSeq(us) = g[m] /\ (n # 0 => FlattenSeq(ss) = f[n])
  <2>1. m # 0
    OBVIOUS
  <2>. QED
    BY <1>1, <1>3, <2>1
<1>6. /\ m # 0 => g[1] = us[1]
      /\ \A i \in 1 .. (m - 1) : g[i + 1] = g[i] \o us[i + 1]
  BY <1>4, JoinOfNext
<1>7. CASE n = 0
  BY <1>5, <1>6, <1>7
<1>8. CASE n # 0
  <2>1. n <= m
    OBVIOUS
  <2>2. f[n] = g[n]
    BY <1>4, <1>8, <2>1, JoinsAgree
  <2>3. n \in 1 .. (m - 1)
    BY <1>8
  <2>4. g[n + 1] = g[n] \o us[n + 1]
    BY <1>6, <2>3
  <2>. QED
    BY <1>5, <1>8, <2>2, <2>4
<1>. QED
  BY <1>7, <1>8

\* A sequence more is joined to the end.
LEMMA FlattenedByOne ==
  ASSUME NEW S, NEW ss \in Seq(Seq(S)), NEW us \in Seq(Seq(S)),
         Len(us) = Len(ss) + 1, \A i \in 1 .. Len(ss) : ss[i] = us[i]
  PROVE  /\ FlattenSeq(<<>>) = <<>>
         /\ FlattenSeq(us) = FlattenSeq(ss) \o us[Len(us)]
<1>1. FlattenSeq(<<>>) = <<>>
  BY DEF FlattenSeq
<1>2. PICK n \in Nat, m \in Nat : n = Len(ss) /\ m = Len(us) /\ m = n + 1
  BY LenProperties
<1>3. FlattenSeq(us) = IF n = 0 THEN us[1] ELSE FlattenSeq(ss) \o us[m]
  BY <1>2, FlattenStep
<1>4. us[m] \in Seq(S)
  BY <1>2, ElementOfSeq
<1>5. CASE n = 0
  <2>1. ss = <<>>
    BY <1>2, <1>5, EmptySeq
  <2>2. <<>> \o us[m] = us[m] /\ m = 1
    BY <1>2, <1>4, <1>5, ConcatEmptySeq
  <2>. QED
    BY <1>1, <1>2, <1>3, <1>5, <2>1, <2>2
<1>6. CASE n # 0
  BY <1>1, <1>2, <1>3, <1>6
<1>. QED
  BY <1>5, <1>6

----------------------------------------------------------------------------
(* The slug.                                                               *)

\* The characters of titles, and those of slugs.
Typed == Letters \cup {Other}
Sluggy == Letters \cup {Hyphen}

\* The pieces of a title are of letters and hyphens.
LEMMA PiecesType ==
  ASSUME NEW t \in Seq(Typed)
  PROVE  /\ Len(t) \in Nat /\ DOMAIN t = 1 .. Len(t)
         /\ [i \in DOMAIN t |-> Piece(t, i)] \in Seq(Seq(Sluggy))
         /\ Len([i \in DOMAIN t |-> Piece(t, i)]) = Len(t)
<1>1. Len(t) \in Nat /\ DOMAIN t = 1 .. Len(t)
  BY LenProperties
<1>2. \A i \in 1 .. Len(t) : Piece(t, i) \in Seq(Sluggy)
  <2>. TAKE i \in 1 .. Len(t)
  <2>1. <<>> \in Seq(Sluggy)
    OBVIOUS
  <2>2. ASSUME t[i] \in Letters
        PROVE  <<t[i]>> \in Seq(Sluggy) /\ <<Hyphen, t[i]>> \in Seq(Sluggy)
    <3>1. t[i] \in Sluggy /\ Hyphen \in Sluggy
      BY <2>2 DEF Sluggy
    <3>. QED
      BY <3>1
  <2>. QED
    BY <2>1, <2>2 DEF Piece, Kept
<1>3. [i \in 1 .. Len(t) |-> Piece(t, i)] \in Seq(Seq(Sluggy))
  BY <1>1, <1>2, IsASeq
<1>4. Len([i \in 1 .. Len(t) |-> Piece(t, i)]) = Len(t)
  BY <1>1
<1>. QED
  BY <1>1, <1>3, <1>4

\* A letter more begins a word of its own or goes on with the last.
LEMMA JoinedByOne ==
  ASSUME NEW t \in Seq(Typed), NEW c \in Typed,
         NEW u, u = Append(t, c), NEW n, n = Len(t)
  PROVE  /\ Joined(<<>>) = <<>> /\ Kept(<<>>) = {}
         /\ n \in Nat /\ u \in Seq(Typed) /\ Len(u) = n + 1
         /\ Kept(t) \subseteq 1 .. n
         /\ Kept(u) = Kept(t) \cup (IF c \in Letters THEN {n + 1} ELSE {})
         /\ Joined(u) = Joined(t) \o
              (IF c \notin Letters THEN <<>>
               ELSE IF n \notin Kept(t) /\ Kept(t) # {} THEN <<Hyphen, c>> ELSE <<c>>)
<1>1. /\ n \in Nat /\ u \in Seq(Typed) /\ Len(u) = n + 1 /\ u[n + 1] = c
      /\ \A i \in 1 .. n : u[i] = t[i]
  BY AppendProperties, LenProperties
<1>2. DOMAIN t = 1 .. n /\ DOMAIN u = 1 .. (n + 1)
  BY <1>1, LenProperties
<1>3. Kept(t) \subseteq 1 .. n
  BY <1>2 DEF Kept
<1>4. Kept(u) = Kept(t) \cup (IF c \in Letters THEN {n + 1} ELSE {})
  BY <1>1, <1>2 DEF Kept
<1>5. ASSUME NEW i \in 1 .. n PROVE Piece(u, i) = Piece(t, i)
  <2>1. n + 1 > i /\ i # n + 1 /\ i - 1 # n + 1
    BY <1>1
  <2>2. \A j \in 1 .. (n + 1) : j < i => j \in 1 .. n
    BY <1>1
  <2>3. i \in Kept(u) <=> i \in Kept(t)
    BY <1>4, <2>1
  <2>4. i - 1 \in Kept(u) <=> i - 1 \in Kept(t)
    BY <1>4, <2>1
  <2>5. (\E j \in Kept(u) : j < i) <=> (\E j \in Kept(t) : j < i)
    <3>1. \A j \in Kept(u) : j < i => j \in Kept(t)
      BY <1>1, <1>4
    <3>. QED
      BY <1>4, <3>1
  <2>. QED
    BY <1>1, <2>3, <2>4, <2>5, Zenon DEF Piece
<1>6. Piece(u, n + 1) = IF c \notin Letters THEN <<>>
                        ELSE IF n \notin Kept(t) /\ Kept(t) # {} THEN <<Hyphen, c>>
                        ELSE <<c>>
  <2>1. n + 1 \in Kept(u) <=> c \in Letters
    BY <1>1, <1>3, <1>4
  <2>2. (n + 1) - 1 \in Kept(u) <=> n \in Kept(t)
    BY <1>1, <1>4
  <2>3. (\E j \in Kept(u) : j < n + 1) <=> Kept(t) # {}
    <3>1. \A j \in Kept(t) : j \in Kept(u) /\ j < n + 1
      BY <1>1, <1>3, <1>4
    <3>2. \A j \in Kept(u) : j < n + 1 => j \in Kept(t)
      BY <1>1, <1>4
    <3>. QED
      BY <3>1, <3>2
  <2>. QED
    BY <1>1, <2>1, <2>2, <2>3, Zenon DEF Piece
<1> DEFINE ss == [i \in DOMAIN t |-> Piece(t, i)]
           us == [i \in DOMAIN u |-> Piece(u, i)]
<1>7. ss \in Seq(Seq(Sluggy)) /\ us \in Seq(Seq(Sluggy)) /\ Len(ss) = n /\ Len(us) = n + 1
  BY <1>1, PiecesType
<1>8. \A i \in 1 .. n : ss[i] = us[i]
  BY <1>1, <1>2, <1>5
<1>9. us[n + 1] = Piece(u, n + 1)
  BY <1>1, <1>2
<1>10. Joined(t) = FlattenSeq(ss) /\ Joined(u) = FlattenSeq(us)
  BY DEF Joined
<1>. HIDE DEF ss, us
<1>11. Joined(u) = Joined(t) \o Piece(u, n + 1)
  BY <1>7, <1>8, <1>9, <1>10, FlattenedByOne
<1>12. FlattenSeq(<<>>) = <<>>
  BY DEF FlattenSeq
<1>13. Joined(<<>>) = <<>> /\ Kept(<<>>) = {}
  BY <1>12 DEF Joined, Kept
<1>. QED
  BY <1>1, <1>3, <1>4, <1>6, <1>11, <1>13

\* What is within the limit is not cut, and what follows it is cut off.
LEMMA CutFacts ==
  ASSUME NEW w \in Seq(Sluggy)
  PROVE  /\ Cut(w) \in Seq(Sluggy) /\ Len(Cut(w)) <= MaxSlug
         /\ Len(w) <= MaxSlug => Cut(w) = w
         /\ \A v \in Seq(Sluggy) : Len(w) >= MaxSlug => Cut(w \o v) = Cut(w)
<1>1. MaxSlug \in Nat \ {0} /\ Len(w) \in Nat
  BY NoteNameAssumption, LenProperties
<1> DEFINE k == IF Len(w) < MaxSlug THEN Len(w) ELSE MaxSlug
<1>2. k \in 0 .. Len(w) /\ k \in Nat /\ k <= MaxSlug
  BY <1>1
<1>3. Cut(w) = SubSeq(w, 1, k)
  BY DEF Cut
<1>4. Cut(w) \in Seq(Sluggy) /\ Len(Cut(w)) <= MaxSlug
  <2>1. \A i \in 1 .. k : w[i] \in Sluggy
    BY <1>2, ElementOfSeq
  <2>. HIDE DEF k
  <2>2. /\ SubSeq(w, 1, k) \in Seq(Sluggy)
        /\ Len(SubSeq(w, 1, k)) = IF 1 <= k THEN k - 1 + 1 ELSE 0
    BY <1>2, <2>1, SubSeqProperties
  <2>. QED
    BY <1>1, <1>2, <1>3, <2>2
<1>5. ASSUME Len(w) <= MaxSlug PROVE Cut(w) = w
  <2>1. k = Len(w)
    BY <1>1, <1>5
  <2>. QED
    BY <1>3, <2>1, SubSeqFull
<1>6. ASSUME NEW v \in Seq(Sluggy), Len(w) >= MaxSlug PROVE Cut(w \o v) = Cut(w)
  <2>1. Len(w \o v) = Len(w) + Len(v) /\ Len(v) \in Nat
    BY ConcatProperties, LenProperties
  <2>2. (IF Len(w \o v) < MaxSlug THEN Len(w \o v) ELSE MaxSlug) = MaxSlug
    BY <1>1, <1>6, <2>1
  <2>3. Cut(w \o v) = SubSeq(w \o v, 1, MaxSlug)
    BY <2>2 DEF Cut
  <2>4. Cut(w) = SubSeq(w, 1, MaxSlug)
    BY <1>1, <1>6 DEF Cut
  <2>5. 1 \in 1 .. Len(w) /\ MaxSlug \in 1 .. Len(w)
    BY <1>1, <1>6
  <2>6. SubSeq(w \o v, 1, MaxSlug) = SubSeq(w, 1, MaxSlug)
    BY <2>5, SubSeqOfConcat1
  <2>. QED
    BY <2>3, <2>4, <2>6
<1>. QED
  BY <1>4, <1>5, <1>6

\* Words with more after them.
LEMMA CutOfConcat ==
  ASSUME NEW a \in Seq(Sluggy), NEW b \in Seq(Sluggy), NEW ab, ab = a \o b
  PROVE  /\ ab \in Seq(Sluggy)
         /\ Len(a) \in Nat /\ Len(b) \in Nat /\ Len(ab) = Len(a) + Len(b)
         /\ Len(a) >= MaxSlug => Cut(ab) = Cut(a)
<1>1. Len(a) \in Nat /\ Len(b) \in Nat /\ MaxSlug \in Nat
  BY NoteNameAssumption, LenProperties
<1>2. a \o b \in Seq(Sluggy) /\ Len(a \o b) = Len(a) + Len(b)
  BY ConcatProperties
<1>3. Len(a) >= MaxSlug => Cut(a \o b) = Cut(a)
  BY CutFacts
<1>. QED
  BY <1>1, <1>2, <1>3

\* A scan s has the joined words cut off; until it is full it has them all, and
\* knows whether a word has ended: of n characters some are kept.
Has(s, words, kept, n) ==
  /\ words \in Seq(Sluggy)
  /\ words = <<>> => kept = {}
  /\ kept = {} => words = <<>>
  /\ s.separator \in BOOLEAN /\ s.full \in BOOLEAN
  /\ s = [slug |-> s.slug, separator |-> s.separator, full |-> s.full]
  /\ s.slug = Cut(words)
  /\ s.full => Len(words) >= MaxSlug
  /\ ~s.full => /\ Len(words) <= MaxSlug
                /\ s.separator => n \notin kept
                /\ n # 0 /\ n \notin kept => s.separator

\* The scan goes on as the words do.
LEMMA ScanFollows ==
  ASSUME NEW s, NEW w, NEW kept, NEW n \in Nat, kept \subseteq 1 .. n, Has(s, w, kept, n),
         NEW c \in Typed, NEW z, z = Scan(s, c),
         NEW x, x = w \o (IF c \notin Letters THEN <<>>
                          ELSE IF n \notin kept /\ kept # {} THEN <<Hyphen, c>>
                          ELSE <<c>>)
  PROVE  Has(z, x, kept \cup (IF c \in Letters THEN {n + 1} ELSE {}), n + 1)
<1> DEFINE started == IF s.separator /\ s.slug # <<>> THEN Append(s.slug, Hyphen)
                      ELSE s.slug
<1>1. z = Scan(s, c)
  OBVIOUS
<1>2. /\ n \in Nat /\ kept \subseteq 1 .. n
      /\ x = w \o (IF c \notin Letters THEN <<>>
                   ELSE IF n \notin kept /\ kept # {} THEN <<Hyphen, c>> ELSE <<c>>)
  OBVIOUS
<1>3. /\ w \in Seq(Sluggy)
      /\ w = <<>> => kept = {}
      /\ kept = {} => w = <<>>
      /\ s.separator \in BOOLEAN /\ s.full \in BOOLEAN
      /\ s = [slug |-> s.slug, separator |-> s.separator, full |-> s.full]
      /\ s.slug = Cut(w)
      /\ s.full => Len(w) >= MaxSlug
      /\ ~s.full => /\ Len(w) <= MaxSlug
                    /\ s.separator => n \notin kept
                    /\ n # 0 /\ n \notin kept => s.separator
  BY DEF Has
<1>4. MaxSlug \in Nat \ {0} /\ Len(w) \in Nat
  BY <1>3, NoteNameAssumption, LenProperties
<1>5. n + 1 \notin kept
  BY <1>2
<1>6. CASE c \notin Letters
  <2>1. x = w
    BY <1>2, <1>3, <1>6, ConcatEmptySeq
  <2>0. n + 1 # 0 /\ n + 1 \notin kept /\ kept \cup (IF c \in Letters THEN {n + 1} ELSE {}) = kept
    BY <1>2, <1>5, <1>6
  <2>2. CASE s.full
    <3>1. z = s
      BY <1>1, <2>2 DEF Scan
    <3>. QED
      BY <1>3, <2>0, <2>1, <2>2, <3>1 DEF Has
  <2>3. CASE ~s.full
    <3>1. z = [s EXCEPT !.separator = TRUE]
      BY <1>1, <1>6, <2>3 DEF Scan
    <3>2. z = [slug |-> s.slug, separator |-> TRUE, full |-> s.full]
      BY <1>3, <3>1
    <3>3. z.slug = s.slug /\ z.separator = TRUE /\ z.full = s.full
      BY <3>2
    <3>. QED
      BY <1>3, <2>0, <2>1, <2>3, <3>2, <3>3 DEF Has
  <2>. QED
    BY <1>3, <2>2, <2>3
<1>7. CASE c \in Letters
  <2>1. c \in Sluggy /\ Hyphen \in Sluggy /\ <<c>> \in Seq(Sluggy) /\ <<Hyphen>> \in Seq(Sluggy)
    <3>1. c \in Sluggy /\ Hyphen \in Sluggy
      BY <1>7 DEF Sluggy
    <3>. QED
      BY <3>1
  <2>2. PICK v \in Seq(Sluggy) : x = w \o v /\ (v = <<Hyphen, c>> \/ v = <<c>>)
    <3>1. <<Hyphen, c>> \in Seq(Sluggy)
      BY <2>1
    <3>. QED
      BY <1>2, <1>7, <2>1, <3>1
  <2>3. x \in Seq(Sluggy) /\ Len(x) >= Len(w) /\ x # <<>>
    <3>1. Len(v) \in Nat \ {0}
      <4>1. CASE v = <<Hyphen, c>>
        <5>1. Len(<<Hyphen, c>>) = 2
          OBVIOUS
        <5>. QED
          BY <4>1, <5>1
      <4>2. CASE v = <<c>>
        <5>1. Len(<<c>>) = 1
          OBVIOUS
        <5>. QED
          BY <4>2, <5>1
      <4>. QED
        BY <2>2, <4>1, <4>2
    <3>4. x \in Seq(Sluggy) /\ Len(x) = Len(w) + Len(v)
      <4>1. w \in Seq(Sluggy) /\ x = w \o v
        BY <1>3, <2>2
      <4>. QED
        BY <4>1, CutOfConcat
    <3>2. Len(x) # 0
      BY <1>4, <3>1, <3>4
    <3>. QED
      BY <1>4, <3>1, <3>2, <3>4
  <2> DEFINE more == kept \cup (IF c \in Letters THEN {n + 1} ELSE {})
  <2>4. n + 1 \in more /\ more # {}
    BY <1>7
  <2>. HIDE DEF more
  <2>5. CASE s.full
    <3>1. z = s
      BY <1>1, <2>5 DEF Scan
    <3>2. Cut(x) = Cut(w) /\ Len(x) >= MaxSlug
      <4>1. Len(w) >= MaxSlug /\ Len(x) \in Nat
        BY <1>3, <2>3, <2>5, LenProperties
      <4>2. w \in Seq(Sluggy) /\ x = w \o v
        BY <1>3, <2>2
      <4>3. Cut(x) = Cut(w)
        BY <4>1, <4>2, CutOfConcat
      <4>. QED
        BY <1>4, <2>3, <4>1, <4>3
    <3>. QED
      BY <1>3, <2>3, <2>4, <2>5, <3>1, <3>2 DEF Has, more
  <2>6. CASE ~s.full
    <3>1. s.slug = w /\ Len(w) <= MaxSlug
      BY <1>3, <2>6, CutFacts
    <3>2. s.separator /\ s.slug # <<>> => n \notin kept /\ kept # {}
      BY <1>3, <2>6, <3>1
    <3>3. n \notin kept /\ kept # {} => s.separator /\ s.slug # <<>>
      BY <1>2, <1>3, <2>6, <3>1
    <3>4. started \in Seq(Sluggy) /\ x = started \o <<c>>
      <4>1. CASE s.separator /\ s.slug # <<>>
        <5>1. started = Append(w, Hyphen) /\ x = w \o <<Hyphen, c>>
          BY <1>2, <1>7, <3>1, <3>2, <4>1
        <5>2. Append(w, Hyphen) = w \o <<Hyphen>> /\ Append(w, Hyphen) \in Seq(Sluggy)
          BY <1>3, <2>1, AppendIsConcat, AppendProperties
        <5>3. <<Hyphen, c>> = <<Hyphen>> \o <<c>>
          BY <2>1
        <5>4. w \o (<<Hyphen>> \o <<c>>) = (w \o <<Hyphen>>) \o <<c>>
          BY <1>3, <2>1, ConcatAssociative
        <5>. QED
          BY <5>1, <5>2, <5>3, <5>4
      <4>2. CASE ~(s.separator /\ s.slug # <<>>)
        BY <1>2, <1>3, <1>7, <3>1, <3>3, <4>2
      <4>. QED
        BY <4>1, <4>2
    <3>5. Len(started) \in Nat /\ Len(started) <= Len(w) + 1 /\ Len(x) = Len(started) + 1
      <4>1. Len(started) <= Len(w) + 1
        BY <1>3, <1>4, <2>1, <3>1, AppendProperties
      <4>2. Len(x) = Len(started) + 1
        <5>. HIDE DEF started
        <5>1. Len(<<c>>) = 1
          OBVIOUS
        <5>. QED
          BY <2>1, <3>4, <5>1, ConcatProperties
      <4>3. Len(started) \in Nat
        BY <3>4, LenProperties
      <4>. QED
        BY <4>1, <4>2, <4>3
    <3>6. CASE Len(s.slug) >= MaxSlug
      <4>1. z = [s EXCEPT !.full = TRUE]
        BY <1>1, <1>7, <2>6, <3>6 DEF Scan
      <4>2. z = [slug |-> s.slug, separator |-> s.separator, full |-> TRUE]
        BY <1>3, <4>1
      <4>3. z.slug = s.slug /\ z.separator = s.separator /\ z.full = TRUE
        BY <4>2
      <4>4. Cut(x) = Cut(w)
        <5>1. w \in Seq(Sluggy) /\ x = w \o v /\ Len(w) >= MaxSlug
          BY <1>3, <2>2, <3>1, <3>6
        <5>. QED
          BY <5>1, CutOfConcat
      <4>5. Len(x) >= MaxSlug
        <5>1. Len(x) \in Nat
          BY <2>3, LenProperties
        <5>. QED
          BY <1>4, <2>3, <3>1, <3>6, <5>1
      <4>. QED
        BY <1>3, <2>3, <2>4, <4>2, <4>3, <4>4, <4>5 DEF Has, more
    <3>7. CASE ~(Len(s.slug) >= MaxSlug) /\ Len(started) >= MaxSlug
      <4>1. z = [slug |-> started, separator |-> FALSE, full |-> TRUE]
        BY <1>1, <1>7, <2>6, <3>7 DEF Scan
      <4>2. z.slug = started /\ z.separator = FALSE /\ z.full = TRUE
        BY <4>1
      <4>. HIDE DEF started
      <4>3. Len(started) <= MaxSlug
        BY <1>4, <3>1, <3>5, <3>7
      <4>4. Cut(x) = started
        <5>1. Len(started) >= MaxSlug /\ started \in Seq(Sluggy)
          BY <3>4, <3>7
        <5>2. PICK b \in Seq(Sluggy) : x = started \o b
          BY <2>1, <3>4
        <5>3. Cut(x) = Cut(started)
          BY <5>1, <5>2, CutOfConcat
        <5>4. Cut(started) = started
          BY <4>3, <5>1, CutFacts
        <5>. QED
          BY <5>3, <5>4
      <4>5. Len(x) >= MaxSlug
        BY <1>4, <3>5, <3>7
      <4>. QED
        BY <2>3, <2>4, <4>1, <4>2, <4>4, <4>5 DEF Has, more
    <3>8. CASE ~(Len(s.slug) >= MaxSlug) /\ ~(Len(started) >= MaxSlug)
      <4>1. z = [slug |-> Append(started, c), separator |-> FALSE, full |-> FALSE]
        BY <1>1, <1>7, <2>6, <3>8 DEF Scan
      <4>2. z.slug = Append(started, c) /\ z.separator = FALSE /\ z.full = FALSE
        BY <4>1
      <4>. HIDE DEF started
      <4>3. Append(started, c) = x
        BY <2>1, <3>4, AppendIsConcat
      <4>4. Len(x) <= MaxSlug
        BY <1>4, <3>5, <3>8
      <4>5. Cut(x) = x
        BY <2>3, <4>4, CutFacts
      <4>. QED
        BY <2>3, <2>4, <4>1, <4>2, <4>3, <4>4, <4>5 DEF Has, more
    <3>. QED
      BY <3>6, <3>7, <3>8
  <2>. QED
    BY <1>3, <2>5, <2>6
<1>. QED
  BY <1>6, <1>7

----------------------------------------------------------------------------
(* Titles and their slugs.                                                 *)

\* The scan of a title has its words.
Follows(t) == t \in Seq(Typed) /\ Has(Scanned(t), Joined(t), Kept(t), Len(t))

\* However a title is typed, its scan has its words.
LEMMA TitleScanned == Spec => []Follows(title)
<1>1. Init => Follows(title)
  <2>. SUFFICES ASSUME Init PROVE Follows(title)
    OBVIOUS
  <2>1. title = <<>> /\ title \in Seq(Typed) /\ Len(title) = 0
    BY DEF Init
  <2>2. Other \in Typed
    BY DEF Typed
  <2>3. Scanned(title) = NothingScanned /\ Joined(title) = <<>> /\ Kept(title) = {}
    BY <2>1, <2>2, ScannedByOne, JoinedByOne
  <2>4. MaxSlug \in Nat /\ title \in Seq(Sluggy) /\ Len(title) <= MaxSlug
    BY <2>1, NoteNameAssumption
  <2>5. Cut(title) = <<>>
    BY <2>1, <2>4, CutFacts
  <2>6. Has(NothingScanned, <<>>, {}, 0)
    BY <2>1, <2>4, <2>5 DEF Has, NothingScanned
  <2>. QED
    BY <2>1, <2>3, <2>6 DEF Follows
<1>2. Follows(title) /\ [Next]_vars => Follows(title)'
  <2>. SUFFICES ASSUME Follows(title), [Next]_vars PROVE Follows(title)'
    OBVIOUS
  <2>1. CASE UNCHANGED title
    BY <2>1 DEF Follows
  <2>2. ASSUME NEW c \in Typed, Type(c) PROVE Follows(title)'
    <3>1. title' = Append(title, c) /\ title \in Seq(Typed)
      BY <2>2 DEF Type, Follows
    <3> DEFINE u == Append(title, c)
               n == Len(title)
               x == Joined(title) \o
                      (IF c \notin Letters THEN <<>>
                       ELSE IF n \notin Kept(title) /\ Kept(title) # {}
                            THEN <<Hyphen, c>> ELSE <<c>>)
               more == Kept(title) \cup (IF c \in Letters THEN {n + 1} ELSE {})
    <3>2. Scanned(u) = Scan(Scanned(title), c)
      BY <3>1, ScannedByOne
    <3>3. /\ n \in Nat /\ u \in Seq(Typed) /\ Len(u) = n + 1
          /\ Kept(title) \subseteq 1 .. n
          /\ Kept(u) = more /\ Joined(u) = x
      BY <3>1, JoinedByOne
    <3>4. Has(Scanned(title), Joined(title), Kept(title), n)
      BY DEF Follows
    <3>5. Has(Scan(Scanned(title), c), x, more, n + 1)
      BY <3>3, <3>4, ScanFollows
    <3>6. Follows(u)
      BY <3>2, <3>3, <3>5 DEF Follows
    <3>. QED
      BY <3>1, <3>6
  <2>. QED
    BY <2>1, <2>2 DEF Next, NextDay, Typed, vars
<1>. QED
  BY <1>1, <1>2, PTL DEF Spec

\* The slug of any title is its words joined and cut off at MAX_SLUG_CHARS,
\* without a hyphen at its end.
THEOREM SlugIsRight == Spec => []SlugRight
<1>1. Follows(title) => SlugRight
  BY DEF Follows, Has, Slug, SlugRight
<1>. QED
  BY <1>1, TitleScanned, PTL

\* A slug is letters and hyphens, at most MAX_SLUG_CHARS of them.
LEMMA SlugTyped ==
  ASSUME NEW t, Follows(t)
  PROVE  Slug(t) \in Seq(Sluggy) /\ Len(Slug(t)) <= MaxSlug
<1> DEFINE s == Scanned(t).slug
<1>1. s \in Seq(Sluggy) /\ Len(s) <= MaxSlug
  BY CutFacts DEF Follows, Has
<1>2. Slug(t) = IF s # <<>> /\ Last(s) = Hyphen THEN Front(s) ELSE s
  BY DEF Slug
<1>. HIDE DEF s
<1>3. ASSUME s # <<>> PROVE Front(s) \in Seq(Sluggy) /\ Len(Front(s)) <= MaxSlug
  <2>1. Len(s) \in Nat \ {0} /\ MaxSlug \in Nat
    BY <1>1, <1>3, NoteNameAssumption, LenProperties, EmptySeq
  <2>2. Front(s) = SubSeq(s, 1, Len(s) - 1)
    BY DEF Front
  <2>3. \A i \in 1 .. Len(s) - 1 : s[i] \in Sluggy
    BY <1>1, <2>1, ElementOfSeq
  <2>4. /\ SubSeq(s, 1, Len(s) - 1) \in Seq(Sluggy)
        /\ Len(SubSeq(s, 1, Len(s) - 1))
           = IF 1 <= Len(s) - 1 THEN Len(s) - 1 - 1 + 1 ELSE 0
    BY <2>1, <2>3, SubSeqProperties
  <2>. QED
    BY <1>1, <2>1, <2>2, <2>4
<1>. QED
  BY <1>1, <1>2, <1>3

----------------------------------------------------------------------------
(* Types.                                                                  *)

\* The clock stays within its walk.
LEMMA WithinWalk ==
  Spec => [](start \in Starts /\ day \in start.day .. start.day + start.walk)
<1> DEFINE W == start \in Starts /\ day \in start.day .. start.day + start.walk
<1>1. Init => W
  <2>. SUFFICES ASSUME Init PROVE W
    OBVIOUS
  <2>1. start \in Starts /\ day = start.day
    BY DEF Init
  <2>2. start.day \in Int /\ start.walk \in Nat
    BY <2>1, StartsAssumption
  <2>. QED
    BY <2>1, <2>2
<1>2. W /\ [Next]_vars => W'
  <2>. SUFFICES ASSUME W, [Next]_vars PROVE W'
    OBVIOUS
  <2>1. start.day \in Int /\ start.walk \in Nat
    BY StartsAssumption
  <2>2. CASE NextDay
    BY <2>1, <2>2 DEF NextDay
  <2>3. ASSUME NEW c, Type(c) PROVE W'
    BY <2>3 DEF Type
  <2>4. CASE UNCHANGED vars
    BY <2>4 DEF vars
  <2>. QED
    BY <2>2, <2>3, <2>4 DEF Next
<1>. QED
  BY <1>1, <1>2, PTL DEF Spec

\* Dates are dates, and a slug is letters and hyphens, at most MAX_SLUG_CHARS of
\* them, whatever the title.
THEOREM TypeCorrectness == Spec => []TypeOK
<1> DEFINE W == start \in Starts /\ day \in start.day .. start.day + start.walk
<1>1. W /\ DateOfDay /\ Follows(title) => TypeOK
  <2>. SUFFICES ASSUME W, DateOfDay, Follows(title) PROVE TypeOK
    OBVIOUS
  <2>1. {date, CivilFromDays(day)} \subseteq [year : Int, month : 1 .. 12, day : 1 .. 31]
    BY DateInRange DEF DateOfDay
  <2>2. title \in Seq(Letters \cup {Other})
    BY DEF Follows, Typed
  <2>3. Slug(title) \in Seq(Letters \cup {Hyphen}) /\ Len(Slug(title)) <= MaxSlug
    BY SlugTyped DEF Sluggy
  <2>. QED
    BY <2>1, <2>2, <2>3 DEF TypeOK
<1>. QED
  BY <1>1, WithinWalk, ClockWalks, TitleScanned, PTL
=============================================================================
