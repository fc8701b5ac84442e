------------------------------ MODULE NoteName ------------------------------
(***************************************************************************)
(* The name of a note in src/src/inbox.rs: the date of the clock and the   *)
(* slug of the title.  The clock is walked day by day beside the calendar  *)
(* everyone knows, and a title is typed character by character.            *)
(***************************************************************************)
EXTENDS Calendar, Sequences, SequencesExt

CONSTANTS
  Letters,    \* characters a slug keeps: 'a'..='z', '0'..='9'
  Other,      \* any other character of a title
  Hyphen,     \* '-', as a slug has it
  MaxSlug,    \* MAX_SLUG_CHARS
  MaxTitle,   \* bound: titles
  Starts,     \* where walks begin, a day number with its date, and (bound) how
              \* many days they take
  ClockTimes, \* hours, minutes and seconds looked at on each day
  LastDay     \* bound: days from the epoch in which seconds are counted

ASSUME NoteNameAssumption ==
  /\ Other \notin Letters /\ Hyphen \notin Letters
  /\ MaxSlug \in Nat \ {0} /\ {MaxTitle, LastDay} \subseteq Nat
  /\ ClockTimes \subseteq [hour : 0 .. 23, minute : 0 .. 59, second : 0 .. 59]

\* The walks begin at dates that are right.
ASSUME StartsAssumption ==
  \A s \in Starts : s.day \in Int /\ s.walk \in Nat /\ s.date = CivilFromDays(s.day)

VARIABLES
  start,  \* where the walk began
  day,    \* the day number of the clock
  date,   \* its date in the calendar everyone knows
  title   \* a title, lower-cased

vars == <<start, day, date, title>>

Init ==
  /\ start \in Starts
  /\ day = start.day /\ date = start.date
  /\ title = <<>>

NextDay ==
  /\ title = <<>> /\ day < start.day + start.walk
  /\ day' = day + 1
  /\ date' = DayAfter(date)
  /\ UNCHANGED <<start, title>>

\* Titles are looked at on the first day.
Type(c) ==
  /\ day = start.day /\ Len(title) < MaxTitle
  /\ title' = Append(title, c)
  /\ UNCHANGED <<start, day, date>>

Next == NextDay \/ \E c \in Letters \cup {Other} : Type(c)

Spec == Init /\ [][Next]_vars

----------------------------------------------------------------------------
(* slug                                                                    *)

\* The slip: there is room for the hyphen, so there is for the letter.
ScanPastTheEnd(s, c) ==
  LET started == IF s.separator /\ s.slug # <<>> THEN Append(s.slug, Hyphen) ELSE s.slug
  IN IF s.full THEN s
     ELSE IF c \notin Letters THEN [s EXCEPT !.separator = TRUE]
     ELSE IF Len(s.slug) >= MaxSlug THEN [s EXCEPT !.full = TRUE]
     ELSE [slug |-> Append(started, c), separator |-> FALSE, full |-> FALSE]

\* One character: a letter after others gets a hyphen before it, and the loop
\* ends when the slug is full.
Scan(s, c) ==
  LET started == IF s.separator /\ s.slug # <<>> THEN Append(s.slug, Hyphen) ELSE s.slug
  IN IF s.full THEN s
     ELSE IF c \notin Letters THEN [s EXCEPT !.separator = TRUE]
     ELSE IF Len(s.slug) >= MaxSlug THEN [s EXCEPT !.full = TRUE]
     ELSE IF Len(started) >= MaxSlug
     THEN [slug |-> started, separator |-> FALSE, full |-> TRUE]
     ELSE [slug |-> Append(started, c), separator |-> FALSE, full |-> FALSE]

NothingScanned == [slug |-> <<>>, separator |-> FALSE, full |-> FALSE]

Scanned(t) == FoldLeft(Scan, NothingScanned, t)

\* The slip: the slug may end in the hyphen it was cut at.
SlugUntrimmed(t) == Scanned(t).slug

\* An empty slug stands for the fallback, `note`.
Slug(t) ==
  LET s == Scanned(t).slug
  IN IF s # <<>> /\ Last(s) = Hyphen THEN Front(s) ELSE s

----------------------------------------------------------------------------
(* Properties.                                                             *)

TypeOK ==
  /\ start \in Starts
  /\ day \in start.day .. start.day + start.walk
  /\ {date, CivilFromDays(day)} \subseteq [year : Int, month : 1 .. 12, day : 1 .. 31]
  /\ title \in Seq(Letters \cup {Other})
  /\ Slug(title) \in Seq(Letters \cup {Hyphen}) /\ Len(Slug(title)) <= MaxSlug

\* civil_from_days gives the date everyone knows, on every day of an era, across
\* leap days, centuries and both sides of year 0, and a real date is never
\* refused as the date of an event.
CalendarRight == CivilFromDays(day) = date /\ ValidOccurred(date)

\* A second before the epoch has the date and time everyone knows too.
StampRight ==
  day \in -LastDay .. LastDay - 1 =>
    \A t \in ClockTimes :
      UtcParts(day * 86400 + t.hour * 3600 + t.minute * 60 + t.second)
      = [date |-> date, hour |-> t.hour, minute |-> t.minute, second |-> t.second]

\* The words of a title, a hyphen between each two.
Kept(t) == {i \in DOMAIN t : t[i] \in Letters}

Piece(t, i) ==
  IF i \notin Kept(t) THEN <<>>
  ELSE IF i - 1 \notin Kept(t) /\ \E j \in Kept(t) : j < i THEN <<Hyphen, t[i]>>
  ELSE <<t[i]>>

Joined(t) == FlattenSeq([i \in DOMAIN t |-> Piece(t, i)])

\* The joined words, cut off.
Cut(words) == SubSeq(words, 1, IF Len(words) < MaxSlug THEN Len(words) ELSE MaxSlug)

\* A slug is the words of the title joined and cut off at MAX_SLUG_CHARS, without
\* a hyphen at its end: what is_safe_file_name asks of a name always holds.
SlugRight ==
  LET cut == Cut(Joined(title))
  IN Slug(title) = IF cut # <<>> /\ Last(cut) = Hyphen THEN Front(cut) ELSE cut
=============================================================================
