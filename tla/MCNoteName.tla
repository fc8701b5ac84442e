---------------------------- MODULE MCNoteName ----------------------------
(* NoteName for TLC.                                                       *)
EXTENDS NoteName

\* From the year before year 0 to the year after it, and from 1600 through a
\* whole era of 400 years and on into 2038.
WalkStarts ==
  {[day |-> -719893, date |-> [year |-> -1, month |-> 1, day |-> 1], walk |-> 1096],
   [day |-> -135140, date |-> [year |-> 1600, month |-> 1, day |-> 1],
    walk |-> 160000]}

TimesOfDay ==
  {[hour |-> 0, minute |-> 0, second |-> 0], [hour |-> 0, minute |-> 59, second |-> 59],
   [hour |-> 12, minute |-> 0, second |-> 0], [hour |-> 23, minute |-> 59, second |-> 59]}
=============================================================================
