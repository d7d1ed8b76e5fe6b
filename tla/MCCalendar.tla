----------------------------- MODULE MCCalendar -----------------------------
(* The finite instances of Calendar that TLC checks. *)
EXTENDS Calendar, TLC

On(y, m, d) == [year |-> y, month |-> m, day |-> d]

\* The turn of the year and of February: in a year in which somebody born on
\* 29 February comes of age, in a leap year, in a century without a leap day.
MCSpans == {<<On(2025, 12, 29), On(2026, 3, 2)>>,
            <<On(2027, 12, 29), On(2028, 3, 2)>>,
            <<On(2099, 12, 29), On(2100, 3, 2)>>}

MCBirthday == {[month |-> 2, day |-> 28], [month |-> 2, day |-> 29],
               [month |-> 1, day |-> 1]}

MCOffsets == {60, 30, 21, 14, 7, 5, 3, 2, 1, 0}
MCZone == {-1, 1}
=============================================================================
