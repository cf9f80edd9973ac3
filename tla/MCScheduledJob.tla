--------------------------- MODULE MCScheduledJob ---------------------------
(* A ScheduledJob in the winter of 2023 to 2024, across the end of a year   *)
(* and the leap day, with each kind of schedule.                            *)
EXTENDS ScheduledJob

Kind(kind, day, hour, n) ==
  [kind |-> kind, day |-> day, hour |-> hour, n |-> n, enabled |-> TRUE]

MCSchedules ==
  {Kind("once", 0, 0, 0), Kind("minutes", 0, 0, 30), Kind("hours", 0, 0, 36),
   Kind("daily", 0, 8, 0), Kind("daily", 0, 0, 0),
   Kind("weekly", 0, 8, 0), Kind("weekly", 6, 23, 0),
   Kind("monthly", 1, 8, 0), Kind("monthly", 28, 0, 0), Kind("cron", 0, 0, 0),
   [Kind("daily", 0, 8, 0) EXCEPT !.enabled = FALSE]}

\* A morning and an evening at the end of December.
MCCreation == {AtHour(MonthStart(11) + 25, 8), AtHour(MonthStart(11) + 26, 23)}

\* On time, or three days and twelve and a half hours late: calls come to many
\* half-hours of a day, on each day of the week.
MCDelay == {0, 3 * DayLength + 25}

\* The third of March.
MCHorizon == AtHour(MonthStart(14) + 2, 0)
=============================================================================
