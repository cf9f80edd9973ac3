---------------------------- MODULE ScheduledJob ----------------------------
(***************************************************************************)
(* wd-scheduler: Schedule::next_occurrence (schedule.rs), over a calendar  *)
(* of the half-hours from 2023-01-01 00:00 UTC to the end of 2025, and a   *)
(* Job (job.rs) through its life.  What runs jobs is not in the            *)
(* repository: record_success and record_failure are called when a run     *)
(* ends, and as nothing in them looks at the status that may be after the  *)
(* owner has paused or cancelled the job.  Calls come at a time drawn from *)
(* Moments, for the application is not always open.                        *)
(*                                                                         *)
(* Abstracted: seconds; run_count, last_run and the descriptive fields.  A *)
(* schedule is a record of its kind, the fields that kind has and enabled. *)
(***************************************************************************)
EXTENDS Integers, Sequences

CONSTANTS
  Schedules,    \* schedules a job is made with
  MaxFailures,  \* values of max_failures
  Creation,     \* times a job may be made at
  Delay,        \* how late a call may come
  Horizon,      \* bound: nothing happens later
  FailureBound  \* bound: failures in a row

ASSUME JobAssumption ==
  /\ MaxFailures \subseteq Nat
  /\ Creation \subseteq Nat
  /\ Delay \subseteq Nat
  /\ Horizon \in Nat
  /\ FailureBound \in Nat

VARIABLES
  schedule, max_failures, status, next_run, consecutive_failures,
  now,      \* the time of the last call, which next_run was computed from
  held,     \* history: paused, cancelled or failed too often, not resumed since
  resumed   \* history: resumed since the last run that went well

vars == <<schedule, max_failures, status, next_run, consecutive_failures, now, held, resumed>>

None == -1
DayLength == 48   \* half-hours

(* The calendar of chrono. *)

\* Months are counted from January 2023, and 2024 is a leap year.
MonthStart(m) ==
  LET common == <<0, 31, 59, 90, 120, 151, 181, 212, 243, 273, 304, 334>>
  IN 365 * (m \div 12) + common[(m % 12) + 1] + (IF m > 13 THEN 1 ELSE 0)

MonthLength(m) == MonthStart(m + 1) - MonthStart(m)

Day(t) == t \div DayLength
Hour(t) == (t % DayLength) \div 2
Month(d) == CHOOSE m \in 0..35 : MonthStart(m) <= d /\ d < MonthStart(m + 1)
DayOfMonth(d) == d - MonthStart(Month(d)) + 1
Weekday(d) == (d + 6) % 7   \* Monday is 0; the first day was a Sunday

AtHour(d, hour) == DayLength * d + 2 * hour
----------------------------------------------------------------------------
(* next_occurrence.                                                       *)

\* Today at the hour if that is still to come, else tomorrow.
NextDaily(hour, after) ==
  LET today == AtHour(Day(after), hour)
  IN IF today > after THEN today ELSE today + DayLength

\* A scan that takes today whatever the hour.
NextWeeklyFromToday(day, hour, after) ==
  LET days == {k \in 0..8 : Weekday(Day(after) + k) = day}
  IN AtHour(Day(after) + CHOOSE k \in days : \A j \in days : k <= j, hour)

\* The scan over today and the eight days that follow: today counts only
\* before its hour has begun.
NextWeekly(day, hour, after) ==
  LET days == {k \in 0..8 : /\ Weekday(Day(after) + k) = day
                            /\ k = 0 => Hour(after) < hour}
  IN AtHour(Day(after) + CHOOSE k \in days : \A j \in days : k <= j, hour)

\* This month, else next month.  The next month is made by changing the month
\* of `after`, which fails when it has no such day: 30 days later, then.
NextMonthly(day, hour, after) ==
  LET m == Month(Day(after))
      inMonth(k) == AtHour(MonthStart(k) + day - 1, hour)
  IN IF inMonth(m) > after THEN inMonth(m)
     ELSE IF DayOfMonth(Day(after)) <= MonthLength(m + 1) THEN inMonth(m + 1)
     ELSE after + 30 * DayLength

Least(a, b) == IF a < b THEN a ELSE b

\* Weekdays over 5 mean Sunday, days of the month are cut to 1..28, and an
\* hour that does not exist leaves the plain period.
NextOccurrence(s, after) ==
  IF ~s.enabled THEN None
  ELSE CASE s.kind = "once" -> None
         [] s.kind = "minutes" -> after + s.n \div 30
         [] s.kind = "hours" -> after + 2 * s.n
         [] s.kind = "daily" ->
              IF s.hour > 23 THEN after + DayLength ELSE NextDaily(s.hour, after)
         [] s.kind = "weekly" ->
              IF s.hour > 23 THEN after + 7 * DayLength
              ELSE NextWeekly(Least(s.day, 6), s.hour, after)
         [] s.kind = "monthly" ->
              IF s.hour > 23 THEN after + 30 * DayLength
              ELSE NextMonthly(IF s.day < 1 THEN 1 ELSE Least(s.day, 28), s.hour, after)
         [] s.kind = "cron" -> after + DayLength
----------------------------------------------------------------------------
(* The job.                                                               *)

Status == {"active", "paused", "completed", "cancelled"}

Init ==
  /\ schedule \in Schedules
  /\ max_failures \in MaxFailures
  /\ status = "active"
  /\ now \in Creation
  /\ next_run = NextOccurrence(schedule, now)
  /\ consecutive_failures = 0
  /\ held = FALSE
  /\ resumed = FALSE

\* Times of the next call: soon after the last one or after the next run.
Moments ==
  {t \in {now + d : d \in Delay} \cup {next_run + d : d \in Delay} :
     now <= t /\ t <= Horizon}

CallAt(t) ==
  /\ now' = t
  /\ UNCHANGED <<schedule, max_failures>>

\* A run that went well and puts the job back on its schedule.
RecordSuccessReactivating(t) ==
  /\ CallAt(t)
  /\ consecutive_failures' = 0
  /\ status' = IF schedule.kind = "once" THEN "completed" ELSE "active"
  /\ next_run' = NextOccurrence(schedule, t)
  /\ resumed' = FALSE
  /\ UNCHANGED held

\* A one-shot job is completed; next_occurrence has no time for it anyway.
RecordSuccess(t) ==
  /\ CallAt(t)
  /\ consecutive_failures' = 0
  /\ status' = IF schedule.kind = "once" THEN "completed" ELSE status
  /\ next_run' = IF schedule.kind = "once" THEN None ELSE NextOccurrence(schedule, t)
  /\ resumed' = FALSE
  /\ UNCHANGED held

\* A limit noticed one failure late.
RecordFailureLate(t) ==
  /\ consecutive_failures < FailureBound
  /\ CallAt(t)
  /\ consecutive_failures' = consecutive_failures + 1
  /\ status' = IF consecutive_failures' > max_failures THEN "paused" ELSE status
  /\ held' = (held \/ status' = "paused")
  /\ next_run' = NextOccurrence(schedule, t)
  /\ UNCHANGED resumed

\* max_failures in a row pause the job, whatever its status was.
RecordFailure(t) ==
  /\ consecutive_failures < FailureBound
  /\ CallAt(t)
  /\ consecutive_failures' = consecutive_failures + 1
  /\ status' = IF consecutive_failures' >= max_failures THEN "paused" ELSE status
  /\ held' = (held \/ status' = "paused")
  /\ next_run' = NextOccurrence(schedule, t)
  /\ UNCHANGED resumed

\* pause() and cancel().
Halt(t, s) ==
  /\ CallAt(t)
  /\ status' = s
  /\ next_run' = None
  /\ held' = TRUE
  /\ UNCHANGED <<consecutive_failures, resumed>>

\* resume() takes any status and keeps the failures.
Resume(t) ==
  /\ CallAt(t)
  /\ status' = "active"
  /\ next_run' = NextOccurrence(schedule, t)
  /\ held' = FALSE
  /\ resumed' = TRUE
  /\ UNCHANGED consecutive_failures

Next ==
  \E t \in Moments :
    \/ RecordSuccess(t)
    \/ RecordFailure(t)
    \/ Halt(t, "paused")
    \/ Halt(t, "cancelled")
    \/ Resume(t)

Spec == Init /\ [][Next]_vars
----------------------------------------------------------------------------
(* Properties.                                                            *)

\* is_due() will be true at some time, if nothing else happens.
WillBeDue == status = "active" /\ next_run # None

\* Every variable keeps its type, and a job is completed only if it is a
\* one-shot.
TypeOK ==
  /\ schedule \in Schedules
  /\ max_failures \in MaxFailures
  /\ status \in Status
  /\ next_run \in Nat \cup {None}
  /\ consecutive_failures \in 0..FailureBound
  /\ now \in Nat
  /\ held \in BOOLEAN
  /\ resumed \in BOOLEAN
  /\ status = "completed" => schedule.kind = "once" /\ next_run = None

\* A job its owner or its failures have put out of action is never due again
\* before it is resumed, whatever runs of it still end well or badly.
HeldIsNeverDue == held => ~WillBeDue

\* A job that keeps failing is stopped at max_failures: short of a resume it is
\* not due with so many failures behind it.
FailuresStopIt ==
  (~resumed /\ consecutive_failures > 0 /\ consecutive_failures >= max_failures) => ~WillBeDue

\* What the doc comments of ScheduleKind promise of a day and an hour.
DayNamed(d) ==
  CASE schedule.kind = "daily" -> TRUE
    [] schedule.kind = "weekly" -> Weekday(d) = schedule.day
    [] schedule.kind = "monthly" -> DayOfMonth(d) = schedule.day

\* The first time the schedule names after a time.
IsFirstAfter(t) ==
  /\ next_run > t
  /\ DayNamed(Day(next_run)) /\ next_run = AtHour(Day(next_run), schedule.hour)
  /\ \A d \in Day(t)..Day(next_run) :
       LET u == AtHour(d, schedule.hour) IN DayNamed(d) => ~(t < u /\ u < next_run)

ByCalendar == next_run # None /\ schedule.kind \in {"daily", "weekly", "monthly"}

\* The next run is the first time the schedule names after the call that set it,
\* across midnight and the ends of weeks, months and years, unless the call came
\* on a day of the month the next month has not got.
NextRunIsFirst ==
  (ByCalendar /\ DayOfMonth(Day(now)) <= 28) => IsFirstAfter(now)

\* "Run monthly on a given day-of-month at a given hour", "Run weekly on a given
\* weekday at a given hour", "Run daily at a given hour": always.
ScheduleKept == ByCalendar => IsFirstAfter(now)
=============================================================================
