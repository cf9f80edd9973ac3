------------------------- MODULE ScheduledJobProofs -------------------------
(***************************************************************************)
(* Proofs about ScheduledJob for any schedules, limits and times: a job    *)
(* that was stopped, by its owner or by its failures, is not due, for      *)
(* which nothing about the calendar is needed; and, within the calendar,   *)
(* that a job on a day and an hour that exist runs next when it should.    *)
(***************************************************************************)
EXTENDS ScheduledJob, SiftProofs

\* A job that is held is not active.
HeldIsInactive == held => status # "active"

\* A job that has failed too often is not active, short of a resume.
FailedIsInactive ==
  (~resumed /\ consecutive_failures > 0 /\ consecutive_failures >= max_failures)
    => status # "active"

JobInv == HeldIsInactive /\ FailedIsInactive

\* A new job is active, with no failures.
LEMMA JobInvInit == Init => JobInv
BY DEF Init, JobInv, HeldIsInactive, FailedIsInactive

\* Only resume makes a job active again.
LEMMA JobInvStep == JobInv /\ [Next]_vars => JobInv'
<1> SUFFICES ASSUME JobInv, [Next]_vars
             PROVE  JobInv'
  OBVIOUS
<1> USE DEF JobInv, HeldIsInactive, FailedIsInactive
<1>1. ASSUME NEW t \in Moments, RecordSuccess(t)
      PROVE  JobInv'
  BY <1>1 DEF RecordSuccess, CallAt
<1>2. ASSUME NEW t \in Moments, RecordFailure(t)
      PROVE  JobInv'
  <2>1. HeldIsInactive'
    BY <1>2 DEF RecordFailure
  <2>2. FailedIsInactive'
    BY <1>2 DEF RecordFailure, CallAt
  <2> QED BY <2>1, <2>2
<1>3. ASSUME NEW t \in Moments, Halt(t, "paused") \/ Halt(t, "cancelled")
      PROVE  JobInv'
  BY <1>3 DEF Halt
<1>4. ASSUME NEW t \in Moments, Resume(t)
      PROVE  JobInv'
  BY <1>4 DEF Resume
<1>5. CASE UNCHANGED vars
  BY <1>5 DEF vars
<1> QED BY <1>1, <1>2, <1>3, <1>4, <1>5 DEF Next

\* A job that was paused, cancelled or failed too often is not due before it is
\* resumed, whenever its runs end.
THEOREM HeldNeverDue == Spec => []HeldIsNeverDue
<1>1. JobInv => HeldIsNeverDue
  BY DEF JobInv, HeldIsInactive, HeldIsNeverDue, WillBeDue
<1> QED BY JobInvInit, JobInvStep, <1>1, PTL DEF Spec

\* max_failures in a row stop a job, whatever comes between them but a resume.
THEOREM FailuresAlwaysStopIt == Spec => []FailuresStopIt
<1>1. JobInv => FailuresStopIt
  BY DEF JobInv, FailedIsInactive, FailuresStopIt, WillBeDue
<1> QED BY JobInvInit, JobInvStep, <1>1, PTL DEF Spec

----------------------------------------------------------------------------
(* The calendar.                                                          *)

\* A month has 28 to 31 days.
LEMMA MonthSteps ==
  /\ MonthStart(0) = 0
  /\ \A m \in 0..37 : MonthStart(m) \in Nat
  /\ \A m \in 0..36 : /\ MonthStart(m) + 28 <= MonthStart(m + 1)
                      /\ MonthStart(m + 1) <= MonthStart(m) + 31
<1>1. \A m \in 0..37 : \E y \in 0..3, k \in 0..11 : m = 12 * y + k /\ m \div 12 = y /\ m % 12 = k
  OBVIOUS
<1> DEFINE common == <<0, 31, 59, 90, 120, 151, 181, 212, 243, 273, 304, 334>>
<1>2. \A k \in 0..11 : common[k + 1] \in Nat
  OBVIOUS
<1>3. \A k \in 0..10 : common[k + 1] + 28 <= common[k + 2] /\ common[k + 2] <= common[k + 1] + 31
  OBVIOUS
<1>4. common[1] = 0 /\ common[12] = 334 /\ common[2] = 31 /\ common[3] = 59
  OBVIOUS
<1>5. \A m : MonthStart(m) = 365 * (m \div 12) + common[(m % 12) + 1] + (IF m > 13 THEN 1 ELSE 0)
  BY DEF MonthStart
<1> HIDE DEF common
<1>6. \A y \in 0..3, k \in 0..11 :
        /\ (12 * y + k) \div 12 = y /\ (12 * y + k) % 12 = k
        /\ MonthStart(12 * y + k) = 365 * y + common[k + 1] + (IF 12 * y + k > 13 THEN 1 ELSE 0)
  <2>1. \A y \in 0..3, k \in 0..11 : (12 * y + k) \div 12 = y /\ (12 * y + k) % 12 = k
    OBVIOUS
  <2> QED BY <1>5, <2>1
<1>7. \A m \in 0..37 : MonthStart(m) \in Nat
  BY <1>1, <1>2, <1>6
<1>8. ASSUME NEW m \in 0..36
      PROVE  MonthStart(m) + 28 <= MonthStart(m + 1) /\ MonthStart(m + 1) <= MonthStart(m) + 31
  <2>1. PICK y \in 0..3, k \in 0..11 : m = 12 * y + k
    BY <1>1
  <2>2. MonthStart(m) = 365 * y + common[k + 1] + (IF m > 13 THEN 1 ELSE 0)
    BY <1>6, <2>1
  <2>3. CASE k < 11
    <3>1. m + 1 = 12 * y + (k + 1) /\ k + 1 \in 0..11 /\ k \in 0..10
      BY <2>1, <2>3
    <3>2. MonthStart(m + 1) = 365 * y + common[k + 2] + (IF m + 1 > 13 THEN 1 ELSE 0)
      <4>1. MonthStart(12 * y + (k + 1)) = 365 * y + common[(k + 1) + 1]
                                            + (IF 12 * y + (k + 1) > 13 THEN 1 ELSE 0)
        BY <1>6, <3>1
      <4>2. (k + 1) + 1 = k + 2
        BY <3>1
      <4> QED BY <3>1, <4>1, <4>2
    <3>3. /\ common[k + 1] \in Nat /\ common[k + 2] \in Nat
          /\ common[k + 1] + 28 <= common[k + 2] /\ common[k + 2] <= common[k + 1] + 31
      <4>1. common[(k + 1) + 1] \in Nat /\ (k + 1) + 1 = k + 2
        BY <1>2, <3>1
      <4> QED BY <1>2, <1>3, <3>1, <4>1
    <3>4. CASE m = 13
      <4>1. k = 1
        BY <2>1, <3>4
      <4> QED BY <1>4, <2>2, <3>2, <3>4, <4>1
    <3>5. CASE m # 13
      BY <2>2, <3>2, <3>3, <3>5
    <3> QED BY <3>4, <3>5
  <2>4. CASE k = 11
    <3>1. m + 1 = 12 * (y + 1) + 0 /\ y + 1 \in 0..3
      BY <2>1, <2>4
    <3>2. MonthStart(m + 1) = 365 * (y + 1) + (IF m + 1 > 13 THEN 1 ELSE 0)
      BY <1>4, <1>6, <3>1
    <3>3. MonthStart(m) = 365 * y + 334 + (IF m > 13 THEN 1 ELSE 0)
      BY <1>4, <2>2, <2>4
    <3> QED BY <2>1, <2>4, <3>2, <3>3
  <2> QED BY <2>3, <2>4
<1>9. MonthStart(0) = 0
  BY <1>4, <1>5
<1> QED BY <1>7, <1>8, <1>9

\* Months follow each other.
LEMMA MonthsGrow ==
  ASSUME NEW m \in 0..37, NEW j \in 0..37, m < j
  PROVE  MonthStart(m + 1) <= MonthStart(j)
<1> DEFINE T == {k \in Nat : \A i \in 0..37 : i + k <= 37 => MonthStart(i) <= MonthStart(i + k)}
<1>1. 0 \in T
  BY MonthSteps
<1>2. ASSUME NEW k \in Nat, k \in T PROVE k + 1 \in T
  <2> SUFFICES ASSUME NEW i \in 0..37, i + (k + 1) <= 37
               PROVE  MonthStart(i) <= MonthStart(i + (k + 1))
    OBVIOUS
  <2>1. MonthStart(i) <= MonthStart(i + k)
    BY <1>2
  <2>2. i + k \in 0..36 /\ (i + k) + 1 = i + (k + 1)
    OBVIOUS
  <2>3. MonthStart(i + k) + 28 <= MonthStart(i + (k + 1))
    BY <2>2, MonthSteps
  <2>4. MonthStart(i) \in Nat /\ MonthStart(i + k) \in Nat /\ MonthStart(i + (k + 1)) \in Nat
    BY <2>2, MonthSteps
  <2> QED BY <2>1, <2>3, <2>4
<1>3. Nat \subseteq T
  <2> HIDE DEF T
  <2> QED BY <1>1, <1>2, NatSetInduction
<1>4. j - (m + 1) \in Nat /\ m + 1 \in 0..37 /\ (m + 1) + (j - (m + 1)) = j
  OBVIOUS
<1>5. j - (m + 1) \in T
  BY <1>3, <1>4
<1> QED BY <1>4, <1>5

\* The month of a day, and that a day of the calendar has one.
LEMMA MonthIs ==
  ASSUME NEW m \in 0..35, NEW d \in Nat, MonthStart(m) <= d, d < MonthStart(m + 1)
  PROVE  Month(d) = m
<1>1. ASSUME NEW j \in 0..35, MonthStart(j) <= d, d < MonthStart(j + 1), j # m PROVE FALSE
  <2>1. /\ MonthStart(j) \in Nat /\ MonthStart(j + 1) \in Nat
        /\ MonthStart(m) \in Nat /\ MonthStart(m + 1) \in Nat
    BY MonthSteps
  <2>2. CASE j < m
    BY <1>1, <2>1, <2>2, MonthsGrow
  <2>3. CASE m < j
    BY <1>1, <2>1, <2>3, MonthsGrow
  <2> QED BY <1>1, <2>2, <2>3
<1> QED BY <1>1 DEF Month

LEMMA MonthExists ==
  ASSUME NEW n \in 0..36, NEW d \in Nat, d < MonthStart(n)
  PROVE  \E m \in 0..35 : m < n /\ MonthStart(m) <= d /\ d < MonthStart(m + 1)
<1> DEFINE Has(k) == \E m \in 0..35 : m < k /\ MonthStart(m) <= d /\ d < MonthStart(m + 1)
           T == {k \in Nat : k <= 36 /\ d < MonthStart(k) => Has(k)}
<1>1. 0 \in T
  BY MonthSteps
<1>2. ASSUME NEW k \in Nat, k \in T PROVE k + 1 \in T
  <2> SUFFICES ASSUME k + 1 <= 36, d < MonthStart(k + 1) PROVE Has(k + 1)
    OBVIOUS
  <2>1. MonthStart(k) \in Nat
    BY MonthSteps
  <2>2. CASE d < MonthStart(k)
    BY <1>2, <2>2
  <2>3. CASE MonthStart(k) <= d
    BY <2>3
  <2> QED BY <2>1, <2>2, <2>3
<1>3. Nat \subseteq T
  <2> HIDE DEF T
  <2> QED BY <1>1, <1>2, NatSetInduction
<1> QED BY <1>3

----------------------------------------------------------------------------
(* The next run.                                                          *)

\* The schedules next_occurrence takes as they are: an interval is a natural
\* number, an hour is "a given hour (0-23)", a day is a day of the week or one
\* that every month has.
NamesDays ==
  \A s \in Schedules :
    /\ s.kind \in {"once", "minutes", "hours", "daily", "weekly", "monthly", "cron"}
    /\ s.n \in Nat
    /\ s.kind \in {"daily", "weekly", "monthly"} => s.hour \in 0..23
    /\ s.kind = "weekly" => s.day \in 0..6
    /\ s.kind = "monthly" => s.day \in 1..28

\* Nothing happens in the last month of the calendar.
InCalendar == \A t \in Creation \cup {Horizon} : t < AtHour(MonthStart(35), 0)

\* A day and an hour of it.
LEMMA Clock ==
  ASSUME NEW t \in Nat
  PROVE  /\ Day(t) \in Nat /\ Hour(t) \in 0..23
         /\ AtHour(Day(t), 0) <= t /\ t < AtHour(Day(t) + 1, 0)
         /\ \A h \in 0..23 : Hour(t) < h <=> t < AtHour(Day(t), h)
         /\ \A h \in 0..23, d \in Nat : Day(AtHour(d, h)) = d
BY DEF Day, Hour, AtHour, DayLength

\* The next run is the first when its day is named and no day between is.
LEMMA FirstByDays ==
  ASSUME NEW day \in Nat, now \in Nat, schedule.hour \in 0..23,
         next_run = AtHour(day, schedule.hour), next_run > now, DayNamed(day),
         \A d \in Nat : Day(now) <= d /\ d < day /\ DayNamed(d) => AtHour(d, schedule.hour) <= now
  PROVE  IsFirstAfter(now)
<1>1. Day(next_run) = day /\ Day(now) \in Nat
  BY Clock
<1>2. ASSUME NEW d \in Day(now)..day, DayNamed(d)
      PROVE  ~ (now < AtHour(d, schedule.hour) /\ AtHour(d, schedule.hour) < next_run)
  <2>1. d \in Nat /\ Day(now) <= d /\ d <= day
    BY <1>1
  <2>2. CASE d = day
    BY <2>2 DEF AtHour, DayLength
  <2>3. CASE d < day
    BY <1>2, <2>1, <2>3 DEF AtHour, DayLength
  <2> QED BY <2>1, <2>2, <2>3
<1> QED BY <1>1, <1>2 DEF IsFirstAfter

LEMMA DailyIsFirst ==
  ASSUME now \in Nat, schedule.kind = "daily", schedule.hour \in 0..23,
         next_run = NextDaily(schedule.hour, now)
  PROVE  IsFirstAfter(now)
<1> DEFINE h == schedule.hour
<1>1. /\ Day(now) \in Nat /\ AtHour(Day(now), 0) <= now /\ now < AtHour(Day(now) + 1, 0)
  BY Clock
<1>2. \A d : DayNamed(d)
  BY DEF DayNamed
<1>3. CASE AtHour(Day(now), h) > now
  <2>1. next_run = AtHour(Day(now), h)
    BY <1>3 DEF NextDaily
  <2> QED BY <1>1, <1>2, <1>3, <2>1, FirstByDays
<1>4. CASE ~ (AtHour(Day(now), h) > now)
  <2>1. next_run = AtHour(Day(now) + 1, h) /\ Day(now) + 1 \in Nat
    BY <1>1, <1>4 DEF NextDaily, AtHour, DayLength
  <2>2. next_run > now
    BY <1>1, <2>1 DEF AtHour, DayLength
  <2>3. \A d \in Nat : Day(now) <= d /\ d < Day(now) + 1 => AtHour(d, h) <= now
    BY <1>1, <1>4 DEF AtHour, DayLength
  <2> QED BY <1>2, <2>1, <2>2, <2>3, FirstByDays
<1> QED BY <1>3, <1>4

\* The scan of the week ends on its day.
LEMMA WeeklyScan ==
  ASSUME NEW day \in 0..6, NEW hour \in 0..23, NEW t \in Nat
  PROVE  \E k \in 0..8 :
           /\ Weekday(Day(t) + k) = day /\ (k = 0 => Hour(t) < hour)
           /\ \A j \in 0..8 : Weekday(Day(t) + j) = day /\ (j = 0 => Hour(t) < hour) => k <= j
           /\ NextWeekly(day, hour, t) = AtHour(Day(t) + k, hour)
<1> DEFINE D == Day(t)
           days == {k \in 0..8 : Weekday(D + k) = day /\ (k = 0 => Hour(t) < hour)}
<1>1. D \in Nat
  BY Clock
<1> HIDE DEF D
<1>2. \E k \in 1..7 : Weekday(D + k) = day
  BY <1>1 DEF Weekday
<1>3. \E k \in days : \A j \in days : k <= j
  <2>1. days # {}
    BY <1>2
  <2>2. days \subseteq Nat
    OBVIOUS
  <2> HIDE DEF days
  <2> QED BY <2>1, <2>2, LeastNumber
<1>4. NextWeekly(day, hour, t) = AtHour(D + CHOOSE k \in days : \A j \in days : k <= j, hour)
  BY DEF NextWeekly, D
<1>5. PICK k \in days : (\A j \in days : k <= j) /\ NextWeekly(day, hour, t) = AtHour(D + k, hour)
  BY <1>3, <1>4
<1> QED BY <1>5 DEF D

LEMMA WeeklyIsFirst ==
  ASSUME now \in Nat, schedule.kind = "weekly", schedule.hour \in 0..23, schedule.day \in 0..6,
         next_run = NextWeekly(schedule.day, schedule.hour, now)
  PROVE  IsFirstAfter(now)
<1> DEFINE h == schedule.hour
           D == Day(now)
<1>1. /\ D \in Nat /\ AtHour(D, 0) <= now /\ now < AtHour(D + 1, 0)
      /\ Hour(now) < h <=> now < AtHour(D, h)
  BY Clock
<1>2. \A d : DayNamed(d) <=> Weekday(d) = schedule.day
  BY DEF DayNamed
<1>3. PICK k \in 0..8 :
        /\ Weekday(D + k) = schedule.day /\ (k = 0 => Hour(now) < h)
        /\ \A j \in 0..8 : Weekday(D + j) = schedule.day /\ (j = 0 => Hour(now) < h) => k <= j
        /\ next_run = AtHour(D + k, h)
  BY WeeklyScan
<1> HIDE DEF D
<1>4. k \in 0..8 /\ D + k \in Nat /\ DayNamed(D + k)
  BY <1>1, <1>2, <1>3
<1>5. next_run > now
  <2>1. CASE k = 0
    BY <1>1, <1>3, <2>1
  <2>2. CASE k # 0
    BY <1>1, <1>3, <1>4, <2>2 DEF AtHour, DayLength
  <2> QED BY <2>1, <2>2
<1>6. ASSUME NEW d \in Nat, D <= d, d < D + k, DayNamed(d) PROVE AtHour(d, h) <= now
  <2>1. d - D \in 0..8 /\ D + (d - D) = d /\ ~ (k <= d - D)
    BY <1>1, <1>4, <1>6
  <2>2. Weekday(D + (d - D)) = schedule.day
    BY <1>2, <1>6, <2>1
  <2>3. d = D /\ ~ (Hour(now) < h)
    BY <1>1, <1>3, <1>6, <2>1, <2>2
  <2> QED BY <1>1, <2>3 DEF AtHour, DayLength
<1> QED BY <1>3, <1>4, <1>5, <1>6, FirstByDays DEF D

LEMMA MonthlyIsFirst ==
  ASSUME now \in Nat, schedule.kind = "monthly", schedule.hour \in 0..23, schedule.day \in 1..28,
         now < AtHour(MonthStart(35), 0), DayOfMonth(Day(now)) <= 28,
         next_run = NextMonthly(schedule.day, schedule.hour, now)
  PROVE  IsFirstAfter(now)
<1> DEFINE h == schedule.hour
           D == Day(now)
           InMonth(j) == AtHour(MonthStart(j) + schedule.day - 1, h)
<1>1. /\ D \in Nat /\ AtHour(D, 0) <= now /\ now < AtHour(D + 1, 0)
  BY Clock
<1> HIDE DEF D
<1>2. D < MonthStart(35)
  BY <1>1, MonthSteps DEF AtHour, DayLength
<1>3. PICK m \in 0..34 : MonthStart(m) <= D /\ D < MonthStart(m + 1)
  BY <1>1, <1>2, MonthExists
<1>4. Month(D) = m
  BY <1>1, <1>3, MonthIs
<1>5. /\ MonthStart(m) \in Nat /\ MonthStart(m + 1) \in Nat /\ MonthStart(m + 2) \in Nat
      /\ MonthStart(m) + 28 <= MonthStart(m + 1)
      /\ MonthStart(m + 1) + 28 <= MonthStart(m + 2)
  <2>1. m + 1 \in 0..36 /\ m \in 0..36 /\ (m + 1) + 1 = m + 2 /\ m + 2 \in 0..37 /\ m + 1 \in 0..37
    OBVIOUS
  <2>2. MonthStart(m + 1) + 28 <= MonthStart((m + 1) + 1)
    BY <2>1, MonthSteps
  <2> QED BY <2>1, <2>2, MonthSteps
<1>6. \A d \in Nat : MonthStart(m) <= d /\ d < MonthStart(m + 1) =>
        DayOfMonth(d) = d - MonthStart(m) + 1
  BY MonthIs DEF DayOfMonth
<1>7. \A d \in Nat : MonthStart(m + 1) <= d /\ d < MonthStart(m + 2) =>
        DayOfMonth(d) = d - MonthStart(m + 1) + 1
  <2>1. m + 1 \in 0..35 /\ (m + 1) + 1 = m + 2
    OBVIOUS
  <2> QED BY <2>1, MonthIs DEF DayOfMonth
<1>8. \A d : DayNamed(d) <=> DayOfMonth(d) = schedule.day
  BY DEF DayNamed
<1>9. CASE InMonth(m) > now
  <2> DEFINE day == MonthStart(m) + schedule.day - 1
  <2>1. next_run = AtHour(day, h)
    BY <1>4, <1>9 DEF NextMonthly, D
  <2>2. day \in Nat /\ DayNamed(day)
    BY <1>5, <1>6, <1>8
  <2>3. ASSUME NEW d \in Nat, D <= d, d < day, DayNamed(d) PROVE FALSE
    <3>1. MonthStart(m) <= d /\ d < MonthStart(m + 1)
      BY <1>1, <1>3, <1>5, <2>3
    <3>2. d - MonthStart(m) + 1 = schedule.day
      BY <1>6, <1>8, <2>3, <3>1
    <3> QED BY <1>5, <2>3, <3>2
  <2> HIDE DEF day
  <2> QED BY <1>9, <2>1, <2>2, <2>3, FirstByDays DEF D, day
<1>10. CASE ~ (InMonth(m) > now)
  <2> DEFINE day == MonthStart(m + 1) + schedule.day - 1
  <2>1. DayOfMonth(D) <= MonthLength(m + 1)
    <3>1. MonthLength(m + 1) = MonthStart(m + 2) - MonthStart(m + 1)
      <4>1. (m + 1) + 1 = m + 2
        OBVIOUS
      <4> QED BY <4>1 DEF MonthLength
    <3>2. DayOfMonth(D) = D - MonthStart(m) + 1
      BY <1>1, <1>3, <1>6
    <3>3. DayOfMonth(D) <= 28
      BY DEF D
    <3> QED BY <1>1, <1>5, <3>1, <3>2, <3>3
  <2>2. next_run = AtHour(day, h)
    BY <1>4, <1>10, <2>1 DEF NextMonthly, D
  <2>3. day \in Nat /\ DayNamed(day) /\ D < MonthStart(m + 1) /\ MonthStart(m + 1) <= day
    BY <1>3, <1>5, <1>7, <1>8
  <2>4. next_run > now
    <3>1. D + 1 <= day
      BY <1>1, <1>5, <2>3
    <3> HIDE DEF day
    <3> QED BY <1>1, <2>2, <2>3, <3>1 DEF AtHour, DayLength
  <2>5. ASSUME NEW d \in Nat, D <= d, d < day, DayNamed(d) PROVE AtHour(d, h) <= now
    <3>1. CASE d < MonthStart(m + 1)
      <4>1. d = MonthStart(m) + schedule.day - 1
        <5>1. MonthStart(m) <= d
          BY <1>1, <1>3, <1>5, <2>5
        <5>2. d - MonthStart(m) + 1 = schedule.day
          BY <1>6, <1>8, <2>5, <3>1, <5>1
        <5> QED BY <1>5, <5>2
      <4>2. ~ (AtHour(d, h) > now)
        BY <1>10, <4>1
      <4> QED BY <4>2 DEF AtHour, DayLength
    <3>2. CASE MonthStart(m + 1) <= d
      <4>1. DayOfMonth(d) = d - MonthStart(m + 1) + 1
        BY <1>5, <1>7, <2>5, <3>2
      <4> QED BY <1>5, <1>8, <2>5, <3>2, <4>1
    <3> QED BY <1>5, <3>1, <3>2
  <2> HIDE DEF day
  <2> QED BY <2>2, <2>3, <2>4, <2>5, FirstByDays DEF D
<1> QED BY <1>9, <1>10

LEMMA MonthlyIsTime ==
  ASSUME NEW day \in 1..28, NEW hour \in 0..23, NEW t \in Nat, t < AtHour(MonthStart(35), 0)
  PROVE  NextMonthly(day, hour, t) \in Nat
<1>1. Day(t) \in Nat /\ AtHour(Day(t), 0) <= t
  BY Clock
<1>2. Day(t) < MonthStart(35)
  BY <1>1, MonthSteps DEF AtHour, DayLength
<1>3. PICK m \in 0..34 : MonthStart(m) <= Day(t) /\ Day(t) < MonthStart(m + 1)
  BY <1>1, <1>2, MonthExists
<1>4. Month(Day(t)) = m
  BY <1>1, <1>3, MonthIs
<1>5. MonthStart(m) \in Nat /\ MonthStart(m + 1) \in Nat
  BY MonthSteps
<1>6. /\ AtHour(MonthStart(m) + day - 1, hour) \in Nat
      /\ AtHour(MonthStart(m + 1) + day - 1, hour) \in Nat
      /\ t + 30 * DayLength \in Nat
  BY <1>5 DEF AtHour, DayLength
<1> QED BY <1>4, <1>6 DEF NextMonthly

\* Every next run is a time.
LEMMA OccurrenceIsTime ==
  ASSUME NamesDays, NEW s \in Schedules, NEW t \in Nat, t < AtHour(MonthStart(35), 0)
  PROVE  NextOccurrence(s, t) \in Nat \cup {None}
<1>1. /\ s.kind \in {"once", "minutes", "hours", "daily", "weekly", "monthly", "cron"}
      /\ s.n \in Nat
      /\ s.kind \in {"daily", "weekly", "monthly"} => s.hour \in 0..23
      /\ s.kind = "weekly" => s.day \in 0..6
      /\ s.kind = "monthly" => s.day \in 1..28
  BY DEF NamesDays
<1>2. Day(t) \in Nat /\ AtHour(Day(t), 0) <= t
  BY Clock
<1>3. t + 1 \in Nat /\ t + s.n \div 30 \in Nat /\ t + 2 * s.n \in Nat /\ t + DayLength \in Nat
  BY <1>1 DEF DayLength
<1>4. CASE s.kind = "daily"
  <2>1. NextDaily(s.hour, t) \in Nat
    BY <1>1, <1>2, <1>4 DEF NextDaily, AtHour, DayLength
  <2> QED BY <1>1, <1>4, <2>1 DEF NextOccurrence
<1>5. CASE s.kind = "weekly"
  <2>1. Least(s.day, 6) \in 0..6
    BY <1>1, <1>5 DEF Least
  <2>2. NextWeekly(Least(s.day, 6), s.hour, t) \in Nat
    <3> DEFINE day == Least(s.day, 6)
    <3>1. PICK k \in 0..8 : NextWeekly(day, s.hour, t) = AtHour(Day(t) + k, s.hour)
      <4> HIDE DEF day
      <4> QED BY <1>1, <1>5, <2>1, WeeklyScan DEF day
    <3> QED BY <1>1, <1>2, <1>5, <3>1 DEF AtHour, DayLength
  <2> QED BY <1>1, <1>5, <2>2 DEF NextOccurrence
<1>6. CASE s.kind = "monthly"
  <2>1. (IF s.day < 1 THEN 1 ELSE Least(s.day, 28)) \in 1..28
    BY <1>1, <1>6 DEF Least
  <2>2. NextMonthly((IF s.day < 1 THEN 1 ELSE Least(s.day, 28)), s.hour, t) \in Nat
    BY <1>1, <1>6, <2>1, MonthlyIsTime
  <2> QED BY <1>1, <1>6, <2>2 DEF NextOccurrence
<1>7. CASE s.kind \in {"once", "minutes", "hours", "cron"}
  BY <1>3, <1>7 DEF NextOccurrence
<1> QED BY <1>1, <1>4, <1>5, <1>6, <1>7

\* The next run is what next_occurrence gave for the time of the last call, and
\* no call comes after the calendar.
RunIsOccurrence ==
  /\ schedule \in Schedules
  /\ now \in Nat /\ now < AtHour(MonthStart(35), 0)
  /\ next_run \in Nat \cup {None}
  /\ next_run = None \/ next_run = NextOccurrence(schedule, now)

LEMMA RunIsOccurrenceInit ==
  ASSUME NamesDays, InCalendar, Init
  PROVE  RunIsOccurrence
BY JobAssumption, OccurrenceIsTime DEF Init, InCalendar, RunIsOccurrence

LEMMA RunIsOccurrenceStep ==
  ASSUME NamesDays, InCalendar, RunIsOccurrence, [Next]_vars
  PROVE  RunIsOccurrence'
<1>1. ASSUME NEW t \in Moments, CallAt(t), next_run' = None \/ next_run' = NextOccurrence(schedule, t)
      PROVE  RunIsOccurrence'
  <2>1. t <= Horizon /\ now <= t
    BY DEF Moments
  <2>2. t \in Nat
    <3>1. PICK d \in Delay : t = now + d \/ t = next_run + d
      BY DEF Moments
    <3>2. d \in Nat /\ now \in Nat /\ next_run \in Nat \cup {-1}
      BY JobAssumption DEF RunIsOccurrence, None
    <3>3. now + d \in Nat /\ next_run + d \in Int
      BY <3>2
    <3> QED BY <2>1, <3>1, <3>2, <3>3
  <2>3. t < AtHour(MonthStart(35), 0)
    BY JobAssumption, MonthSteps, <2>1, <2>2 DEF InCalendar, AtHour, DayLength
  <2>4. NextOccurrence(schedule, t) \in Nat \cup {None}
    BY <2>2, <2>3, OccurrenceIsTime DEF RunIsOccurrence
  <2> QED BY <1>1, <2>2, <2>3, <2>4 DEF RunIsOccurrence, CallAt
<1>2. CASE UNCHANGED vars
  BY <1>2 DEF vars, RunIsOccurrence
<1>3. CASE Next
  <2>1. PICK t \in Moments :
          RecordSuccess(t) \/ RecordFailure(t) \/ Halt(t, "paused") \/ Halt(t, "cancelled") \/ Resume(t)
    BY <1>3 DEF Next
  <2>2. CallAt(t) /\ (next_run' = None \/ next_run' = NextOccurrence(schedule, t))
    BY <2>1 DEF RecordSuccess, RecordFailure, Halt, Resume
  <2> QED BY <1>1, <2>2
<1> QED BY <1>2, <1>3

\* What NextRunIsFirst says of a next run that next_occurrence gave.
LEMMA OccurrenceIsFirst ==
  ASSUME NamesDays, RunIsOccurrence
  PROVE  NextRunIsFirst
<1> SUFFICES ASSUME ByCalendar, DayOfMonth(Day(now)) <= 28
             PROVE  IsFirstAfter(now)
  BY DEF NextRunIsFirst
<1>1. /\ now \in Nat /\ now < AtHour(MonthStart(35), 0) /\ schedule \in Schedules
      /\ next_run = NextOccurrence(schedule, now) /\ next_run # None
      /\ schedule.kind \in {"daily", "weekly", "monthly"}
  BY DEF RunIsOccurrence, ByCalendar
<1>2. /\ schedule.hour \in 0..23
      /\ schedule.kind = "weekly" => schedule.day \in 0..6
      /\ schedule.kind = "monthly" => schedule.day \in 1..28
  BY <1>1 DEF NamesDays
<1>3. schedule.enabled
  BY <1>1 DEF NextOccurrence
<1>4. CASE schedule.kind = "daily"
  <2>1. next_run = NextDaily(schedule.hour, now)
    BY <1>1, <1>2, <1>3, <1>4 DEF NextOccurrence
  <2> QED BY <1>1, <1>2, <1>4, <2>1, DailyIsFirst
<1>5. CASE schedule.kind = "weekly"
  <2>1. Least(schedule.day, 6) = schedule.day
    BY <1>2, <1>5 DEF Least
  <2>2. next_run = NextWeekly(schedule.day, schedule.hour, now)
    BY <1>1, <1>2, <1>3, <1>5, <2>1 DEF NextOccurrence
  <2> QED BY <1>1, <1>2, <1>5, <2>2, WeeklyIsFirst
<1>6. CASE schedule.kind = "monthly"
  <2>1. (IF schedule.day < 1 THEN 1 ELSE Least(schedule.day, 28)) = schedule.day
    BY <1>2, <1>6 DEF Least
  <2>2. next_run = NextMonthly(schedule.day, schedule.hour, now)
    BY <1>1, <1>2, <1>3, <1>6, <2>1 DEF NextOccurrence
  <2> QED BY <1>1, <1>2, <1>6, <2>2, MonthlyIsFirst
<1> QED BY <1>1, <1>4, <1>5, <1>6

\* next_occurrence (schedule.rs) always gives the first time after the call that
\* falls on the day and the hour of the schedule, for every day and hour, across
\* midnight and the ends of weeks, months and years, whatever is called on the
\* job and when; days 29 to 31 of the calls are the finding of ScheduleKept.
THEOREM NextRunAlwaysFirst ==
  ASSUME NamesDays, InCalendar
  PROVE  Spec => []NextRunIsFirst
<1>1. Init => RunIsOccurrence
  BY RunIsOccurrenceInit
<1>2. RunIsOccurrence /\ [Next]_vars => RunIsOccurrence'
  BY RunIsOccurrenceStep
<1>3. RunIsOccurrence => NextRunIsFirst
  BY OccurrenceIsFirst
<1> QED BY <1>1, <1>2, <1>3, PTL DEF Spec

\* Every variable of a job keeps its type, and only a one-shot is ever completed.
THEOREM JobTypeCorrect ==
  ASSUME NamesDays, InCalendar
  PROVE  Spec => []TypeOK
<1>1. Init => TypeOK
  <2> SUFFICES ASSUME Init PROVE TypeOK
    OBVIOUS
  <2>1. next_run \in Nat \cup {None} /\ now \in Nat
    BY RunIsOccurrenceInit DEF RunIsOccurrence
  <2>2. 0 \in 0..FailureBound
    BY JobAssumption
  <2> QED BY <2>1, <2>2 DEF Init, TypeOK, Status
<1>2. RunIsOccurrence /\ TypeOK /\ [Next]_vars => TypeOK'
  <2> SUFFICES ASSUME RunIsOccurrence, TypeOK, [Next]_vars PROVE TypeOK'
    OBVIOUS
  <2>1. next_run' \in Nat \cup {None} /\ now' \in Nat
    BY RunIsOccurrenceStep DEF RunIsOccurrence
  <2>2. \A t : schedule.kind = "once" => NextOccurrence(schedule, t) = None
    BY DEF NextOccurrence
  <2>3. ASSUME NEW t \in Moments, RecordSuccess(t) PROVE TypeOK'
    <3>1. 0 \in 0..FailureBound
      BY JobAssumption
    <3> QED BY <2>1, <2>2, <2>3, <3>1 DEF RecordSuccess, CallAt, TypeOK, Status
  <2>4. ASSUME NEW t \in Moments, RecordFailure(t) PROVE TypeOK'
    <3>1. consecutive_failures' \in 0..FailureBound
      BY JobAssumption, <2>4 DEF RecordFailure, TypeOK
    <3> QED BY <2>1, <2>2, <2>4, <3>1 DEF RecordFailure, CallAt, TypeOK, Status
  <2>5. ASSUME NEW t \in Moments, NEW s \in {"paused", "cancelled"}, Halt(t, s) PROVE TypeOK'
    BY <2>1, <2>5 DEF Halt, CallAt, TypeOK, Status
  <2>6. ASSUME NEW t \in Moments, Resume(t) PROVE TypeOK'
    BY <2>1, <2>6 DEF Resume, CallAt, TypeOK, Status
  <2>7. CASE UNCHANGED vars
    BY <2>7 DEF vars, TypeOK
  <2> QED BY <2>3, <2>4, <2>5, <2>6, <2>7 DEF Next
<1>3. Init => RunIsOccurrence
  BY RunIsOccurrenceInit
<1>4. RunIsOccurrence /\ [Next]_vars => RunIsOccurrence'
  BY RunIsOccurrenceStep
<1> QED BY <1>1, <1>2, <1>3, <1>4, PTL DEF Spec
=============================================================================
