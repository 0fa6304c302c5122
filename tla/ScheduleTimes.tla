---------------------------- MODULE ScheduleTimes ----------------------------
(* When a copy schedule runs (utils/schedule.py). A moment is a number of    *)
(* seconds since the first one; the calendar is a parameter, so that a small *)
(* one has every case: months of different lengths, a month that is the last *)
(* of its year, a week that does not divide a month.                         *)
EXTENDS Naturals, Sequences

CONSTANTS SecondsPerMinute, MinutesPerHour, HoursPerDay, DaysPerWeek,
          MonthLengths,     \* the days of the months of a year
          LastDay           \* the largest day_of_month (28): in every month

ASSUME CalendarAssumption ==
    /\ {SecondsPerMinute, MinutesPerHour, HoursPerDay, DaysPerWeek, LastDay} \subseteq Nat \ {0}
    /\ MonthLengths \in Seq(Nat) /\ Len(MonthLengths) > 0
    /\ \A i \in DOMAIN MonthLengths : LastDay =< MonthLengths[i]

Hour == MinutesPerHour * SecondsPerMinute
Day  == HoursPerDay * Hour

\* The first day of the month `n` (0: January of the first year).
FirstDay[n \in Nat] ==
    IF n = 0 THEN 0
    ELSE FirstDay[n - 1] + MonthLengths[((n - 1) % Len(MonthLengths)) + 1]

\* datetime's month of a day: the last month that began by then.
MonthOf(day) == CHOOSE n \in 0 .. day : FirstDay[n] =< day /\ day < FirstDay[n + 1]

DayOf(t)     == t \div Day
WeekdayOf(t) == DayOf(t) % DaysPerWeek

\* FREQUENCIES, FIELDS and RANGES; a field that a frequency does not use is 0 here (NULL).
Specs ==
    [frequency : {"hourly"}, minute : 0 .. MinutesPerHour - 1, hour : {0}, weekday : {0},
     day_of_month : {0}]
    \cup [frequency : {"daily"}, minute : 0 .. MinutesPerHour - 1, hour : 0 .. HoursPerDay - 1,
          weekday : {0}, day_of_month : {0}]
    \cup [frequency : {"weekly"}, minute : 0 .. MinutesPerHour - 1, hour : 0 .. HoursPerDay - 1,
          weekday : 0 .. DaysPerWeek - 1, day_of_month : {0}]
    \cup [frequency : {"monthly"}, minute : 0 .. MinutesPerHour - 1, hour : 0 .. HoursPerDay - 1,
          weekday : {0}, day_of_month : 1 .. LastDay]

TimeOfDay(spec) == spec.hour * Hour + spec.minute * SecondsPerMinute

\* next_run by frequency: a candidate in the hour, day, week or month of `after`, or that
\* candidate one period later when it is not after `after`.
NextHourly(spec, after) ==
    LET candidate == (after \div Hour) * Hour + spec.minute * SecondsPerMinute
    IN  IF candidate =< after THEN candidate + Hour ELSE candidate

NextDaily(spec, after) ==
    LET candidate == DayOf(after) * Day + TimeOfDay(spec)
    IN  IF candidate =< after THEN candidate + Day ELSE candidate

\* Mutant: the days until the weekday, without the remainder of the week.
NextWeeklyAhead(spec, after) ==
    LET today     == DayOf(after) * Day + TimeOfDay(spec)
        candidate == today + Day * (spec.weekday + DaysPerWeek - WeekdayOf(today))
    IN  IF candidate =< after THEN candidate + DaysPerWeek * Day ELSE candidate

NextWeekly(spec, after) ==
    LET today     == DayOf(after) * Day + TimeOfDay(spec)
        candidate == today + Day * ((spec.weekday + DaysPerWeek - WeekdayOf(today)) % DaysPerWeek)
    IN  IF candidate =< after THEN candidate + DaysPerWeek * Day ELSE candidate

NextMonthly(spec, after) ==
    LET In(month) == (FirstDay[month] + spec.day_of_month - 1) * Day + TimeOfDay(spec)
        month     == MonthOf(DayOf(after))
    IN  IF In(month) =< after THEN In(month + 1) ELSE In(month)

NextRun(spec, after) ==
    CASE spec.frequency = "hourly"  -> NextHourly(spec, after)
      [] spec.frequency = "daily"   -> NextDaily(spec, after)
      [] spec.frequency = "weekly"  -> NextWeekly(spec, after)
      [] spec.frequency = "monthly" -> NextMonthly(spec, after)

\* What a schedule promises, told without computing anything: the whole minutes at which
\* its fields hold.
DayFits(spec, t) ==
    CASE spec.frequency = "weekly"  -> WeekdayOf(t) = spec.weekday
      [] spec.frequency = "monthly" -> DayOf(t) + 1 = FirstDay[MonthOf(DayOf(t))] + spec.day_of_month
      [] OTHER -> TRUE
IsDue(spec, t) ==
    /\ t % SecondsPerMinute = 0
    /\ (t % Hour) \div SecondsPerMinute = spec.minute
    /\ spec.frequency # "hourly" => (t % Day) \div Hour = spec.hour
    /\ DayFits(spec, t)

\* `t` is the first due moment after `after`.
FirstDueAfter(spec, after, t) ==
    /\ t > after /\ IsDue(spec, t)
    /\ \A u \in after + 1 .. t - 1 : ~IsDue(spec, u)
=============================================================================
