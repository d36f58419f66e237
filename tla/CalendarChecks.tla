--------------------------- MODULE CalendarChecks ---------------------------
(***************************************************************************)
(* The functions of MysqlCalendar against a calendar that is walked day by *)
(* day.                                                                    *)
(***************************************************************************)
EXTENDS MysqlCalendar

CONSTANTS
    Starts,     \* first days of the calendars that are walked
    MaxDays     \* days walked from each start

VARIABLES
    day,    \* [y, m, d, doy, epoch, iso]: a date, its day of the year, its
            \* days since 1970 and its ISO day of the week
    walked  \* days since the start

Leap(y) == y % 400 = 0 \/ (y % 4 = 0 /\ y % 100 # 0)

DaysOfYear(y) == IF Leap(y) THEN 366 ELSE 365

DaysOfMonth(y, m) ==
    CASE m \in {4, 6, 9, 11} -> 30
      [] m = 2 -> IF Leap(y) THEN 29 ELSE 28
      [] OTHER -> 31

(* The days before a year, since the first of January of the year 1, and those
   before a month in a year. *)
YearStart(y) == 365 * (y - 1) + (y - 1) \div 4 - (y - 1) \div 100 + (y - 1) \div 400

MonthStart(y, m) ==
    <<0, 31, 59, 90, 120, 151, 181, 212, 243, 273, 304, 334>>[m]
      + IF m > 2 /\ Leap(y) THEN 1 ELSE 0

DaysBeforeEpoch == 719162

(* A day of the Gregorian calendar, whose year 1 began on a Monday.  The code,
   as the server, takes the year 0 for a common one, so the year before is at
   least 1. *)
OnCalendar(date) ==
    /\ date.y \in Nat /\ date.y >= 2
    /\ date.m \in 1 .. 12
    /\ date.d \in 1 .. DaysOfMonth(date.y, date.m)
    /\ date.doy = MonthStart(date.y, date.m) + date.d
    /\ date.epoch = YearStart(date.y) + date.doy - 1 - DaysBeforeEpoch
    /\ date.iso = ((date.epoch + DaysBeforeEpoch) % 7) + 1

ASSUME StartsAssumption == \A start \in Starts : OnCalendar(start)

CalendarInit == day \in Starts /\ walked = 0

(* The date of the next day, as DuckDB converts it. *)
NextDay ==
    LET monthEnds == day.d = DaysOfMonth(day.y, day.m)
        yearEnds == monthEnds /\ day.m = 12
    IN /\ walked < MaxDays
       /\ day' = [y |-> IF yearEnds THEN day.y + 1 ELSE day.y,
                  m |-> IF yearEnds THEN 1 ELSE IF monthEnds THEN day.m + 1 ELSE day.m,
                  d |-> IF monthEnds THEN 1 ELSE day.d + 1,
                  doy |-> IF yearEnds THEN 1 ELSE day.doy + 1,
                  epoch |-> day.epoch + 1,
                  iso |-> (day.iso % 7) + 1]
       /\ walked' = walked + 1

CalendarSpec == CalendarInit /\ [][NextDay]_<<day, walked>>

---------------------------------------------------------------------------
(* References *)

(* The day of the year on which the week of a day has its first or its fourth
   day. *)
PivotOf(behaviour) ==
    LET inWeek == IF MC_WEEK_MONDAY_FIRST \in behaviour THEN day.iso - 1 ELSE day.iso % 7
    IN day.doy - inWeek + IF MC_WEEK_FIRST_WEEKDAY \in behaviour THEN 0 ELSE 3

(* The week of a day, counted in the year of that day. *)
WeekOf(behaviour) ==
    LET pivot == PivotOf(behaviour)
        week(doy) == (doy - 1) \div 7 + 1
    IN IF pivot < 1
       THEN IF MC_WEEK_YEAR \in behaviour
            THEN [week |-> week(pivot + DaysOfYear(day.y - 1)), year |-> day.y - 1]
            ELSE [week |-> 0, year |-> day.y]
       ELSE IF pivot > DaysOfYear(day.y) /\ MC_WEEK_YEAR \in behaviour
       THEN [week |-> 1, year |-> day.y + 1]
       ELSE [week |-> week(pivot), year |-> day.y]

(* What the flags of WEEK's mode mean: the documented table of modes. *)
Behaviour(mode) ==
    (IF mode \in {1, 3, 5, 7} THEN {MC_WEEK_MONDAY_FIRST} ELSE {})
      \cup (IF mode \in {2, 3, 6, 7} THEN {MC_WEEK_YEAR} ELSE {})
      \cup (IF mode \in {0, 2, 5, 7} THEN {MC_WEEK_FIRST_WEEKDAY} ELSE {})

---------------------------------------------------------------------------
(* Properties *)

(* WEEK and YEARWEEK: in every mode a day is in the week that contains it,
   the week counted by its first or its fourth day; around New Year the week
   is 0, or belongs to the year before or after.  The two ways the code counts
   days, MariaDB's formula under WEEK and DuckDB's epoch under TO_DAYS, give
   one number, and WEEKDAY and DAYOFWEEK name the day WEEK counts by. *)
WeeksAreCounted ==
    LET daynr == mc_calc_daynr(day.y, day.m, day.d)
    IN /\ daynr = to_days_date_func(day.epoch)
       /\ mc_calc_weekday(daynr, FALSE) = weekday_date_func(day.iso)
       /\ mc_calc_weekday(daynr, TRUE) = dayofweek_date_func(day.iso) - 1
       /\ \A mode \in 0 .. 7 :
            LET yearWeek == WeekOf(Behaviour(mode) \cup {MC_WEEK_YEAR})
            IN /\ week_2arg_date_func(day, mode) = WeekOf(Behaviour(mode)).week
               /\ yearweek_2arg_date_func(day, mode) = yearWeek.week + 100 * yearWeek.year

(* The sum of a time of day and an interval is a time of day, whole days from
   their sum, and the difference gives the time back. *)
ClockWraps(t, us) ==
    LET sum == addtime(t, us)
    IN /\ sum \in 0 .. DayUs - 1
       /\ (sum - (t + us)) % DayUs = 0
       /\ subtime(sum, us) = t

=============================================================================
