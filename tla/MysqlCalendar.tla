--------------------------- MODULE MysqlCalendar ---------------------------
(***************************************************************************)
(* The calendar functions the engine registers in DuckDB (WEEK, YEARWEEK,  *)
(* TO_DAYS, DAYOFWEEK, WEEKDAY), and how ADDTIME and SUBTIME wrap a time   *)
(* of day.                                                                 *)
(***************************************************************************)
EXTENDS Integers

CONSTANT DayUs  \* microseconds of a day

ASSUME DayAssumption == DayUs \in Nat \ {0}

---------------------------------------------------------------------------
(* Calendar: dates are [y, m, d] as duckdb::Date::Convert gives them *)

MC_WEEK_MONDAY_FIRST == 1
MC_WEEK_YEAR == 2
MC_WEEK_FIRST_WEEKDAY == 4

(* A behaviour is the set of its flags. *)
Flags(bits) == {f \in {1, 2, 4} : (bits \div f) % 2 = 1}

(* Modes that do not start on Monday use the opposite first-week rule. *)
mc_week_mode(mode) ==
    LET format == Flags(mode % 8)
    IN IF MC_WEEK_MONDAY_FIRST \in format THEN format
       ELSE IF MC_WEEK_FIRST_WEEKDAY \in format
       THEN format \ {MC_WEEK_FIRST_WEEKDAY} ELSE format \cup {MC_WEEK_FIRST_WEEKDAY}

mc_calc_days_in_year(year) ==
    IF year % 4 = 0 /\ (year % 100 # 0 \/ (year % 400 = 0 /\ year # 0)) THEN 366 ELSE 365

mc_calc_daynr(year, month, day) ==
    LET y == IF month <= 2 THEN year - 1 ELSE year
        delsum == 365 * year + 31 * (month - 1) + day
                  - IF month <= 2 THEN 0 ELSE (month * 4 + 23) \div 10
    IN IF year = 0 /\ month = 0 THEN 0
       ELSE delsum + y \div 4 - ((y \div 100 + 1) * 3) \div 4

mc_calc_weekday(daynr, sunday_first) ==
    (daynr + 5 + IF sunday_first THEN 1 ELSE 0) % 7

(* The year starts in the middle of a week that belongs to the year before. *)
Shifted(behaviour, weekday) ==
    IF MC_WEEK_FIRST_WEEKDAY \in behaviour THEN weekday # 0 ELSE weekday >= 4

(* Mutant: a year that ends in the first week of the next is not noticed. *)
mc_calc_weekNoNextYear(date, behaviour) ==
    LET daynr == mc_calc_daynr(date.y, date.m, date.d)
        first == mc_calc_daynr(date.y, 1, 1)
        weekday == mc_calc_weekday(first, MC_WEEK_MONDAY_FIRST \notin behaviour)
        days == IF Shifted(behaviour, weekday) THEN daynr - (first + 7 - weekday)
                ELSE daynr - (first - weekday)
    IN IF days < 0 THEN [week |-> 0, year |-> date.y]
       ELSE [week |-> days \div 7 + 1, year |-> date.y]

(* The week of a date and the year the week is counted in. *)
mc_calc_week(date, behaviour) ==
    LET daynr == mc_calc_daynr(date.y, date.m, date.d)
        first0 == mc_calc_daynr(date.y, 1, 1)
        weekday0 == mc_calc_weekday(first0, MC_WEEK_MONDAY_FIRST \notin behaviour)
        firstWeek == date.m = 1 /\ date.d <= 7 - weekday0
        year == IF firstWeek THEN date.y - 1 ELSE date.y
        previous == mc_calc_days_in_year(year)
        first == IF firstWeek THEN first0 - previous ELSE first0
        weekday == IF firstWeek THEN (weekday0 + 53 * 7 - previous) % 7 ELSE weekday0
        week_year == firstWeek \/ MC_WEEK_YEAR \in behaviour
        days == IF Shifted(behaviour, weekday) THEN daynr - (first + 7 - weekday)
                ELSE daynr - (first - weekday)
        next == (weekday + mc_calc_days_in_year(year)) % 7
    IN IF firstWeek /\ MC_WEEK_YEAR \notin behaviour /\ Shifted(behaviour, weekday0)
       THEN [week |-> 0, year |-> date.y]
       ELSE IF week_year /\ days >= 52 * 7 /\ ~Shifted(behaviour, next)
       THEN [week |-> 1, year |-> year + 1]
       ELSE [week |-> days \div 7 + 1, year |-> year]

week_2arg_date_func(date, mode) == mc_calc_week(date, mc_week_mode(mode)).week

yearweek_2arg_date_func(date, mode) ==
    LET w == mc_calc_week(date, mc_week_mode(mode) \cup {MC_WEEK_YEAR})
    IN w.week + w.year * 100

MC_TO_DAYS_EPOCH_OFFSET == 719528

to_days_date_func(epochDays) == epochDays + MC_TO_DAYS_EPOCH_OFFSET

(* iso is the ISO day of the week, 1 for Monday. *)
dayofweek_date_func(iso) == (iso % 7) + 1

weekday_date_func(iso) == iso - 1

---------------------------------------------------------------------------
(* Times of day *)

(* C's %, which takes the sign of the dividend. *)
Rem(r, n) == IF r >= 0 THEN r % n ELSE -((-r) % n)

(* Mutant: one % only. *)
WrapDayOnce(r) == Rem(r, DayUs)

(* A TIME stays in the range of DuckDB's TIME. *)
WrapDay(r) == Rem(Rem(r, DayUs) + DayUs, DayUs)

addtime(t, us) == WrapDay(t + us)

subtime(t, us) == WrapDay(t - us)

=============================================================================
