---------------------------- MODULE ActivityCalendar ----------------------------
(***************************************************************************)
(* The calendar of the explorer: a month, and in a dialog a year, of days  *)
(* with the memos of each (StatisticsView.tsx, YearCalendar.tsx).  A day   *)
(* is a number, counted from the first of January 1996.                    *)
(***************************************************************************)
EXTENDS Integers, Sequences, FiniteSets, Functions

CONSTANTS
    LastYear        \* bound: the last year shown; the first is 1999

VARIABLES
    visibleMonth,
    isOpen,                 \* the dialog with the year's calendar
    activityStats,          \* per day: the memos of it, 0 for most
    weekStartDayOffset,     \* of the general setting: Saturday, Sunday or Monday
    navigated               \* the day whose memos were asked for last, 0 if none

vars == <<visibleMonth, isOpen, activityStats, weekStartDayOffset, navigated>>

DAYS_IN_WEEK == 7
MIN_YEAR == 2000
ThisYear == LastYear - 2
getMaxYear == ThisYear + 1
Month == [year : 1999..LastYear, month : 1..12]

(***************************************************************************)
(* What dayjs knows                                                        *)
(***************************************************************************)
Leap(y) == y % 4 = 0
DaysIn(y, m) == CASE m = 2 -> IF Leap(y) THEN 29 ELSE 28
                  [] m \in {4, 6, 9, 11} -> 30
                  [] OTHER -> 31
DaysBefore == <<0, 31, 59, 90, 120, 151, 181, 212, 243, 273, 304, 334>>

\* The first day of a month, and the day of the week of day d, 0 for Sunday.
startOf(x) ==
    1 + 365 * (x.year - 1996) + ((x.year - 1993) \div 4) + DaysBefore[x.month]
      + (IF Leap(x.year) /\ x.month > 2 THEN 1 ELSE 0)
endOf(x) == startOf(x) + DaysIn(x.year, x.month) - 1
day(d) == d % DAYS_IN_WEEK
addMonths(x, k) ==
    LET n == 12 * x.year + x.month - 1 + k
    IN  [year |-> n \div 12, month |-> (n % 12) + 1]

\* Memos about the turn of a year, on a leap day, and long ago.
Days == {endOf([year |-> ThisYear - 1, month |-> 12]), startOf([year |-> ThisYear, month |-> 1]),
         endOf([year |-> ThisYear, month |-> 2]), startOf([year |-> 2000, month |-> 3]) - 1}

TypeOK ==
    /\ visibleMonth \in Month
    /\ isOpen \in BOOLEAN
    /\ activityStats \in [Days -> 0..4]
    /\ weekStartDayOffset \in -1..1
    /\ navigated \in Days \union {0}

Init ==
    /\ visibleMonth = [year |-> ThisYear, month |-> 2]
    /\ isOpen = FALSE
    /\ \E n \in {0, 2, 4} :
          activityStats = [d \in Days |->
                              IF d = endOf([year |-> ThisYear, month |-> 2]) THEN n ELSE 1]
    /\ weekStartDayOffset \in -1..1
    /\ navigated = 0

(***************************************************************************)
(* What is shown                                                           *)
(***************************************************************************)

count(data, d) == IF d \in DOMAIN data THEN data[d] ELSE 0

calculateCalendarBoundaries(x) ==
    LET startOffset == (day(startOf(x)) - weekStartDayOffset + DAYS_IN_WEEK) % DAYS_IN_WEEK
        endOffset == (weekStartDayOffset + (2 * DAYS_IN_WEEK - 1) - day(endOf(x))) % DAYS_IN_WEEK
    IN  [calendarStart |-> startOf(x) - startOffset,
         dayCount |-> (endOf(x) + endOffset) - (startOf(x) - startOffset) + 1]

\* The days of a month's calendar, weeks on end; those of other months cannot
\* be clicked, nor those without memos.
useCalendarMatrix(x, data) ==
    LET b == calculateCalendarBoundaries(x)
    IN  [i \in 1..b.dayCount |->
            LET d == b.calendarStart + i - 1
            IN  [date |-> d, isCurrentMonth |-> d \in startOf(x)..endOf(x), count |-> count(data, d)]]

\* The days of the week above it, from the one the week starts with.
rotatedWeekDays == [i \in 1..DAYS_IN_WEEK |-> (i - 1 + weekStartDayOffset) % DAYS_IN_WEEK]

isInteractive(cell) == cell.isCurrentMonth /\ cell.count > 0

\* How strong a day's colour is, by the most memos of a day.
getCellIntensityClass(cell, maxCount) ==
    IF ~isInteractive(cell) THEN "EMPTY"
    ELSE IF 4 * cell.count > 3 * maxCount THEN "HIGH"
    ELSE IF 2 * cell.count > maxCount THEN "MEDIUM"
    ELSE IF 4 * cell.count > maxCount THEN "LOW" ELSE "MINIMAL"

\* The year's calendar: the days of that year, and a calendar for each month.
filterDataByYear(data, y) ==
    [d \in {d \in DOMAIN data : /\ d >= startOf([year |-> y, month |-> 1])
                                /\ d <= endOf([year |-> y, month |-> 12])} |-> data[d]]

calculateYearMaxCount(data) ==
    CHOOSE n \in 1..4 : /\ \A d \in DOMAIN data : data[d] <= n
                        /\ n = 1 \/ \E d \in DOMAIN data : data[d] = n

generateMonthsForYear(y) == [m \in 1..12 |-> [year |-> y, month |-> m]]

YearCells(y) ==
    LET data == filterDataByYear(activityStats, y)
    IN  UNION {{<<x, cell>> : cell \in Range(useCalendarMatrix(x, data))} :
               x \in Range(generateMonthsForYear(y))}

(***************************************************************************)
(* What the user does                                                      *)
(***************************************************************************)

\* A month shown (bound: of the years from 1999 on).
onMonthChange(x) == x \in Month /\ visibleMonth' = x

handlePrevMonth ==
    ~isOpen /\ onMonthChange(addMonths(visibleMonth, -1))
            /\ UNCHANGED <<isOpen, activityStats, weekStartDayOffset, navigated>>
handleNextMonth ==
    ~isOpen /\ onMonthChange(addMonths(visibleMonth, 1))
            /\ UNCHANGED <<isOpen, activityStats, weekStartDayOffset, navigated>>

setIsOpen ==
    /\ isOpen' = ~isOpen
    /\ UNCHANGED <<visibleMonth, activityStats, weekStartDayOffset, navigated>>

\* Another year, the same month: the year before or after, or this one.
handleYearChange ==
    /\ isOpen
    /\ \E y \in {visibleMonth.year - 1, visibleMonth.year + 1, ThisYear} :
          /\ y < visibleMonth.year /\ y # ThisYear => visibleMonth.year > MIN_YEAR
          /\ y > visibleMonth.year /\ y # ThisYear => visibleMonth.year < getMaxYear
          /\ onMonthChange([visibleMonth EXCEPT !.year = y])
    /\ UNCHANGED <<isOpen, activityStats, weekStartDayOffset, navigated>>

\* A day of the year's calendar is clicked: its month is shown.
handleDateClick ==
    /\ isOpen
    /\ \E c \in YearCells(visibleMonth.year) : isInteractive(c[2]) /\ onMonthChange(c[1])
    /\ isOpen' = FALSE
    /\ UNCHANGED <<activityStats, weekStartDayOffset, navigated>>

\* A day of the month's calendar is clicked: its memos are asked for.
handleClick ==
    /\ ~isOpen
    /\ \E i \in 1..calculateCalendarBoundaries(visibleMonth).dayCount :
          LET cell == useCalendarMatrix(visibleMonth, activityStats)[i]
          IN  isInteractive(cell) /\ navigated' = cell.date
    /\ UNCHANGED <<visibleMonth, isOpen, activityStats, weekStartDayOffset>>

Next ==
    \/ handlePrevMonth \/ handleNextMonth
    \/ setIsOpen \/ handleYearChange \/ handleDateClick \/ handleClick

Spec == Init /\ [][Next]_vars

(***************************************************************************)
(* What should be                                                          *)
(***************************************************************************)

\* The month's calendar has whole weeks, each day under the name of its
\* weekday, and the month's own days each once, in order (useCalendar.ts:37).
MonthExact ==
    LET cells == useCalendarMatrix(visibleMonth, activityStats)
        own == {i \in DOMAIN cells : cells[i].isCurrentMonth}
    IN  /\ Len(cells) % DAYS_IN_WEEK = 0
        /\ \A i \in DOMAIN cells :
               day(cells[i].date) = rotatedWeekDays[((i - 1) % DAYS_IN_WEEK) + 1]
        /\ {cells[i].date : i \in own} = startOf(visibleMonth)..endOf(visibleMonth)
        /\ Cardinality(own) = DaysIn(visibleMonth.year, visibleMonth.month)
        /\ Len(cells) - Cardinality(own) < 2 * DAYS_IN_WEEK - 1

\* The year's calendar lets each day of the year that has memos be clicked in
\* one place, and the days with the most memos have the strongest colour
\* (YearCalendar.tsx:87).
YearExact ==
    LET y == visibleMonth.year
        data == filterDataByYear(activityStats, y)
        clickable == {c \in YearCells(y) : isInteractive(c[2])}
    IN  isOpen =>
        /\ {c[2].date : c \in clickable} = {d \in DOMAIN data : data[d] > 0}
        /\ \A c, e \in clickable : c[2].date = e[2].date => c = e
        /\ \A c \in clickable : (\A e \in clickable : e[2].count <= c[2].count) =>
               getCellIntensityClass(c[2], calculateYearMaxCount(data)) = "HIGH"

\* The calendar is right in every month and year, and only a day with memos
\* is asked for.
CalendarExact ==
    /\ MonthExact
    /\ YearExact
    /\ navigated # 0 => activityStats[navigated] > 0
=============================================================================
