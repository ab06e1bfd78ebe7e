------------------------------- MODULE Calendar -------------------------------
(***************************************************************************)
(* The calendar of bootstrap-datepicker.js: moving a date by months, the   *)
(* days a page of the picker shows, and how typed dates are read.          *)
(* A date is <<year, month, day>>, months count from 0; the operations on  *)
(* JavaScript's Date carry what exceeds a month into the next or last one. *)
(***************************************************************************)
EXTENDS Integers, SequencesExt

IsLeapYear(year) == (year % 4 = 0 /\ year % 100 # 0) \/ year % 400 = 0
GetDaysInMonth(year, month) ==
  << 31, IF IsLeapYear(year) THEN 29 ELSE 28, 31, 30, 31, 30, 31, 31, 30, 31, 30, 31 >>[month + 1]

(* JavaScript's Date.UTC, setUTCDate, setUTCMonth, setUTCFullYear, getUTCDay. *)
RECURSIVE UTCDate(_, _, _)
UTCDate(year, month, day) ==
  IF month \notin 0..11 THEN UTCDate(year + month \div 12, month % 12, day)
  ELSE IF day < 1 THEN UTCDate(year, month - 1, day + GetDaysInMonth(year, (month - 1) % 12))
  ELSE IF day > GetDaysInMonth(year, month) THEN UTCDate(year, month + 1, day - GetDaysInMonth(year, month))
  ELSE <<year, month, day>>
SetDate(t, day)   == UTCDate(t[1], t[2], day)
SetMonth(t, month) == UTCDate(t[1], month, t[3])
SetYear(t, year)  == UTCDate(year, t[2], t[3])
AddDays(t, n)     == SetDate(t, t[3] + n)
DayNumber(t) ==
  LET y == t[1] - 1 IN
  FoldFunctionOnSet(LAMBDA a, b : a + b,
                    365 * y + (y \div 4) - (y \div 100) + (y \div 400) + t[3],
                    [m \in 0..11 |-> GetDaysInMonth(t[1], m)], 0..(t[2] - 1))
WeekDay(t) == DayNumber(t) % 7
Before(s, t) == s[1] < t[1] \/ (s[1] = t[1] /\ (s[2] < t[2] \/ (s[2] = t[2] /\ s[3] < t[3])))

----------------------------------------------------------------------------
(* moveMonth: to a month that is too short for the day, the day is reduced  *)
(* until the month, which must not be one of those in off, is right.        *)
RECURSIVE Reduce(_, _, _, _)
Reduce(t, day, month, off) ==
  IF t[2] \notin off THEN t ELSE Reduce(SetMonth(SetDate(t, day - 1), month), day - 1, month, off)

MoveOneMonth(t, dir) ==
  LET month == (t[2] + dir) % 12 IN
  Reduce(SetMonth(t, t[2] + dir), t[3], month,
         IF dir = -1 THEN {t[2]} ELSE 0..11 \ {month})

(* One month at a time; evaluated by halves, for the depth of the recursion. *)
RECURSIVE Months(_, _, _)
Months(t, dir, n) ==
  IF n = 1 THEN MoveOneMonth(t, dir)
  ELSE CHOOSE r \in {Months(s, dir, n - n \div 2) : s \in {Months(t, dir, n \div 2)}} : TRUE

MoveMonth(t, dir) ==
  LET n == IF dir < 0 THEN -dir ELSE dir
      far == Months(t, dir \div n, n) IN
  IF dir = 0 THEN t
  ELSE IF n = 1 THEN MoveOneMonth(t, dir)
  ELSE Reduce(SetDate(far, t[3]), t[3], far[2], 0..11 \ {far[2]})
MoveYear(t, dir) == MoveMonth(t, dir * 12)

(* fill: six weeks from the one that the month before ends in. *)
Cells(view, weekStart) ==
  LET last == SetDate(UTCDate(view[1], view[2] - 1, 28),
                      GetDaysInMonth(UTCDate(view[1], view[2] - 1, 28)[1], (view[2] - 1) % 12))
      first == AddDays(last, -((WeekDay(last) - weekStart + 7) % 7)) IN
  [i \in 1..42 |-> AddDays(first, i - 1)]
CellClass(view, t) ==
  IF t[1] < view[1] \/ (t[1] = view[1] /\ t[2] < view[2]) THEN "old"
  ELSE IF t[1] > view[1] \/ (t[1] = view[1] /\ t[2] > view[2]) THEN "new" ELSE "day"

(* click: the date of a cell, from its text and its class. *)
CellDate(view, day, class) ==
  CASE class = "old" -> IF view[2] = 0 THEN UTCDate(view[1] - 1, 11, day) ELSE UTCDate(view[1], view[2] - 1, day)
    [] class = "new" -> IF view[2] = 11 THEN UTCDate(view[1] + 1, 0, day) ELSE UTCDate(view[1], view[2] + 1, day)
    [] OTHER -> UTCDate(view[1], view[2], day)

(* The months of the view's year and the years around it that are disabled. *)
MonthDisabled(year, month, from, to) ==
  \/ year < from[1] \/ year > to[1]
  \/ year = from[1] /\ month < from[2]
  \/ year = to[1] /\ month > to[2]

(* parseDate: year, month and day of the text replace today's one by one. *)
ParseDate(today, year, month, day) ==
  LET y == SetYear(today, year)
      inMonth == SetMonth(y, month)
      m == IF inMonth[2] = month THEN inMonth ELSE SetDate(inMonth, 0) IN
  SetDate(m, day)

(* parseDate: "+1m -2d", steps from today. *)
ParseSteps(today, steps) ==
  FoldLeft(LAMBDA t, s : CASE s[2] = "d" -> AddDays(t, s[1])
                           [] s[2] = "w" -> AddDays(t, 7 * s[1])
                           [] s[2] = "m" -> MoveMonth(t, s[1])
                           [] s[2] = "y" -> MoveYear(t, s[1]), today, steps)

----------------------------------------------------------------------------
Exists(y, m, d) == m \in 0..11 /\ d \in 1..GetDaysInMonth(y, m)
Lesser(a, b) == IF a < b THEN a ELSE b

(* Moving by months keeps the day where the month has it, and goes to the    *)
(* end of the month where it has not, over any number of shorter months.     *)
MovesRight(t) ==
  \A n \in {-14, -12, -2, -1, 0, 1, 2, 12} :
    LET first == UTCDate(t[1], t[2] + n, 1) IN
    MoveMonth(t, n) = <<first[1], first[2], Lesser(t[3], GetDaysInMonth(first[1], first[2]))>>

(* The picker shows every day of the month once and in order, weeks begin on *)
(* their day, and the day that a click takes is the one the cell stands for. *)
CellsRight(t) ==
  \A weekStart \in {0, 1, 6} :
    \E cells \in {Cells(t, weekStart)} :
      /\ WeekDay(cells[1]) = weekStart
      /\ \A i \in 1..41 : DayNumber(cells[i + 1]) = DayNumber(cells[i]) + 1
      /\ \A d \in 1..GetDaysInMonth(t[1], t[2]) : \E i \in 1..42 : cells[i] = <<t[1], t[2], d>>
      /\ \A i \in 1..42 : CellDate(t, cells[i][3], CellClass(t, cells[i])) = cells[i]

(* A date that exists is read as it is typed, whatever day it is today; and  *)
(* a month is offered exactly if some day of it is between the limits.       *)
ReadsRight(t, today, from, to) ==
  /\ ParseDate(today, t[1], t[2], t[3]) = t
  /\ Before(from, to) =>
       (MonthDisabled(t[1], t[2], from, to) <=>
         \A d \in 1..GetDaysInMonth(t[1], t[2]) : Before(<<t[1], t[2], d>>, from) \/ Before(to, <<t[1], t[2], d>>))
=============================================================================
