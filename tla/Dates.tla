------------------------------- MODULE Dates --------------------------------
(***************************************************************************)
(* The dates of the administration's date fields: what admin/js/calendar.js*)
(* computes of a month, and how admin/js/core.js writes a date in a field  *)
(* and reads it (strftime, strptime).                                      *)
(*                                                                         *)
(* JavaScript's Date is a day number here, of the Gregorian calendar and   *)
(* counted from 1 March of year 0. A text is the sequence of its fields,   *)
(* which are numbers: strptime splits at ".", "-" and "/" alike. A format  *)
(* is the sequence of its directives.                                      *)
(***************************************************************************)
EXTENDS Integers, Sequences

NaN == -1           (* a field, or a date, that is no number               *)

-----------------------------------------------------------------------------
(* Date: a month or a day out of range goes on into the next or last one.  *)

(* Days of a year that begins in March before its month mp.                *)
BeforeMonth(mp) == (153 * mp + 2) \div 5
BeforeYear(y) == 365 * y + y \div 4 - y \div 100 + y \div 400

(* A year from 0 to 99 is meant as one of the twentieth century. *)
DateUTC(year, month, day) ==        (* month from 0 *)
    LET full == (IF year \in 0..99 THEN year + 1900 ELSE year) + month \div 12
        m == month % 12
    IN  BeforeYear(IF m < 2 THEN full - 1 ELSE full) + BeforeMonth((m + 10) % 12) + day - 1

GetDay(date) == (date + 3) % 7      (* 0 is Sunday *)

(* The year that begins in March, and the day of it. *)
MarchYear(date) ==
    LET era == date \div 146097
        n == date % 146097
    IN  400 * era + (n - n \div 1460 + n \div 36524 - n \div 146096) \div 365
MarchMonth(date) == (5 * (date - BeforeYear(MarchYear(date))) + 2) \div 153

GetMonth(date) == ((MarchMonth(date) + 2) % 12) + 1   (* from 1 *)
GetFullYear(date) == MarchYear(date) + (IF GetMonth(date) <= 2 THEN 1 ELSE 0)
GetDate(date) ==
    date - BeforeYear(MarchYear(date)) - BeforeMonth(MarchMonth(date)) + 1

-----------------------------------------------------------------------------
(* CalendarNamespace.                                                      *)

IsLeapYear(year) == (year % 4 = 0 /\ year % 100 # 0) \/ year % 400 = 0

GetDaysInMonth(month, year) ==
    CASE month \in {1, 3, 5, 7, 8, 10, 12}   -> 31
      [] month \in {4, 6, 9, 11}             -> 30
      [] month = 2 /\ IsLeapYear(year)       -> 29
      [] OTHER                               -> 28

(* draw: the month as a table with a first day of the week. Day d is in    *)
(* cell start + d, counted from 1, and the days marked are today and the   *)
(* one selected, if they are in that month.                                *)
Draw(month, year, firstDayOfWeek, today, selected) ==
    LET Marked(date) ==
            IF date # NaN /\ GetFullYear(date) = year /\ GetMonth(date) = month
            THEN GetDate(date) ELSE 0
    IN  [month |-> month, year |-> year,
         start |-> GetDay(DateUTC(year, month - 1, 1 - firstDayOfWeek)),
         days |-> GetDaysInMonth(month, year),
         today |-> Marked(today), selected |-> Marked(selected)]

(* The day of the week at the head of the column of day d. *)
Header(grid, firstDayOfWeek, d) == (((grid.start + d - 1) % 7) + firstDayOfWeek) % 7

-----------------------------------------------------------------------------
(* core.js.                                                                *)

Strftime(date, format) ==
    [i \in DOMAIN format |->
        CASE format[i] = "d" -> GetDate(date)
          [] format[i] = "m" -> GetMonth(date)
          [] format[i] = "y" -> GetFullYear(date) % 100
          [] format[i] = "Y" -> GetFullYear(date)]

(* Mutant: all years of two digits are of the present century. *)
TwoDigitYearPresent(year) == GetFullYear(DateUTC(year, 0, 1)) + 100
(* Of two digits from 69 on, Date makes the century; below, strptime does. *)
TwoDigitYear(year) ==
    IF year >= 69 THEN year ELSE GetFullYear(DateUTC(year, 0, 1)) + 100

(* A field that is not there, or no number, makes the date invalid. *)
Strptime(text, format) ==
    LET has == \A i \in DOMAIN format : i \in DOMAIN text /\ text[i] # NaN
        Field(directives) == text[CHOOSE i \in DOMAIN format : format[i] \in directives]
        written == Field({"Y", "y"})
        year == IF \E i \in DOMAIN format : format[i] = "y" THEN TwoDigitYear(written)
                ELSE written
    IN  IF has THEN DateUTC(year, Field({"m"}) - 1, Field({"d"})) ELSE NaN
=============================================================================
