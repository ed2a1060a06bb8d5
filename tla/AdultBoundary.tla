---------------------------- MODULE AdultBoundary ----------------------------
(***************************************************************************)
(* The calendar rule of the adults-only gate:                              *)
(* src/src/swipe_dating/domain/adult.py, with datetime.date.               *)
(*                                                                         *)
(* A date is <<year, month, day>>; what a form sends need not be one.      *)
(***************************************************************************)
EXTENDS Integers

IsLeap(year) == year % 4 = 0 /\ (year % 100 # 0 \/ year % 400 = 0)

DaysIn(year, month) ==
    CASE month = 2 -> IF IsLeap(year) THEN 29 ELSE 28
      [] month \in {4, 6, 9, 11} -> 30
      [] OTHER -> 31

\* parse_date_only: text of the right shape that is no day of the calendar is refused.
IsDate(date) ==
    /\ date[1] \in 1 .. 9999
    /\ date[2] \in 1 .. 12
    /\ date[3] \in 1 .. DaysIn(date[1], date[2])

OnOrBefore(d, e) ==
    \/ d[1] < e[1]
    \/ d[1] = e[1] /\ d[2] < e[2]
    \/ d[1] = e[1] /\ d[2] = e[2] /\ d[3] <= e[3]

\* Fault: an eighteenth birthday that does not exist is taken to be the first of its month.
AdultDateOnTheFirst(birth) ==
    LET birthday == <<birth[1] + 18, birth[2], birth[3]>>
    IN  IF IsDate(birthday) THEN birthday ELSE <<birth[1] + 18, birth[2], 1>>

\* The eighteenth birthday; February 29 becomes February 28 in a year without it.
AdultDate(birth) ==
    LET birthday == <<birth[1] + 18, birth[2], birth[3]>>
    IN  IF IsDate(birthday) THEN birthday ELSE <<birth[1] + 18, 2, 28>>

IsAdultOn(birth, today) ==
    /\ IsDate(birth) /\ IsDate(today)
    /\ OnOrBefore(birth, today)
    /\ OnOrBefore(AdultDate(birth), today)

============================================================================
