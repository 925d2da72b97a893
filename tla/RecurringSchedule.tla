------------------------- MODULE RecurringSchedule -------------------------
(***************************************************************************)
(* services/recurring_schedule.py: the days of a weekly schedule.  A date  *)
(* is the number of days since a Monday.                                   *)
(***************************************************************************)
EXTENDS Integers

NoDate == -1

IsoWeekday(date) == (date % 7) + 1

(* generate_recurring_dates: those from start to end, both included; the   *)
(* list is in ascending order.                                             *)
RecurringDates(start, end, weekdays) ==
  {date \in start..end : IsoWeekday(date) \in weekdays}

(* Variant for the mutation checks: the last day of the week forgotten.    *)
SixDays(today, weekdays, end) ==
  LET found == {date \in today..(today + 5) :
                  date <= end /\ IsoWeekday(date) \in weekdays}
  IN IF found = {} THEN NoDate
     ELSE CHOOSE date \in found : \A other \in found : date <= other

(* get_next_session_date: the first of today and the seven days after it,  *)
(* unless the schedule has ended before.                                   *)
NextSession(today, weekdays, end) ==
  LET found == {date \in today..(today + 7) :
                  date <= end /\ IsoWeekday(date) \in weekdays}
  IN IF found = {} THEN NoDate
     ELSE CHOOSE date \in found : \A other \in found : date <= other
=============================================================================
