---------------------------- MODULE MCReminders -----------------------------
(***************************************************************************)
(* The instance of ReminderScheduler for TLC, with a small calendar: two   *)
(* minutes to the hour, two hours to the day, months of three days.  One   *)
(* expression matches every other minute, one the Sundays and Mondays, one *)
(* even minutes of the first and the last day of a month, whose next time  *)
(* may be beyond the horizon.                                              *)
(***************************************************************************)
EXTENDS ReminderScheduler

CONSTANTS j1, j2

SmallCalendar(t) ==
    LET day == t \div 4
    IN  <<t % 2, (t \div 2) % 2, 1 + (day % 3), 1 + ((day \div 3) % 2), 1 + ((day + 6) % 7)>>

SmallLimits == <<<<0, 1>>, <<0, 1>>, <<1, 3>>, <<1, 2>>, <<0, 7>>>>

Only(a, b, n) == {[range |-> <<a, b>>, step |-> n]}

SomeExprs ==
    {<<{[range |-> <<>>, step |-> 2]}, Star, Star, Star, Star>>,
     <<Only(1, 1, 1), Star, Star, Star, Only(1, 1, 1) \cup Only(7, 7, 1)>>,
     <<Only(0, 0, 1), Star, Only(1, 1, 1) \cup Only(3, 3, 1), Star, Star>>}
=============================================================================
