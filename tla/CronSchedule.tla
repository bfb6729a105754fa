---------------------------- MODULE CronSchedule ----------------------------
(***************************************************************************)
(* Cron expressions as SchedulerService reads them.                        *)
(*                                                                         *)
(* A field is a set of groups, those between its commas; a group has a     *)
(* range, empty for "*", and a step, 1 where no "/" is written.  Splitting  *)
(* the text is left out; a group whose numbers make no sense matches        *)
(* nothing, as in the code.  Times are minutes, counted from 1 in the time  *)
(* zone of the job, and the calendar is a parameter.                       *)
(***************************************************************************)
EXTENDS Integers, Sequences

CONSTANTS
    Calendar(_),  \* the minute, hour, day, month and day of the week (1 .. 7) of a time
    Limits,       \* the least and greatest value of each of the five fields
    Horizon       \* bound of the search: maxIterations

Never == 0

Star == {[range |-> <<>>, step |-> 1]}

\* parseRange accepts start .. end.
RangeAccepted(start, end, limits) == limits[1] <= start /\ start <= end /\ end <= limits[2]

GroupMatches(group, value, limits) ==
    LET start == IF group.range = <<>> THEN limits[1] ELSE group.range[1]
        end   == IF group.range = <<>> THEN limits[2] ELSE group.range[2]
    IN  /\ group.step > 0
        /\ RangeAccepted(start, end, limits)
        /\ value \in start .. end
        /\ (value - start) % group.step = 0

\* matchCronFieldImpl.
FieldMatches(field, value, limits) == \E group \in field : GroupMatches(group, value, limits)

\* Sunday is 0 and 7; every field has to match, both days too.
Matches(expr, time) ==
    LET at == Calendar(time)
        weekday == at[5] % 7
    IN  /\ \A i \in 1 .. 4 : FieldMatches(expr[i], at[i], Limits[i])
        /\ \/ FieldMatches(expr[5], weekday, Limits[5])
           \/ weekday = 0 /\ FieldMatches(expr[5], 7, Limits[5])

\* computeNextFireTime: the first minute after `after` that matches.
NextFireTime(expr, after) ==
    LET hits == {t \in after + 1 .. after + Horizon : Matches(expr, t)}
    IN  IF hits = {} THEN Never ELSE CHOOSE t \in hits : \A u \in hits : t <= u
=============================================================================
