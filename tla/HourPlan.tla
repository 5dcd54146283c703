------------------------------ MODULE HourPlan ------------------------------
(***************************************************************************)
(* How a half-open window of Unix seconds is split between minute rows     *)
(* (node_pairs) and hourly rollup rows (node_pair_hours), and how that     *)
(* split is divided again into a closed part, which each reader may fetch  *)
(* on a snapshot of its own, and an open part, which must come from the    *)
(* snapshot that read the mark.                                            *)
(*                                                                         *)
(* A span is <<lo, hi>> and stands for lo <= bucket < hi.  The code keeps  *)
(* slices of spans; no caller depends on their order, so a plan holds two  *)
(* sets.  The mark is the newest minute bucket merged into the rollup, or  *)
(* NoMark.  Everything here is a pure function of its arguments.           *)
(***************************************************************************)
EXTENDS Integers

minuteSeconds == 60
hourSeconds == 3600

NoMark == -1

\* What a mark may be: a minute, or none yet.
MarkOK(mark) == mark = NoMark \/ (mark \in Nat /\ mark % minuteSeconds = 0)

Smaller(a, b) == IF a <= b THEN a ELSE b

\* Mutant: round a minute up, so the minute still open counts as closed.
floorMinute_RoundUp(unix) == ((unix + minuteSeconds) \div minuteSeconds) * minuteSeconds

floorMinute(unix) ==
    IF unix <= 0 THEN 0 ELSE (unix \div minuteSeconds) * minuteSeconds

HourOf(t) == (t \div hourSeconds) * hourSeconds

\* The first hour that starts at or after t.
HourFrom(t) == IF t % hourSeconds = 0 THEN t ELSE HourOf(t) + hourSeconds

\* The exclusive end of the minutes that are inside the rollup.
RolledUntil(mark) == IF mark >= 0 THEN mark + minuteSeconds ELSE 0

\* <<lo, hi>> as a set of spans: none when it is empty.
SpanOf(lo, hi) == IF lo < hi THEN {<<lo, hi>>} ELSE {}

Holds(spans, bucket) == \E s \in spans : s[1] <= bucket /\ bucket < s[2]

\* A row of node_pair_hours is selected by its own bucket, and stands for
\* the minutes of that hour that have been merged into it.
HoldsHour(spans, bucket) == Holds(spans, HourOf(bucket))

planHours(start, end, mark) ==
    LET hourStart == HourFrom(start)
        hourEnd == HourOf(Smaller(end, RolledUntil(mark)))
    IN  IF start >= end
          THEN [minutes |-> {}, hours |-> {}]
        ELSE IF hourStart >= hourEnd \/ hourEnd <= start \/ hourStart >= end
          THEN [minutes |-> {<<start, end>>}, hours |-> {}]
        ELSE [minutes |-> SpanOf(start, hourStart) \union SpanOf(hourEnd, end),
              hours   |-> {<<hourStart, hourEnd>>}]

\* Mutant: read the filling hour even when the window ends inside it.
planHoursThroughMark_AnyEnd(start, end, mark) ==
    LET rolledUntil == mark + minuteSeconds
        filling == HourOf(rolledUntil)
    IN  IF mark < 0 \/ filling < start THEN planHours(start, end, mark)
        ELSE [minutes |-> SpanOf(start, filling) \union SpanOf(rolledUntil, end),
              hours   |-> SpanOf(filling, rolledUntil)]

\* planHours plus the row of the hour that is still filling, read up to the
\* mark; valid only when mark and rows come from one snapshot.
planHoursThroughMark(start, end, mark) ==
    LET plan == planHours(start, end, mark)
        rolledUntil == mark + minuteSeconds
        filling == HourOf(rolledUntil)
        hourStart == IF plan.hours = {} THEN filling
                     ELSE (CHOOSE s \in plan.hours : TRUE)[1]
    IN  IF \/ mark < 0
           \/ rolledUntil % hourSeconds = 0
           \/ end < rolledUntil
           \/ filling < start
          THEN plan
        ELSE [minutes |-> SpanOf(start, hourStart) \union SpanOf(rolledUntil, end),
              hours   |-> {<<hourStart, rolledUntil>>}]

\* The end of the whole rolled hours at the front of a span of hours.
ClosedCut(span, mark) ==
    span[1] + ((Smaller(span[2], mark + minuteSeconds) - span[1])
                 \div hourSeconds) * hourSeconds

\* Mutant: the filling hour counts as closed once the span ends in it.
splitClosedHours_Filling(spans, mark) ==
    [closed |-> UNION {SpanOf(s[1], HourFrom(s[2])) : s \in spans}, open |-> {}]

\* Whole hours that are entirely rolled up, against the hour still filling.
splitClosedHours(spans, mark) ==
    IF mark < 0 THEN [closed |-> {}, open |-> spans]
    ELSE LET Cut(s) == IF ClosedCut(s, mark) > s[1] THEN ClosedCut(s, mark)
                                                    ELSE s[1]
         IN [closed |-> UNION {SpanOf(s[1], Cut(s)) : s \in spans},
             open   |-> UNION {SpanOf(Cut(s), s[2]) : s \in spans}]

\* Minutes at or before the mark, against the minutes after it.  The code
\* cuts the closed spans into chunks of three minutes; the chunks cover the
\* same buckets.
splitClosedMinutes(spans, mark) ==
    IF mark < 0 THEN [closed |-> {}, open |-> spans]
    ELSE LET Cut(s) == Smaller(s[2], mark + minuteSeconds)
             From(s) == IF Cut(s) > s[1] THEN Cut(s) ELSE s[1]
         IN [closed |-> UNION {SpanOf(s[1], Cut(s)) : s \in spans},
             open   |-> UNION {SpanOf(From(s), s[2]) : s \in spans}]
=============================================================================
