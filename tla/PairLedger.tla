----------------------------- MODULE PairLedger -----------------------------
(***************************************************************************)
(* What the store promises about one tailnet's traffic: bytes per minute,  *)
(* a poll cursor and the set of log objects already counted.  There are no *)
(* rollups, transactions, startup passes or crashes here: traffic is added *)
(* whole or not at all, an object at most once, and only retention removes *)
(* anything, always everything older than one cutoff.                      *)
(***************************************************************************)
EXTENDS Integers

CONSTANTS Buckets, Keys, Times, Deltas, ObjectDelta, Legacy, Retention

Never == -1

VARIABLES traffic, cursor, counted, now

vars == <<traffic, cursor, counted, now>>

Forward(end) == IF cursor < end THEN end ELSE cursor

Add(delta) == LET before == traffic IN [m \in Buckets |-> before[m] + delta[m]]

Without(cutoff) ==
    LET before == traffic IN [m \in Buckets |-> IF m < cutoff THEN 0 ELSE before[m]]

Init ==
    /\ traffic \in Legacy
    /\ cursor = Never
    /\ counted = [k \in Keys |-> Never]
    /\ now \in Times

\* A fetched window and its end are recorded together.
RecordPoll ==
    /\ UNCHANGED <<counted, now>>
    /\ \E end \in {t \in Times : t <= now} : cursor' = Forward(end)
    /\ \E delta \in Deltas : traffic' = Add(delta)

RecordEmptyPoll ==
    /\ UNCHANGED <<counted, now>>
    /\ \E end \in {t \in Times : t <= now} : cursor' = Forward(end)
    /\ UNCHANGED traffic

RecordObject == \E k \in Keys :
    /\ UNCHANGED <<cursor, now>>
    /\ counted[k] = Never
    /\ \E t \in {x \in Times : x <= now} : counted' = [counted EXCEPT ![k] = t]
    /\ traffic' = Add(ObjectDelta[k])

Retire == \E t \in {x \in Times : x <= now} :
    LET cutoff == t - Retention IN
    /\ UNCHANGED <<cursor, now>>
    /\ counted' = [k \in Keys |-> IF counted[k] < cutoff THEN Never ELSE counted[k]]
    /\ traffic' = Without(cutoff)

Tick ==
    /\ now' \in {t \in Times : t > now}
    /\ UNCHANGED <<traffic, cursor, counted>>

Next == RecordPoll \/ RecordEmptyPoll \/ RecordObject \/ Retire \/ Tick

Spec == Init /\ [][Next]_vars
=============================================================================
