-------------------------- MODULE MaintenanceWindow --------------------------
(***************************************************************************)
(* Maintenance windows: sets of time ranges, each with a start and a       *)
(* duration, either of which may be missing.  Time is counted in units.    *)
(***************************************************************************)
EXTENDS Integers

Unset == -1

\* spec.maintenanceWindow: the list of ranges, in no particular order.
TimeRange == [start : Nat \union {Unset}, duration : Nat \union {Unset}]

timeRangeIsValid(tr) == tr.start # Unset /\ tr.duration # Unset

\* The start is included, the end is not.
timeRangeInRange(tr, t) ==
    timeRangeIsValid(tr) /\ tr.start <= t /\ t < tr.start + tr.duration

HasValidTimeRanges(mw) == mw # {} /\ \A tr \in mw : timeRangeIsValid(tr)

InRange(mw, t) == \E tr \in mw : timeRangeInRange(tr, t)

NoFutureWindows == Unset

\* The earliest start after t.
NextWindow(mw, t) ==
    LET starts == {tr.start : tr \in {r \in mw : timeRangeIsValid(r) /\ t < r.start}}
    IN  IF starts = {} THEN NoFutureWindows
        ELSE CHOOSE s \in starts : \A u \in starts : s <= u
=============================================================================
