------------------------------ MODULE Scheduling ------------------------------
(***************************************************************************)
(* Which evaluation windows are due, and when the next one will be.  A tick *)
(* is the start of a window, a multiple of the interval since the epoch; it *)
(* is due once its window has closed and the lag is over.  Times are        *)
(* integers, in the resolution of the clock; division rounds down, as the   *)
(* floor division of timedelta does.                                        *)
(***************************************************************************)
EXTENDS Integers

CONSTANTS
    Lag,         \* RuntimeSchedule.lag
    MaxCatchup,  \* RuntimeSchedule.max_catchup_windows
    None         \* the cursor of a metric that was never evaluated

ASSUME ScheduleAssumption ==
    /\ Lag \in Nat
    /\ MaxCatchup \in Nat \ {0}
    /\ None \notin Int

AlignTick(moment, interval) == (moment \div interval) * interval

LatestDueTick(time, interval) == AlignTick(time - Lag, interval) - interval

\* Mutant: the lag of the tick is counted twice.
MutLagTwice(time, interval) == LatestDueTick(time, interval) + 2 * (interval + Lag)

\* When the next tick that is not due yet becomes due.
NextDueAt(time, interval) == LatestDueTick(time, interval) + 2 * interval + Lag

\* The first tick to consider: after the cursor, or none but the last windows.
FirstTick(cursor, time, interval) ==
    IF cursor = None
      THEN LatestDueTick(time, interval) - (MaxCatchup - 1) * interval
      ELSE AlignTick(cursor, interval) + interval

\* Ticks from the first one to the latest, none if it is later than that.
TickCount(cursor, time, interval) ==
    LET first  == FirstTick(cursor, time, interval)
        latest == LatestDueTick(time, interval) IN
    IF first > latest THEN 0 ELSE (latest - first) \div interval + 1

\* Mutant: the cap keeps the oldest windows, not the most recent ones.
MutKeepOldest(cursor, time, interval) == 0

\* The oldest ones that max_catchup_windows leaves out.
SkippedCount(cursor, time, interval) ==
    LET count == TickCount(cursor, time, interval) IN
    IF count > MaxCatchup THEN count - MaxCatchup ELSE 0

DueTicks(cursor, time, interval) ==
    {FirstTick(cursor, time, interval) + i * interval :
       i \in SkippedCount(cursor, time, interval)
             .. TickCount(cursor, time, interval) - 1}

\* What is reported instead: the ticks from skipped_first to skipped_last.
SkippedTicks(cursor, time, interval) ==
    {FirstTick(cursor, time, interval) + i * interval :
       i \in 0 .. SkippedCount(cursor, time, interval) - 1}

-------------------------------------------------------------------------------
(* Reference definitions: docs/production.md, "Scheduling semantics" *)

\* The window of tick t is closed and the lag is over.
Closed(t, time, interval) == t % interval = 0 /\ t + interval + Lag <= time

\* Fewer than max_catchup_windows windows have become due after it.
WithinCatchup(t, time, interval) ==
    t + interval + MaxCatchup * interval + Lag > time

IsDue(t, cursor, time, interval) ==
    /\ Closed(t, time, interval)
    /\ WithinCatchup(t, time, interval)
    /\ cursor # None => t > cursor

\* The window was missed for longer than the catch-up range.
IsTooOld(t, cursor, time, interval) ==
    /\ Closed(t, time, interval)
    /\ ~ WithinCatchup(t, time, interval)
    /\ cursor # None /\ t > cursor
===============================================================================
