---------------------------- MODULE LocalTime -----------------------------
(***************************************************************************)
(* Civil time in the configured zone (src/src/clock/mod.rs and the jiff    *)
(* conversions its callers use).  Instants are integers; a local date is a *)
(* day number; a time of day counts units from local midnight.  A zone     *)
(* changes its offset once, at the instant zone.change: forwards (a gap in *)
(* the local times), backwards (a fold) or not at all.                     *)
(***************************************************************************)
EXTENDS Integers

CONSTANTS
    Day,    \* the units of a day
    Zones   \* the zones the configuration may name

ASSUME LocalTimeAssumption ==
    /\ Day \in Nat \ {0}
    /\ \A z \in Zones :
          /\ z \in [change : Int, before : Int, after : Int]
          /\ z.after - z.before < Day /\ z.before - z.after < Day

\* No local midnight lies strictly inside the times a change skips or repeats:
\* the next midnight could then fall in the day it ends.  No zone has such a
\* change today; many change at midnight.
ASSUME MidnightAssumption ==
    \A z \in Zones :
        \A local \in (z.change + z.before + 1)..(z.change + z.after - 1)
                    \cup (z.change + z.after + 1)..(z.change + z.before - 1) :
            local % Day # 0

\* A local time that a gap skips is shifted forward on its own date.  Not so in
\* America/Nuuk, whose clocks go from 23:00 to midnight: 23:30 becomes 00:30 on
\* the next date, where nobody looks for it any more.  An energy-saving window
\* that closes at 23:30, the day after it opened, has no last half hour for a
\* controller started in it, and neither is a notification for 23:30 fired by
\* one started in that half hour.
ASSUME GapAssumption ==
    \A z \in Zones :
        \A local \in (z.change + z.before + 1)..(z.change + 2 * z.after - z.before - 1) :
            local % Day # 0

VARIABLE zone   \* the configured zone, fixed

Offset(t) == IF t < zone.change THEN zone.before ELSE zone.after

\* instant.to_zoned(zone).date()
LocalDate(t) == (t + Offset(t)) \div Day

\* Mutant of ResolveLocal: a time in a gap is read with the later offset, which
\* moves it back instead of forward.
ResolveGapBackward(date, time) ==
    LET local == date * Day + time
    IN  IF local - zone.before < zone.change
        THEN local - zone.before
        ELSE local - zone.after

\* resolve_local, jiff's Compatible: an ambiguous local time is its first
\* occurrence; one that a gap skips is shifted forward by the gap.
ResolveLocal(date, time) ==
    LET local == date * Day + time
    IN  IF local - zone.before < zone.change \/ local - zone.after < zone.change
        THEN local - zone.before
        ELSE local - zone.after

\* Mutant of NextLocalMidnight: a day after the last midnight.
NextMidnightByDuration(t) == ResolveLocal(LocalDate(t), 0) + Day

\* next_local_midnight
NextLocalMidnight(t) == ResolveLocal(LocalDate(t) + 1, 0)

---------------------------------------------------------------------------
(* What the two functions promise, about the day around an instant. *)

Local(t) == t + Offset(t)

\* The instants near t that read as a local time: none in a gap, two in a fold.
Readings(t, local) == {u \in (t - 2 * Day)..(t + 2 * Day) : Local(u) = local}

\* Each time of the local day of t resolves to the first instant that reads so;
\* one that a gap skips, to the instant that reads as much later as the gap is
\* long.
ResolvesNear(t) ==
    \A time \in 0..(Day - 1) :
        LET local == LocalDate(t) * Day + time
            resolved == ResolveLocal(LocalDate(t), time)
        IN  IF Readings(t, local) # {}
            THEN /\ resolved \in Readings(t, local)
                 /\ \A u \in Readings(t, local) : resolved <= u
            ELSE Local(resolved) = local + zone.after - zone.before

\* The next local midnight is the first instant of the next local day.
MidnightEndsTheDay(t) ==
    /\ NextLocalMidnight(t) > t
    /\ LocalDate(NextLocalMidnight(t)) = LocalDate(t) + 1
    /\ \A u \in t..(NextLocalMidnight(t) - 1) : LocalDate(u) = LocalDate(t)
===========================================================================
