---------------------------- MODULE MCDayNight ----------------------------
(***************************************************************************)
(* A day of six units.  In the matching places the sun of a date rises and *)
(* sets during that local date, on some days not at all; in the eastern    *)
(* one the zone is UTC and the sun of a date rises the evening before, as  *)
(* it does in Sydney.                                                      *)
(***************************************************************************)
EXTENDS DayNight

Dates == -1..6

Sun(rise, set) == [rise |-> rise, set |-> set]

MCZones ==
    { [change |-> 0, before |-> 0, after |-> 0],
      [change |-> 13, before |-> 0, after |-> 1],    \* a gap at time 1
      [change |-> 13, before |-> 1, after |-> 0],    \* a fold at time 1
      [change |-> 12, before |-> 0, after |-> 1] }   \* a gap at midnight

Long(date) == Sun(date * Day + 1, date * Day + 4)
Short(date) == Sun(date * Day + 3, date * Day + 4)

\* Each of the days the runs reach is long, short or without sun.
MatchingSuns ==
    {[date \in Dates |-> CASE date \in long -> Long(date)
                           [] date \in short -> Short(date)
                           [] OTHER -> NoSun] :
        long \in SUBSET (0..4), short \in SUBSET (0..4)}

UTC == {[change |-> 0, before |-> 0, after |-> 0]}

EasternSuns == {[d \in Dates |-> Sun(d * Day - 2, d * Day + 2)]}
===========================================================================
