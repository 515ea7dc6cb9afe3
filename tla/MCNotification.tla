-------------------------- MODULE MCNotification --------------------------
(***************************************************************************)
(* Days of four units, weeks of three days, years of two months.  The      *)
(* second month of a year has two days, in the second year a third: a day  *)
(* 3 meets a month that is too short for it and a leap year that is not.   *)
(***************************************************************************)
EXTENDS Notification, TLC

Zone(change, before, after) == [change |-> change, before |-> before, after |-> after]

\* Those that MidnightAssumption and GapAssumption admit.
MCZones ==
    { Zone(0, 0, 0),     \* no change
      Zone(13, 0, 1),    \* a gap: time 1 is skipped
      Zone(13, 1, 0),    \* a fold: time 1 is read twice
      Zone(12, 0, 1),    \* a gap at midnight
      Zone(15, 1, 0) }   \* a fold at midnight: the end of the day repeats

\* Months of 3 and 2, 3 and 3, 3 and 2, 3 and 2 days.
MCMonthStart == [m \in 0..8 |-> <<0, 3, 5, 8, 11, 14, 16, 19, 21>>[m + 1]]

MCSchedules ==
    { [repeat |-> "daily"],
      [repeat |-> "weekly", weekday |-> 1],
      [repeat |-> "monthly", day |-> 3],
      [repeat |-> "yearly", month |-> 1, day |-> 1],
      [repeat |-> "yearly", month |-> 2, day |-> 3] }

\* Midnight, the time the gap skips and the fold repeats, the end of the day.
MCTimes == {0, 1, 3}

\* The devices are interchangeable.
Symmetry == Permutations(Clients)
===========================================================================
