-------------------------- MODULE MCEnergySaving --------------------------
(***************************************************************************)
(* A day of six units with every start and every end, in zones that do not *)
(* change, that skip or repeat two units during the day, and that do so at *)
(* midnight.                                                               *)
(***************************************************************************)
EXTENDS EnergySaving

Zone(change, before, after) == [change |-> change, before |-> before, after |-> after]

\* Those that MidnightAssumption and GapAssumption admit.
MCZones ==
    { Zone(0, 0, 0),       \* no change
      Zone(13, 0, 2),      \* a gap: 13 (time 1) reads as time 3
      Zone(14, 2, 0),      \* a fold: time 4 is time 2 again
      Zone(12, 0, 2),      \* a gap at midnight
      Zone(10, 2, 0),      \* a fold at midnight: the end of the day repeats
      Zone(15, -2, -1),    \* a gap west of Greenwich
      Zone(9, 1, -1) }     \* a fold across Greenwich

Times == 0..(Day - 1)
===========================================================================
