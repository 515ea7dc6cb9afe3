----------------------------- MODULE DayNight -----------------------------
(***************************************************************************)
(* The day/night controller of src/src/daynight/mod.rs and its scheduled   *)
(* job.  The sun of a local date is a pair of instants given by the        *)
(* sunrise crate for the configured coordinates, or NoSun when the sun     *)
(* does not rise or does not set that day; nothing ties the coordinates to *)
(* the configured zone.                                                    *)
(***************************************************************************)
EXTENDS LocalTime, Scheduler

CONSTANTS
    Suns,   \* the functions from local dates to the sun the location may have
    NoSun   \* Option::None

ASSUME DayNightAssumption ==
    \A f \in Suns : \A date \in DOMAIN f :
        \/ f[date] = NoSun
        \/ /\ f[date] \in [rise : Int, set : Int]
           /\ f[date].rise < f[date].set

VARIABLES
    sun,    \* DayNight.sun, fixed by the location
    mode    \* DayNight.mode

placeVars == <<zone, sun>>
vars == <<schedulerVars, placeVars, mode>>

\* DayNight::sun_on
SunOn(date) == sun[date]

\* The mode start() and update() derive at an instant from the sun of its
\* local date.
ModeAt(t) ==
    LET today == SunOn(LocalDate(t))
    IN  IF today # NoSun /\ today.rise <= t /\ t < today.set THEN "Day" ELSE "Night"

\* DayNight::next_event_after, for a date whose sun is known.
NextEventAfter(t, today) ==
    LET tomorrow == SunOn(LocalDate(t) + 1)
    IN  CASE t < today.rise                       -> today.rise
          [] t >= today.rise /\ t < today.set     -> today.set
          [] t >= today.rise /\ t >= today.set    ->
                 IF tomorrow = NoSun THEN NextLocalMidnight(t) ELSE tomorrow.rise

\* Mutant of NextDue: the sun of tomorrow is not asked for.
NextDueAfterSunset(t) ==
    LET today == SunOn(LocalDate(t))
    IN  IF today = NoSun
        THEN NextLocalMidnight(t)
        ELSE IF t < today.rise THEN today.rise ELSE today.set

\* What start() and reschedule() arm: the next sun event, or midnight on a day
\* without sun.
NextDue(t) ==
    IF SunOn(LocalDate(t)) = NoSun
    THEN NextLocalMidnight(t)
    ELSE NextEventAfter(t, SunOn(LocalDate(t)))

---------------------------------------------------------------------------
(* The job. *)

\* DayNight::start, at any instant.
Init ==
    /\ zone \in Zones
    /\ sun \in Suns
    /\ now \in FirstInstant..LastInstant
    /\ mode = ModeAt(now)
    /\ ScheduleAt(NextDue(now))

\* Mutant of Transition: the mode is read at the current time only.
TransitionAtNow ==
    /\ Fire(FALSE)
    /\ mode' = ModeAt(now)
    /\ UNCHANGED placeVars

\* transition and update: the mode at the later of the due instant and now
\* (on_change is called when it differs: Dispatch!SetMode).
Transition ==
    /\ Fire(FALSE)
    /\ mode' = ModeAt(Later(now, fireAt))
    /\ UNCHANGED placeVars

Reschedule ==
    /\ Rearm(NextDue(fireAt))
    /\ UNCHANGED <<placeVars, mode>>

Environment ==
    /\ Tick \/ (\E amount \in StepsBack : StepBack(amount)) \/ Cancel \/ End
    /\ UNCHANGED <<placeVars, mode>>

Next == Transition \/ Reschedule \/ Environment

Spec == Init /\ [][Next]_vars

---------------------------------------------------------------------------
(* Properties. *)

TypeOK ==
    /\ SchedulerTypeOK
    /\ zone \in Zones
    /\ sun \in Suns
    /\ mode \in {"Day", "Night"}

\* Between the sun event that last fired and the next, the mode is the one a
\* restart would derive, through days without sun, changes of the zone's offset,
\* and late firing or a wall clock set back (not both: see EnergySaving).
AgreesWithRestart ==
    /\ late = 0 \/ steps = 0
    /\ stage = "sleep"
    /\ fired <= now /\ now < fireAt
    => mode = ModeAt(now)

\* What reschedule returns is after the due instant it is given: "The next sun
\* event after the due instant" (daynight/mod.rs).  Violated when the sun of a
\* local date rises before that date begins in the configured zone.
DueAdvances == [][Reschedule => fireAt' > fireAt]_vars
===========================================================================
