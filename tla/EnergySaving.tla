--------------------------- MODULE EnergySaving ---------------------------
(***************************************************************************)
(* The energy-saving window of src/src/energysaving/mod.rs and its         *)
(* scheduled job.  The window's start and end are times of day in the      *)
(* configured zone; each local date has one window, in instants.           *)
(***************************************************************************)
EXTENDS LocalTime, Scheduler, FiniteSets

CONSTANTS
    Starts,  \* the start times of day the configuration may have
    Ends,    \* the end times of day
    NoTime   \* Option::None for an instant

ASSUME EnergySavingAssumption ==
    /\ Starts \in SUBSET (0..(Day - 1))
    /\ Ends \in SUBSET (0..(Day - 1))
    /\ NoTime \notin Int

VARIABLES
    start,    \* Window.start, fixed by the configuration
    end,      \* Window.end
    active    \* EnergySaving.active

windowVars == <<zone, start, end>>
vars == <<schedulerVars, windowVars, active>>

\* Mutant of MaxWindowSearchDays: yesterday, today and tomorrow.
ThreeDays == 3

MaxWindowSearchDays == 8

---------------------------------------------------------------------------
(* Window. *)

Opens(date) == ResolveLocal(date, start)

\* A window whose end is not after its start spans midnight.
Closes(date) == ResolveLocal(IF end > start THEN date ELSE date + 1, end)

\* Window::for_date, Some: a gap may leave nothing between start and end.
NonEmpty(date) == Opens(date) < Closes(date)

\* Window::is_active: inside the window of the local date or of the day before.
IsActive(t) ==
    \E date \in {LocalDate(t) - 1, LocalDate(t)} :
        NonEmpty(date) /\ Opens(date) <= t /\ t < Closes(date)

\* The dates the search walks over whose window has a boundary after t.
Ahead(t) ==
    LET yesterday == LocalDate(t) - 1
    IN  {date \in yesterday..(yesterday + MaxWindowSearchDays - 1) :
            NonEmpty(date) /\ Closes(date) > t}

\* Mutant of NextTransition: a start that is due now is taken for one to come.
NextTransitionInclusive(t) ==
    IF Ahead(t) = {}
    THEN NoTime
    ELSE LET date == CHOOSE d \in Ahead(t) : \A e \in Ahead(t) : d <= e
         IN  IF Opens(date) >= t THEN Opens(date) ELSE Closes(date)

\* Window::next_transition: the first of them gives its start if that is still
\* to come, else its end.
NextTransition(t) ==
    IF Ahead(t) = {}
    THEN NoTime
    ELSE LET date == CHOOSE d \in Ahead(t) : \A e \in Ahead(t) : d <= e
         IN  IF Opens(date) > t THEN Opens(date) ELSE Closes(date)

\* EnergySaving::arm: the next boundary, or a re-check at midnight.
Arm(t) ==
    IF NextTransition(t) = NoTime THEN NextLocalMidnight(t) ELSE NextTransition(t)

---------------------------------------------------------------------------
(* The job. *)

\* EnergySaving::start, at any instant.
Init ==
    /\ zone \in Zones
    /\ start \in Starts
    /\ end \in Ends
    /\ now \in FirstInstant..LastInstant
    /\ active = IsActive(now)
    /\ ScheduleAt(Arm(now))

\* Mutant of Transition: the state is read at the current time only.
TransitionAtNow ==
    /\ Fire(FALSE)
    /\ active' = IsActive(now)
    /\ UNCHANGED windowVars

\* transition and update: the state at the later of the due instant and now
\* (on_change is called when it differs: Dispatch!SetSaving).
Transition ==
    /\ Fire(FALSE)
    /\ active' = IsActive(Later(now, fireAt))
    /\ UNCHANGED windowVars

Reschedule ==
    /\ Rearm(Arm(fireAt))
    /\ UNCHANGED <<windowVars, active>>

Environment ==
    /\ Tick \/ (\E amount \in StepsBack : StepBack(amount)) \/ Cancel \/ End
    /\ UNCHANGED <<windowVars, active>>

Next == Transition \/ Reschedule \/ Environment

Spec == Init /\ [][Next]_vars

---------------------------------------------------------------------------
(* Properties. *)

TypeOK ==
    /\ SchedulerTypeOK
    /\ zone \in Zones
    /\ start \in Starts
    /\ end \in Ends
    /\ active \in BOOLEAN

\* A controller that has been running and one restarted now agree: between the
\* boundary that last fired and the next one, the state is the one start()
\* would derive, on days the zone changes its offset too, for a window that is
\* emptied by a gap, that spans midnight or that overlaps the next day's, and
\* however late the job fired or the wall clock was set back.  (Not both: a job
\* that fired late and saw a later boundary is ahead of a clock set back then.)
AgreesWithRestart ==
    /\ late = 0 \/ steps = 0
    /\ stage = "sleep"
    /\ fired <= now /\ now < fireAt
    => active = IsActive(now)

\* The search always finds a boundary: a change of the zone's offset empties
\* at most a window or two, so eight days are enough (the comment on
\* MAX_WINDOW_SEARCH_DAYS) and the re-check at midnight is never needed.
BoundaryFound == NextTransition(now) # NoTime

\* Civil times resolve as clock/mod.rs documents, whatever the zone does.
CivilTimesResolve == ResolvesNear(now)

\* The re-check at midnight, and the day/night retry, come with the next day.
MidnightIsNextDay == MidnightEndsTheDay(now)

\* A job that has acted is never armed again for an instant that is not later:
\* the due instants advance strictly, so the loop cannot spin.
DueAdvances == [][Reschedule => fireAt' > fireAt]_vars
===========================================================================
